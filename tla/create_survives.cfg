\* create-index from nothing, under crashes, failures and stop requests.
CONSTANTS
  Object = {"parent", "child1", "child2"}
  Leaf = {"child1", "child2"}
  Parent = "parent"
  LeafOrder <- TwoLeaves
  Rebuilding <- NoRebuilds
  PriorClaims = {}
  InitialCatalog <- EmptyCatalog
  Plan <- EmptyPlan
  NodeCount <- EmptyCount
  MaxAttempts = 2
  MaxCrashes = 2
  MaxFaults = 2
  MaxStoreFaults = 1
  MaxStops = 1
  MaxDba = 0
  DbaMoves = {}
  DbaInGap = FALSE
  UnseenCommits = TRUE
  EndlessContention = FALSE
  WidthOf <- Symbols
  Tag = {"tag1", "tag2"}
  TagBytes = 2
  SuffixBytes = 2
  Digit = {0, 1, 2}
  MaxBytes = 6
  Prefix <- Before
  MaxSymbols = 3
  Limit = 32
  Attempts = {1, 2, 3, 4, 5, 6, 7, 8, 9}

SPECIFICATION Spec

INVARIANTS
  TypeOK
  Frontier
  MemoryMatchesStore
  UnmarkedIsClaimed
  CompletedMeansBuilt
  NewCreateBuilds

PROPERTIES
  FollowsD7
  FollowsRunStatus
  NoNewNodeAfterStop
  ImplementsContract

\* A run that is COMPLETED or CANCELLED has nothing left to do.
CHECK_DEADLOCK FALSE
