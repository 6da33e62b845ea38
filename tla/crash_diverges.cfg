\* create-index, one crash anywhere.
CONSTANTS
  Object = {"parent", "child1", "child2"}
  Leaf = {"child1", "child2"}
  Parent = "parent"
  LeafOrder <- TwoLeaves
  Rebuilding <- NoRebuilds
  PriorClaims = {}
  InitialCatalog <- EmptyCatalog
  Plan <- EmptyPlan
  NodeCount <- EmptyCount
  MaxAttempts = 2
  MaxCrashes = 1
  MaxFaults = 0
  MaxStoreFaults = 0
  MaxStops = 0
  MaxDba = 0
  DbaMoves = {}
  DbaInGap = FALSE
  UnseenCommits = TRUE
  EndlessContention = FALSE
  WidthOf <- Symbols
  Tag = {"tag1", "tag2"}
  TagBytes = 2
  SuffixBytes = 2
  Digit = {0, 1, 2}
  MaxBytes = 6
  Prefix <- Before
  MaxSymbols = 3
  Limit = 32
  Attempts = {1, 2, 3, 4, 5, 6, 7, 8, 9}

SPECIFICATION FairSpec

PROPERTIES
  Convergence

\* A run that is COMPLETED or CANCELLED has nothing left to do.
CHECK_DEADLOCK FALSE
