\* reindex-index, one crash.
CONSTANTS
  Object = {"parent", "child1", "child2", "child1_ccnew", "child2_ccnew"}
  Leaf = {"child1", "child2"}
  Parent = "parent"
  LeafOrder <- TwoLeaves
  Rebuilding <- CcNew
  PriorClaims = {}
  InitialCatalog <- WithLeftover
  Plan <- LeftoverPlan
  NodeCount <- LeftoverCount
  MaxAttempts = 2
  MaxCrashes = 1
  MaxFaults = 0
  MaxStoreFaults = 0
  MaxStops = 0
  MaxDba = 0
  DbaMoves = {}
  DbaInGap = FALSE
  UnseenCommits = FALSE
  EndlessContention = FALSE
  WidthOf <- Symbols
  Tag = {}
  TagBytes = 2
  SuffixBytes = 2
  Digit = {0, 1, 2}
  MaxBytes = 4
  Prefix <- Before
  MaxSymbols = 3
  Limit = 32
  Attempts = {1, 2, 3, 4, 5, 6, 7, 8, 9}

SPECIFICATION FairSpec

PROPERTIES
  Convergence

\* A run that is COMPLETED or CANCELLED has nothing left to do.
CHECK_DEADLOCK FALSE
