\* drop-index with a dead orphan, one stop request.
CONSTANTS
  Object = {"parent", "child1", "child2", "child3"}
  Leaf = {"child1", "child2", "child3"}
  Parent = "parent"
  LeafOrder <- ThreeLeaves
  Rebuilding <- NoRebuilds
  PriorClaims = {}
  InitialCatalog <- DeadOrphan
  Plan <- DeadOrphanPlan
  NodeCount <- DeadOrphanCount
  MaxAttempts = 2
  MaxCrashes = 0
  MaxFaults = 0
  MaxStoreFaults = 0
  MaxStops = 1
  MaxDba = 0
  DbaMoves = {}
  DbaInGap = FALSE
  UnseenCommits = FALSE
  EndlessContention = FALSE

SPECIFICATION FairSpec

PROPERTIES
  Convergence

\* A run that is COMPLETED or CANCELLED has nothing left to do.
CHECK_DEADLOCK FALSE
