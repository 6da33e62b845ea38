\* drop-index of a half-built tree with an index to adopt.
CONSTANTS
  Object = {"parent", "child1", "child2", "child3"}
  Leaf = {"child1", "child2", "child3"}
  Parent = "parent"
  LeafOrder <- ThreeLeaves
  Rebuilding <- NoRebuilds
  PriorClaims = {"child2"}
  InitialCatalog <- Unmarked
  Plan <- UnmarkedPlan
  NodeCount <- UnmarkedCount
  MaxAttempts = 2
  MaxCrashes = 1
  MaxFaults = 2
  MaxStoreFaults = 1
  MaxStops = 1
  MaxDba = 0
  DbaMoves = {}
  DbaInGap = FALSE
  UnseenCommits = TRUE
  EndlessContention = FALSE

SPECIFICATION Spec

INVARIANTS
  FreshAuthorization
  CompletedMeansBuilt
  NewDropRemoves

PROPERTIES
  DroppedWasMarked

\* A run that is COMPLETED or CANCELLED has nothing left to do.
CHECK_DEADLOCK FALSE
