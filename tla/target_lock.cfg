\* Two executes and a resume on one target, with one fault anywhere.
CONSTANTS
  Process = {"a", "b", "c"}
  Kind <- Kinds
  Backends = {"sql", "file"}
  MaxRuns = 2
  MaxFaults = 1

SPECIFICATION Spec

INVARIANTS
  TypeOK
  SoleHolder
  NothingLeftRunning

PROPERTIES
  FencedOut

\* Commands return, and a lock file can be left for nobody to break.
CHECK_DEADLOCK FALSE
