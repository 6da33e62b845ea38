\* Both state stores under concurrent calls, crashes and failed appends.
CONSTANTS
  Node = {"one"}
  Process = {"first", "second"}
  Client = {"walker", "beat", "cancel"}
  Host <- Hosts
  Asks <- SqlAsks
  StatusMoves <- SomeStatusMoves
  NodeMoves <- SomeNodeMoves
  MaxCalls = 4
  MaxFileCalls = 3
  PoolSize = 3
  Walking = {"first"}
  MaxFaults = 2

SPECIFICATION Spec

INVARIANTS
  TypeOK
  TrailTells
  NoneMalformed

PROPERTIES
  ImplementsContract
  Answered

\* Once the calls are made there is nothing left to do.
CHECK_DEADLOCK FALSE
