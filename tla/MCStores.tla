------------------------------ MODULE MCStores ------------------------------
(***************************************************************************)
(* One run's records behind the state store port, kept by either backend.  *)
(* The goroutines of the process that executes it, the walk and its        *)
(* heartbeat, call the store concurrently; over SQL a cancel or a resume   *)
(* elsewhere does so too, over files it has its turn.  Which backend it is,*)
(* --state has decided before the first call (newStateStore).              *)
(***************************************************************************)
EXTENDS StoreCalls

CONSTANTS PoolSize, Walking, MaxFaults, MaxFileCalls

ASSUME BoundAssumption == MaxFileCalls \in Nat /\ MaxFileCalls <= MaxCalls /\ MaxFaults \in Nat

VARIABLES log, lines, cursor, mutex, holder, faults, backend

\* SQL: the walk, its heartbeat, and a cancel or a resume in another process.
SqlAsks ==
  [c \in Client |->
     CASE c = "walker" -> {"open", "status", "node", "authorize", "acquire", "release", "inspect"}
       [] c = "beat"   -> {"beat"}
       [] OTHER        -> {"cancel", "status", "acquire"}]

\* Files: two goroutines of one process, whose mutex they share, and a cancel.
FileAsks ==
  [c \in Client |->
     CASE c = "walker" -> {"open", "status", "node", "authorize", "acquire", "release"}
       [] c = "beat"   -> {"beat", "inspect"}
       [] OTHER        -> {"cancel"}]

Hosts == [c \in Client |-> IF c = "cancel" THEN "second" ELSE "first"]

\* A walk that fails, one that completes, an adoption.
SomeStatusMoves == {<<"RUNNING", "FAILED">>, <<"RUNNING", "COMPLETED">>, <<"FAILED", "RUNNING">>}
SomeNodeMoves   == {<<"PENDING", "READY">>, <<"READY", "RUNNING">>}

Sql  == INSTANCE SqlStore
File == INSTANCE FileStore WITH Asks <- FileAsks, Alone <- {"cancel"}, MaxCalls <- MaxFileCalls

fileOnly == <<lines, cursor, mutex, holder, faults>>
vars == <<Sql!sqlVars, fileOnly, backend>>

Init ==
  \/ backend = "sql" /\ Sql!Init
     /\ lines = <<>> /\ cursor = File!NoCursor /\ mutex = "free"
     /\ holder \in Process /\ faults = 0
  \/ backend = "file" /\ File!Init /\ log = <<>>

Next ==
  \/ backend = "sql"  /\ Sql!Next  /\ UNCHANGED <<fileOnly, backend>>
  \/ backend = "file" /\ File!Next /\ UNCHANGED <<log, backend>>

(* A client that is in a call goes on with it: its goroutine is runnable,  *)
(* or waits for a lock or a connection that somebody gives back.           *)
Advance(c) ==
  \/ backend = "sql"  /\ Sql!Step(c)  /\ UNCHANGED <<fileOnly, backend>>
  \/ backend = "file" /\ File!Step(c) /\ UNCHANGED <<log, faults, backend>>

Spec == Init /\ [][Next]_vars /\ \A c \in Client : WF_vars(Advance(c))

-----------------------------------------------------------------------------

TypeOK ==
  /\ backend \in {"sql", "file"} /\ status \in RunStatus \cup {"NONE"} /\ stop \in BOOLEAN
  /\ state \in [Node -> NodeState]
  /\ lease \in [holder : Process \cup {"nobody"}, fresh : BOOLEAN]
  /\ granted \in 0..calls /\ acted \in 0..granted /\ calls \in 0..MaxCalls
  /\ \A i \in DOMAIN log : log[i].seq \in 1..Len(log)
  /\ \A i \in DOMAIN lines : lines[i].text \in File!LineText
  /\ cursor.size \in -1..Len(lines) /\ mutex \in Client \cup {"free"}
  /\ holder \in Process /\ faults \in 0..MaxFaults

(* Whichever backend it is, its records and the trail a reader is given    *)
(* are what the port promises (store.go), through races, rollbacks, failed *)
(* appends and crashes.                                                    *)
trail == IF backend = "sql" THEN log ELSE File!readAudit
Contract == INSTANCE StoreContract WITH Holder <- Process
ImplementsContract == Contract!Spec

Events(about) == {i \in DOMAIN log : log[i].about = about}
Says(about, v) ==
  \E i \in Events(about) : log[i].to = v /\ \A k \in Events(about) : k <= i

(* Over PostgreSQL a record and its event commit together or not at all,   *)
(* so the trail never lags: it tells each record as it is (runGuarded and  *)
(* the checkpoints' WithTx, sql.go).                                       *)
TrailTells ==
  backend = "sql" =>
    /\ status # "NONE" => Says("run", status)
    /\ \A n \in Node : state[n] # InitialNodeState => Says(n, state[n])
    /\ Cardinality(Events("auth")) = granted

(* Over files the trail can be read, whatever an append left (readAudit).  *)
NoneMalformed == File!NoneMalformed

(* No call waits for ever for a row, a number, a connection or the mutex:  *)
(* the walk with its target lock, an inspection and a heartbeat fit in the *)
(* three connections connect.go budgets for.  Without a limit, which is    *)
(* what a process starts with, nobody waits for a connection.              *)
Answered == \A c \in Client : (job[c].at # "idle") ~> (job[c].at = "idle")

=============================================================================
