-------------------------- MODULE RunEngineProofs --------------------------
(***************************************************************************)
(* What holds of RunEngine for every plan, every catalog and every bound.  *)
(***************************************************************************)
EXTENDS RunEngine, TLAPS

-----------------------------------------------------------------------------
(* The plan, node by node *)

(* A plan is a function on its nodes, which depend on earlier ones only.   *)
LEMMA PlanFacts == Plan \in [Node -> PlanNode] /\ \A n \in Node : Plan[n].deps \subseteq 1 .. (n - 1)
BY PlanAssumption DEF Ordered

(* Which drops it has, and that they come first.                           *)
LEMMA DropFacts ==
  \A n \in Node :
    /\ Plan[n].kind = "drop_partitioned" => Plan[n].auth = "explicit"
    /\ Plan[n].kind = "drop_concurrently" =>
         /\ Plan[n].auth \in {"provenance", "leftover"}
         /\ \A m \in Node : Plan[m].kind \in ClaimingKinds /\ Plan[m].object = Plan[n].object
                            => n < m
BY PlanAssumption, DropAssumption DEF DropsProven

(* What its verify nodes look for, and that it stays found.                *)
LEMMA VerifyFacts ==
  \A v \in Node : Plan[v].kind = "verify" =>
    /\ Plan[v].expect \in {"index_valid", "index_attached", "tree_valid", "absent"}
    /\ \A n \in Node : v < n => ~Undoes(Plan[n], Plan[v])
BY PlanAssumption, VerifyAssumption DEF VerdictsStand

USE SizeAssumption, PlanFacts, ObjectAssumption, BoundAssumption

-----------------------------------------------------------------------------
(* The statements keep to the catalog's type *)

(* A new index is an index.                                                *)
LEMMA NewIndexType ==
  ASSUME NEW cond \in Condition, NEW maker \in {"nobody", "tool", "other"}
  PROVE  NewIndex(cond, maker) \in Index
BY DEF NewIndex, Index, MarkerStatus

(* Its absence is one too.                                                 *)
LEMMA NoIndexType == NoIndex \in Index
BY DEF NoIndex, Index, Condition, MarkerStatus

(* A statement that commits leaves a catalog.                              *)
LEMMA CommittedType ==
  ASSUME NEW c \in Catalog, NEW p, p.object \in Object, p.other \in Object
  PROVE  Committed(p, c) \subseteq Catalog
<1>1. CreateParent(p, c) \subseteq Catalog /\ CreateConcurrently(p, c) \subseteq Catalog
  <2>1. NewIndex("invalid", "tool") \in Index /\ NewIndex("valid", "tool") \in Index
    BY NewIndexType DEF Condition
  <2>2. QED
    BY <2>1 DEF CreateParent, CreateConcurrently, Catalog
<1>2. AttachChild(p, c) \subseteq Catalog
  <2> DEFINE d == [c EXCEPT ![p.object].attached = TRUE]
  <2>1. d \in Catalog
    BY DEF Catalog, Index
  <2> HIDE DEF d
  <2>2. [d EXCEPT ![p.other].cond = "valid"] \in Catalog
    BY <2>1 DEF Catalog, Index, Condition
  <2>3. AttachChild(p, c) \subseteq {d, [d EXCEPT ![p.other].cond = "valid"]}
    BY DEF AttachChild, d
  <2>4. QED
    BY <2>1, <2>2, <2>3
<1>3. DropConcurrently(p, c) \subseteq Catalog
  BY NoIndexType DEF DropConcurrently, Catalog
<1>4. Reindex(p, c) \subseteq Catalog
  BY DEF Reindex, Catalog, Index, Condition
<1>5. DropPartitioned(p, c) \subseteq Catalog
  BY NoIndexType DEF DropPartitioned, Catalog
<1>6. QED
  BY <1>1, <1>2, <1>3, <1>4, <1>5 DEF Committed

(* So does one that dies, or that nobody waits for.                        *)
LEMMA WreckageType ==
  ASSUME NEW c \in Catalog, NEW p, p.object \in Object, p.other \in Object
  PROVE  Wreckage(p, c) \subseteq Catalog /\ StillBuilding(p, c) \subseteq Catalog
<1>1. NewIndex("invalid", "tool") \in Index /\ NewIndex("building", "tool") \in Index
  BY NewIndexType DEF Condition
<1>2. [c EXCEPT ![p.object].cond = "not_live"] \in Catalog
  BY DEF Catalog, Index, Condition
<1>3. QED
  BY <1>1, <1>2 DEF Wreckage, StillBuilding, Catalog

(* So does a change of an index's condition.                               *)
LEMMA ConditionType ==
  ASSUME NEW c \in Catalog, NEW o \in Object, NEW cond \in Condition
  PROVE  [c EXCEPT ![o].cond = cond] \in Catalog
BY DEF Catalog, Index

(* So does a COMMENT.                                                      *)
LEMMA CommentedType ==
  ASSUME NEW c \in Catalog, NEW o \in Object
  PROVE  Commented(o, c) \subseteq Catalog
BY DEF Commented, Catalog, Index, MarkerStatus

(* Whatever becomes of a statement, the answer lost or not. *)
LEMMA InterruptedType ==
  ASSUME cat \in Catalog, NEW p, p.object \in Object, p.other \in Object
  PROVE  TimedOut(p) \subseteq Catalog /\ Interrupted(p) \subseteq Catalog
BY CommittedType, WreckageType DEF TimedOut, Interrupted

-----------------------------------------------------------------------------
(* Type correctness *)

(* TypeOK is not inductive alone: what is typed at one label rests on what *)
(* an earlier one established.                                             *)
TypeInv ==
  /\ TypeOK
  /\ pc \in NodePc => cur \in Node
  /\ pc \in {"ready", "attempt", "backoff"} => tries < MaxAttempts
  /\ pc \in {"cleanup_comment", "cleanup_drop"} => target \in Leaf
  /\ pc = "finish" => outcome # "none"

(* The node in hand is one of the plan.                                    *)
LEMMA PlanNodeType ==
  ASSUME TypeInv, pc \in NodePc
  PROVE  /\ cur \in Node /\ current.object \in Object /\ current.other \in Object
         /\ current.kind \in NodeKind /\ current.auth \in {"none", "provenance", "leftover", "explicit"}
BY DEF TypeInv, current, PlanNode

(* What a checkpoint writes is typed, whether it fails or not.             *)
LEMMA CheckpointType ==
  ASSUME TypeInv, NEW n \in Node, NEW to \in NodeState, NEW next \in Pc,
         next # "finish", Checkpoint(n, to, next)
  PROVE  /\ state' \in [Node -> NodeState] /\ dispatched' \subseteq Node
         /\ mem' \in [Node -> NodeState]
         /\ \/ pc' = next /\ outcome' = outcome
            \/ pc' = "finish" /\ outcome' = "failed"
         /\ storeFaults' \in 0 .. MaxStoreFaults
         /\ UNCHANGED <<run, lease, cat, mode, scan, cur, crashes, faults, stops, dba>>
<1>1. /\ Written(n, to) => state' \in [Node -> NodeState] /\ dispatched' \subseteq Node
      /\ UNCHANGED nodes => state' \in [Node -> NodeState] /\ dispatched' \subseteq Node
  BY DEF TypeInv, TypeOK, Written, nodes
<1>2. /\ mem' \in [Node -> NodeState]
      /\ storeFaults' \in 0 .. MaxStoreFaults
  BY DEF TypeInv, TypeOK, Checkpoint, StoreFault
<1>3. QED
  BY <1>1, <1>2 DEF Checkpoint

(* A process that is gone leaves its memory as at the start.               *)
LEMMA GoneType ==
  ASSUME Gone
  PROVE  /\ pc' = "idle" /\ resuming' = FALSE /\ signalled' = FALSE /\ adopt' = FALSE
         /\ cur' \in 0 .. NodeCount /\ mem' \in [Node -> NodeState]
         /\ tries' \in 0 .. MaxAttempts
         /\ todo' \subseteq Leaf /\ target' \in Leaf \cup {"none"}
         /\ outcome' = "none" /\ granted' \subseteq Object
BY DEF Gone, Fresh, NodeState, InitialNodeState

(* The types hold at first,                                                *)
LEMMA InitType == Init => TypeInv
<1> SUFFICES ASSUME Init PROVE TypeInv
  OBVIOUS
<1>1. Fresh \in [Node -> NodeState]
  BY DEF Fresh, NodeState, InitialNodeState
<1>2. 0 \in 0 .. NodeCount /\ 0 \in 0 .. MaxAttempts
  OBVIOUS
<1>3. /\ 0 \in 0 .. MaxCrashes /\ 0 \in 0 .. MaxFaults /\ 0 \in 0 .. MaxStoreFaults
      /\ 0 \in 0 .. MaxStops /\ 0 \in 0 .. MaxDba
  OBVIOUS
<1>4. "idle" \in Pc
  BY DEF Pc
<1>5. TypeOK
  BY <1>1, <1>2, <1>3, <1>4 DEF Init, TypeOK
<1>6. QED
  BY <1>5 DEF Init, TypeInv, NodePc

(* after a step of execute or of an adoption,                              *)
LEMMA AdoptingType ==
  ASSUME TypeInv, Execute \/ Resume \/ Adopting
  PROVE  TypeInv'
<1> USE DEF TypeInv, TypeOK, Pc, WalkPc, NodePc, RunStatus, ResumableStatuses,
            store, run, nodes, mode, scan, walk, bounds, Goto
<1>1. CASE Execute
  BY <1>1 DEF Execute
<1>2. CASE Resume
  BY <1>2 DEF Resume
<1>3. CASE MarkOrphaned
  BY <1>3, GoneType DEF MarkOrphaned
<1>4. ASSUME NEW from, Rewind(from) PROVE TypeInv'
  BY <1>4 DEF Rewind, NodeState
<1>5. CASE RewindOrphans
  BY <1>5, <1>4 DEF RewindOrphans
<1>6. CASE AdoptRun
  <2>1. CASE status \in ResumableStatuses
    BY <1>6, <2>1 DEF AdoptRun
  <2>2. CASE status \notin ResumableStatuses
    BY <1>6, <2>2, GoneType DEF AdoptRun
  <2>3. QED
    BY <2>1, <2>2
<1>7. CASE AdoptLease
  BY <1>7, GoneType DEF AdoptLease
<1>8. CASE RewindFailed
  BY <1>8, <1>4 DEF RewindFailed
<1>9. QED
  BY <1>1, <1>2, <1>3, <1>5, <1>6, <1>7, <1>8 DEF Adopting

(* after one of the cleanup,                                               *)
LEMMA CleaningType ==
  ASSUME TypeInv, Cleaning
  PROVE  TypeInv'
<1> USE DEF TypeInv, TypeOK, Pc, WalkPc, NodePc, RunStatus,
            store, run, nodes, mode, scan, walk, bounds, Goto, Fault, StoreFault
<1>1. CASE Inspect
  BY <1>1 DEF Inspect, Wreck
<1>2. CASE Recheck
  BY <1>2 DEF Recheck
<1>3. CASE CleanupComment
  BY <1>3, CommentedType DEF CleanupComment
<1>4. CASE CleanupDrop
  <2>1. target \in Object
    BY <1>4 DEF CleanupDrop
  <2>2. /\ CleanupStatement.object \in Object /\ CleanupStatement.other \in Object
    BY <2>1 DEF CleanupStatement
  <2>3. DropInterrupted \subseteq Catalog /\ Committed(CleanupStatement, cat) \subseteq Catalog
    BY <2>2, CommittedType, InterruptedType DEF DropInterrupted
  <2>4. QED
    BY <1>4, <2>3 DEF CleanupDrop
<1>5. CASE CleanupFailed
  BY <1>5, GoneType DEF CleanupFailed, Orphaned
<1>6. QED
  BY <1>1, <1>2, <1>3, <1>4, <1>5 DEF Cleaning

(* after one of the walk,                                                  *)
LEMMA WalkingType ==
  ASSUME TypeInv, Walking
  PROVE  TypeInv'
<1> USE DEF TypeInv, TypeOK, Pc, WalkPc, NodePc, RunStatus,
            store, run, nodes, mode, scan, walk, bounds, Goto, Ends
<1>1. CASE WalkLease
  BY <1>1, GoneType DEF WalkLease
<1>2. CASE LoadStates
  BY <1>2 DEF LoadStates, StoreFault
<1>3. CASE Recover
  BY <1>3, CheckpointType DEF Recover, NodeState
<1>4. CASE Boundary
  <2>1. /\ pc' \in {"finish", "ready", "attempt", "verify"}
        /\ pc' = "finish" => outcome' # "none"
        /\ pc' # "finish" => cur' \in Node /\ tries' = 0
    BY <1>4 DEF Boundary, Entry, Remaining
  <2>2. /\ cur' \in 0 .. NodeCount
        /\ tries' \in 0 .. MaxAttempts
        /\ storeFaults' \in 0 .. MaxStoreFaults
    <3>1. /\ cur' = cur \/ cur' \in Node
          /\ tries' = tries \/ tries' = 0
      BY <1>4 DEF Boundary, Remaining
    <3>2. storeFaults' \in 0 .. MaxStoreFaults
      BY <1>4 DEF Boundary, StoreFault
    <3>3. QED
      BY <3>1, <3>2 DEF Node
  <2>3. /\ adopt' \in BOOLEAN
        /\ outcome' \in {"none", "failed", "interrupted", "complete"}
    BY <1>4 DEF Boundary
  <2>4. UNCHANGED <<store, cat, granted, mode, scan, mem, crashes, faults, stops, dba>>
    BY <1>4 DEF Boundary
  <2>5. QED
    BY <2>1, <2>2, <2>3, <2>4
<1>5. CASE Ready
  BY <1>5, CheckpointType DEF Ready, NodeState
<1>6. CASE Attempt
  <2>1. /\ cur \in Node /\ tries < MaxAttempts /\ current.object \in Object
    BY <1>6, PlanNodeType DEF Attempt
  <2>2. /\ \/ pc' = "run" /\ tries' = tries + 1 /\ outcome' = outcome
           \/ pc' = "finish" /\ tries' = tries /\ outcome' = "failed"
        /\ granted' \subseteq Object
        /\ storeFaults' \in 0 .. MaxStoreFaults
    BY <1>6, <2>1 DEF Attempt, StoreFault
  <2>3. adopt' \in BOOLEAN
    BY <1>6 DEF Attempt
  <2>4. UNCHANGED <<store, cat, mode, scan, cur, mem, crashes, faults, stops, dba>>
    BY <1>6 DEF Attempt
  <2>5. QED
    BY <2>1, <2>2, <2>3, <2>4
<1>7. CASE Run
  BY <1>7, CheckpointType DEF Run, NodeState
<1>8. CASE Evaluate
  BY <1>8 DEF Evaluate, Fault
<1>9. CASE AdoptComment
  BY <1>9, PlanNodeType, CommentedType DEF AdoptComment, Fault
<1>10. CASE Statement
  BY <1>10, PlanNodeType, CommittedType, InterruptedType DEF Statement, Fault
<1>11. CASE Mark
  BY <1>11, PlanNodeType, CommentedType DEF Mark, Fault
<1>12. CASE Verifying
  BY <1>12, CheckpointType DEF Verifying, NodeState
<1>13. CASE Verify
  BY <1>13 DEF Verify, Fault
<1>14. CASE Finished
  BY <1>14, CheckpointType DEF Finished, NodeState
<1>15. CASE Halted
  BY <1>15 DEF Halted, Written, StoreFault, NodeState
<1>16. CASE Retry
  BY <1>16, CheckpointType DEF Retry, NodeState
<1>17. CASE Deferred
  BY <1>17 DEF Deferred
<1>18. CASE Backoff
  BY <1>18 DEF Backoff
<1>19. CASE Finish
  BY <1>19 DEF Finish, StoreFault, RunStatusOf
<1>20. CASE Release
  BY <1>20, GoneType DEF Release, StoreFault, Orphaned
<1>21. QED
  BY <1>1, <1>2, <1>3, <1>4, <1>5, <1>6, <1>7, <1>8, <1>9, <1>10, <1>11, <1>12,
     <1>13, <1>14, <1>15, <1>16, <1>17, <1>18, <1>19, <1>20 DEF Walking

(* after one from outside,                                                 *)
LEMMA EnvironmentType ==
  ASSUME TypeInv, Environment
  PROVE  TypeInv'
<1> USE DEF TypeInv, TypeOK, Pc, WalkPc, NodePc, RunStatus,
            store, run, nodes, mode, scan, walk, bounds
<1>1. CASE Crash
  <2>1. InFlight \subseteq Catalog
    BY PlanNodeType, CommentedType, CommittedType, InterruptedType
       DEF InFlight, DropInterrupted, CleanupStatement
  <2>2. QED
    BY <1>1, <2>1, GoneType DEF Crash, Orphaned
<1>2. CASE ExpireLease
  BY <1>2 DEF ExpireLease
<1>3. CASE LeaseLapses
  BY <1>3 DEF LeaseLapses
<1>4. CASE Heartbeat
  BY <1>4 DEF Heartbeat
<1>5. CASE BackendFinishes
  <2>1. cat' \in Catalog
    <3>1. PICK o \in Object, as \in {"invalid", "valid"} : cat' = [cat EXCEPT ![o].cond = as]
      BY <1>5 DEF BackendFinishes
    <3>2. QED
      BY <3>1, ConditionType DEF Condition
  <2>2. QED
    BY <1>5, <2>1 DEF BackendFinishes
<1>6. CASE Signal
  BY <1>6 DEF Signal
<1>7. CASE Cancel
  BY <1>7 DEF Cancel
<1>8. CASE Dba
  <2>1. NewIndex("valid", "other") \in Index /\ NewIndex("invalid", "other") \in Index
    BY NewIndexType DEF Condition
  <2>2. cat' \in Catalog
    <3>1. PICK o \in Leaf :
            \/ cat' = [cat EXCEPT ![o] = NewIndex("valid", "other")]
            \/ cat' = [cat EXCEPT ![o] = NewIndex("invalid", "other")]
            \/ cat' = [cat EXCEPT ![o].marker = "foreign"]
            \/ cat' = [cat EXCEPT ![o] = NoIndex]
            \/ cat' = [cat EXCEPT ![o].cond = "invalid"]
      BY <1>8 DEF Dba
    <3>2. /\ [cat EXCEPT ![o].marker = "foreign"] \in Catalog
          /\ [cat EXCEPT ![o].cond = "invalid"] \in Catalog
      BY DEF Catalog, Index, MarkerStatus, Condition
    <3>3. QED
      BY <2>1, <3>1, <3>2, NoIndexType DEF Catalog
  <2>3. QED
    BY <1>8, <2>2 DEF Dba
<1>9. QED
  BY <1>1, <1>2, <1>3, <1>4, <1>5, <1>6, <1>7, <1>8 DEF Environment

(* and so after every step.                                                *)
LEMMA TypeStep == TypeInv /\ [Next]_vars => TypeInv'
<1> SUFFICES ASSUME TypeInv, [Next]_vars PROVE TypeInv'
  OBVIOUS
<1>1. CASE UNCHANGED vars
  BY <1>1 DEF vars, store, run, nodes, mode, scan, walk, bounds, TypeInv, TypeOK
<1>2. CASE Next
  BY <1>2, AdoptingType, CleaningType, WalkingType, EnvironmentType DEF Next, Process
<1>3. QED
  BY <1>1, <1>2

(* Whatever the plan and whatever interferes, the records stay records.    *)
THEOREM TypeCorrect == Spec => []TypeOK
<1>1. TypeInv => TypeOK
  BY DEF TypeInv
<1>2. QED
  BY InitType, TypeStep, <1>1, PTL DEF Spec

-----------------------------------------------------------------------------
(* The node records *)

(* What the record of the node in hand can be at each label of runNode.    *)
RecordAt(label) ==
  CASE label = "ready"                                  -> {"PENDING", "RETRY_WAIT"}
    [] label \in {"attempt", "run"}                     -> {"READY"}
    [] label \in {"comment", "exec", "mark", "verifying", "retry"} -> {"RUNNING"}
    [] label \in {"verify", "done"}                     -> {"VERIFYING"}
    [] label = "fail"                                   -> {"RUNNING", "VERIFYING"}
    [] label \in {"giveup", "deferred", "backoff"}      -> {"RETRY_WAIT"}

RecordInv ==
  /\ TypeInv
  /\ MemoryMatchesStore
  /\ pc \in NodePc => mem[cur] \in RecordAt(pc)

(* A step of the walk that touches no record moves between labels that     *)
(* expect the same one.                                                    *)
LEMMA WalkingRecords ==
  ASSUME RecordInv, TypeInv', Walking
  PROVE  RecordInv'
<1> USE DEF RecordInv, MemoryMatchesStore, RecordAt, WalkPc, NodePc,
            store, run, nodes, mode, scan, walk, bounds, Goto, Ends
<1>0. ASSUME NEW n \in Node, NEW to \in NodeState, NEW next \in Pc, Checkpoint(n, to, next),
             mem = state
      PROVE  /\ pc' = "finish" \/ (pc' = next /\ mem' = state' /\ mem'[n] = to)
             /\ cur' = cur
  BY <1>0 DEF Checkpoint, Written, TypeInv, TypeOK
<1>1. CASE WalkLease
  BY <1>1 DEF WalkLease, Gone
<1>2. CASE LoadStates
  BY <1>2 DEF LoadStates
<1>3. CASE Recover
  BY <1>3, <1>0 DEF Recover, Pc, NodeState
<1>4. CASE Boundary
  BY <1>4 DEF Boundary, Entry
<1>5. CASE Ready
  BY <1>5, <1>0 DEF Ready, Pc, NodeState, TypeInv
<1>6. CASE Attempt
  BY <1>6 DEF Attempt
<1>7. CASE Run
  BY <1>7, <1>0 DEF Run, Pc, NodeState, TypeInv
<1>8. CASE Evaluate
  BY <1>8 DEF Evaluate
<1>9. CASE AdoptComment
  BY <1>9 DEF AdoptComment
<1>10. CASE Statement
  BY <1>10 DEF Statement
<1>11. CASE Mark
  BY <1>11 DEF Mark
<1>12. CASE Verifying
  BY <1>12, <1>0 DEF Verifying, Pc, NodeState, TypeInv
<1>13. CASE Verify
  BY <1>13 DEF Verify
<1>14. CASE Finished
  BY <1>14, <1>0 DEF Finished, Pc, NodeState, TypeInv
<1>15. CASE Halted
  BY <1>15 DEF Halted
<1>16. CASE Retry
  BY <1>16, <1>0 DEF Retry, Pc, NodeState, TypeInv
<1>17. CASE Deferred
  BY <1>17 DEF Deferred
<1>18. CASE Backoff
  BY <1>18 DEF Backoff
<1>19. CASE Finish
  BY <1>19 DEF Finish
<1>20. CASE Release
  BY <1>20 DEF Release, Gone
<1>21. QED
  BY <1>1, <1>2, <1>3, <1>4, <1>5, <1>6, <1>7, <1>8, <1>9, <1>10, <1>11, <1>12,
     <1>13, <1>14, <1>15, <1>16, <1>17, <1>18, <1>19, <1>20 DEF Walking

(* A step outside the walk keeps memory and records together.              *)
LEMMA OtherRecords ==
  ASSUME RecordInv, TypeInv', Execute \/ Resume \/ Adopting \/ Cleaning \/ Environment
  PROVE  RecordInv'
<1> USE DEF RecordInv, MemoryMatchesStore, RecordAt, WalkPc, NodePc,
            store, run, nodes, mode, scan, walk, bounds, Goto
<1>1. CASE Execute \/ Resume
  BY <1>1 DEF Execute, Resume
<1>2. CASE Adopting
  BY <1>2 DEF Adopting, MarkOrphaned, RewindOrphans, AdoptRun, AdoptLease, RewindFailed,
              Rewind, Gone
<1>3. CASE Cleaning
  BY <1>3 DEF Cleaning, Inspect, Recheck, CleanupComment, CleanupDrop, CleanupFailed, Gone
<1>4. CASE Environment
  BY <1>4 DEF Environment, Crash, ExpireLease, LeaseLapses, Heartbeat, BackendFinishes,
              Signal, Cancel, Dba, Gone
<1>5. QED
  BY <1>1, <1>2, <1>3, <1>4

(* So they are together throughout.                                        *)
LEMMA RecordInvariant == Spec => []RecordInv
<1>1. Init => RecordInv
  BY InitType DEF Init, RecordInv, MemoryMatchesStore, NodePc, WalkPc
<1>2. RecordInv /\ [Next]_vars => RecordInv'
  <2> SUFFICES ASSUME RecordInv, [Next]_vars PROVE RecordInv'
    OBVIOUS
  <2>1. TypeInv'
    BY TypeStep DEF RecordInv
  <2>2. CASE UNCHANGED vars
    BY <2>1, <2>2 DEF vars, store, nodes, walk, RecordInv, MemoryMatchesStore, RecordAt
  <2>3. CASE Next
    BY <2>1, <2>3, WalkingRecords, OtherRecords DEF Next, Process
  <2>4. QED
    BY <2>2, <2>3
<1>3. QED
  BY <1>1, <1>2, PTL DEF Spec

(* What the process decides on is what is on record (FR-EXEC-2).           *)
THEOREM MemoryIsRecord == Spec => []MemoryMatchesStore
<1>1. RecordInv => MemoryMatchesStore
  BY DEF RecordInv
<1>2. QED
  BY <1>1, RecordInvariant, PTL

(* One step's worth of FollowsD7. *)
EdgesOfD7 ==
  \A n \in Node : state'[n] # state[n] =>
    \E reason \in TransitionReason : ValidTransition(state[n], state'[n], reason)

(* A checkpoint of a valid move is an edge of the diagram.                 *)
LEMMA CheckpointEdge ==
  ASSUME TypeInv, NEW n \in Node, NEW to \in NodeState, NEW next, Checkpoint(n, to, next),
         NEW reason \in TransitionReason, ValidTransition(state[n], to, reason)
  PROVE  EdgesOfD7
<1>1. \/ state' = state
      \/ state' = [state EXCEPT ![n] = to]
  BY DEF Checkpoint, Written, nodes
<1>2. QED
  BY <1>1 DEF EdgesOfD7, TypeInv, TypeOK

(* So is a rewind.                                                         *)
LEMMA RewindEdge ==
  ASSUME TypeInv, NEW from \in {"RUNNING", "FAILED"}, Rewind(from)
  PROVE  EdgesOfD7
<1>1. PICK n \in Node : state[n] = from /\ state' = [state EXCEPT ![n] = "PENDING"]
  BY DEF Rewind
<1>2. \E reason \in TransitionReason : ValidTransition(from, "PENDING", reason)
  BY DEF TransitionReason, ValidTransition
<1>3. QED
  BY <1>1, <1>2 DEF EdgesOfD7, TypeInv, TypeOK

(* So is every step of the walk.                                           *)
LEMMA WalkingEdge ==
  ASSUME RecordInv, Walking
  PROVE  EdgesOfD7
<1> USE DEF TransitionReason, ValidTransition, NormalTransitions, NodeState
<1>1. pc \in NodePc => /\ TypeInv /\ cur \in Node
                       /\ state[cur] = mem[cur] /\ state[cur] \in RecordAt(pc)
  BY DEF RecordInv, TypeInv, MemoryMatchesStore, WalkPc
<1>2. CASE Recover
  <2>1. CASE \E n \in Node : mem[n] = "RUNNING" /\ Checkpoint(n, "PENDING", "recover")
    BY <1>2, <2>1, CheckpointEdge DEF Recover, RecordInv, MemoryMatchesStore
  <2>2. CASE state' = state
    BY <2>2 DEF EdgesOfD7
  <2>3. QED
    BY <1>2, <2>1, <2>2 DEF Recover, store, nodes
<1>3. CASE Ready
  BY <1>1, <1>3, CheckpointEdge DEF Ready, NodePc, RecordAt
<1>4. CASE Run
  BY <1>1, <1>4, CheckpointEdge DEF Run, NodePc, RecordAt
<1>5. CASE Verifying
  BY <1>1, <1>5, CheckpointEdge DEF Verifying, NodePc, RecordAt
<1>6. CASE Finished
  BY <1>1, <1>6, CheckpointEdge DEF Finished, NodePc, RecordAt
<1>7. CASE Retry
  BY <1>1, <1>7, CheckpointEdge DEF Retry, NodePc, RecordAt
<1>8. CASE Halted
  <2>1. state[cur] \in {"RUNNING", "VERIFYING", "RETRY_WAIT"} /\ cur \in Node /\ TypeInv
    BY <1>1, <1>8 DEF Halted, NodePc, RecordAt
  <2>2. \/ state' = state
        \/ state' = [state EXCEPT ![cur] = "FAILED"]
    BY <1>8 DEF Halted, Written, nodes
  <2>3. ValidTransition(state[cur], "FAILED", "normal")
    BY <2>1
  <2>4. QED
    BY <2>1, <2>2, <2>3 DEF EdgesOfD7, TypeInv, TypeOK
<1>9. CASE \/ WalkLease \/ LoadStates \/ Boundary \/ Attempt \/ Evaluate \/ AdoptComment
           \/ Statement \/ Mark \/ Verify \/ Deferred \/ Backoff \/ Finish \/ Release
  <2>1. state' = state
    BY <1>9 DEF WalkLease, LoadStates, Boundary, Attempt, Evaluate, AdoptComment, Statement,
                Mark, Verify, Deferred, Backoff, Finish, Release, store, nodes
  <2>2. QED
    BY <2>1 DEF EdgesOfD7
<1>10. QED
  BY <1>2, <1>3, <1>4, <1>5, <1>6, <1>7, <1>8, <1>9 DEF Walking

(* The store's CheckTransition never has anything to refuse.               *)
THEOREM RecordsFollowD7 == Spec => FollowsD7
<1>1. RecordInv /\ [Next]_vars => [EdgesOfD7]_vars
  <2> SUFFICES ASSUME RecordInv, Next PROVE EdgesOfD7
    OBVIOUS
  <2>1. CASE Walking
    BY <2>1, WalkingEdge
  <2>2. CASE RewindOrphans \/ RewindFailed
    <3>1. CASE \E from \in {"RUNNING", "FAILED"} : Rewind(from)
      BY <3>1, RewindEdge DEF RecordInv
    <3>2. CASE state' = state
      BY <3>2 DEF EdgesOfD7
    <3>3. QED
      BY <2>2, <3>1, <3>2 DEF RewindOrphans, RewindFailed, store, nodes
  <2>3. CASE Execute \/ Resume \/ MarkOrphaned \/ AdoptRun \/ AdoptLease \/ Cleaning \/ Environment
    <3>1. state' = state
      BY <2>3 DEF Execute, Resume, MarkOrphaned, AdoptRun, AdoptLease, Cleaning, Inspect,
                  Recheck, CleanupComment, CleanupDrop, CleanupFailed, Environment, Crash,
                  ExpireLease, LeaseLapses, Heartbeat, BackendFinishes, Signal, Cancel, Dba,
                  store, nodes
    <3>2. QED
      BY <3>1 DEF EdgesOfD7
  <2>4. QED
    BY <2>1, <2>2, <2>3 DEF Next, Process, Adopting
<1>2. QED
  BY <1>1, RecordInvariant, PTL DEF Spec, FollowsD7, EdgesOfD7

-----------------------------------------------------------------------------
(* Authorization *)

(* INV-2: no destructive statement leaves on an old authorization.         *)
THEOREM AlwaysFreshlyAuthorized == Spec => []FreshAuthorization
<1>1. Init => FreshAuthorization
  BY DEF Init, FreshAuthorization
<1>2. FreshAuthorization /\ [Next]_vars => FreshAuthorization'
  <2> SUFFICES ASSUME FreshAuthorization, [Next]_vars PROVE FreshAuthorization'
    OBVIOUS
  <2> USE DEF FreshAuthorization, current, store, run, nodes, mode, scan, walk, bounds,
              Goto, Ends
  <2>1. CASE UNCHANGED vars
    BY <2>1 DEF vars
  <2>2. CASE Execute \/ Resume \/ Adopting
    BY <2>2 DEF Execute, Resume, Adopting, MarkOrphaned, RewindOrphans, AdoptRun,
                AdoptLease, RewindFailed, Rewind, Gone
  <2>3. CASE Cleaning
    BY <2>3 DEF Cleaning, Inspect, Recheck, CleanupComment, CleanupDrop, CleanupFailed, Gone
  <2>4. CASE Walking
    <3>1. CASE \/ Recover \/ Ready \/ Run \/ Verifying \/ Finished \/ Halted \/ Retry
      BY <2>4, <3>1 DEF Recover, Ready, Run, Verifying, Finished, Halted, Retry, Checkpoint
    <3>2. CASE Attempt
      BY <3>2 DEF Attempt
    <3>3. CASE Boundary
      BY <3>3 DEF Boundary, Entry
    <3>4. CASE \/ WalkLease \/ LoadStates \/ Evaluate \/ AdoptComment \/ Statement \/ Mark
               \/ Verify \/ Deferred \/ Backoff \/ Finish \/ Release
      BY <3>4 DEF WalkLease, LoadStates, Evaluate, AdoptComment, Statement, Mark, Verify,
                  Deferred, Backoff, Finish, Release, Gone
    <3>5. QED
      BY <2>4, <3>1, <3>2, <3>3, <3>4 DEF Walking
  <2>5. CASE Environment
    BY <2>5 DEF Environment, Crash, ExpireLease, LeaseLapses, Heartbeat, BackendFinishes,
                Signal, Cancel, Dba, Gone
  <2>6. QED
    BY <2>1, <2>2, <2>3, <2>4, <2>5 DEF Next, Process
<1>3. QED
  BY <1>1, <1>2, PTL DEF Spec

-----------------------------------------------------------------------------
(* The frontier *)

FrontierInv ==
  /\ RecordInv
  /\ Frontier
  /\ pc \in NodePc => \A m \in Incomplete : cur <= m

(* If only the first incomplete node moves, the frontier stays one.        *)
LEMMA FirstMoves ==
  ASSUME TypeInv, Frontier, NEW n \in Incomplete, \A m \in Incomplete : n <= m,
         NEW to \in NodeState,
         state' = state \/ state' = [state EXCEPT ![n] = to],
         dispatched' = dispatched \/ dispatched' = dispatched \cup {n}
  PROVE  /\ Frontier'
         /\ to \notin CompleteStates => Incomplete' = Incomplete
<1>1. \A k \in Node : k # n => state'[k] = state[k]
  BY DEF TypeInv, TypeOK
<1>2. Incomplete' \subseteq Incomplete
  BY <1>1 DEF Incomplete, Done
<1>3. to \notin CompleteStates => Incomplete' = Incomplete
  BY <1>1 DEF Incomplete, Done, TypeInv, TypeOK
<1>4. ASSUME NEW k \in Incomplete', NEW m \in Incomplete', m < k
      PROVE  state'[k] = "PENDING" /\ k \notin dispatched'
  <2>1. k # n /\ k \in Incomplete /\ m \in Incomplete
    BY <1>2, <1>4 DEF Incomplete, Node
  <2>2. state[k] = "PENDING" /\ k \notin dispatched
    BY <1>4, <2>1 DEF Frontier
  <2>3. QED
    BY <1>1, <2>1, <2>2 DEF Incomplete
<1>5. QED
  BY <1>3, <1>4 DEF Frontier

(* Wherever a record is between PENDING and complete, it is the first.     *)
LEMMA MovedIsFirst ==
  ASSUME TypeInv, Frontier, NEW n \in Node, ~Done(n, state), state[n] # "PENDING"
  PROVE  n \in Incomplete /\ \A m \in Incomplete : n <= m
BY DEF Frontier, Incomplete, Node

(* A checkpoint moves one record, or none.                                 *)
LEMMA CheckpointMoves ==
  ASSUME NEW n, NEW to, NEW next, Checkpoint(n, to, next)
  PROVE  /\ state' = state \/ state' = [state EXCEPT ![n] = to]
         /\ dispatched' = dispatched \/ dispatched' = dispatched \cup {n}
         /\ pc' \in {next, "finish"} /\ cur' = cur
BY DEF Checkpoint, Written, nodes

(* The node in hand is the first that is not complete.                     *)
LEMMA InHandIsFirst ==
  ASSUME FrontierInv, pc \in NodePc
  PROVE  /\ cur \in Incomplete /\ \A m \in Incomplete : cur <= m
         /\ TypeInv /\ Frontier /\ mem = state
BY DEF FrontierInv, RecordInv, RecordAt, TypeInv, NodePc, MemoryMatchesStore, WalkPc,
       Incomplete, Done, CompleteStates

(* A step of the walk keeps the frontier.                                  *)
LEMMA WalkingFrontier ==
  ASSUME FrontierInv, RecordInv', Walking
  PROVE  FrontierInv'
<1> USE DEF FrontierInv, NodePc
<1>1. CASE Ready \/ Run \/ Verifying \/ Retry
  <2>1. /\ pc \in NodePc
        /\ \E to \in NodeState \ CompleteStates, next \in NodePc : Checkpoint(cur, to, next)
    BY <1>1 DEF Ready, Run, Verifying, Retry, NodeState, CompleteStates
  <2>2. QED
    BY <2>1, InHandIsFirst, FirstMoves, CheckpointMoves
<1>2. CASE Finished
  <2>1. pc \in NodePc /\ Checkpoint(cur, "DONE", "boundary") /\ "DONE" \in NodeState
    BY <1>2 DEF Finished, NodeState
  <2>2. QED
    BY <2>1, InHandIsFirst, FirstMoves, CheckpointMoves
<1>3. CASE Halted
  <2>1. /\ pc \in NodePc /\ pc' = "finish" /\ "FAILED" \in NodeState
        /\ state' = state \/ state' = [state EXCEPT ![cur] = "FAILED"]
        /\ dispatched' = dispatched \/ dispatched' = dispatched \cup {cur}
    BY <1>3 DEF Halted, Written, NodeState, nodes
  <2>2. QED
    BY <2>1, InHandIsFirst, FirstMoves
<1>4. CASE Recover
  <2>1. CASE \E n \in Node : mem[n] = "RUNNING" /\ Checkpoint(n, "PENDING", "recover")
    <3>1. PICK n \in Node : mem[n] = "RUNNING" /\ Checkpoint(n, "PENDING", "recover")
      BY <2>1
    <3>2. n \in Incomplete /\ \A m \in Incomplete : n <= m
      BY <1>4, <3>1, MovedIsFirst
         DEF Recover, RecordInv, MemoryMatchesStore, Done, CompleteStates
    <3>3. "PENDING" \in NodeState /\ pc' \notin NodePc
      BY <3>1, CheckpointMoves DEF NodeState
    <3>4. QED
      BY <3>1, <3>2, <3>3, FirstMoves, CheckpointMoves DEF RecordInv
  <2>2. CASE UNCHANGED nodes /\ pc' \notin NodePc
    BY <2>2 DEF nodes, Frontier, Incomplete, Done
  <2>3. QED
    BY <1>4, <2>1, <2>2 DEF Recover, Goto, store
<1>5. CASE Boundary
  <2>1. mem = state /\ Remaining = Incomplete /\ UNCHANGED nodes
    BY <1>5 DEF Boundary, RecordInv, MemoryMatchesStore, WalkPc, Remaining, Incomplete, store
  <2>2. Frontier' /\ Incomplete' = Incomplete
    BY <2>1 DEF nodes, Frontier, Incomplete, Done
  <2>3. pc' \in NodePc => \A m \in Incomplete : cur' <= m
    BY <1>5, <2>1 DEF Boundary, Ends
  <2>4. QED
    BY <2>2, <2>3
<1>6. CASE \/ WalkLease \/ LoadStates \/ Attempt \/ Evaluate \/ AdoptComment \/ Statement
           \/ Mark \/ Verify \/ Deferred \/ Backoff \/ Finish \/ Release
  <2>1. /\ UNCHANGED nodes
        /\ pc' \in NodePc => pc \in NodePc /\ cur' = cur
    BY <1>6 DEF WalkLease, LoadStates, Attempt, Evaluate, AdoptComment, Statement, Mark,
                Verify, Deferred, Backoff, Finish, Release, Goto, Ends, Gone, walk, store
  <2>2. Frontier' /\ Incomplete' = Incomplete
    BY <2>1 DEF nodes, Frontier, Incomplete, Done
  <2>3. QED
    BY <2>1, <2>2
<1>7. QED
  BY <1>1, <1>2, <1>3, <1>4, <1>5, <1>6 DEF Walking

(* So does every other step.                                               *)
LEMMA OtherFrontier ==
  ASSUME FrontierInv, RecordInv', Execute \/ Resume \/ Adopting \/ Cleaning \/ Environment
  PROVE  FrontierInv'
<1> USE DEF FrontierInv
<1>1. CASE \E from \in {"RUNNING", "FAILED"} : Rewind(from) /\ pc \notin NodePc
  <2>1. PICK from \in {"RUNNING", "FAILED"}, n \in Node :
          state[n] = from /\ state' = [state EXCEPT ![n] = "PENDING"] /\ pc' = pc
          /\ dispatched' = dispatched /\ pc \notin NodePc
    BY <1>1 DEF Rewind
  <2>2. n \in Incomplete /\ \A m \in Incomplete : n <= m
    BY <2>1, MovedIsFirst DEF RecordInv, Done, CompleteStates
  <2>3. "PENDING" \in NodeState
    BY DEF NodeState
  <2>4. QED
    BY <2>1, <2>2, <2>3, FirstMoves DEF RecordInv
<1>2. CASE /\ UNCHANGED nodes
           /\ pc' \in NodePc => pc \in NodePc /\ cur' = cur
  <2>1. Frontier' /\ Incomplete' = Incomplete
    BY <1>2 DEF nodes, Frontier, Incomplete, Done
  <2>2. QED
    BY <1>2, <2>1
<1>3. CASE RewindOrphans \/ RewindFailed
  BY <1>1, <1>2, <1>3 DEF RewindOrphans, RewindFailed, Goto, NodePc, store
<1>4. CASE Execute \/ Resume \/ MarkOrphaned \/ AdoptRun \/ AdoptLease \/ Cleaning
  BY <1>2, <1>4 DEF Execute, Resume, MarkOrphaned, AdoptRun, AdoptLease, Cleaning, Inspect,
                    Recheck, CleanupComment, CleanupDrop, CleanupFailed, Gone, Goto, NodePc,
                    store, walk
<1>5. CASE Environment
  BY <1>2, <1>5 DEF Environment, Crash, ExpireLease, LeaseLapses, Heartbeat, BackendFinishes,
                    Signal, Cancel, Dba, Gone, NodePc, store, walk
<1>6. QED
  BY <1>3, <1>4, <1>5 DEF Adopting

(* It is there at first,                                                   *)
LEMMA InitFrontier == Init => FrontierInv
BY InitType DEF Init, FrontierInv, RecordInv, MemoryMatchesStore, Frontier, NodePc, WalkPc,
                Fresh, InitialNodeState, Incomplete

(* and throughout.                                                         *)
LEMMA FrontierInvariant == Spec => []FrontierInv
<1>1. Init => FrontierInv
  BY InitFrontier
<1>2. FrontierInv /\ RecordInv' /\ [Next]_vars => FrontierInv'
  <2> SUFFICES ASSUME FrontierInv, RecordInv', [Next]_vars PROVE FrontierInv'
    OBVIOUS
  <2>1. CASE UNCHANGED vars
    BY <2>1 DEF vars, store, nodes, walk, FrontierInv, Frontier, Incomplete, Done
  <2>2. CASE Next
    BY <2>2, WalkingFrontier, OtherFrontier DEF Next, Process
  <2>3. QED
    BY <2>1, <2>2
<1>3. QED
  BY <1>1, <1>2, RecordInvariant, PTL DEF Spec

(* The node states alone tell where a run stopped.                         *)
THEOREM RecordsShowTheFrontier == Spec => []Frontier
<1>1. FrontierInv => Frontier
  BY DEF FrontierInv
<1>2. QED
  BY <1>1, FrontierInvariant, PTL

-----------------------------------------------------------------------------
(* The run's own status *)

(* How a step may change the status of the run.                            *)
LEMMA StatusSteps ==
  ASSUME TypeInv, Next
  PROVE  \/ status' = status
         \/ pc = "idle" /\ status = "NONE" /\ status' = "RUNNING"
         \/ ValidRunTransition(status, status') /\ (status' = "COMPLETED" => pc = "finish" /\ outcome = "complete")
<1> USE DEF ValidRunTransition, RunStatus, ResumableStatuses, store, run
<1>1. CASE Execute
  BY <1>1 DEF Execute
<1>2. CASE MarkOrphaned
  BY <1>2 DEF MarkOrphaned
<1>3. CASE AdoptRun
  BY <1>3 DEF AdoptRun
<1>4. CASE CleanupFailed
  BY <1>4 DEF CleanupFailed
<1>5. CASE Finish
  BY <1>5 DEF Finish, RunStatusOf, TypeInv, TypeOK
<1>6. CASE Cancel
  BY <1>6 DEF Cancel, IncompleteStatuses
<1>7. CASE \/ Resume \/ RewindOrphans \/ AdoptLease \/ RewindFailed
           \/ Inspect \/ Recheck \/ CleanupComment \/ CleanupDrop
           \/ WalkLease \/ LoadStates \/ Boundary \/ Attempt \/ Evaluate \/ AdoptComment
           \/ Statement \/ Mark \/ Verify \/ Deferred \/ Backoff \/ Release
  BY <1>7 DEF Resume, RewindOrphans, AdoptLease, RewindFailed, Rewind, Inspect, Recheck,
              CleanupComment, CleanupDrop, WalkLease, LoadStates, Boundary, Attempt, Evaluate,
              AdoptComment, Statement, Mark, Verify, Deferred, Backoff, Release
<1>8. CASE Recover \/ Ready \/ Run \/ Verifying \/ Finished \/ Halted \/ Retry
  BY <1>8 DEF Recover, Ready, Run, Verifying, Finished, Halted, Retry, Checkpoint
<1>9. CASE Crash \/ ExpireLease \/ LeaseLapses \/ Heartbeat \/ BackendFinishes \/ Signal \/ Dba
  BY <1>9 DEF Crash, ExpireLease, LeaseLapses, Heartbeat, BackendFinishes, Signal, Dba
<1>10. QED
  BY <1>1, <1>2, <1>3, <1>4, <1>5, <1>6, <1>7, <1>8, <1>9
     DEF Next, Process, Adopting, Cleaning, Walking, Environment

(* The types hold throughout.                                              *)
LEMMA TypeInvariant == Spec => []TypeInv
BY InitType, TypeStep, PTL DEF Spec

(* COMPLETED and CANCELLED are for ever, whoever wrote last.               *)
THEOREM RunsFollowTheirDiagram == Spec => FollowsRunStatus
<1> DEFINE Edge == status' # status =>
                     \/ status = "NONE" /\ status' = "RUNNING"
                     \/ ValidRunTransition(status, status')
<1>1. TypeInv /\ [Next]_vars => [Edge]_vars
  BY StatusSteps
<1>2. QED
  BY <1>1, TypeInvariant, PTL DEF Spec, FollowsRunStatus

(* A stop takes effect at the next node boundary, whatever else happens.   *)
THEOREM StopsStartNothing == Spec => NoNewNodeAfterStop
<1> DEFINE Stays == Stopping /\ Stopping' => cur' \in {cur, 0}
<1>1. [Next]_vars => [Stays]_vars
  <2> SUFFICES ASSUME Next PROVE Stays
    OBVIOUS
  <2>1. CASE Boundary
    BY <2>1 DEF Boundary, Ends
  <2>2. CASE Execute \/ Resume \/ Adopting \/ Cleaning \/ Environment
    BY <2>2 DEF Execute, Resume, Adopting, MarkOrphaned, RewindOrphans, AdoptRun, AdoptLease,
                RewindFailed, Rewind, Cleaning, Inspect, Recheck, CleanupComment, CleanupDrop,
                CleanupFailed, Environment, Crash, ExpireLease, LeaseLapses, Heartbeat,
                BackendFinishes, Signal, Cancel, Dba, Gone, Goto, walk
  <2>3. CASE Recover \/ Ready \/ Run \/ Verifying \/ Finished \/ Halted \/ Retry
    BY <2>3 DEF Recover, Ready, Run, Verifying, Finished, Halted, Retry, Checkpoint, Goto, walk
  <2>4. CASE \/ WalkLease \/ LoadStates \/ Attempt \/ Evaluate \/ AdoptComment \/ Statement
             \/ Mark \/ Verify \/ Deferred \/ Backoff \/ Finish \/ Release
    BY <2>4 DEF WalkLease, LoadStates, Attempt, Evaluate, AdoptComment, Statement, Mark,
                Verify, Deferred, Backoff, Finish, Release, Gone, Goto, Ends, walk
  <2>5. QED
    BY <2>1, <2>2, <2>3, <2>4 DEF Next, Process, Walking
<1>2. QED
  BY <1>1, PTL DEF Spec, NoNewNodeAfterStop

-----------------------------------------------------------------------------
(* RunEngine implements PlanContract: the initial state maps to an initial *)
(* state, and each step, of the process or of what interferes with it, to  *)
(* a step of the contract or to none.                                      *)

(* While there is a process the run exists and is not complete, and it is  *)
(* about to be called complete only when every node is.                    *)
ContractInv ==
  /\ FrontierInv
  /\ pc \notin {"idle", "release"} => Phase \in {"open", "cancelled"}
  /\ pc = "finish" /\ outcome = "complete" => DoneNodes = Node

(* A record half way is the first incomplete one, and there is no other.   *)
LEMMA HalfWayIsFirst ==
  ASSUME FrontierInv, NEW n \in HalfWay
  PROVE  HalfWay = {n} /\ n \in Incomplete /\ \A m \in Incomplete : n <= m
<1>1. \A k \in HalfWay : k \in Incomplete /\ \A m \in Incomplete : k <= m
  BY MovedIsFirst DEF FrontierInv, RecordInv, HalfWay, Done, CompleteStates
<1>2. \A k \in HalfWay : k = n
  BY <1>1 DEF Incomplete, Node
<1>3. QED
  BY <1>1, <1>2

-----------------------------------------------------------------------------
(* How a step of the engine looks to the contract *)

(* A step that moves no record, enters no node and keeps the phase.        *)
LEMMA Unseen ==
  ASSUME FrontierInv, UNCHANGED <<state, Phase>>,
         pc' \in NodePc => pc \in NodePc /\ cur' = cur
  PROVE  [Contract!Next]_(Contract!contract)
<1>1. UNCHANGED <<DoneNodes, HalfWay>>
  BY DEF DoneNodes, HalfWay, Done
<1>2. CASE pc \in NodePc <=> pc' \in NodePc
  BY <1>1, <1>2 DEF Contract!contract, Dispatching
<1>3. CASE pc \in NodePc /\ pc' \notin NodePc
  <2>1. HalfWay \subseteq {cur} /\ HalfWay' = HalfWay
    BY <1>1, <1>3, InHandIsFirst, HalfWayIsFirst DEF Incomplete, Node
  <2>2. CASE HalfWay = {cur}
    BY <1>1, <1>3, <2>1, <2>2 DEF Contract!contract, Dispatching
  <2>3. CASE HalfWay = {}
    BY <1>1, <1>3, <2>1, <2>3 DEF Contract!Next, Contract!GiveUp, Dispatching
  <2>4. QED
    BY <2>1, <2>2, <2>3
<1>4. QED
  BY <1>2, <1>3

(* The node in hand changes state without completing.                      *)
LEMMA HandMoves ==
  ASSUME FrontierInv, pc \in NodePc, UNCHANGED Phase,
         NEW to \in {"READY", "RUNNING", "RETRY_WAIT", "VERIFYING", "FAILED"},
         state' = state \/ state' = [state EXCEPT ![cur] = to],
         pc' \in NodePc => cur' = cur
  PROVE  [Contract!Next]_(Contract!contract)
<1>1. cur \in Incomplete /\ TypeInv
  BY InHandIsFirst
<1>2. DoneNodes' = DoneNodes
  BY <1>1 DEF DoneNodes, Done, CompleteStates, Incomplete, TypeInv, TypeOK
<1>3. HalfWay \subseteq {cur}
  BY <1>1, InHandIsFirst, HalfWayIsFirst DEF Incomplete, Node
<1>4. HalfWay' \subseteq {cur}
  BY <1>1, <1>3 DEF HalfWay, TypeInv, TypeOK
<1>5. CASE pc' \in NodePc \/ HalfWay' = {cur}
  BY <1>2, <1>5 DEF Contract!contract, Dispatching
<1>6. CASE pc' \notin NodePc /\ HalfWay' = {}
  BY <1>2, <1>6 DEF Contract!Next, Contract!GiveUp, Dispatching
<1>7. QED
  BY <1>4, <1>5, <1>6

(* A node is recorded DONE.                                                *)
LEMMA HandCompletes ==
  ASSUME FrontierInv, pc \in NodePc, pc' \notin NodePc, UNCHANGED Phase,
         state' = [state EXCEPT ![cur] = "DONE"]
  PROVE  [Contract!Next]_(Contract!contract)
<1>1. cur \in Incomplete /\ cur \in Node /\ TypeInv
  BY InHandIsFirst DEF Incomplete
<1>2. DoneNodes' = DoneNodes \cup {cur}
  BY <1>1 DEF DoneNodes, Done, CompleteStates, TypeInv, TypeOK
<1>3. HalfWay \subseteq {cur}
  BY <1>1, InHandIsFirst, HalfWayIsFirst DEF Incomplete, Node
<1>4. HalfWay' = {}
  BY <1>1, <1>3 DEF HalfWay, TypeInv, TypeOK
<1>5. Contract!Finish(cur)
  BY <1>2, <1>4 DEF Contract!Finish, Dispatching
<1>6. QED
  BY <1>1, <1>5 DEF Contract!Next

(* A record goes back to PENDING while no node is in hand.                 *)
LEMMA Rewinds ==
  ASSUME FrontierInv, pc \notin NodePc, pc' \notin NodePc, UNCHANGED Phase,
         NEW n \in Node, state[n] \in {"RUNNING", "FAILED"},
         state' = state \/ state' = [state EXCEPT ![n] = "PENDING"]
  PROVE  [Contract!Next]_(Contract!contract)
<1>1. TypeInv
  BY DEF FrontierInv, RecordInv
<1>2. DoneNodes' = DoneNodes
  BY <1>1 DEF DoneNodes, Done, CompleteStates, TypeInv, TypeOK
<1>3. CASE HalfWay' = HalfWay
  BY <1>2, <1>3 DEF Contract!contract, Dispatching
<1>4. CASE state[n] = "RUNNING" /\ state' = [state EXCEPT ![n] = "PENDING"]
  <2>1. HalfWay = {n}
    BY <1>4, HalfWayIsFirst DEF HalfWay
  <2>2. HalfWay' = {}
    BY <1>1, <1>4, <2>1 DEF HalfWay, TypeInv, TypeOK
  <2>3. QED
    BY <1>2, <2>1, <2>2 DEF Contract!Next, Contract!GiveUp, Dispatching
<1>5. CASE state[n] = "FAILED" /\ state' = [state EXCEPT ![n] = "PENDING"]
  <2>1. HalfWay' = HalfWay
    BY <1>1, <1>5 DEF HalfWay, TypeInv, TypeOK
  <2>2. QED
    BY <2>1, <1>3
<1>6. QED
  BY <1>3, <1>4, <1>5 DEF HalfWay

(* The walk takes up its next node, if there is one and nobody has stopped *)
(* it: the one node the contract may already see as being worked on.       *)
LEMMA BoundaryStep ==
  ASSUME ContractInv, Boundary
  PROVE  [Contract!Next]_(Contract!contract)
<1>1. /\ FrontierInv /\ TypeInv /\ pc \notin NodePc /\ mem = state
      /\ UNCHANGED <<state, Phase>> /\ Remaining = Incomplete
  BY DEF Boundary, ContractInv, FrontierInv, RecordInv, MemoryMatchesStore, WalkPc, NodePc,
         Remaining, Incomplete, store, run, nodes, Phase
<1>2. CASE pc' \notin NodePc
  BY <1>1, <1>2, Unseen
<1>3. CASE pc' \in NodePc
  <2>1. PICK n \in Incomplete :
          /\ ~Stopping /\ \A m \in Incomplete : n <= m
          /\ cur' = n /\ pc' = Entry(n)
    BY <1>1, <1>3 DEF Boundary, Ends, NodePc
  <2>2. n \in Node /\ n \notin DoneNodes /\ Plan[n].deps \subseteq DoneNodes
    <3>1. n \in Node /\ ~Done(n, state)
      BY <2>1 DEF Incomplete
    <3>2. Plan[n].deps \subseteq Node
      BY <3>1, PlanFacts DEF Node
    <3>3. \A d \in Plan[n].deps : Done(d, mem)
      BY <1>3, <2>1 DEF Entry, NodePc
    <3> QED  BY <1>1, <3>1, <3>2, <3>3 DEF DoneNodes
  <2>3. Phase = "open"
    BY <2>1 DEF Boundary, ContractInv, Stopping, Phase
  <2>4. HalfWay \subseteq {n}
    BY <1>1, <2>1, HalfWayIsFirst DEF Incomplete, Node
  <2>5. UNCHANGED <<DoneNodes, HalfWay>>
    BY <1>1 DEF DoneNodes, HalfWay, Done
  <2>6. CASE HalfWay = {n}
    BY <1>1, <1>3, <2>1, <2>5, <2>6 DEF Contract!contract, Dispatching
  <2>7. CASE HalfWay = {}
    <3>1. Contract!Begin(n)
      BY <1>1, <1>3, <2>1, <2>2, <2>3, <2>5, <2>7 DEF Contract!Begin, Dispatching
    <3>2. QED
      BY <2>2, <3>1 DEF Contract!Next
  <2>8. QED
    BY <2>4, <2>6, <2>7
<1>4. QED
  BY <1>2, <1>3

(* The run's status changes: opened, cancelled, completed.                 *)
LEMMA StatusStep ==
  ASSUME ContractInv, Execute \/ MarkOrphaned \/ AdoptRun \/ CleanupFailed \/ Finish \/ Cancel
  PROVE  [Contract!Next]_(Contract!contract)
<1>1. /\ FrontierInv /\ TypeInv /\ state' = state
      /\ pc' \in NodePc <=> pc \in NodePc /\ cur' = cur
      /\ pc \in NodePc => cur' = cur
  BY DEF ContractInv, FrontierInv, RecordInv, Execute, MarkOrphaned, AdoptRun, CleanupFailed,
         Finish, Cancel, store, nodes, walk, Goto, Gone, NodePc
<1>2. UNCHANGED <<DoneNodes, HalfWay>>
  BY <1>1 DEF DoneNodes, HalfWay, Done
<1>3. UNCHANGED <<IF Dispatching THEN {cur} ELSE HalfWay>>
  BY <1>1, <1>2 DEF Dispatching
<1>4. \/ Phase' = Phase
      \/ Phase = "new" /\ Phase' = "open"
      \/ Phase = "open" /\ Phase' = "cancelled"
      \/ Phase = "open" /\ Phase' = "completed" /\ pc = "finish" /\ outcome = "complete"
  BY <1>1, StatusSteps
     DEF Next, Process, Adopting, Cleaning, Walking, Environment, Phase, ValidRunTransition,
         ResumableStatuses, RunStatus
<1>5. CASE Phase' = Phase
  BY <1>2, <1>3, <1>5 DEF Contract!contract
<1>6. CASE Phase = "new" /\ Phase' = "open"
  BY <1>2, <1>3, <1>6 DEF Contract!Next, Contract!Open
<1>7. CASE Phase = "open" /\ Phase' = "cancelled"
  BY <1>2, <1>3, <1>7 DEF Contract!Next, Contract!Cancel
<1>8. CASE Phase = "open" /\ Phase' = "completed" /\ pc = "finish" /\ outcome = "complete"
  <2>1. DoneNodes = Node
    BY <1>8 DEF ContractInv
  <2>2. QED
    BY <1>2, <1>3, <1>8, <2>1 DEF Contract!Next, Contract!Complete
<1>9. QED
  BY <1>4, <1>5, <1>6, <1>7, <1>8

(* A step of the walk is the contract's.                                   *)
LEMMA WalkingStep ==
  ASSUME ContractInv, Walking
  PROVE  [Contract!Next]_(Contract!contract)
<1>0. FrontierInv /\ TypeInv
  BY DEF ContractInv, FrontierInv, RecordInv
<1>1. CASE Ready \/ Run \/ Verifying \/ Retry
  <2>1. /\ pc \in NodePc /\ UNCHANGED Phase
        /\ \E to \in {"READY", "RUNNING", "RETRY_WAIT", "VERIFYING"}, next \in NodePc :
             Checkpoint(cur, to, next)
    BY <1>1 DEF Ready, Run, Verifying, Retry, NodePc, Checkpoint, Phase, run
  <2>2. QED
    BY <1>0, <2>1, CheckpointMoves, HandMoves
<1>2. CASE Finished
  <2>1. pc \in NodePc /\ UNCHANGED Phase /\ Checkpoint(cur, "DONE", "boundary")
    BY <1>2 DEF Finished, NodePc, Checkpoint, Phase, run
  <2>2. pc' \notin NodePc /\ (state' = state \/ state' = [state EXCEPT ![cur] = "DONE"])
    BY <2>1, CheckpointMoves DEF NodePc
  <2>3. QED
    BY <1>0, <2>1, <2>2, HandCompletes, Unseen
<1>3. CASE Halted
  <2>1. /\ pc \in NodePc /\ pc' \notin NodePc /\ UNCHANGED Phase
        /\ state' = state \/ state' = [state EXCEPT ![cur] = "FAILED"]
    BY <1>3 DEF Halted, Written, nodes, NodePc, Phase, run
  <2>2. QED
    BY <1>0, <2>1, HandMoves
<1>4. CASE Recover
  <2>1. CASE \E n \in Node : mem[n] = "RUNNING" /\ Checkpoint(n, "PENDING", "recover")
    <3>1. PICK n \in Node : mem[n] = "RUNNING" /\ Checkpoint(n, "PENDING", "recover")
      BY <2>1
    <3>2. state[n] = "RUNNING" /\ UNCHANGED Phase /\ pc \notin NodePc /\ pc' \notin NodePc
      BY <1>0, <1>4, <3>1, CheckpointMoves
         DEF Recover, FrontierInv, RecordInv, MemoryMatchesStore, NodePc, Checkpoint, Phase, run
    <3>3. QED
      BY <1>0, <3>1, <3>2, CheckpointMoves, Rewinds
  <2>2. CASE UNCHANGED <<state, Phase>> /\ pc' \notin NodePc
    BY <1>0, <2>2, Unseen
  <2>3. QED
    BY <1>4, <2>1, <2>2 DEF Recover, Goto, store, run, nodes, Phase, NodePc
<1>5. CASE Boundary
  BY <1>5, BoundaryStep
<1>6. CASE Finish
  BY <1>6, StatusStep
<1>7. CASE \/ WalkLease \/ LoadStates \/ Attempt \/ Evaluate \/ AdoptComment \/ Statement
           \/ Mark \/ Verify \/ Deferred \/ Backoff \/ Release
  <2>1. /\ UNCHANGED <<state, Phase>>
        /\ pc' \in NodePc => pc \in NodePc /\ cur' = cur
    BY <1>7 DEF WalkLease, LoadStates, Attempt, Evaluate, AdoptComment, Statement, Mark, Verify,
                Deferred, Backoff, Release, Goto, Ends, Gone, walk, store, run, nodes, Phase,
                NodePc
  <2>2. QED
    BY <1>0, <2>1, Unseen
<1>8. QED
  BY <1>1, <1>2, <1>3, <1>4, <1>5, <1>6, <1>7 DEF Walking

(* So is one of execute, resume, cancel, or from outside.                  *)
LEMMA OtherStep ==
  ASSUME ContractInv, Execute \/ Resume \/ Adopting \/ Cleaning \/ Environment
  PROVE  [Contract!Next]_(Contract!contract)
<1>0. FrontierInv /\ TypeInv
  BY DEF ContractInv, FrontierInv, RecordInv
<1>1. CASE Execute \/ MarkOrphaned \/ AdoptRun \/ CleanupFailed \/ Cancel
  BY <1>1, StatusStep
<1>2. CASE RewindOrphans \/ RewindFailed
  <2>1. CASE \E from \in {"RUNNING", "FAILED"} : Rewind(from)
    <3>1. PICK n \in Node : /\ state[n] \in {"RUNNING", "FAILED"}
                            /\ state' = [state EXCEPT ![n] = "PENDING"]
      BY <2>1 DEF Rewind
    <3>2. pc \notin NodePc /\ pc' \notin NodePc /\ UNCHANGED Phase
      BY <1>2, <2>1 DEF RewindOrphans, RewindFailed, Rewind, NodePc, Phase, run, Goto, store
    <3>3. QED
      BY <1>0, <3>1, <3>2, Rewinds
  <2>2. CASE UNCHANGED <<state, Phase>> /\ pc' \notin NodePc
    BY <1>0, <2>2, Unseen
  <2>3. QED
    BY <1>2, <2>1, <2>2
       DEF RewindOrphans, RewindFailed, Goto, NodePc, Phase, store, run, nodes
<1>3. CASE Resume \/ AdoptLease \/ Inspect \/ Recheck \/ CleanupComment \/ CleanupDrop
  <2>1. UNCHANGED <<state, Phase>> /\ pc' \notin NodePc
    BY <1>3 DEF Resume, AdoptLease, Inspect, Recheck, CleanupComment, CleanupDrop, Gone, Goto,
                store, run, nodes, Phase, NodePc
  <2>2. QED
    BY <1>0, <2>1, Unseen
<1>4. CASE Crash \/ ExpireLease \/ LeaseLapses \/ Heartbeat \/ BackendFinishes \/ Signal \/ Dba
  <2>1. /\ UNCHANGED <<state, Phase>>
        /\ pc' \in NodePc => pc \in NodePc /\ cur' = cur
    BY <1>4 DEF Crash, ExpireLease, LeaseLapses, Heartbeat, BackendFinishes, Signal, Dba, Gone,
                store, run, nodes, walk, Phase, NodePc
  <2>2. QED
    BY <1>0, <2>1, Unseen
<1>5. QED
  BY <1>1, <1>2, <1>3, <1>4 DEF Adopting, Cleaning, Environment

-----------------------------------------------------------------------------
(* The invariant behind it *)

(* Every step keeps what the mapping needs.                                *)
LEMMA ContractStays ==
  ASSUME ContractInv, FrontierInv', Next
  PROVE  ContractInv'
<1>0. TypeInv
  BY DEF ContractInv, FrontierInv, RecordInv
<1>1. pc' \notin {"idle", "release"} => Phase' \in {"open", "cancelled"}
  <2>1. CASE Execute
    BY <2>1 DEF Execute, Phase
  <2>2. CASE Resume
    BY <2>2 DEF Resume, ResumableStatuses, Phase, store, run
  <2>3. CASE ~Execute /\ ~Resume
    <3>1. pc' \notin {"idle", "release"} => pc \notin {"idle", "release"}
      BY <2>3 DEF Next, Process, Adopting, MarkOrphaned, RewindOrphans, AdoptRun, AdoptLease,
           RewindFailed, Rewind, Cleaning, Inspect, Recheck, CleanupComment, CleanupDrop,
           CleanupFailed, Walking, WalkLease, LoadStates, Recover, Boundary, Ready, Attempt,
           Run, Evaluate, AdoptComment, Statement, Mark, Verifying, Verify, Finished, Halted,
           Retry, Deferred, Backoff, Finish, Release, Environment, Crash, ExpireLease,
           LeaseLapses, Heartbeat, BackendFinishes, Signal, Cancel, Dba, Gone
    <3>2. pc = "finish" => pc' \in {"finish", "idle", "release"}
      BY <2>3 DEF Next, Process, Adopting, MarkOrphaned, RewindOrphans, AdoptRun, AdoptLease,
           RewindFailed, Rewind, Cleaning, Inspect, Recheck, CleanupComment, CleanupDrop,
           CleanupFailed, Walking, WalkLease, LoadStates, Recover, Boundary, Ready, Attempt,
           Run, Evaluate, AdoptComment, Statement, Mark, Verifying, Verify, Finished, Halted,
           Retry, Deferred, Backoff, Finish, Release, Environment, Crash, ExpireLease,
           LeaseLapses, Heartbeat, BackendFinishes, Signal, Cancel, Dba, Gone, Goto
    <3>3. status' = "COMPLETED" /\ status # "COMPLETED" => pc' = "release"
      <4>1. CASE Finish
        BY <4>1 DEF Finish, Goto
      <4>2. CASE ~Finish
        BY <2>3, <4>2 DEF Next, Process, Adopting, MarkOrphaned, RewindOrphans, AdoptRun,
           AdoptLease, RewindFailed, Rewind, Cleaning, Inspect, Recheck, CleanupComment,
           CleanupDrop, CleanupFailed, Walking, WalkLease, LoadStates, Recover, Boundary, Ready,
           Attempt, Run, Evaluate, AdoptComment, Statement, Mark, Verifying, Verify, Finished,
           Halted, Retry, Deferred, Backoff, Release, Environment, Crash, ExpireLease,
           LeaseLapses, Heartbeat, BackendFinishes, Signal, Cancel, Dba, Checkpoint, store, run
      <4>3. QED
        BY <4>1, <4>2
    <3>4. QED
      BY <1>0, <3>1, <3>3, StatusSteps
         DEF ContractInv, Phase, ValidRunTransition, RunStatus, ResumableStatuses
  <2>4. QED
    BY <2>1, <2>2, <2>3
<1>2. pc' = "finish" /\ outcome' = "complete" => DoneNodes' = Node
  <2>1. CASE Boundary
    BY <2>1 DEF Boundary, Ends, ContractInv, FrontierInv, RecordInv, MemoryMatchesStore, WalkPc,
                Remaining, DoneNodes, Done, store, nodes
  <2>2. CASE Environment
    BY <2>2 DEF Environment, Crash, ExpireLease, LeaseLapses, Heartbeat, BackendFinishes,
                Signal, Cancel, Dba, Gone, ContractInv, DoneNodes, Done, store, run, nodes, walk
  <2>3. CASE Process /\ ~Boundary
    <3>1. ~(pc' = "finish" /\ outcome' = "complete")
      BY <2>3 DEF Process, Execute, Resume, Adopting, MarkOrphaned, RewindOrphans, AdoptRun,
           AdoptLease, RewindFailed, Rewind, Cleaning, Inspect, Recheck, CleanupComment,
           CleanupDrop, CleanupFailed, Walking, WalkLease, LoadStates, Recover, Ready, Attempt,
           Run, Evaluate, AdoptComment, Statement, Mark, Verifying, Verify, Finished, Halted,
           Retry, Deferred, Backoff, Finish, Release, Checkpoint, Goto, Ends, Gone
    <3>2. QED
      BY <3>1
  <2>4. QED
    BY <2>1, <2>2, <2>3 DEF Next
<1>3. QED
  BY <1>1, <1>2 DEF ContractInv

(* And from the first state on.                                            *)
LEMMA ContractInvariant == Spec => []ContractInv
<1>1. Init => ContractInv
  <2> SUFFICES ASSUME Init PROVE ContractInv
    OBVIOUS
  <2>1. FrontierInv
    BY InitFrontier
  <2>2. QED
    BY <2>1 DEF Init, ContractInv
<1>2. ContractInv /\ FrontierInv' /\ [Next]_vars => ContractInv'
  <2> SUFFICES ASSUME ContractInv, FrontierInv', [Next]_vars PROVE ContractInv'
    OBVIOUS
  <2>1. CASE UNCHANGED vars
    BY <2>1 DEF vars, store, run, nodes, walk, ContractInv, Phase, DoneNodes, Done
  <2>2. CASE Next
    BY <2>2, ContractStays
  <2>3. QED
    BY <2>1, <2>2
<1>3. QED
  BY <1>1, <1>2, FrontierInvariant, PTL DEF Spec

(* However a run is interrupted and resumed, it does what the contract of  *)
(* an uninterrupted one allows: each node in its turn, after those it      *)
(* waits for, COMPLETED only with all of them done, nothing begun after a  *)
(* cancellation.                                                           *)
THEOREM EngineImplementsContract == Spec => ImplementsContract
<1>1. Init => Contract!Init
  BY DEF Init, Contract!Init, Phase, DoneNodes, HalfWay, Done, Fresh, InitialNodeState,
         CompleteStates, Dispatching, NodePc
<1>2. ContractInv /\ [Next]_vars => [Contract!Next]_(Contract!contract)
  <2> SUFFICES ASSUME ContractInv, [Next]_vars PROVE [Contract!Next]_(Contract!contract)
    OBVIOUS
  <2>1. CASE UNCHANGED vars
    BY <2>1 DEF vars, store, run, nodes, walk, Contract!contract, Phase, DoneNodes, HalfWay,
                Done, Dispatching
  <2>2. CASE Next
    BY <2>2, WalkingStep, OtherStep DEF Next, Process
  <2>3. QED
    BY <2>1, <2>2
<1>3. QED
  BY <1>1, <1>2, ContractInvariant, PTL DEF Spec, ImplementsContract, Contract!Spec

=============================================================================
