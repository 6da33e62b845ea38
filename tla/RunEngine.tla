----------------------------- MODULE RunEngine -----------------------------
(***************************************************************************)
(* One run of one plan: the durable run and node records, the catalog, and *)
(* the process that walks the plan.  The process is `execute` or `resume`; *)
(* at most one is alive at a time (the advisory lock is assumed here), and *)
(* it may die between any two of its steps.                                *)
(*                                                                         *)
(* Each label of pc is a place between two effects another party can see:  *)
(* a write to the state store, a statement, or a read that decides         *)
(* something.  Sources: engine/executor/executor.go and authorize.go,      *)
(* engine/state/orphan.go and file.go, adapters/cli/cmd_execute.go and     *)
(* cmd_resume.go.                                                          *)
(***************************************************************************)
EXTENDS PgIndexes, Naturals

CONSTANTS
  NodeCount,       \* nodes of the plan, numbered in topological order
  Plan,            \* the sealed plan: a function from nodes to records
  InitialCatalog,  \* the indexes found when the run starts
  MaxAttempts,     \* RetryPolicy.MaxAttempts
  MaxCrashes, MaxFaults, MaxStoreFaults, MaxStops, MaxDba,  \* bounds
  DbaMoves,        \* what somebody else may do to the indexes meanwhile
  DbaInGap,        \* also between a decision to destroy and its statement?
  UnseenCommits,   \* may a statement commit and the store never learn of it?
  EndlessContention \* may lock_timeout strike any number of times?

Node == 1 .. NodeCount

(* auth is the authorization mode of a destructive node; expect names the  *)
(* predicate an assert or a verify node evaluates, scope the indexes whose *)
(* absence it demands.                                                     *)
PlanNode == [kind : NodeKind, object : Object, other : Object,
             deps : SUBSET Nat,
             auth : {"none", "provenance", "leftover", "explicit"},
             expect : {"none", "name_free", "parent_exists", "leaves_attached",
                       "index_valid", "index_attached", "tree_valid",
                       "absent"},
             scope : SUBSET Object]

(* Nodes are numbered topologically: they depend on earlier ones only.     *)
Ordered(plan) == /\ plan \in [DOMAIN plan -> PlanNode]
                 /\ \A n \in DOMAIN plan : plan[n].deps \subseteq 1 .. (n - 1)

(* Which statements make an index, and of which name.                      *)
Makes(p, o) ==
  \/ p.kind \in {"create_parent_invalid", "create_concurrently"} /\ o = p.object
  \/ p.kind = "reindex_concurrently" /\ o = p.other

(* Could the statement p make false what the verify node q has found?      *)
Undoes(p, q) ==
  \/ p.kind = "drop_partitioned"
  \/ p.kind = "drop_concurrently" /\ p.object \in {q.object, Parent}
  \/ \E o \in q.scope : Makes(p, o)

(* What the graphs of the three planners have in common (their planner.go).*)
(* drop-index alone drops the whole tree, by name; any other drop asks for *)
(* proof, and comes before whatever would make its object ours.            *)
DropsProven(plan) ==
  \A n \in DOMAIN plan :
    /\ plan[n].kind = "drop_partitioned" => plan[n].auth = "explicit"
    /\ plan[n].kind = "drop_concurrently" =>
         /\ plan[n].auth \in {"provenance", "leftover"}
         /\ \A m \in DOMAIN plan :
              plan[m].kind \in ClaimingKinds /\ plan[m].object = plan[n].object => n < m

(* What a verify node has found, no later node undoes.                     *)
VerdictsStand(plan) ==
  \A v \in DOMAIN plan : plan[v].kind = "verify" =>
    /\ plan[v].expect \in {"index_valid", "index_attached", "tree_valid", "absent"}
    /\ \A n \in DOMAIN plan : v < n => ~Undoes(plan[n], plan[v])

ASSUME SizeAssumption == NodeCount \in Nat \ {0} /\ MaxAttempts \in Nat \ {0}
ASSUME PlanAssumption == DOMAIN Plan = Node /\ Ordered(Plan)
ASSUME DropAssumption == DropsProven(Plan)
ASSUME VerifyAssumption == VerdictsStand(Plan)
ASSUME ObjectAssumption == /\ Parent \in Object /\ Leaf \subseteq Object
                           /\ "none" \notin Object
                           /\ PriorClaims \subseteq Object
                           /\ InitialCatalog \in Catalog
ASSUME BoundAssumption ==
  /\ {MaxCrashes, MaxFaults, MaxStoreFaults, MaxStops, MaxDba} \subseteq Nat
  /\ {UnseenCommits, EndlessContention, DbaInGap} \subseteq BOOLEAN

VARIABLES
  \* the state store
  status,      \* the run's status, "NONE" before CreateRun
  state,       \* node records: the state of each node
  dispatched,  \* node records: the nodes whose attempt counter is not zero
  cancelFlag,  \* the run's CancelRequested
  lease,       \* "none", "held" by this process, "lapsed" though this process
               \* lives, or "dead": unexpired, of a process that is gone
  \* PostgreSQL
  cat,
  \* the process
  pc, resuming, cur, mem, tries, adopt, todo, target, outcome, signalled,
  \* history: objects with an authorization on record and not yet acted on
  granted,
  \* how often the environment has interfered
  crashes, faults, storeFaults, stops, dba

run    == <<status, cancelFlag>>
nodes  == <<state, dispatched>>
store  == <<run, nodes, lease>>
mode   == <<resuming, signalled>>
scan   == <<todo, target>>
walk   == <<cur, mem, tries, adopt, outcome>>
bounds == <<crashes, faults, storeFaults, stops, dba>>
vars   == <<store, cat, pc, mode, scan, walk, granted, bounds>>

Fresh == [n \in Node |-> InitialNodeState]

NodePc == {"ready", "attempt", "run", "comment", "exec", "mark", "verifying",
           "verify", "done", "fail", "retry", "giveup", "deferred", "backoff"}
WalkPc == NodePc \cup {"boundary"}
Pc == WalkPc \cup {"idle", "orphan", "rewind", "adopt_run", "adopt_lease",
                   "rewind_failed", "inspect", "cleanup", "cleanup_comment",
                   "cleanup_drop", "cleanup_failed", "lease", "load",
                   "recover", "finish", "release"}

TypeOK ==
  /\ status \in RunStatus \cup {"NONE"}
  /\ state \in [Node -> NodeState]
  /\ dispatched \subseteq Node
  /\ cancelFlag \in BOOLEAN
  /\ lease \in {"none", "held", "lapsed", "dead"}
  /\ cat \in Catalog
  /\ pc \in Pc
  /\ resuming \in BOOLEAN /\ signalled \in BOOLEAN /\ adopt \in BOOLEAN
  /\ cur \in 0 .. NodeCount
  /\ mem \in [Node -> NodeState]
  /\ tries \in 0 .. MaxAttempts
  /\ todo \subseteq Leaf /\ target \in Leaf \cup {"none"}
  /\ outcome \in {"none", "failed", "interrupted", "complete"}
  /\ granted \subseteq Object
  /\ crashes \in 0 .. MaxCrashes /\ faults \in 0 .. MaxFaults
  /\ storeFaults \in 0 .. MaxStoreFaults /\ stops \in 0 .. MaxStops
  /\ dba \in 0 .. MaxDba

Init ==
  /\ status = "NONE" /\ state = Fresh /\ dispatched = {}
  /\ cancelFlag = FALSE /\ lease = "none"
  /\ cat = InitialCatalog
  /\ pc = "idle" /\ resuming = FALSE /\ signalled = FALSE
  /\ cur = 0 /\ mem = Fresh /\ tries = 0 /\ adopt = FALSE
  /\ todo = {} /\ target = "none" /\ outcome = "none"
  /\ granted = {}
  /\ crashes = 0 /\ faults = 0 /\ storeFaults = 0 /\ stops = 0 /\ dba = 0

-----------------------------------------------------------------------------
(* What the process can read *)

Done(n, s) == s[n] \in CompleteStates

(* state.ClaimsObject: does a live run's node record still claim o?        *)
Claimed(o) ==
  \/ o \in PriorClaims
  \/ /\ status \in ClaimingStatuses
     /\ \E n \in Node : /\ Plan[n].object = o
                        /\ ClaimingNode(Plan[n].kind, state[n], n \in dispatched)

ProvenanceVerdict(o, c) == DecideProvenanceDrop(c[o].marker, Claimed(o))

(* executor.Authorize by mode.  What explicit mode re-checks is sealed in  *)
(* the plan, so it cannot change between planning and dispatch.            *)
Authorize(p, c) ==
  CASE p.auth = "provenance" -> ProvenanceVerdict(p.object, c)
    [] p.auth = "leftover"   -> DecideLeftoverDrop(c[p.other].marker)
    [] p.auth = "explicit"   -> "drop"
    [] OTHER                 -> "halt"

(* The predicates of assert and verify nodes, on a catalog c.              *)
NameFree(o, c) == \/ ~Exists(c[o]) \/ Usable(c[o])
                  \/ ProvenanceVerdict(o, c) # "halt"
Attached(o, c) == Exists(c[o]) /\ c[o].attached

Holds(p, c) ==
  /\ CASE p.expect = "name_free"       -> NameFree(p.object, c)
       [] p.expect = "parent_exists"   -> Exists(c[Parent])
       [] p.expect = "leaves_attached" -> \A o \in Leaf : Attached(o, c)
       [] p.expect = "index_valid"     -> Usable(c[p.object])
       [] p.expect = "index_attached"  -> Usable(c[p.object]) /\ Attached(p.object, c)
       [] p.expect = "tree_valid"      -> /\ Usable(c[Parent])
                                          /\ \A o \in Leaf : Attached(o, c)
       [] OTHER                        -> TRUE
  /\ \A o \in p.scope : ~Exists(c[o])

-----------------------------------------------------------------------------
(* Faults and checkpoints *)

current == Plan[cur]

(* Only these two can be sent again once they have committed.              *)
Resendable == {"attach", "reindex_concurrently"}

(* The statement of the current node has committed and no record says so.  *)
CommitUnseen ==
  /\ pc \in {"mark", "verifying"}
  /\ current.kind \in DDLKinds \ Resendable

StoreFault == /\ storeFaults < MaxStoreFaults
              /\ UnseenCommits \/ ~CommitUnseen
              /\ storeFaults' = storeFaults + 1

Fault == faults < MaxFaults /\ faults' = faults + 1

(* READY -> RUNNING is the edge that increments the attempt counter.       *)
Written(n, to) ==
  /\ state' = [state EXCEPT ![n] = to]
  /\ dispatched' = IF to = "RUNNING" THEN dispatched \cup {n} ELSE dispatched

(* Mutant: a store error is logged and forgotten. *)
CheckpointHopefully(n, to, next) ==
  /\ mem' = [mem EXCEPT ![n] = to] /\ pc' = next
  /\ \/ Written(n, to) /\ UNCHANGED storeFaults
     \/ StoreFault /\ UNCHANGED nodes
  /\ UNCHANGED <<outcome, run, lease, cat, mode, scan, cur, crashes, faults, stops, dba>>

(* Executor.transition: the record is written first, the process's view    *)
(* follows.  A store error ends the walk, though the write may have landed *)
(* (TransitionNode fails when only its audit append does).                 *)
Checkpoint(n, to, next) ==
  /\ \/ /\ Written(n, to)
        /\ mem' = [mem EXCEPT ![n] = to]
        /\ pc' = next
        /\ UNCHANGED <<outcome, storeFaults>>
     \/ /\ StoreFault
        /\ (Written(n, to) \/ UNCHANGED nodes)
        /\ pc' = "finish" /\ outcome' = "failed"
        /\ UNCHANGED mem
  /\ UNCHANGED <<run, lease, cat, mode, scan, cur, crashes, faults, stops, dba>>

(* The process is gone; nothing it knew survives.                          *)
Gone ==
  /\ pc' = "idle" /\ resuming' = FALSE /\ signalled' = FALSE
  /\ cur' = 0 /\ mem' = Fresh /\ tries' = 0 /\ adopt' = FALSE
  /\ todo' = {} /\ target' = "none" /\ outcome' = "none"
  /\ granted' = {}

(* A lease nobody renews any more is still a live lease until it expires.  *)
Orphaned(l) == IF l = "held" THEN "dead" ELSE IF l = "lapsed" THEN "none" ELSE l

(* What a statement may leave when its answer is an error, or when there is*)
(* nobody left to hear it.                                                 *)
TimedOut(p) == {cat} \cup (IF Blocked(p, cat) THEN {} ELSE Wreckage(p, cat))

Interrupted(p) ==
  TimedOut(p) \cup
    (IF Blocked(p, cat) THEN {} ELSE StillBuilding(p, cat)) \cup
    (IF ~Blocked(p, cat) /\ (UnseenCommits \/ p.kind \in Resendable)
       THEN Committed(p, cat) ELSE {})

Stopping == cancelFlag \/ status = "CANCELLED" \/ signalled

Goto(label) == pc' = label /\ UNCHANGED <<mode, scan, walk>>

Ends(as) == /\ pc' = "finish" /\ outcome' = as
            /\ UNCHANGED <<mode, scan, cur, mem, tries, adopt>>

-----------------------------------------------------------------------------
(* execute, and the way of resume to the walk *)

(* cmdExecute: every node record is written with the run, before any DDL.  *)
Execute ==
  /\ pc = "idle" /\ status = "NONE"
  /\ status' = "RUNNING" /\ pc' = "lease"
  /\ UNCHANGED <<cancelFlag, nodes, lease, cat, mode, scan, walk, granted, bounds>>

(* A RUNNING run whose lease is alive is nobody's to resume.               *)
Resume ==
  /\ pc = "idle"
  /\ \/ status = "RUNNING" /\ lease = "none" /\ pc' = "orphan"
     \/ status \in ResumableStatuses /\ pc' = "adopt_run"
  /\ resuming' = TRUE
  /\ UNCHANGED <<store, cat, signalled, scan, walk, granted, bounds>>

(* MarkOrphaned: the status first, then one write per node in flight.      *)
MarkOrphaned ==
  /\ pc = "orphan"
  /\ IF status = "RUNNING"
       THEN status' = "ORPHANED" /\ Goto("rewind") /\ UNCHANGED granted
       ELSE UNCHANGED status /\ Gone
  /\ UNCHANGED <<cancelFlag, nodes, lease, cat, bounds>>

Rewind(from) ==
  \E n \in Node :
    /\ state[n] = from
    /\ state' = [state EXCEPT ![n] = "PENDING"]
    /\ UNCHANGED <<run, dispatched, lease, cat, pc, mode, scan, walk, granted, bounds>>

None(from) == \A n \in Node : state[n] # from

RewindOrphans ==
  /\ pc = "rewind"
  /\ \/ Rewind("RUNNING")
     \/ /\ None("RUNNING") /\ Goto("adopt_run")
        /\ UNCHANGED <<store, cat, granted, bounds>>

(* Mutant: adoption leaves the stop request of the last session standing. *)
AdoptRunStopped ==
  /\ pc = "adopt_run"
  /\ IF status \in ResumableStatuses
       THEN status' = "RUNNING" /\ Goto("adopt_lease") /\ UNCHANGED granted
       ELSE UNCHANGED status /\ Gone
  /\ UNCHANGED <<cancelFlag, nodes, lease, cat, bounds>>

(* AdoptOrphan, its three writes.  Adoption revokes a pending stop request *)
(* and refuses a cancelled run.  A lease still alive leaves the run RUNNING*)
(* for a later resume to find orphaned.                                    *)
AdoptRun ==
  /\ pc = "adopt_run"
  /\ IF status \in ResumableStatuses
       THEN /\ status' = "RUNNING" /\ cancelFlag' = FALSE
            /\ Goto("adopt_lease") /\ UNCHANGED granted
       ELSE UNCHANGED run /\ Gone
  /\ UNCHANGED <<nodes, lease, cat, bounds>>

AdoptLease ==
  /\ pc = "adopt_lease"
  /\ IF lease = "dead"
       THEN UNCHANGED lease /\ Gone
       ELSE lease' = "held" /\ Goto("rewind_failed") /\ UNCHANGED granted
  /\ UNCHANGED <<run, nodes, cat, bounds>>

(* Mutant: resume starts every node over. *)
RewindEverything ==
  /\ pc = "rewind_failed"
  /\ state' = Fresh
  /\ Goto("inspect")
  /\ UNCHANGED <<run, dispatched, lease, cat, granted, bounds>>

RewindFailed ==
  /\ pc = "rewind_failed"
  /\ \/ Rewind("FAILED")
     \/ /\ None("FAILED") /\ Goto("inspect")
        /\ UNCHANGED <<store, cat, granted, bounds>>

-----------------------------------------------------------------------------
(* resume's cleanup *)

(* Mutant: whatever bears a generated name and is not attached. *)
WreckByName == {o \in Leaf : Exists(cat[o]) /\ ~cat[o].attached}

(* Decide under the snapshot: every unusable index under a generated name  *)
(* is to go, and one that is not provably ours halts the whole resume.     *)
Wreck == {o \in Leaf : Exists(cat[o]) /\ ~Usable(cat[o])}

Inspect ==
  /\ pc = "inspect"
  /\ \/ /\ \A o \in Wreck : ProvenanceVerdict(o, cat) # "halt"
        /\ todo' = Wreck /\ pc' = "cleanup" /\ UNCHANGED faults
     \/ /\ \E o \in Wreck : ProvenanceVerdict(o, cat) = "halt"
        /\ pc' = "cleanup_failed" /\ UNCHANGED <<todo, faults>>
     \/ /\ Fault /\ pc' = "cleanup_failed" /\ UNCHANGED todo
  /\ UNCHANGED <<store, cat, mode, target, walk, granted, crashes, storeFaults, stops, dba>>

(* Mutant: an index is destroyed with no authorization on record. *)
RecheckUnrecorded ==
  /\ pc = "cleanup"
  /\ \/ todo = {} /\ pc' = "lease" /\ UNCHANGED target
     \/ \E o \in todo :
        /\ o \in Wreck /\ ProvenanceVerdict(o, cat) # "halt"
        /\ pc' = IF ProvenanceVerdict(o, cat) = "drop"
                  THEN "cleanup_drop" ELSE "cleanup_comment"
        /\ target' = o
  /\ UNCHANGED <<store, cat, mode, todo, walk, granted, bounds>>

(* Mutant: an index held by a claim alone is dropped like a marked one. *)
RecheckUnmarked ==
  /\ pc = "cleanup"
  /\ \/ todo = {} /\ pc' = "lease" /\ UNCHANGED <<target, granted>>
     \/ \E o \in todo :
        /\ o \in Wreck /\ ProvenanceVerdict(o, cat) # "halt"
        /\ pc' = "cleanup_drop" /\ target' = o /\ granted' = granted \cup {o}
  /\ UNCHANGED <<store, cat, mode, todo, walk, bounds>>

(* recheck, then RecordAuthorization, for the next item.  An index that is *)
(* no longer wreckage, or no longer ours, stops the cleanup.               *)
Recheck ==
  /\ pc = "cleanup"
  /\ \/ /\ todo = {} /\ pc' = "lease"
        /\ UNCHANGED <<target, granted, storeFaults>>
     \/ \E o \in todo :
        /\ o \in Wreck /\ ProvenanceVerdict(o, cat) # "halt"
        /\ \/ /\ pc' = IF ProvenanceVerdict(o, cat) = "drop"
                        THEN "cleanup_drop" ELSE "cleanup_comment"
              /\ target' = o /\ granted' = granted \cup {o}
              /\ UNCHANGED storeFaults
           \/ /\ StoreFault /\ pc' = "cleanup_failed"
              /\ UNCHANGED <<target, granted>>
     \/ \E o \in todo :
        /\ o \notin Wreck \/ ProvenanceVerdict(o, cat) = "halt"
        /\ pc' = "cleanup_failed" /\ UNCHANGED <<target, granted, storeFaults>>
  /\ UNCHANGED <<store, cat, mode, todo, walk, crashes, faults, stops, dba>>

(* App.adopt: COMMENT ON INDEX, whatever comment has appeared meanwhile.   *)
CleanupComment ==
  /\ pc = "cleanup_comment"
  /\ \/ /\ cat' \in Commented(target, cat) /\ pc' = "cleanup_drop"
        /\ UNCHANGED faults
     \/ /\ ~Exists(cat[target]) /\ pc' = "cleanup_failed"
        /\ UNCHANGED <<cat, faults>>
     \/ /\ Fault /\ cat' \in {cat} \cup Commented(target, cat)
        /\ pc' = "cleanup_failed"
  /\ UNCHANGED <<store, mode, scan, walk, granted, crashes, storeFaults, stops, dba>>

CleanupStatement == [kind |-> "drop_concurrently", object |-> target, other |-> Parent]

(* A cleanup drop may always have committed unseen: it is not a node's.    *)
DropInterrupted ==
  TimedOut(CleanupStatement) \cup
    (IF Blocked(CleanupStatement, cat) THEN {} ELSE Committed(CleanupStatement, cat))

(* dropOwnedIndex.  The audit append after a drop may fail it as well.     *)
CleanupDrop ==
  /\ pc = "cleanup_drop"
  /\ granted' = granted \ {target}
  /\ \/ /\ ~Blocked(CleanupStatement, cat)
        /\ cat' \in Committed(CleanupStatement, cat)
        /\ todo' = todo \ {target} /\ target' = "none" /\ pc' = "cleanup"
        /\ UNCHANGED <<faults, storeFaults>>
     \/ /\ ~Blocked(CleanupStatement, cat) /\ StoreFault
        /\ cat' \in Committed(CleanupStatement, cat)
        /\ pc' = "cleanup_failed" /\ UNCHANGED <<scan, faults>>
     \/ /\ Committed(CleanupStatement, cat) = {} /\ pc' = "cleanup_failed"
        /\ UNCHANGED <<cat, scan, faults, storeFaults>>
     \/ /\ Fault
        /\ cat' \in DropInterrupted
        /\ pc' = "cleanup_failed" /\ UNCHANGED <<scan, storeFaults>>
  /\ UNCHANGED <<store, mode, walk, crashes, stops, dba>>

(* The run is recorded FAILED, unless it was cancelled meanwhile, and the  *)
(* command returns; nothing releases the lease adoption took.              *)
CleanupFailed ==
  /\ pc = "cleanup_failed"
  /\ \/ /\ status' = IF status = "RUNNING" THEN "FAILED" ELSE status
        /\ UNCHANGED storeFaults
     \/ StoreFault /\ UNCHANGED status
  /\ lease' = Orphaned(lease)
  /\ Gone
  /\ UNCHANGED <<cancelFlag, nodes, cat, crashes, faults, stops, dba>>

-----------------------------------------------------------------------------
(* The walk: App.walk and Executor.Run *)

WalkLease ==
  /\ pc = "lease"
  /\ IF lease = "dead"
       THEN UNCHANGED lease /\ Gone
       ELSE lease' = "held" /\ Goto("load") /\ UNCHANGED granted
  /\ UNCHANGED <<run, nodes, cat, bounds>>

LoadStates ==
  /\ pc = "load"
  /\ \/ /\ mem' = state /\ pc' = "recover"
        /\ UNCHANGED <<mode, scan, cur, tries, adopt, outcome, storeFaults>>
     \/ StoreFault /\ Ends("failed")
  /\ UNCHANGED <<store, cat, granted, crashes, faults, stops, dba>>

(* recoverOrphans: a node RUNNING in a run that was not (see MarkOrphaned).*)
Recover ==
  /\ pc = "recover"
  /\ \/ /\ \E n \in Node : /\ mem[n] = "RUNNING"
                           /\ \A m \in 1 .. (n - 1) : mem[m] # "RUNNING"
                           /\ Checkpoint(n, "PENDING", "recover")
        /\ UNCHANGED <<tries, adopt, granted>>
     \/ /\ \A n \in Node : mem[n] # "RUNNING"
        /\ Goto("boundary") /\ UNCHANGED <<store, cat, granted, bounds>>

Remaining == {n \in Node : ~Done(n, mem)}

(* Where runNode starts with a node.  FAILED cannot be met after a resume, *)
(* and the dependency check is a defence; both end the run.                *)
Entry(n) ==
  IF \E d \in Plan[n].deps : ~Done(d, mem) THEN "finish"
  ELSE CASE mem[n] \in {"PENDING", "RETRY_WAIT"} -> "ready"
         [] mem[n] = "READY"                     -> "attempt"
         [] mem[n] = "VERIFYING"                 -> "verify"
         [] OTHER                                -> "finish"

(* Mutant: any node that is not complete, in whatever order. *)
BoundaryAnyOrder ==
  /\ pc = "boundary"
  /\ \/ Remaining = {} /\ Ends("complete")
     \/ \E n \in Remaining :
        /\ ~Stopping /\ \A d \in Plan[n].deps : Done(d, mem)
        /\ cur' = n /\ pc' = Entry(n) /\ tries' = 0 /\ adopt' = FALSE
        /\ UNCHANGED <<mode, scan, mem, outcome>>
  /\ UNCHANGED <<store, cat, granted, bounds>>

(* Mutant: the stop request is looked at once, before the walk. *)
BoundaryDeaf ==
  /\ pc = "boundary"
  /\ \/ Remaining = {} /\ Ends("complete")
     \/ \E n \in Remaining :
        /\ \A m \in Remaining : n <= m
        /\ cur' = n /\ pc' = Entry(n) /\ tries' = 0 /\ adopt' = FALSE
        /\ UNCHANGED <<mode, scan, mem, outcome>>
  /\ UNCHANGED <<store, cat, granted, bounds>>

Boundary ==
  /\ pc = "boundary"
  /\ \/ Remaining = {} /\ Ends("complete") /\ UNCHANGED storeFaults
     \/ Remaining # {} /\ Stopping /\ Ends("interrupted") /\ UNCHANGED storeFaults
     \/ \E n \in Remaining :
        /\ ~Stopping
        /\ \A m \in Remaining : n <= m
        /\ cur' = n /\ pc' = Entry(n) /\ tries' = 0 /\ adopt' = FALSE
        /\ outcome' = IF Entry(n) = "finish" THEN "failed" ELSE outcome
        /\ UNCHANGED <<mode, scan, mem, storeFaults>>
     \/ Remaining # {} /\ ~signalled /\ StoreFault /\ Ends("failed")
  /\ UNCHANGED <<store, cat, granted, crashes, faults, stops, dba>>

Ready ==
  /\ pc = "ready"
  /\ Checkpoint(cur, "READY", "attempt")
  /\ UNCHANGED <<tries, adopt, granted>>

(* Mutant: the first attempt's authorization serves the retries. *)
AttemptAuthorizedOnce ==
  /\ pc = "attempt"
  /\ tries' = tries + 1 /\ pc' = "run" /\ adopt' = FALSE
  /\ granted' = IF current.kind \in DestructiveKinds /\ tries = 0
                 THEN granted \cup {current.object} ELSE granted
  /\ UNCHANGED <<store, cat, mode, scan, cur, mem, outcome, bounds>>

(* The top of runNode's loop.  A destructive node is authorized again for  *)
(* every attempt, and the grant is on record before the node goes RUNNING; *)
(* execute may not adopt.  A denial leaves the node READY.                 *)
Attempt ==
  /\ pc = "attempt"
  /\ LET verdict == Authorize(current, cat)
         denied  == verdict = "halt" \/ (verdict = "adopt_then_drop" /\ ~resuming)
     IN  \/ /\ current.kind \notin DestructiveKinds
            /\ tries' = tries + 1 /\ pc' = "run"
            /\ UNCHANGED <<mode, scan, cur, mem, adopt, outcome, granted, storeFaults>>
         \/ /\ current.kind \in DestructiveKinds /\ ~denied
            /\ tries' = tries + 1 /\ pc' = "run"
            /\ adopt' = (verdict = "adopt_then_drop")
            /\ granted' = granted \cup {current.object}
            /\ UNCHANGED <<mode, scan, cur, mem, outcome, storeFaults>>
         \/ /\ current.kind \in DestructiveKinds /\ denied
            /\ Ends("failed") /\ UNCHANGED <<granted, storeFaults>>
         \/ /\ current.kind \in DestructiveKinds
            /\ StoreFault /\ Ends("failed") /\ UNCHANGED granted
  /\ UNCHANGED <<store, cat, crashes, faults, stops, dba>>

(* Mutant: an index held by a claim is dropped without being marked. *)
RunUnmarked ==
  /\ pc = "run"
  /\ Checkpoint(cur, "RUNNING", "exec")
  /\ UNCHANGED <<tries, adopt, granted>>

Run ==
  /\ pc = "run"
  /\ Checkpoint(cur, "RUNNING", IF adopt THEN "comment" ELSE "exec")
  /\ UNCHANGED <<tries, adopt, granted>>

(* dispatch, for the kinds that send no statement.  A read error fails the *)
(* node as a false assertion does: these kinds are never retried.          *)
Evaluate ==
  /\ pc = "exec" /\ current.kind \notin DDLKinds
  /\ \/ /\ current.kind = "assert" => Holds(current, cat)
        /\ Goto("verifying") /\ UNCHANGED faults
     \/ /\ current.kind = "assert" /\ ~Holds(current, cat)
        /\ Goto("fail") /\ UNCHANGED faults
     \/ /\ current.kind = "assert" /\ Fault /\ Goto("fail")
  /\ UNCHANGED <<store, cat, granted, crashes, storeFaults, stops, dba>>

(* Executor.adoptObject, before the drop it makes auditable.               *)
AdoptComment ==
  /\ pc = "comment"
  /\ \/ /\ cat' \in Commented(current.object, cat) /\ Goto("exec")
        /\ UNCHANGED faults
     \/ /\ ~Exists(cat[current.object]) /\ Goto("fail")
        /\ UNCHANGED <<cat, faults>>
     \/ /\ Fault /\ cat' \in {cat} \cup Commented(current.object, cat)
        /\ \E next \in {"fail", "retry"} : Goto(next)
  /\ UNCHANGED <<store, granted, crashes, storeFaults, stops, dba>>

(* execDDL's statement.  A refusal (42P07, 42704, 55000) is terminal; any  *)
(* other error is terminal or retryable as Classify has it.  lock_timeout  *)
(* is retryable and rolls the statement back.                              *)
Statement ==
  /\ pc = "exec" /\ current.kind \in DDLKinds
  /\ \/ /\ ~Blocked(current, cat) /\ cat' \in Committed(current, cat)
        /\ Goto(IF current.kind \in ClaimingKinds THEN "mark" ELSE "verifying")
        /\ UNCHANGED faults
     \/ /\ ~Blocked(current, cat) /\ Committed(current, cat) = {}
        /\ Goto("fail") /\ UNCHANGED <<cat, faults>>
     \/ /\ Fault /\ cat' \in Interrupted(current)
        /\ \E next \in {"fail", "retry"} : Goto(next)
     \/ /\ EndlessContention /\ cat' \in TimedOut(current)
        /\ Goto("retry") /\ UNCHANGED faults
  /\ granted' = granted \ {current.object}
  /\ UNCHANGED <<store, crashes, storeFaults, stops, dba>>

(* Mutant: the marker is best effort, a failed COMMENT only warns. *)
MarkBestEffort ==
  /\ pc = "mark"
  /\ \/ /\ MayMark(cat[current.object].marker)
        /\ cat' \in Commented(current.object, cat)
        /\ UNCHANGED faults
     \/ Fault /\ UNCHANGED cat
  /\ Goto("verifying")
  /\ UNCHANGED <<store, granted, crashes, storeFaults, stops, dba>>

(* markObject: read the comment that is there, write over none but ours.   *)
Mark ==
  /\ pc = "mark"
  /\ \/ /\ MayMark(cat[current.object].marker)
        /\ cat' \in Commented(current.object, cat)
        /\ Goto("verifying") /\ UNCHANGED faults
     \/ /\ ~MayMark(cat[current.object].marker)
        /\ Goto("verifying") /\ UNCHANGED <<cat, faults>>
     \/ /\ ~Exists(cat[current.object])
        /\ Goto("fail") /\ UNCHANGED <<cat, faults>>
     \/ /\ Fault /\ (UnseenCommits \/ ~CommitUnseen)
        /\ cat' \in {cat} \cup (IF MayMark(cat[current.object].marker)
                                  THEN Commented(current.object, cat) ELSE {})
        /\ \E next \in {"fail", "retry"} : Goto(next)
  /\ UNCHANGED <<store, granted, crashes, storeFaults, stops, dba>>

Verifying ==
  /\ pc = "verifying"
  /\ Checkpoint(cur, "VERIFYING", "verify")
  /\ UNCHANGED <<tries, adopt, granted>>

(* Mutant: the statement's success is taken for the fact. *)
VerifyNothing ==
  /\ pc = "verify" /\ Goto("done")
  /\ UNCHANGED <<store, cat, granted, bounds>>

(* verifyPhase: only index.verify has anything to check.                   *)
Verify ==
  /\ pc = "verify"
  /\ \/ /\ current.kind = "verify" => Holds(current, cat)
        /\ Goto("done") /\ UNCHANGED faults
     \/ /\ current.kind = "verify" /\ ~Holds(current, cat)
        /\ Goto("fail") /\ UNCHANGED faults
     \/ /\ current.kind = "verify" /\ Fault /\ Goto("fail")
  /\ UNCHANGED <<store, cat, granted, crashes, storeFaults, stops, dba>>

Finished ==
  /\ pc = "done"
  /\ Checkpoint(cur, "DONE", "boundary")
  /\ UNCHANGED <<tries, adopt, granted>>

(* A halt: the node's failure is recorded and the error ends the walk.     *)
Halted ==
  /\ pc \in {"fail", "giveup"}
  /\ \/ /\ Written(cur, "FAILED") /\ UNCHANGED storeFaults
        /\ mem' = [mem EXCEPT ![cur] = "FAILED"]
     \/ /\ StoreFault /\ UNCHANGED mem
        /\ (Written(cur, "FAILED") \/ UNCHANGED nodes)
  /\ pc' = "finish" /\ outcome' = "failed"
  /\ UNCHANGED <<run, lease, cat, mode, scan, cur, tries, adopt, granted,
                 crashes, faults, stops, dba>>

(* Mutant: the budget allows one attempt too many. *)
RetryOnceMore ==
  /\ pc = "retry"
  /\ Checkpoint(cur, "RETRY_WAIT",
       IF current.kind \notin RetrySafeKinds THEN "deferred"
       ELSE IF tries > MaxAttempts THEN "giveup" ELSE "backoff")
  /\ UNCHANGED <<tries, adopt, granted>>

(* Mutant: there is no budget; tries starts again with every attempt. *)
RetryForEver ==
  /\ pc = "retry"
  /\ Checkpoint(cur, "RETRY_WAIT",
       IF current.kind \notin RetrySafeKinds THEN "deferred" ELSE "backoff")
  /\ tries' = 0
  /\ UNCHANGED <<adopt, granted>>

(* A kind that commits before it fails is left to resume: the run stops.   *)
Retry ==
  /\ pc = "retry"
  /\ Checkpoint(cur, "RETRY_WAIT",
       IF current.kind \notin RetrySafeKinds THEN "deferred"
       ELSE IF tries >= MaxAttempts THEN "giveup" ELSE "backoff")
  /\ UNCHANGED <<tries, adopt, granted>>

(* Mutant: errUnsafeRetry is taken for an early success. *)
DeferredIsSuccess ==
  /\ pc = "deferred"
  /\ Ends("complete")
  /\ UNCHANGED <<store, cat, granted, bounds>>

Deferred ==
  /\ pc = "deferred"
  /\ Ends("interrupted")
  /\ UNCHANGED <<store, cat, granted, bounds>>

(* Mutant: after the backoff the statement is sent again straight away. *)
BackoffThenRun ==
  /\ pc = "backoff"
  /\ IF signalled THEN Ends("interrupted") ELSE Goto("run")
  /\ UNCHANGED <<store, cat, granted, bounds>>

(* The backoff is the one wait a signal cuts short; the cancellation flag  *)
(* is not read here.                                                       *)
Backoff ==
  /\ pc = "backoff"
  /\ IF signalled THEN Ends("interrupted") ELSE Goto("ready")
  /\ UNCHANGED <<store, cat, granted, bounds>>

RunStatusOf == [failed |-> "FAILED", interrupted |-> "INTERRUPTED",
                complete |-> "COMPLETED"]

(* Mutant: the outcome is written whatever the status is by now. *)
FinishLastWriteWins ==
  /\ pc = "finish"
  /\ status' = RunStatusOf[outcome]
  /\ Goto("release")
  /\ UNCHANGED <<cancelFlag, nodes, lease, cat, granted, bounds>>

(* App.finish only warns when the status cannot be recorded.               *)
Finish ==
  /\ pc = "finish"
  /\ \/ /\ status' = IF status = "RUNNING" THEN RunStatusOf[outcome] ELSE status
        /\ UNCHANGED storeFaults
     \/ StoreFault /\ UNCHANGED status
  /\ Goto("release")
  /\ UNCHANGED <<cancelFlag, nodes, lease, cat, granted, crashes, faults, stops, dba>>

Release ==
  /\ pc = "release"
  /\ \/ lease' = "none" /\ UNCHANGED storeFaults
     \/ StoreFault /\ lease' = Orphaned(lease)
  /\ Gone
  /\ UNCHANGED <<run, nodes, cat, crashes, faults, stops, dba>>

-----------------------------------------------------------------------------
(* The world outside the process *)

(* The effect of whatever the process had sent and not yet heard of.       *)
InFlight ==
  CASE pc = "exec" /\ current.kind \in DDLKinds -> Interrupted(current)
    [] pc = "mark" /\ MayMark(cat[current.object].marker) ->
         {cat} \cup Commented(current.object, cat)
    [] pc = "comment"         -> {cat} \cup Commented(current.object, cat)
    [] pc = "cleanup_comment" -> {cat} \cup Commented(target, cat)
    [] pc = "cleanup_drop"    -> DropInterrupted
    [] OTHER                  -> {cat}

(* SIGKILL, a lost host, or any error resume returns before it has a run.  *)
Crash ==
  /\ pc # "idle" /\ crashes < MaxCrashes
  /\ UnseenCommits \/ ~CommitUnseen
  /\ crashes' = crashes + 1
  /\ cat' \in InFlight
  /\ lease' = Orphaned(lease)
  /\ Gone
  /\ UNCHANGED <<run, nodes, faults, storeFaults, stops, dba>>

ExpireLease ==
  /\ lease = "dead" /\ lease' = "none"
  /\ UNCHANGED <<run, nodes, cat, pc, mode, scan, walk, granted, bounds>>

(* Nobody renews the lease before the walk, and a heartbeat may fail.      *)
LeaseLapses ==
  /\ lease = "held" /\ pc # "idle" /\ lease' = "lapsed"
  /\ storeFaults < MaxStoreFaults /\ storeFaults' = storeFaults + 1
  /\ UNCHANGED <<run, nodes, cat, pc, mode, scan, walk, granted, crashes, faults, stops, dba>>

Heartbeat ==
  /\ lease = "lapsed" /\ pc \in WalkPc /\ lease' = "held"
  /\ UNCHANGED <<run, nodes, cat, pc, mode, scan, walk, granted, bounds>>

(* A backend whose client is gone ends its build, one way or the other.    *)
BackendFinishes ==
  /\ \E o \in Object : /\ cat[o].cond = "building"
                       /\ \E as \in {"invalid"} \cup (IF UnseenCommits THEN {"valid"} ELSE {}) :
                            cat' = [cat EXCEPT ![o].cond = as]
  /\ UNCHANGED <<store, pc, mode, scan, walk, granted, bounds>>

(* SIGINT and SIGTERM are caught from the walk on; before it they kill.    *)
Signal ==
  /\ pc \in WalkPc \cup {"load", "recover"} /\ ~signalled
  /\ stops < MaxStops /\ stops' = stops + 1
  /\ signalled' = TRUE
  /\ UNCHANGED <<store, cat, pc, resuming, scan, walk, granted, crashes, faults, storeFaults, dba>>

(* FileStore.RequestCancel: a flag for a live run, the end for any other,  *)
(* in a second write that may be lost.                                     *)
Cancel ==
  /\ status \in IncompleteStatuses
  /\ stops < MaxStops /\ stops' = stops + 1
  /\ cancelFlag' = TRUE
  /\ \/ /\ status' = IF status = "RUNNING" /\ lease \in {"held", "dead"}
                    THEN status ELSE "CANCELLED"
        /\ UNCHANGED storeFaults
     \/ /\ storeFaults < MaxStoreFaults /\ storeFaults' = storeFaults + 1
        /\ UNCHANGED status
  /\ UNCHANGED <<nodes, lease, cat, pc, mode, scan, walk, granted, crashes, faults, dba>>

(* Between the check that decides to destroy an index and the statement    *)
(* that does, no lock is held on it.                                       *)
InGap == \/ pc \in {"cleanup_comment", "cleanup_drop"}
         \/ pc \in {"run", "comment", "exec"} /\ current.kind \in DestructiveKinds

(* Somebody else works on the same table.  half_drop is their DROP INDEX   *)
(* CONCURRENTLY of an index of ours that dies in its first wait; one of    *)
(* their own would leave what create_invalid makes.                        *)
Dba ==
  /\ dba < MaxDba /\ dba' = dba + 1
  /\ DbaInGap \/ ~InGap
  /\ \E o \in Leaf :
     \/ /\ "create" \in DbaMoves /\ ~Exists(cat[o])
        /\ cat' = [cat EXCEPT ![o] = NewIndex("valid", "other")]
     \/ /\ "create_invalid" \in DbaMoves /\ ~Exists(cat[o])
        /\ cat' = [cat EXCEPT ![o] = NewIndex("invalid", "other")]
     \/ /\ "comment" \in DbaMoves /\ Exists(cat[o])
        /\ cat' = [cat EXCEPT ![o].marker = "foreign"]
     \/ /\ "drop" \in DbaMoves /\ Exists(cat[o]) /\ ~cat[o].attached
        /\ cat[o].cond # "building"
        /\ cat' = [cat EXCEPT ![o] = NoIndex]
     \/ /\ "half_drop" \in DbaMoves /\ Usable(cat[o]) /\ ~cat[o].attached
        /\ cat[o].maker = "tool" /\ cat' = [cat EXCEPT ![o].cond = "invalid"]
  /\ UNCHANGED <<store, pc, mode, scan, walk, granted, crashes, faults, storeFaults, stops>>

-----------------------------------------------------------------------------
(* The specification *)

Adopting == MarkOrphaned \/ RewindOrphans \/ AdoptRun \/ AdoptLease \/ RewindFailed
Cleaning == Inspect \/ Recheck \/ CleanupComment \/ CleanupDrop \/ CleanupFailed
Walking  == \/ WalkLease \/ LoadStates \/ Recover \/ Boundary \/ Ready \/ Attempt
            \/ Run \/ Evaluate \/ AdoptComment \/ Statement \/ Mark \/ Verifying
            \/ Verify \/ Finished \/ Halted \/ Retry \/ Deferred \/ Backoff
            \/ Finish \/ Release

Process     == Execute \/ Resume \/ Adopting \/ Cleaning \/ Walking
Environment == \/ Crash \/ ExpireLease \/ LeaseLapses \/ Heartbeat
               \/ BackendFinishes \/ Signal \/ Cancel \/ Dba

Next == Process \/ Environment

Spec == Init /\ [][Next]_vars

(* A live process keeps going, the operator resumes what can be resumed,   *)
(* leases expire by the clock and backends end.                            *)
Fairness == WF_vars(Process) /\ WF_vars(ExpireLease) /\ WF_vars(BackendFinishes)

FairSpec == Spec /\ Fairness

-----------------------------------------------------------------------------
(* Safety *)

Dispatching == pc \in NodePc

Incomplete == {n \in Node : ~Done(n, state)}

(* At most one node is anywhere between PENDING and DONE, every node before*)
(* it is complete and every node after it has never been dispatched: the   *)
(* records alone tell where a run stopped, whatever ended it.  This is     *)
(* what lets resume re-read nothing but node states.                       *)
Frontier ==
  \A n \in Incomplete :
    (\E m \in Incomplete : m < n) => state[n] = "PENDING" /\ n \notin dispatched

(* Inside the walk the process's own view of every node is the store's,    *)
(* so a decision taken on it is a decision taken on the record (FR-EXEC-2).*)
MemoryMatchesStore ==
  pc \in WalkPc \cup {"recover"} => mem = state

(* An index the tool made and has not marked can be traced to a node that  *)
(* was dispatched for it and is not complete, so a later resume can always *)
(* claim it: no crash, failed COMMENT or lost write leaves an index that   *)
(* nobody may remove (execDDL, claimingNode).                              *)
UnmarkedIsClaimed ==
  \A o \in Object :
    cat[o].maker = "tool" /\ cat[o].marker = "absent" =>
      \E n \in Incomplete \cap dispatched :
        /\ Plan[n].kind \in ClaimingKinds
        /\ \/ Plan[n].object = o
           \/ Plan[n].kind = "reindex_concurrently" /\ Plan[n].other = o

(* Whenever a destructive statement may be on its way, an authorization    *)
(* for its object was recorded after the previous one was used: a retry is *)
(* authorized afresh (INV-2, FR-AUTH-5).                                   *)
FreshAuthorization ==
  /\ pc \in {"run", "comment", "exec"} /\ current.kind \in DestructiveKinds
       => current.object \in granted
  /\ pc \in {"cleanup_comment", "cleanup_drop"} => target \in granted

(* A run recorded COMPLETED has left the tree its plan was for: every      *)
(* predicate its verify nodes evaluated along the way still holds.         *)
CompletedMeansBuilt ==
  status = "COMPLETED" =>
    \A n \in Node : Plan[n].kind = "verify" => Holds(Plan[n], cat)

(* Every change of a node record is an edge of diagram D7 under some       *)
(* reason, so CheckTransition never refuses one.                           *)
FollowsD7 ==
  [][\A n \in Node : state'[n] # state[n] =>
       \E reason \in TransitionReason : ValidTransition(state[n], state'[n], reason)]_vars

(* Every change of the run's status is an edge of its own diagram; in      *)
(* particular COMPLETED and CANCELLED are for ever.                        *)
FollowsRunStatus ==
  [][status' # status =>
       \/ status = "NONE" /\ status' = "RUNNING"
       \/ ValidRunTransition(status, status')]_vars

(* While a stop stands, by flag, by status or by signal, the process goes  *)
(* on to no other node: it finishes with the one in hand, retries and all, *)
(* and ends (FR-CLI-10, FR-EXEC-8).                                        *)
NoNewNodeAfterStop ==
  [][Stopping /\ Stopping' => cur' \in {cur, 0}]_vars

(* Nothing is dropped but under the operator's own name for it, as a       *)
(* leftover of an index that carries our marker, or carrying our marker    *)
(* itself: an adopted index is marked before it goes (execDDL, App.adopt). *)
DroppedWasMarked ==
  [][Process =>
       \A o \in Object : Exists(cat[o]) /\ cat'[o] = NoIndex =>
         \/ cat[o].marker = "ours"
         \/ pc = "exec" /\ current.auth = "explicit"
         \/ pc = "exec" /\ current.auth = "leftover" /\ cat[current.other].marker = "ours"]_vars

(* No step of the tool removes an index somebody else made, except by the  *)
(* operator's explicit drop of the whole tree (NFR-REL-3).                 *)
NothingForeignDestroyed ==
  [][Process =>
       \A o \in Object : cat[o].maker = "other" /\ cat'[o].maker # "other" =>
         pc = "exec" /\ current.auth = "explicit"]_vars

(* A comment somebody else wrote is never written over.                    *)
ForeignCommentKept ==
  [][Process => \A o \in Object : cat[o].marker = "foreign" => cat'[o].marker # "ours"]_vars

-----------------------------------------------------------------------------
(* The abstract specification *)

Phase == CASE status = "NONE"      -> "new"
           [] status = "COMPLETED" -> "completed"
           [] status = "CANCELLED" -> "cancelled"
           [] OTHER                -> "open"

DoneNodes == {n \in Node : Done(n, state)}

HalfWay == {n \in Node : state[n] \in {"READY", "RUNNING", "RETRY_WAIT", "VERIFYING"}}

Contract == INSTANCE PlanContract WITH
  Node    <- Node,
  Deps    <- [n \in Node |-> Plan[n].deps],
  phase   <- Phase,
  done    <- DoneNodes,
  working <- IF Dispatching THEN {cur} ELSE HalfWay

(* Every behaviour of the engine, crashes and all, is one the contract     *)
(* allows.                                                                 *)
ImplementsContract == Contract!Spec

-----------------------------------------------------------------------------
(* Liveness *)

(* However it is interrupted, a run that keeps being resumed ends: complete*)
(* or cancelled (AC-4).                                                    *)
Convergence == <>[](status \in TerminalStatuses)

(* A command comes back to the prompt, however often the statements of its *)
(* nodes run into lock_timeout (FR-EXEC-4).                                *)
SessionEnds == (pc # "idle") ~> (pc = "idle")

=============================================================================
