----------------------------- MODULE TargetLock -----------------------------
(***************************************************************************)
(* The commands that meet on one target: execute and resume of one plan,   *)
(* each a process of its own, with the target's lock, the runs of the plan,*)
(* their leases and the heartbeats.  The SQL lock belongs to a session and *)
(* goes when the session does.  The file lock is a file with a lifetime:   *)
(* made with O_EXCL, refreshed with the lease, and taken over once it has  *)
(* expired, by a write and a read back.  Each store call is one step here; *)
(* SqlStore and FileStore say what it is made of.                          *)
(***************************************************************************)
EXTENDS NodeLifecycle, Naturals, Sequences, FiniteSets

CONSTANTS
  Process,       \* each runs one command, and is its own token and holder
  Kind,          \* the command of each, "execute" or "resume"
  Backends,      \* the --state choices considered, of "sql" and "file"
  MaxRuns,       \* bounds the runs opened
  MaxFaults      \* bounds expiries, crashes, lost sessions, slow heartbeats

ASSUME ProcessAssumption == "nobody" \notin Process /\ Backends \subseteq {"sql", "file"}
ASSUME KindAssumption == Kind \in [Process -> {"execute", "resume"}]
ASSUME BoundAssumption == MaxRuns \in Nat /\ MaxFaults \in Nat

VARIABLES
  backend,   \* "sql" or "file"
  lock,      \* [kind, owner, fresh]: none, a blank file, or held
  runs,      \* the plan's runs, oldest first, each [status, holder, fresh]
  cmd,       \* each command: [at, run, from, to]
  fenced,    \* the walkers whose heartbeat found lock or lease taken
  beat,      \* the heartbeats that have read the lock and not written it
  ahead,     \* the walkers that beat while another's heartbeat was midway
  faults,    \* faults so far
  lapsed,    \* whether a lock ever expired or went with its session
  halted     \* whether a cleanup ever halted

vars == <<backend, lock, runs, cmd, fenced, beat, ahead, faults, lapsed, halted>>
quiet == <<backend, fenced, beat, ahead, faults, lapsed, halted>>

NoLock == [kind |-> "none", owner |-> "nobody", fresh |-> FALSE]
LockOf(p) == [kind |-> "held", owner |-> p, fresh |-> TRUE]
Idle == [at |-> "done", run |-> 0, from |-> "NONE", to |-> "NONE"]

At(p, at) == cmd[p].at = at
Goes(p, at) == cmd' = [cmd EXCEPT ![p].at = at]
Ends(p) == cmd' = [cmd EXCEPT ![p] = Idle]

My(p) == runs[cmd[p].run]

(* A command that fails after it has the lock leaves through Unlock.       *)
Abandons(p) == cmd' = [cmd EXCEPT ![p] = [Idle EXCEPT !.at = "unlock"]]

-----------------------------------------------------------------------------
(* Starting: execute looks for prior runs before it has the lock           *)

Statuses == {runs[i].status : i \in DOMAIN runs}

First(p) == IF Kind[p] = "execute" THEN "prior" ELSE "lock"

(* Anything left undone refuses, anything complete makes it a no-op, and a *)
(* cancelled run alone refuses too.                                        *)
PriorRuns(p) ==
  /\ At(p, "prior")
  /\ IF Statuses = {} THEN Goes(p, "lock") ELSE Ends(p)
  /\ UNCHANGED <<lock, runs, quiet>>

-----------------------------------------------------------------------------
(* The target's lock *)

(* pg_try_advisory_lock answers at once.                                   *)
TryAdvisoryLock(p) ==
  /\ backend = "sql" /\ At(p, "lock")
  /\ IF lock = NoLock THEN lock' = LockOf(p) /\ Goes(p, "locked")
                      ELSE UNCHANGED lock /\ Ends(p)
  /\ UNCHANGED <<runs, quiet>>

(* O_EXCL decides who makes the file; its body is written after.           *)
CreateLock(p) ==
  /\ backend = "file" /\ At(p, "lock")
  /\ IF lock = NoLock
     THEN lock' = [NoLock EXCEPT !.kind = "blank"] /\ Goes(p, "fill")
     ELSE UNCHANGED lock /\ Goes(p, "exists")
  /\ UNCHANGED <<runs, quiet>>

FillLock(p) ==
  /\ At(p, "fill")
  /\ \/ lock' = LockOf(p) /\ Goes(p, "locked")
     \/ lock' = NoLock /\ Ends(p)   \* a failed write removes the file
  /\ UNCHANGED <<runs, quiet>>

(* Gone means contended and blank means undecodable: both fail the command.*)
Expired == lock.kind = "held" /\ ~lock.fresh

(* Mutant: a lock file that is there is taken over, expired or not. *)
ReadLockGreedy(p) ==
  /\ At(p, "exists")
  /\ IF lock.kind = "held" THEN Goes(p, "takeover") ELSE Ends(p)
  /\ UNCHANGED <<lock, runs, quiet>>

ReadLock(p) ==
  /\ At(p, "exists")
  /\ IF Expired THEN Goes(p, "takeover") ELSE Ends(p)
  /\ UNCHANGED <<lock, runs, quiet>>

TakeOver(p) ==
  /\ At(p, "takeover") /\ lock' = LockOf(p) /\ Goes(p, "readback")
  /\ UNCHANGED <<runs, quiet>>

ReadBack(p) ==
  /\ At(p, "readback")
  /\ IF lock.owner = p THEN Goes(p, "locked") ELSE Ends(p)
  /\ UNCHANGED <<lock, runs, quiet>>

(* Held: the session answers a ping, or the file still has our token.      *)
Held(p) == lock.owner = p

(* Only the lock's own token is removed, as of the read before.            *)
ReadToUnlock(p) ==
  /\ At(p, "unlock") /\ IF Held(p) THEN Goes(p, "remove") ELSE Ends(p)
  /\ UNCHANGED <<lock, runs, quiet>>

RemoveLock(p) ==
  /\ At(p, "remove") /\ Ends(p)
  /\ lock' = IF backend = "sql" /\ ~Held(p) THEN lock ELSE NoLock
  /\ UNCHANGED <<runs, quiet>>

-----------------------------------------------------------------------------
(* Leases *)

Leasable(r, p) == r.holder \in {"nobody", p} \/ ~r.fresh

Abandoned(r) == r.status = "RUNNING" /\ (r.holder = "nobody" \/ ~r.fresh)

Leased(i, p) == [runs EXCEPT ![i].holder = p, ![i].fresh = TRUE]

(* AcquireLease, wherever a command calls it: refused, the command leaves  *)
(* the run as it is.                                                       *)
TakesLease(p, next) ==
  IF Leasable(My(p), p) THEN runs' = Leased(cmd[p].run, p) /\ Goes(p, next)
                        ELSE UNCHANGED runs /\ Abandons(p)

-----------------------------------------------------------------------------
(* execute opens a run, resume adopts one *)

CreateRun(p) ==
  /\ At(p, "locked") /\ Kind[p] = "execute"
  /\ \/ /\ Len(runs) < MaxRuns
        /\ runs' = Append(runs, [status |-> "RUNNING", holder |-> "nobody", fresh |-> FALSE])
        /\ cmd' = [cmd EXCEPT ![p].at = "lease", ![p].run = Len(runs) + 1]
     \/ Abandons(p) /\ UNCHANGED runs   \* the topology check fails
  /\ UNCHANGED <<lock, quiet>>

(* Runs found RUNNING without a live lease under the lock are orphans: one *)
(* is looked up, and marked by a compare-and-set in a step of its own.     *)
FindOrphans(p) ==
  /\ At(p, "locked") /\ Kind[p] = "resume"
  /\ \/ /\ Held(p)
        /\ \E i \in DOMAIN runs :
             Abandoned(runs[i]) /\ cmd' = [cmd EXCEPT ![p].at = "mark", ![p].run = i]
     \/ Held(p) /\ ~(\E i \in DOMAIN runs : Abandoned(runs[i])) /\ Goes(p, "choose")
     \/ ~Held(p) /\ Abandons(p)
  /\ UNCHANGED <<lock, runs, quiet>>

MarkOrphaned(p) ==
  /\ At(p, "mark")
  /\ IF My(p).status = "RUNNING"
     THEN runs' = [runs EXCEPT ![cmd[p].run].status = "ORPHANED"] /\ Goes(p, "locked")
     ELSE UNCHANGED runs /\ Abandons(p)
  /\ UNCHANGED <<lock, quiet>>

Resumable == {i \in DOMAIN runs : runs[i].status \in ResumableStatuses}

(* The newest; then the lock is asked for once more before the adoption.   *)
ChooseRun(p) ==
  /\ At(p, "choose")
  /\ \/ /\ Held(p)
        /\ \E i \in Resumable :
             /\ \A k \in Resumable : k <= i
             /\ cmd' = [cmd EXCEPT ![p].at = "adopt", ![p].run = i, ![p].from = runs[i].status]
     \/ (~Held(p) \/ Resumable = {}) /\ Abandons(p)
  /\ UNCHANGED <<lock, runs, quiet>>

AdoptOrphan(p) ==
  /\ At(p, "adopt")
  /\ IF My(p).status = cmd[p].from
     THEN runs' = [runs EXCEPT ![cmd[p].run].status = "RUNNING"] /\ Goes(p, "take")
     ELSE UNCHANGED runs /\ Abandons(p)
  /\ UNCHANGED <<lock, quiet>>

TakeLease(p) == At(p, "take") /\ TakesLease(p, "cleanup") /\ UNCHANGED <<lock, quiet>>

(* Cleanup sends its drops with no heartbeat running; if it halts the run  *)
(* is failed.                                                              *)
Cleanup(p) ==
  /\ At(p, "cleanup")
  /\ \/ Goes(p, "lease") /\ UNCHANGED halted
     \/ cmd' = [cmd EXCEPT ![p].at = "halt", ![p].to = "FAILED"] /\ halted' = TRUE
  /\ UNCHANGED <<backend, lock, runs, fenced, beat, ahead, faults, lapsed>>

-----------------------------------------------------------------------------
(* The walk *)

AcquireLease(p) == At(p, "lease") /\ TakesLease(p, "walking") /\ UNCHANGED <<lock, quiet>>

Walking(p) == At(p, "walking")

Fault == faults < MaxFaults /\ faults' = faults + 1

(* The heartbeat: the lock first, then the lease.  Only a token or a holder*)
(* that is another's fences; a missing lock file is an error like any, and *)
(* the lease is then not renewed.  A write comes sooner than the next tick *)
(* of anybody's, or it counts as a loss.                                   *)
ReadToRefresh(p) ==
  /\ Walking(p) /\ p \notin beat \cup fenced
  /\ IF p \in ahead THEN Fault ELSE UNCHANGED faults
  /\ ahead' = ahead \ {p}
  /\ IF backend = "sql" \/ lock.owner = p
     THEN beat' = beat \cup {p} /\ UNCHANGED fenced
     ELSE /\ fenced' = IF lock.kind = "held" THEN fenced \cup {p} ELSE fenced
          /\ UNCHANGED beat
  /\ UNCHANGED <<backend, lock, runs, cmd, lapsed, halted>>

(* Mutant: a lost lease or lock is an error like any, and fences nobody. *)
RenewUnfenced(p) ==
  /\ p \in beat /\ Walking(p) /\ beat' = beat \ {p}
  /\ ahead' = IF beat' = {} THEN {} ELSE ahead \cup {p}
  /\ lock' = IF backend = "file" THEN LockOf(p) ELSE lock
  /\ runs' = IF My(p).holder = p THEN Leased(cmd[p].run, p) ELSE runs
  /\ UNCHANGED <<backend, cmd, fenced, faults, lapsed, halted>>

Renew(p) ==
  /\ p \in beat /\ Walking(p) /\ beat' = beat \ {p}
  /\ ahead' = IF beat' = {} THEN {} ELSE ahead \cup {p}
  /\ lock' = IF backend = "file" THEN LockOf(p) ELSE lock
  /\ IF My(p).holder = p
     THEN runs' = Leased(cmd[p].run, p) /\ UNCHANGED fenced
     ELSE fenced' = fenced \cup {p} /\ UNCHANGED runs
  /\ UNCHANGED <<backend, cmd, faults, lapsed, halted>>

(* Mutant: a stopped walk takes the node's word for the run's. *)
EndWalkSkipped(p) ==
  /\ Walking(p) /\ p \notin beat
  /\ cmd' = [cmd EXCEPT ![p].at = "finish", ![p].to = "SKIPPED"]
  /\ UNCHANGED <<lock, runs, quiet>>

(* The walk ends complete, failed, or stopped at a node boundary, which is *)
(* where a fenced walker stops; the heartbeat has ended by then.           *)
EndWalk(p) ==
  /\ Walking(p) /\ p \notin beat
  /\ \E to \in {"COMPLETED", "FAILED", "INTERRUPTED"} :
       /\ p \in fenced => to = "INTERRUPTED"
       /\ cmd' = [cmd EXCEPT ![p].at = "finish", ![p].to = to]
  /\ UNCHANGED <<lock, runs, quiet>>

(* Mutant: finish compares with the status the command found. *)
FinishStale(p) ==
  /\ cmd[p].at \in {"finish", "halt"}
  /\ runs' = IF My(p).status = cmd[p].from
             THEN [runs EXCEPT ![cmd[p].run].status = cmd[p].to] ELSE runs
  /\ IF At(p, "finish") THEN Goes(p, "release") ELSE Abandons(p)
  /\ UNCHANGED <<lock, quiet>>

(* finish compares with RUNNING only, and a miss is no more than a warning.*)
Finish(p) ==
  /\ cmd[p].at \in {"finish", "halt"}
  /\ runs' = IF My(p).status = "RUNNING"
             THEN [runs EXCEPT ![cmd[p].run].status = cmd[p].to] ELSE runs
  /\ IF At(p, "finish") THEN Goes(p, "release") ELSE Abandons(p)
  /\ UNCHANGED <<lock, quiet>>

ReleaseLease(p) ==
  /\ At(p, "release") /\ Abandons(p)
  /\ runs' = IF My(p).holder = p
             THEN [runs EXCEPT ![cmd[p].run].holder = "nobody", ![cmd[p].run].fresh = FALSE]
             ELSE runs
  /\ UNCHANGED <<lock, quiet>>

-----------------------------------------------------------------------------
(* Time, crashes, lost sessions *)

(* Lock and lease have one lifetime and are renewed together, so they run  *)
(* out together; a lease may also run out alone.                           *)
Stale == [i \in DOMAIN runs |-> [runs[i] EXCEPT !.fresh = FALSE]]

ExpireLock ==
  /\ Fault /\ backend = "file" /\ lock.kind = "held" /\ lock.fresh
  /\ lock' = [lock EXCEPT !.fresh = FALSE] /\ runs' \in {runs, Stale} /\ lapsed' = TRUE
  /\ UNCHANGED <<backend, cmd, fenced, beat, ahead, halted>>

ExpireLease ==
  /\ Fault
  /\ \E i \in DOMAIN runs : runs[i].fresh /\ runs' = [runs EXCEPT ![i].fresh = FALSE]
  /\ UNCHANGED <<backend, lock, cmd, fenced, beat, ahead, lapsed, halted>>

(* A killed process leaves its files; its session ends, and a session lock *)
(* with it.                                                                *)
Crash(p) ==
  /\ Fault /\ cmd[p].at \notin {First(p), "done", "dead"}
  /\ cmd' = [cmd EXCEPT ![p] = [Idle EXCEPT !.at = "dead"]]
  /\ beat' = beat \ {p} /\ ahead' = IF beat' = {} THEN {} ELSE ahead
  /\ lock' = IF backend = "sql" /\ lock.owner = p THEN NoLock ELSE lock
  /\ UNCHANGED <<backend, runs, fenced, lapsed, halted>>

(* The connection breaks, and may stay broken until the lease has run out. *)
LoseSession ==
  /\ Fault /\ backend = "sql" /\ lock.kind = "held"
  /\ lock' = NoLock /\ runs' \in {runs, Stale} /\ lapsed' = TRUE
  /\ UNCHANGED <<backend, cmd, fenced, beat, ahead, halted>>

-----------------------------------------------------------------------------

Init ==
  /\ backend \in Backends
  /\ lock = NoLock /\ runs = <<>> /\ cmd = [p \in Process |-> [Idle EXCEPT !.at = First(p)]]
  /\ fenced = {} /\ beat = {} /\ ahead = {}
  /\ faults = 0 /\ lapsed = FALSE /\ halted = FALSE

Command(p) ==
  \/ PriorRuns(p) \/ TryAdvisoryLock(p) \/ CreateLock(p)
  \/ FillLock(p) \/ ReadLock(p) \/ TakeOver(p) \/ ReadBack(p)
  \/ CreateRun(p) \/ FindOrphans(p) \/ MarkOrphaned(p) \/ ChooseRun(p)
  \/ AdoptOrphan(p) \/ TakeLease(p) \/ Cleanup(p) \/ AcquireLease(p)
  \/ EndWalk(p) \/ Finish(p) \/ ReleaseLease(p)
  \/ ReadToUnlock(p) \/ RemoveLock(p)

Heartbeat(p) == ReadToRefresh(p) \/ Renew(p)

Next ==
  \/ \E p \in Process : Command(p) \/ Heartbeat(p) \/ Crash(p)
  \/ ExpireLock \/ ExpireLease \/ LoseSession

(* The ticker ticks on, however long the statement in flight takes.        *)
Spec == Init /\ [][Next]_vars /\ \A p \in Process : WF_vars(Heartbeat(p))

-----------------------------------------------------------------------------

Lock == [kind : {"none", "blank", "held"}, owner : Process \cup {"nobody"}, fresh : BOOLEAN]

Run == [status : RunStatus, holder : Process \cup {"nobody"}, fresh : BOOLEAN]

(* Where a command has the target to itself, and everywhere it can be.     *)
HoldingPlace == {"locked", "lease", "mark", "choose", "adopt", "take", "cleanup",
                 "halt", "walking", "finish", "release"}

Place == {"prior", "lock", "fill", "exists", "takeover", "readback", "unlock",
          "remove", "done", "dead"} \cup HoldingPlace

Cmd == [at : Place, run : Nat, from : RunStatus \cup {"NONE"}, to : RunStatus \cup {"NONE"}]

TypeOK ==
  /\ backend \in Backends
  /\ lock \in Lock
  /\ runs \in Seq(Run)
  /\ cmd \in [Process -> Cmd]
  /\ \A p \in Process : cmd[p].run \in 0..Len(runs)
  /\ fenced \subseteq Process /\ beat \subseteq Process /\ ahead \subseteq Process
  /\ faults \in 0..MaxFaults /\ lapsed \in BOOLEAN /\ halted \in BOOLEAN

Holding(p) == cmd[p].at \in HoldingPlace

(* Two commands hold one target only after a lock expired under its holder *)
(* or went with its session (TryLock, fileLock, sqlLock).                  *)
SoleHolder ==
  \A p, q \in Process : Holding(p) /\ Holding(q) /\ p # q => lapsed

Unfenced(p) == Walking(p) /\ p \notin fenced

(* Two walkers do not go on for ever beside each other: sooner or later    *)
(* the heartbeat of one finds the other's token or lease and fences it     *)
(* (FR-LOCK-3, startHeartbeat).  A session lock is never read again, so    *)
(* under "sql" it takes one run, whose lease tells; a lock file somebody   *)
(* removed tells nobody anything.                                          *)
FencedOut ==
  \A p, q \in Process :
    p # q /\ Unfenced(p) /\ Unfenced(q) /\ (backend = "file" \/ cmd[p].run = cmd[q].run)
      ~> (~(Unfenced(p) /\ Unfenced(q)) \/ lock.kind # "held")

(* When every command has returned and nothing died or expired, no run is  *)
(* left RUNNING for nobody (finish, AdoptOrphan's compare-and-set).  A     *)
(* cleanup that halts is excepted: it fails its run and keeps its lease.   *)
NothingLeftRunning ==
  faults = 0 /\ ~halted /\ (\A p \in Process : cmd[p].at \in {First(p), "done"})
    => \A i \in DOMAIN runs : runs[i].status # "RUNNING"

=============================================================================
