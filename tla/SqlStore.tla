------------------------------ MODULE SqlStore ------------------------------
(***************************************************************************)
(* The PostgreSQL state store (engine/state/sql.go), statement by          *)
(* statement.  A checkpoint is one READ COMMITTED transaction: an UPDATE   *)
(* that compares and sets under the row's lock, the insert of its event    *)
(* numbered MAX(seq) + 1, the commit.  Two transactions that read the same *)
(* MAX collide on UNIQUE (run_id, seq): the second waits for the first and *)
(* is rolled back whole, record and event, when it commits.  A transaction,*)
(* a snapshot and the target's advisory lock pin a connection each.        *)
(***************************************************************************)
EXTENDS StoreCalls

CONSTANTS
  PoolSize,   \* the limit on a process's connections; database/sql itself sets none
  Walking     \* the processes that hold the target's advisory lock

VARIABLE log   \* the rows of audit_event, committed, each [seq, about, to]

sqlVars == <<records, job, calls, log>>

-----------------------------------------------------------------------------
(* Connections and row locks *)

(* A transaction holds its connection to the end, a rows cursor to Close.  *)
InTransaction(c) ==
  job[c].at \in {"begun", "touched", "blocked", "logged", "snapped", "listed"}

Pinned(c) == IF InTransaction(c) THEN 1 ELSE 0

(* Mutant: the rows of the runs stay open while each run's nodes are read. *)
ReadingOpen(c) == IF job[c].at = "listed" THEN 1 ELSE 0

(* Listing the runs closes its cursor before the nodes are read.           *)
Reading(c) == 0

(* The session lock pins one for the life of the command.                  *)
LockPins(p) == IF p \in Walking THEN 1 ELSE 0

InUse(p) ==
  LET Inside == {c \in Client : Host[c] = p}
  IN  LockPins(p) + Cardinality({c \in Inside : Pinned(c) = 1})
                  + Cardinality({c \in Inside : Reading(c) = 1})

Free(c) == InUse(Host[c]) < PoolSize

(* The row an UPDATE locks, until its transaction ends.                    *)
Row(j) == CASE j.op \in {"open", "status", "flag"} -> "run"
            [] j.op = "node" -> j.about
            [] OTHER -> "none"

RowFree(c) ==
  \A d \in Client \ {c} :
    job[d].at \in {"touched", "blocked", "logged"} /\ Row(job[c]) # "none"
      => Row(job[d]) # Row(job[c])

Becomes(c, j) == job' = [job EXCEPT ![c] = j]

Moves(c, at) == Becomes(c, [job[c] EXCEPT !.at = at])

Returns(c) == Becomes(c, Idle)

-----------------------------------------------------------------------------
(* One transaction *)

Transactional == {"open", "status", "node", "authorize", "flag", "note"}

Begin(c) ==
  /\ job[c].at = "ready" /\ job[c].op \in Transactional /\ Free(c)
  /\ Moves(c, "begun")
  /\ UNCHANGED <<records, calls, log>>

(* The row is compared once its lock is free.  A miss rolls back before it *)
(* reads why, for the read needs a connection of its own.                  *)
Touch(c) ==
  /\ job[c].at = "begun" /\ RowFree(c)
  /\ Moves(c, IF Matches(job[c]) THEN "touched" ELSE "refused")
  /\ UNCHANGED <<records, calls, log>>

Diagnose(c) ==
  /\ job[c].at = "refused" /\ Free(c) /\ Returns(c)
  /\ UNCHANGED <<records, calls, log>>

(* Mutant: MAX(seq) where MAX(seq) + 1 is due. *)
NextSeqReused == Len(log)

(* MAX(seq) + 1 over what is committed now.                                *)
NextSeq == Len(log) + 1

Claimants(c, n) == {d \in Client \ {c} : job[d].at = "logged" /\ job[d].seq = n}

InsertAudit(c) ==
  /\ job[c].at = "touched"
  /\ Becomes(c, [job[c] EXCEPT !.seq = NextSeq,
                   !.at = IF Claimants(c, NextSeq) = {} THEN "logged" ELSE "blocked"])
  /\ UNCHANGED <<records, calls, log>>

(* Mutant: the loser's event is dropped and its record change committed. *)
UnblockKeepsRecord(c) ==
  /\ job[c].at = "blocked" /\ Claimants(c, job[c].seq) = {}
  /\ Recorded(job[c]) /\ Returns(c)
  /\ UNCHANGED <<lease, acted, calls, log>>

(* The unique index makes the later of two equal numbers wait: if the      *)
(* earlier commits, the later fails and takes its record change with it.   *)
Unblock(c) ==
  /\ job[c].at = "blocked" /\ Claimants(c, job[c].seq) = {}
  /\ IF job[c].seq <= Len(log) THEN Returns(c) ELSE Moves(c, "logged")
  /\ UNCHANGED <<records, calls, log>>

(* After the flag: a live run keeps its status, any other is cancelled from*)
(* the status the UPDATE returned, if the diagram lets it be.              *)
AfterFlag(j) ==
  IF j.live \/ ~ValidRunTransition(status, "CANCELLED") THEN Idle
  ELSE Begun("status", "run", status, "CANCELLED")

After(j) == CASE j.op = "authorize" -> [j EXCEPT !.at = "granted"]
              [] j.op = "flag" -> AfterFlag(j)
              [] OTHER -> Idle

Commit(c) ==
  LET j == job[c] IN
  /\ j.at = "logged"
  /\ Recorded(j)
  /\ log' = Append(log, [seq |-> j.seq, about |-> j.about, to |-> j.to])
  /\ Becomes(c, After(j))
  /\ UNCHANGED <<lease, acted, calls>>

(* The guarded statement goes out only after the commit; then its outcome  *)
(* is logged, in a transaction of its own.                                 *)
Act(c) ==
  /\ job[c].at = "granted" /\ acted' = acted + 1
  /\ Becomes(c, Begun("note", "note", "NONE", "done"))
  /\ UNCHANGED <<status, stop, state, lease, granted, calls, log>>

-----------------------------------------------------------------------------
(* The lease: one statement, then its event in another *)

(* The upsert's WHERE is the fence: no row back means another's live lease.*)
AcquireLease(c) ==
  /\ job[c].op = "acquire" /\ job[c].at = "ready" /\ Free(c)
  /\ \/ /\ Leasable(Host[c]) /\ lease' = [holder |-> Host[c], fresh |-> TRUE]
        /\ Becomes(c, Begun("note", "note", "NONE", "lease"))
     \/ /\ ~Leasable(Host[c]) /\ Moves(c, "refused") /\ UNCHANGED lease
  /\ UNCHANGED <<status, stop, state, granted, acted, calls, log>>

Heartbeat(c) ==
  /\ job[c].op = "beat" /\ job[c].at = "ready" /\ Free(c)
  /\ \/ /\ lease.holder = Host[c] /\ lease' = [lease EXCEPT !.fresh = TRUE]
        /\ Returns(c)
     \/ /\ lease.holder # Host[c] /\ Moves(c, "refused") /\ UNCHANGED lease
  /\ UNCHANGED <<status, stop, state, granted, acted, calls, log>>

ReadOwnLease(c) ==
  /\ job[c].op = "release" /\ job[c].at = "ready" /\ Free(c)
  /\ IF lease.holder = Host[c] THEN Moves(c, "owned") ELSE Returns(c)
  /\ UNCHANGED <<records, calls, log>>

(* The DELETE names the holder again, so a lease taken since the read      *)
(* survives it; the event is written either way.                           *)
ReleaseLease(c) ==
  /\ job[c].at = "owned" /\ Free(c)
  /\ lease' = IF lease.holder = Host[c] THEN NoLease ELSE lease
  /\ Becomes(c, Begun("note", "note", "NONE", "released"))
  /\ UNCHANGED <<status, stop, state, granted, acted, calls, log>>

-----------------------------------------------------------------------------
(* cancel, and the reads of resume's inspection *)

Flag(live) == [Begun("flag", "note", "NONE", "stop") EXCEPT !.live = live]

(* RequestCancel looks at the run, then at its lease, then flags it: three *)
(* statements, and the flag is set whatever the run has become meanwhile.  *)
ReadRun(c) ==
  /\ job[c].op = "cancel" /\ job[c].at = "ready" /\ Free(c)
  /\ \/ status \in TerminalStatuses \cup {"NONE"} /\ Returns(c)
     \/ status = "RUNNING" /\ Moves(c, "running")
     \/ status \in ResumableStatuses /\ Becomes(c, Flag(FALSE))
  /\ UNCHANGED <<records, calls, log>>

ReadLease(c) ==
  /\ job[c].op = "cancel" /\ job[c].at = "running" /\ Free(c)
  /\ Becomes(c, Flag(lease.holder # "nobody" /\ lease.fresh))
  /\ UNCHANGED <<records, calls, log>>

(* The planner's read-only snapshot stays open while claims are looked up  *)
(* through the store: the runs, and then the nodes of each.                *)
OpenSnapshot(c) ==
  /\ job[c].op = "inspect" /\ job[c].at = "ready" /\ Free(c)
  /\ Moves(c, "snapped")
  /\ UNCHANGED <<records, calls, log>>

ListRuns(c) ==
  /\ job[c].at = "snapped" /\ Free(c)
  /\ Moves(c, "listed")
  /\ UNCHANGED <<records, calls, log>>

ListNodes(c) ==
  /\ job[c].at = "listed" /\ Free(c)
  /\ Returns(c)
  /\ UNCHANGED <<records, calls, log>>

-----------------------------------------------------------------------------

Init == StoreInit /\ log = <<>>

Step(c) ==
  \/ Begin(c) \/ Touch(c) \/ Diagnose(c) \/ InsertAudit(c) \/ Unblock(c)
  \/ Commit(c) \/ Act(c) \/ AcquireLease(c) \/ Heartbeat(c)
  \/ ReadOwnLease(c) \/ ReleaseLease(c) \/ ReadRun(c) \/ ReadLease(c)
  \/ OpenSnapshot(c) \/ ListRuns(c) \/ ListNodes(c)

(* An error, a cancelled context or a killed process: the server rolls back*)
(* what is open, and whatever was committed stays.                         *)
Fail(c) == Active(c) /\ Returns(c) /\ UNCHANGED <<records, calls, log>>

Next ==
  \/ \E c \in Client : Call(c) /\ UNCHANGED log
  \/ \E c \in Client : Step(c) \/ Fail(c)
  \/ Expire /\ UNCHANGED log

Spec == Init /\ [][Next]_sqlVars

=============================================================================
