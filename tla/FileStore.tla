----------------------------- MODULE FileStore -----------------------------
(***************************************************************************)
(* The file state store (engine/state/file.go, engine/state/atomic.go) as  *)
(* the goroutines of one process use it; keeping other processes out is    *)
(* the target lock's part.  A call reads, writes and logs under the store's*)
(* mutex.  A record is replaced by renaming a finished temporary file over *)
(* it; the audit trail alone is appended to in place, so a crash or a full *)
(* disk can leave part of a line at its end, and the record is then ahead  *)
(* of the trail by that event.                                             *)
(***************************************************************************)
EXTENDS StoreCalls

CONSTANTS
  Alone,      \* the clients that are a process of their own, such as cancel
  MaxFaults   \* bounds the crashes and failed writes in a behaviour

VARIABLES
  lines,    \* audit.log, each line [seq, about, to, text, ended]
  cursor,   \* auditSeq, [seq, size], the size -1 when there is none
  mutex,    \* the client that holds the store's mutex, or "free"
  holder,   \* the process now, by the name its leases carry
  faults    \* crashes and failed writes so far

fileVars == <<records, job, calls, lines, cursor, mutex, holder, faults>>

(* text: an event, a part of one, nothing, or several run into one line.   *)
LineText == {"event", "torn", "empty", "merged"}

NoCursor == [seq |-> 0, size |-> -1]

-----------------------------------------------------------------------------
(* Reading the trail *)

EndsMidLine(ls) == ls # <<>> /\ ~ls[Len(ls)].ended

(* What readAudit cannot pass over: a line that is neither an event nor an *)
(* event cut short, unless the file ends inside it.                        *)
Malformed(i) ==
  lines[i].text = "merged" /\ ~(i = Len(lines) /\ EndsMidLine(lines))

Entry(l) == [seq |-> l.seq, about |-> l.about, to |-> l.to]

(* The whole events of the first n lines, in the order of the file, for    *)
(* each n: a torn or a blank line is passed over.                          *)
Reading(ls) ==
  LET got[n \in 0..Len(ls)] ==
        IF n = 0 THEN <<>>
        ELSE IF ls[n].text = "event" THEN Append(got[n - 1], Entry(ls[n])) ELSE got[n - 1]
  IN  got

readAudit == Reading(lines)[Len(lines)]

countAudit == IF readAudit = <<>> THEN 0 ELSE readAudit[Len(readAudit)].seq

(* Lines only ever grow, so their number stands for the size in bytes.     *)
auditSize == Len(lines)

(* Mutant: the cached number counts whatever has been written since. *)
NextSeqCached == 1 + (IF cursor.size >= 0 THEN cursor.seq ELSE countAudit)

(* The cached number counts while the size is the one it was cached with.  *)
NextSeq == 1 + (IF cursor.size = auditSize THEN cursor.seq ELSE countAudit)

-----------------------------------------------------------------------------
(* Taking and giving back the mutex *)

(* Whose process it is now: the walk and its heartbeat, or cancel.         *)
Present(c) == \A d \in Client \ {c} : Active(d) => {c, d} \cap Alone = {}

Becomes(c, j) == job' = [job EXCEPT ![c] = j]

Locks(c) == mutex = "free" /\ mutex' = c

Returns(c) == mutex' = "free" /\ Becomes(c, Idle)

(* Every checkpoint compares under the mutex and leaves on a mismatch.     *)
Enter(c) ==
  /\ job[c].at = "ready"
  /\ job[c].op \in {"open", "status", "node", "authorize"}
  /\ Locks(c)
  /\ Becomes(c, [job[c] EXCEPT !.at = IF Matches(job[c]) THEN "write" ELSE "leave"])
  /\ UNCHANGED <<records, calls, lines, cursor, holder>>

Leave(c) ==
  /\ job[c].at = "leave" /\ Returns(c)
  /\ UNCHANGED <<records, calls, lines, cursor, holder>>

(* writeFile: the rename shows the whole new record or the whole old one.  *)
Write(c) ==
  /\ job[c].at = "write" /\ Recorded(job[c])
  /\ Becomes(c, [job[c] EXCEPT !.at = "log"])
  /\ UNCHANGED <<lease, acted, calls, lines, cursor, mutex, holder>>

Fault == faults < MaxFaults /\ faults' = faults + 1

(* Another process opening the same directory sweeps every temporary file, *)
(* also the one about to be renamed: the write fails and the call with it. *)
SweptAway(c) ==
  /\ Fault
  /\ job[c].at = "write" /\ Returns(c)
  /\ UNCHANGED <<records, calls, lines, cursor, holder>>

-----------------------------------------------------------------------------
(* Appending an event *)

LineOf(j, ended) ==
  [seq |-> NextSeq, about |-> j.about, to |-> j.to, text |-> "event", ended |-> ended]

Fragment(text, ended) ==
  [seq |-> 0, about |-> "run", to |-> "NONE", text |-> text, ended |-> ended]

(* Bytes go where the file ends, be it the middle of a line.               *)
Put(ls, l) ==
  IF EndsMidLine(ls) THEN [ls EXCEPT ![Len(ls)] = Fragment("merged", l.ended)]
  ELSE Append(ls, l)

(* A line a crash left open is closed first, so it stays alone.            *)
NeedsSeparator == EndsMidLine(lines)

(* Mutant: the event is appended to whatever is there. *)
ClosedNever == lines

Closed == IF NeedsSeparator THEN [lines EXCEPT ![Len(lines)].ended = TRUE] ELSE lines

(* How much of it is on disk when a crash, or an error, stops the append.  *)
Reached(j) ==
  {lines, Put(Closed, Fragment("torn", FALSE)),
   Put(Closed, LineOf(j, FALSE)), Put(Closed, LineOf(j, TRUE))}
  \cup (IF NeedsSeparator THEN {Append(Closed, Fragment("empty", TRUE))} ELSE {})

After(j) ==
  CASE j.op = "authorize" -> [j EXCEPT !.at = "granted"]
    [] j.op = "flag" /\ ~j.live -> [Begun("status", "run", status, "CANCELLED") EXCEPT !.at = "write"]
    [] OTHER -> Idle

(* The mutex is kept from cancel's flag through its status change.         *)
Unlocks(j) == mutex' = IF After(j).at = "write" THEN mutex ELSE "free"

Emit(c) ==
  /\ job[c].at = "log"
  /\ lines' = Put(Closed, LineOf(job[c], TRUE))
  /\ cursor' = [seq |-> NextSeq, size |-> Len(lines')]
  /\ Becomes(c, After(job[c])) /\ Unlocks(job[c])
  /\ UNCHANGED <<records, calls, holder>>

(* The write or the sync fails and the process lives: the cursor stays as  *)
(* it was, and the size tells on it.                                       *)
EmitFails(c) ==
  /\ Fault
  /\ job[c].at = "log" /\ lines' \in Reached(job[c])
  /\ Returns(c)
  /\ UNCHANGED <<records, calls, cursor, holder>>

(* The guarded statement runs outside the mutex, which status and cancel   *)
(* need meanwhile; its outcome is logged under it again.                   *)
Act(c) ==
  /\ job[c].at = "granted" /\ acted' = acted + 1
  /\ Becomes(c, [Begun("note", "note", "NONE", "done") EXCEPT !.at = "acted"])
  /\ UNCHANGED <<status, stop, state, lease, granted, calls, lines, cursor, mutex, holder>>

Report(c) ==
  /\ job[c].at = "acted" /\ Locks(c)
  /\ Becomes(c, [job[c] EXCEPT !.at = "log"])
  /\ UNCHANGED <<records, calls, lines, cursor, holder>>

-----------------------------------------------------------------------------
(* The lease *)

AcquireLease(c) ==
  /\ job[c].op = "acquire" /\ job[c].at = "ready" /\ Locks(c)
  /\ \/ /\ Leasable(holder) /\ lease' = [holder |-> holder, fresh |-> TRUE]
        /\ Becomes(c, [job[c] EXCEPT !.at = "log"])
     \/ /\ ~Leasable(holder) /\ UNCHANGED lease
        /\ Becomes(c, [job[c] EXCEPT !.at = "leave"])
  /\ UNCHANGED <<status, stop, state, granted, acted, calls, lines, cursor, holder>>

Heartbeat(c) ==
  /\ job[c].op = "beat" /\ job[c].at = "ready" /\ Locks(c)
  /\ lease' = IF lease.holder = holder THEN [lease EXCEPT !.fresh = TRUE] ELSE lease
  /\ Becomes(c, [job[c] EXCEPT !.at = "leave"])
  /\ UNCHANGED <<status, stop, state, granted, acted, calls, lines, cursor, holder>>

ReleaseLease(c) ==
  /\ job[c].op = "release" /\ job[c].at = "ready" /\ Locks(c)
  /\ \/ /\ lease.holder = holder /\ lease' = NoLease
        /\ Becomes(c, [job[c] EXCEPT !.at = "log"])
     \/ /\ lease.holder # holder /\ UNCHANGED lease
        /\ Becomes(c, [job[c] EXCEPT !.at = "leave"])
  /\ UNCHANGED <<status, stop, state, granted, acted, calls, lines, cursor, holder>>

-----------------------------------------------------------------------------
(* cancel reads run and lease and writes the flag under one hold           *)

RequestCancel(c) ==
  /\ job[c].op = "cancel" /\ job[c].at = "ready" /\ Locks(c)
  /\ Becomes(c, IF status \in TerminalStatuses \cup {"NONE"}
                THEN [job[c] EXCEPT !.at = "leave"]
                ELSE [job[c] EXCEPT !.op = "flag", !.at = "write", !.live = LooksLive])
  /\ UNCHANGED <<records, calls, lines, cursor, holder>>

(* The reads of resume's inspection, each a hold of the mutex.             *)
FindRuns(c) ==
  /\ job[c].op = "inspect" /\ job[c].at = "ready" /\ Locks(c)
  /\ Becomes(c, [job[c] EXCEPT !.at = "leave"])
  /\ UNCHANGED <<records, calls, lines, cursor, holder>>

-----------------------------------------------------------------------------

(* A killed process loses what it was doing, its mutex and its cursor; the *)
(* one started next is another holder.                                     *)
Crash ==
  /\ Fault
  /\ \E c \in Client : Active(c)
  /\ IF mutex # "free" /\ job[mutex].at = "log"
     THEN lines' \in Reached(job[mutex]) ELSE UNCHANGED lines
  /\ job' = [c \in Client |-> Idle]
  /\ mutex' = "free" /\ cursor' = NoCursor
  /\ holder' \in Process \ {holder}
  /\ UNCHANGED <<records, calls>>

Init ==
  /\ StoreInit
  /\ lines = <<>> /\ cursor = NoCursor /\ mutex = "free" /\ holder \in Process
  /\ faults = 0

Step(c) ==
  \/ Enter(c) \/ Leave(c) \/ Write(c) \/ Emit(c)
  \/ Act(c) \/ Report(c) \/ AcquireLease(c) \/ Heartbeat(c)
  \/ ReleaseLease(c) \/ RequestCancel(c) \/ FindRuns(c)

Next ==
  \/ \E c \in Client : /\ Call(c) /\ Present(c)
                         /\ UNCHANGED <<lines, cursor, mutex, holder, faults>>
  \/ \E c \in Client : Step(c) /\ UNCHANGED faults
  \/ \E c \in Client : SweptAway(c) \/ EmitFails(c)
  \/ Crash
  \/ Expire /\ UNCHANGED <<lines, cursor, mutex, holder, faults>>

Spec == Init /\ [][Next]_fileVars

(* However often a process dies or an append fails in the middle of a line,*)
(* the next event starts a line of its own and the trail can be read       *)
(* (separator, readAudit).                                                 *)
NoneMalformed == \A i \in DOMAIN lines : ~Malformed(i)

=============================================================================
