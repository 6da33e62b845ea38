----------------------------- MODULE FileStoreProofs -----------------------------
(***************************************************************************)
(* What the file state store keeps under its mutex, for every number of    *)
(* goroutines, crashes and failed appends: one compare-and-set at a time,  *)
(* and a trail whose every line can be read.                               *)
(***************************************************************************)
EXTENDS FileStore, StoreCallsProofs, SequenceTheorems, WellFoundedInduction

-----------------------------------------------------------------------------
(* The inductive invariant *)

Typed ==
  /\ Jobs /\ mutex \in Client \cup {"free"}
  /\ status \in RunStatus \cup {"NONE"} /\ state \in [Node -> NodeState]

(* Inside a call that holds the mutex.                                     *)
Inside == {"write", "log", "leave"}

Excluded == \A c \in Client : job[c].at \in Inside => mutex = c

(* What the call compared is still so when it writes.                      *)
Current(j, run, nodes) ==
  /\ j.op \in {"open", "status"} => run = j.from
  /\ j.op = "node" => nodes[j.about] = j.from

StillCurrent ==
  \A c \in Client : job[c].at = "write" => Current(job[c], status, state)

(* A run that cancel has flagged is one that it may still cancel.          *)
StillFlagged ==
  \A c \in Client :
    job[c].op = "flag" => job[c].at \in {"write", "log"} /\ status \in IncompleteStatuses

(* No event ever ran into the line before it.                              *)
Line(Q) == [seq : Q, about : About, to : Value, text : {"event", "torn", "empty"}, ended : BOOLEAN]

Whole == \E Q : lines \in Seq(Line(Q))

FileInv == Typed /\ Excluded /\ StillCurrent /\ StillFlagged /\ Whole

-----------------------------------------------------------------------------
(* The trail *)

(* More numbers make no fewer lines.                                       *)
LEMMA MoreLines ==
  ASSUME NEW Q, NEW R, Q \subseteq R, NEW s \in Seq(Line(Q))
  PROVE  s \in Seq(Line(R))
<1>1. Line(Q) \subseteq Line(R)
  BY DEF Line
<1>2. s \in [1..Len(s) -> Line(Q)] /\ Len(s) \in Nat
  OBVIOUS
<1>3. s \in [1..Len(s) -> Line(R)]
  BY <1>1, <1>2
<1> QED  BY <1>2, <1>3

(* The separator closes the line a crash left open (separator).            *)
LEMMA ClosedEnds ==
  ASSUME NEW Q, lines \in Seq(Line(Q))
  PROVE  Closed \in Seq(Line(Q)) /\ ~EndsMidLine(Closed)
<1>1. CASE NeedsSeparator
  <2> DEFINE n == Len(lines)
             l == [lines[n] EXCEPT !.ended = TRUE]
  <2>1. n \in Nat /\ lines # <<>> /\ n \in 1..n
    BY <1>1 DEF NeedsSeparator, EndsMidLine
  <2>2. lines[n] \in Line(Q)
    BY <2>1
  <2>3. l \in Line(Q) /\ l.ended = TRUE
    BY <2>2 DEF Line
  <2>4. Closed = [lines EXCEPT ![n] = l]
    BY <1>1 DEF Closed
  <2> HIDE DEF l
  <2>5. Closed \in Seq(Line(Q)) /\ Len(Closed) = n /\ Closed[n] = l
    BY <2>1, <2>3, <2>4, ExceptSeq
  <2> QED  BY <2>3, <2>5 DEF EndsMidLine
<1>2. CASE ~NeedsSeparator
  BY <1>2 DEF NeedsSeparator, Closed
<1> QED  BY <1>1, <1>2

(* So whatever is put there starts a line of its own (appendLine).         *)
LEMMA PutIsWhole ==
  ASSUME NEW Q, lines \in Seq(Line(Q)), NEW R, NEW l \in Line(R)
  PROVE  Put(Closed, l) \in Seq(Line(Q \cup R)) /\ Append(Closed, l) \in Seq(Line(Q \cup R))
<1>1. Closed \in Seq(Line(Q \cup R))
  BY ClosedEnds, MoreLines
<1>2. l \in Line(Q \cup R)
  BY DEF Line
<1>3. Append(Closed, l) \in Seq(Line(Q \cup R))
  BY <1>1, <1>2
<1> QED  BY <1>3, ClosedEnds DEF Put

(* An event, or the part of it a crash leaves, keeps the trail whole.      *)
LEMMA ReachedIsWhole ==
  ASSUME Whole, NEW j \in Job, NEW ls \in Reached(j) \cup {Put(Closed, LineOf(j, TRUE))}
  PROVE  \E Q : ls \in Seq(Line(Q))
<1>1. PICK Q : lines \in Seq(Line(Q))
  BY DEF Whole
<1>2. \A e \in BOOLEAN : LineOf(j, e) \in Line({NextSeq})
  BY DEF LineOf, Line, Job
<1>3. /\ Fragment("torn", FALSE) \in Line({0})
      /\ Fragment("empty", TRUE) \in Line({0})
  BY DEF Fragment, Line, About, Value
<1>4. \A R : \A l \in Line(R) : /\ Put(Closed, l) \in Seq(Line(Q \cup R))
                                /\ Append(Closed, l) \in Seq(Line(Q \cup R))
  BY <1>1, PutIsWhole
<1>5. CASE ls = lines
  BY <1>1, <1>5
<1>6. CASE \E e \in BOOLEAN : ls = Put(Closed, LineOf(j, e))
  BY <1>2, <1>4, <1>6
<1>7. CASE ls = Put(Closed, Fragment("torn", FALSE)) \/ ls = Append(Closed, Fragment("empty", TRUE))
  BY <1>3, <1>4, <1>7
<1> QED  BY <1>5, <1>6, <1>7 DEF Reached

-----------------------------------------------------------------------------
(* One client's step *)

(* The client that moves holds the mutex, takes it free, or leaves it      *)
(* alone; whoever holds it keeps the others' records as they compared them.*)
LEMMA OneMoves ==
  ASSUME FileInv, NEW c \in Client, NEW j \in Job, Legal(j), Becomes(c, j), Whole',
         status' \in RunStatus \cup {"NONE"}, state' \in [Node -> NodeState],
         job[c].at \in Inside \/ UNCHANGED <<status, state>>,
         job[c].at \in Inside \/ mutex = "free" \/ UNCHANGED mutex,
         j.at \in Inside => mutex' = c, mutex' \in Client \cup {"free"},
         j.at = "write" => Current(j, status', state'),
         j.op = "flag" => j.at \in {"write", "log"} /\ status' \in IncompleteStatuses
  PROVE  FileInv'
<1>1. job' \in [Client -> Job] /\ job'[c] = j /\ \A d \in Client \ {c} : job'[d] = job[d]
  BY DEF FileInv, Typed, Jobs, Becomes
<1>2. Typed'
  BY <1>1 DEF FileInv, Typed, Jobs
<1>3. \A d \in Client \ {c} : job[d].at \in Inside => UNCHANGED <<status, state, mutex>>
  BY ClientAssumption DEF FileInv, Excluded
<1>4. Excluded'
  BY <1>1, <1>3 DEF FileInv, Excluded
<1>5. StillCurrent'
  BY <1>1, <1>3 DEF FileInv, StillCurrent, Current, Inside
<1>6. StillFlagged'
  BY <1>1, <1>3 DEF FileInv, StillFlagged, Inside
<1> QED  BY <1>2, <1>4, <1>5, <1>6 DEF FileInv

(* What Write writes is one edge of a diagram (writeFile under the mutex). *)
LEMMA WriteMoves ==
  ASSUME FileInv, NEW c \in Client, Write(c)
  PROVE  /\ MovesLegally
         /\ status' \in RunStatus \cup {"NONE"} /\ state' \in [Node -> NodeState]
         /\ job[c].op = "flag" => UNCHANGED status
<1>0. /\ job[c] \in Job /\ Legal(job[c]) /\ Current(job[c], status, state) /\ Recorded(job[c])
      /\ status \in RunStatus \cup {"NONE"} /\ state \in [Node -> NodeState]
  BY DEF FileInv, Typed, Jobs, StillCurrent, Write
<1>1. CASE job[c].op = "open"
  BY <1>0, <1>1 DEF Recorded, Legal, Current, MovesLegally, RunStatus
<1>2. CASE job[c].op = "status"
  <2>1. status' = job[c].to /\ status = job[c].from /\ UNCHANGED state
    BY <1>0, <1>2 DEF Recorded, Current
  <2>2. ValidRunTransition(status, status')
    BY <1>0, <1>2, <2>1 DEF Legal
  <2>3. status' \in RunStatus
    BY <2>2 DEF ValidRunTransition, RunStatus
  <2> QED  BY <1>0, <1>2, <2>1, <2>2, <2>3 DEF MovesLegally
<1>3. CASE job[c].op = "node"
  <2> DEFINE n == job[c].about
  <2>1. UNCHANGED status /\ state' = [state EXCEPT ![n] = job[c].to] /\ state[n] = job[c].from
    BY <1>0, <1>3 DEF Recorded, Current
  <2>2. n \in Node /\ \E reason \in TransitionReason : ValidTransition(job[c].from, job[c].to, reason)
    BY <1>0, <1>3 DEF Legal
  <2>3. job[c].to \in NodeState
    BY <2>2 DEF ValidTransition, NormalTransitions, NodeState, TransitionReason
  <2>4. state' \in [Node -> NodeState] /\ state'[n] = job[c].to /\ \A m \in Node \ {n} : state'[m] = state[m]
    BY <1>0, <2>1, <2>2, <2>3
  <2> QED  BY <1>0, <2>1, <2>2, <2>4 DEF MovesLegally
<1>4. CASE job[c].op \notin {"open", "status", "node"}
  BY <1>0, <1>4 DEF Recorded, MovesLegally
<1> QED  BY <1>1, <1>2, <1>3, <1>4

(* After a flag, cancel goes on to a status change it may still make.      *)
LEMMA AfterIsLegal ==
  ASSUME FileInv, NEW c \in Client, job[c].at = "log"
  PROVE  /\ After(job[c]) \in Job /\ Legal(After(job[c]))
         /\ After(job[c]).at \in {"granted", "write", "idle"}
         /\ After(job[c]).at = "write" => Current(After(job[c]), status, state)
         /\ After(job[c]).op # "flag"
<1>0. job[c] \in Job /\ Legal(job[c])
  BY DEF FileInv, Typed, Jobs
<1>1. CASE job[c].op = "authorize"
  <2>1. LET k == [job[c] EXCEPT !.at = "granted"]
        IN  k \in Job /\ Legal(k) /\ k.at = "granted" /\ k.op = "authorize"
    BY <1>0, <1>1, PlaceIsTyped DEF At
  <2> QED  BY <1>1, <2>1 DEF After
<1>2. CASE job[c].op = "flag" /\ ~job[c].live
  <2> DEFINE b == Begun("status", "run", status, "CANCELLED")
             k == [b EXCEPT !.at = "write"]
  <2>1. status \in IncompleteStatuses
    BY <1>2 DEF FileInv, StillFlagged
  <2>2. ValidRunTransition(status, "CANCELLED")
    BY <2>1 DEF IncompleteStatuses, ValidRunTransition, RunStatus
  <2>3. "status" \in Operation /\ "run" \in About /\ status \in Value /\ "CANCELLED" \in Value
    BY DEF FileInv, Typed, Operation, About, Value, RunStatus
  <2>4. b \in Job /\ b.op = "status" /\ b.from = status /\ b.to = "CANCELLED"
    BY <2>3, BegunIsTyped
  <2>5. Legal(b)
    BY <2>2, <2>4 DEF Legal
  <2> HIDE DEF b
  <2>6. k \in Job /\ Legal(k) /\ k.at = "write" /\ k.op = "status" /\ k.from = status
    BY <2>4, <2>5, PlaceIsTyped DEF At
  <2>7. After(job[c]) = k
    BY <1>2 DEF After, b
  <2> HIDE DEF k
  <2> QED  BY <2>6, <2>7 DEF Current
<1>3. CASE ~(job[c].op = "authorize") /\ ~(job[c].op = "flag" /\ ~job[c].live)
  BY <1>3, IdleIsTyped DEF After, Idle
<1> QED  BY <1>1, <1>2, <1>3

-----------------------------------------------------------------------------
(* The steps *)

(* A call takes the mutex, or begins, or acts outside it.                  *)
LEMMA EntryKeeps ==
  ASSUME FileInv, NEW c \in Client,
         \/ Call(c) /\ UNCHANGED <<lines, mutex>>
         \/ Enter(c) \/ Act(c) \/ Report(c) \/ AcquireLease(c) \/ Heartbeat(c)
         \/ ReleaseLease(c) \/ RequestCancel(c) \/ FindRuns(c)
  PROVE  FileInv'
<1>0. /\ job[c] \in Job /\ Legal(job[c]) /\ Whole
      /\ status \in RunStatus \cup {"NONE"} /\ state \in [Node -> NodeState]
      /\ mutex \in Client \cup {"free"}
  BY DEF FileInv, Typed, Jobs
<1>1. ASSUME Locks(c), UNCHANGED <<status, state, lines>>,
             NEW j \in Job, Legal(j), Becomes(c, j), j.op # "flag", j.at \in {"log", "leave"}
      PROVE  FileInv'
  <2>1. Whole'
    BY <1>0, <1>1 DEF Whole
  <2> QED  BY <1>0, <1>1, <2>1, OneMoves DEF Locks
<1>2. ASSUME Locks(c), UNCHANGED <<status, state, lines>>, job[c].op # "flag",
             NEW at \in {"log", "leave"}, Becomes(c, [job[c] EXCEPT !.at = at])
      PROVE  FileInv'
  <2> DEFINE j == [job[c] EXCEPT !.at = at]
  <2>1. at \in At
    BY DEF At
  <2>2. j \in Job /\ Legal(j) /\ j.at = at /\ j.op = job[c].op
    BY <1>0, <2>1, PlaceIsTyped, Zenon
  <2>3. Becomes(c, j)
    BY <1>2
  <2> HIDE DEF j
  <2> QED  BY <1>1, <1>2, <2>2, <2>3
<1>3. CASE Call(c) /\ UNCHANGED <<lines, mutex>>
  <2>1. PICK j \in Job : Legal(j) /\ j.at = "ready" /\ j.op # "flag" /\ Becomes(c, j)
    BY <1>3, CallIsLegal DEF Becomes, Operation
  <2>2. UNCHANGED <<status, state, mutex>> /\ Whole'
    BY <1>0, <1>3 DEF Call, records, Whole
  <2> QED  BY <1>0, <2>1, <2>2, OneMoves DEF Inside
<1>4. CASE Enter(c)
  <2> DEFINE at == IF Matches(job[c]) THEN "write" ELSE "leave"
             j == [job[c] EXCEPT !.at = at]
  <2>1. at \in At
    BY DEF At
  <2>2. at \in {"write", "leave"} /\ (at = "write" => Matches(job[c]))
    OBVIOUS
  <2>3. Becomes(c, j) /\ Locks(c) /\ UNCHANGED <<status, state, lines>>
    BY <1>4 DEF Enter, records
  <2> HIDE DEF at
  <2>4. /\ j \in Job /\ Legal(j) /\ j.at = at /\ j.op = job[c].op /\ j.from = job[c].from
        /\ j.about = job[c].about
    BY <1>0, <2>1, PlaceIsTyped, Zenon
  <2> HIDE DEF j
  <2>5. j.op # "flag"
    BY <1>4, <2>4 DEF Enter
  <2>6. j.at = "write" => Current(j, status', state')
    BY <2>2, <2>3, <2>4 DEF Matches, Current
  <2>7. Whole'
    BY <1>0, <2>3 DEF Whole
  <2> QED  BY <1>0, <2>2, <2>3, <2>4, <2>5, <2>6, <2>7, OneMoves DEF Locks
<1>5. CASE Act(c)
  <2> DEFINE b == Begun("note", "note", "NONE", "done")
             j == [b EXCEPT !.at = "acted"]
  <2>1. "done" \in {"done", "lease", "released"}
    OBVIOUS
  <2>2. b \in Job /\ b.op = "note" /\ Legal(b)
    BY <2>1, NoteIsTyped, Zenon
  <2>4. Becomes(c, j) /\ UNCHANGED <<status, state, lines, mutex>>
    BY <1>5 DEF Act
  <2> HIDE DEF b
  <2>5. j \in Job /\ Legal(j) /\ j.at = "acted" /\ j.op = "note"
    BY <2>2, PlaceIsTyped DEF At
  <2> HIDE DEF j
  <2>6. Whole'
    BY <1>0, <2>4 DEF Whole
  <2> QED  BY <1>0, <2>4, <2>5, <2>6, OneMoves DEF Inside
<1>6. CASE Report(c)
  <2>1. job[c].op # "flag"
    BY <1>6 DEF Report, FileInv, StillFlagged
  <2>2. UNCHANGED <<status, state, lines>> /\ Locks(c) /\ Becomes(c, [job[c] EXCEPT !.at = "log"])
    BY <1>6 DEF Report, records
  <2> QED  BY <1>2, <2>1, <2>2
<1>7. CASE AcquireLease(c)
  <2>1. UNCHANGED <<status, state, lines>> /\ Locks(c) /\ job[c].op # "flag"
    BY <1>7 DEF AcquireLease
  <2>2. Becomes(c, [job[c] EXCEPT !.at = "log"]) \/ Becomes(c, [job[c] EXCEPT !.at = "leave"])
    BY <1>7 DEF AcquireLease
  <2> QED  BY <1>2, <2>1, <2>2
<1>8. CASE Heartbeat(c) \/ FindRuns(c)
  <2>1. UNCHANGED <<status, state, lines>> /\ Locks(c) /\ job[c].op # "flag"
    BY <1>8 DEF Heartbeat, FindRuns, records
  <2>2. Becomes(c, [job[c] EXCEPT !.at = "leave"])
    BY <1>8 DEF Heartbeat, FindRuns
  <2> QED  BY <1>2, <2>1, <2>2
<1>9. CASE ReleaseLease(c)
  <2>1. UNCHANGED <<status, state, lines>> /\ Locks(c) /\ job[c].op # "flag"
    BY <1>9 DEF ReleaseLease
  <2>2. Becomes(c, [job[c] EXCEPT !.at = "log"]) \/ Becomes(c, [job[c] EXCEPT !.at = "leave"])
    BY <1>9 DEF ReleaseLease
  <2> QED  BY <1>2, <2>1, <2>2
<1>10. CASE RequestCancel(c)
  <2>1. UNCHANGED <<status, state, lines>> /\ Locks(c) /\ job[c].op # "flag"
    BY <1>10 DEF RequestCancel, records
  <2>2. CASE status \in TerminalStatuses \cup {"NONE"}
    <3>1. Becomes(c, [job[c] EXCEPT !.at = "leave"])
      BY <1>10, <2>2 DEF RequestCancel
    <3> QED  BY <1>2, <2>1, <3>1
  <2>3. CASE status \notin TerminalStatuses \cup {"NONE"}
    <3> DEFINE j == [job[c] EXCEPT !.op = "flag", !.at = "write", !.live = LooksLive]
    <3>1. Becomes(c, j)
      BY <1>10, <2>3 DEF RequestCancel
    <3>2. LooksLive \in BOOLEAN
      BY DEF LooksLive
    <3>3. j \in Job /\ j.op = "flag" /\ j.at = "write"
      BY <1>0, <3>2 DEF Job, At
    <3> HIDE DEF j
    <3>4. Legal(j) /\ Current(j, status', state')
      BY <3>3 DEF Legal, Current
    <3>5. status' \in IncompleteStatuses
      BY <1>0, <2>1, <2>3 DEF RunStatus, TerminalStatuses, IncompleteStatuses, ResumableStatuses
    <3>6. Whole'
      BY <1>0, <2>1 DEF Whole
    <3> QED  BY <1>0, <2>1, <3>1, <3>3, <3>4, <3>5, <3>6, OneMoves DEF Locks
  <2> QED  BY <2>2, <2>3
<1> QED
  BY <1>3, <1>4, <1>5, <1>6, <1>7, <1>8, <1>9, <1>10

(* A call goes on under the mutex, or gives it back.                       *)
LEMMA HeldKeeps ==
  ASSUME FileInv, NEW c \in Client,
         \/ Leave(c) \/ Write(c) \/ Emit(c) \/ SweptAway(c) \/ EmitFails(c)
  PROVE  FileInv'
<1>0. /\ job[c] \in Job /\ Legal(job[c]) /\ Whole
      /\ status \in RunStatus \cup {"NONE"} /\ state \in [Node -> NodeState]
      /\ mutex \in Client \cup {"free"}
  BY DEF FileInv, Typed, Jobs
<1>1. ASSUME job[c].at \in Inside, Returns(c), UNCHANGED <<status, state>>, Whole'
      PROVE  FileInv'
  BY <1>0, <1>1, IdleIsTyped, OneMoves DEF Returns, Inside
<1>2. CASE Leave(c) \/ SweptAway(c)
  <2>1. job[c].at \in Inside /\ Returns(c) /\ UNCHANGED <<status, state, lines>>
    BY <1>2 DEF Leave, SweptAway, Inside, records
  <2>2. Whole'
    BY <1>0, <2>1 DEF Whole
  <2> QED  BY <1>1, <2>1, <2>2
<1>3. CASE EmitFails(c)
  <2>1. /\ job[c].at \in Inside /\ Returns(c) /\ UNCHANGED <<status, state>>
        /\ lines' \in Reached(job[c])
    BY <1>3 DEF EmitFails, Inside, records
  <2>2. Whole'
    BY <1>0, <2>1, ReachedIsWhole DEF Whole
  <2> QED  BY <1>1, <2>1, <2>2
<1>4. CASE Write(c)
  <2> DEFINE j == [job[c] EXCEPT !.at = "log"]
  <2>1. j \in Job /\ Legal(j) /\ j.at = "log" /\ j.op = job[c].op
    BY <1>0, PlaceIsTyped DEF At
  <2>2. Becomes(c, j) /\ UNCHANGED <<lines, mutex>> /\ job[c].at = "write"
    BY <1>4 DEF Write
  <2> HIDE DEF j
  <2>3. mutex' = c
    BY <2>2 DEF FileInv, Excluded, Inside
  <2>4. j.op = "flag" => status' \in IncompleteStatuses
    BY <1>4, <2>1, <2>2, WriteMoves DEF FileInv, StillFlagged
  <2>5. Whole'
    BY <1>0, <2>2 DEF Whole
  <2> QED  BY <1>4, <2>1, <2>2, <2>3, <2>4, <2>5, WriteMoves, OneMoves DEF Inside
<1>5. CASE Emit(c)
  <2> DEFINE j == After(job[c])
  <2>1. /\ Becomes(c, j) /\ UNCHANGED <<status, state>> /\ job[c].at = "log"
        /\ lines' = Put(Closed, LineOf(job[c], TRUE))
        /\ mutex' = IF j.at = "write" THEN mutex ELSE "free"
    BY <1>5 DEF Emit, Unlocks, records
  <2>2. /\ j \in Job /\ Legal(j) /\ j.at \in {"granted", "write", "idle"}
        /\ j.at = "write" => Current(j, status, state)
        /\ j.op # "flag"
    BY <2>1, AfterIsLegal
  <2> HIDE DEF j
  <2>3. Whole'
    BY <1>0, <2>1, ReachedIsWhole DEF Whole
  <2>4. j.at \in Inside => mutex' = c
    BY <2>1, <2>2 DEF FileInv, Excluded, Inside
  <2>5. j.at = "write" => Current(j, status', state')
    BY <2>1, <2>2 DEF Current
  <2> QED  BY <1>0, <2>1, <2>2, <2>3, <2>4, <2>5, OneMoves DEF Inside
<1> QED  BY <1>2, <1>3, <1>4, <1>5

(* A crash leaves the records and part of a line, and nobody in a call.    *)
LEMMA CrashKeeps ==
  ASSUME FileInv, Crash
  PROVE  FileInv'
<1>1. job' = [c \in Client |-> Idle] /\ UNCHANGED <<status, state>>
  BY DEF Crash, records
<1>2. Jobs'
  BY <1>1, IdleIsTyped DEF Jobs
<1>3. \A c \in Client : job'[c].at = "idle" /\ job'[c].op # "flag"
  BY <1>1, IdleIsTyped DEF Idle
<1>4. Whole'
  <2>1. CASE UNCHANGED lines
    BY <2>1 DEF FileInv, Whole
  <2>2. CASE mutex # "free" /\ job[mutex].at = "log" /\ lines' \in Reached(job[mutex])
    <3>1. job[mutex] \in Job
      BY <2>2 DEF FileInv, Typed, Jobs
    <3> QED  BY <2>2, <3>1, ReachedIsWhole DEF FileInv, Whole
  <2> QED  BY <2>1, <2>2 DEF Crash
<1>5. mutex' = "free"
  BY DEF Crash
<1> QED  BY <1>1, <1>2, <1>3, <1>4, <1>5 DEF FileInv, Typed, Excluded, StillCurrent, StillFlagged, Inside

-----------------------------------------------------------------------------
(* The store *)

(* Before the first call nothing is in flight and nothing is recorded.     *)
LEMMA InitKeeps == Init => FileInv
<1> SUFFICES ASSUME Init PROVE FileInv
  OBVIOUS
<1>1. job \in [Client -> Job] /\ \A c \in Client : job[c] = Idle
  BY IdleIsTyped DEF Init, StoreInit
<1>2. Whole
  <2>1. lines \in Seq(Line({}))
    BY DEF Init
  <2> QED  BY <2>1 DEF Whole
<1>3. state \in [Node -> NodeState] /\ status = "NONE" /\ mutex = "free"
  BY DEF Init, StoreInit, InitialNodeState, NodeState
<1>4. \A c \in Client : job[c].at = "idle" /\ job[c].op # "flag" /\ Legal(job[c])
  BY <1>1, IdleIsTyped
<1> QED  BY <1>1, <1>2, <1>3, <1>4
        DEF FileInv, Typed, Jobs, Excluded, StillCurrent, StillFlagged, Inside

(* And then every step of every goroutine keeps the invariant.             *)
LEMMA NextKeeps == FileInv /\ [Next]_fileVars => FileInv'
<1> SUFFICES ASSUME FileInv, [Next]_fileVars PROVE FileInv'
  OBVIOUS
<1>1. ASSUME UNCHANGED <<status, state, job, mutex, lines>> PROVE FileInv'
  BY <1>1 DEF FileInv, Typed, Jobs, Excluded, StillCurrent, Current, StillFlagged, Whole
<1>2. ASSUME NEW c \in Client, Call(c) /\ UNCHANGED <<lines, mutex>> PROVE FileInv'
  BY <1>2, EntryKeeps
<1>3. ASSUME NEW c \in Client, Step(c) PROVE FileInv'
  BY <1>3, EntryKeeps, HeldKeeps DEF Step
<1>4. ASSUME NEW c \in Client, SweptAway(c) \/ EmitFails(c) PROVE FileInv'
  BY <1>4, HeldKeeps
<1>5. CASE Crash
  BY <1>5, CrashKeeps
<1>6. CASE Expire /\ UNCHANGED <<lines, mutex>>
  BY <1>1, <1>6 DEF Expire
<1>7. CASE UNCHANGED fileVars
  BY <1>1, <1>7 DEF fileVars, records
<1> QED  BY <1>2, <1>3, <1>4, <1>5, <1>6, <1>7 DEF Next

(* Lines that are whole can be read.                                       *)
LEMMA WholeIsReadable == FileInv => NoneMalformed
<1> SUFFICES ASSUME FileInv, NEW i \in DOMAIN lines PROVE ~Malformed(i)
  BY DEF NoneMalformed
<1>1. PICK Q : lines \in Seq(Line(Q))
  BY DEF FileInv, Whole
<1>2. lines[i] \in Line(Q)
  BY <1>1
<1> QED  BY <1>2 DEF Malformed, Line

(* Whatever an append or a crash leaves at its end, the trail can always   *)
(* be read: no event runs into the line before it (separator, readAudit).  *)
THEOREM FileTrailReadable == Spec => []NoneMalformed
  BY WholeIsReadable, InitKeeps, NextKeeps, PTL DEF Spec

(* Every status and state written follows the one before it along its      *)
(* diagram, whatever cancel, the walk and its crashes do under the mutex   *)
(* (TransitionNode, TransitionRun, RequestCancel).                         *)
THEOREM FileRecordsFollowDiagrams == Spec => [][MovesLegally]_fileVars
<1>1. ASSUME FileInv, [Next]_fileVars PROVE [MovesLegally]_fileVars
  <2>1. ASSUME UNCHANGED <<status, state>> PROVE MovesLegally
    BY <2>1 DEF MovesLegally
  <2>2. ASSUME NEW c \in Client, Call(c) PROVE MovesLegally
    BY <2>1, <2>2 DEF Call, records
  <2>3. ASSUME NEW c \in Client, Step(c) PROVE MovesLegally
    <3>1. CASE Write(c)
      BY <1>1, <3>1, WriteMoves
    <3>2. CASE ~Write(c)
      <4>1. UNCHANGED <<status, state>>
        BY <2>3, <3>2 DEF Step, Enter, Leave, Emit, Act, Report, AcquireLease, Heartbeat,
           ReleaseLease, RequestCancel, FindRuns, records
      <4> QED  BY <2>1, <4>1
    <3> QED  BY <3>1, <3>2
  <2>4. ASSUME NEW c \in Client, SweptAway(c) \/ EmitFails(c) PROVE MovesLegally
    BY <2>1, <2>4 DEF SweptAway, EmitFails, records
  <2>5. CASE Crash \/ Expire
    BY <2>1, <2>5 DEF Crash, Expire, records
  <2> QED  BY <1>1, <2>2, <2>3, <2>4, <2>5 DEF Next
<1> QED  BY <1>1, InitKeeps, NextKeeps, PTL DEF Spec

-----------------------------------------------------------------------------
(* What a reader is given, line by line                                    *)

(* A set of numbers has a least one: what an argument by induction needs.  *)
LEMMA LeastOf ==
  ASSUME NEW T, T \subseteq Nat, T # {}
  PROVE  \E m \in T : \A k \in T : m <= k
<1>1. PICK m \in T : \A k \in T : ~ (<<k, m>> \in OpToRel(<, Nat))
  BY NatLessThanWellFounded, WFMin
<1>2. ASSUME NEW k \in T PROVE m <= k
  <2>1. ~(<<k, m>> \in OpToRel(<, Nat))
    BY <1>1
  <2>2. ~(k < m)
    BY <2>1 DEF OpToRel
  <2> QED  BY <2>2
<1> QED  BY <1>2

Through(ls, n, before) == IF ls[n].text = "event" THEN Append(before, Entry(ls[n])) ELSE before

IsReading(f, ls, m) == f = [n \in 0..m |-> IF n = 0 THEN <<>> ELSE Through(ls, n, f[n - 1])]

(* Lines can be read one after the other, however many there are.          *)
LEMMA ReadingExists ==
  ASSUME NEW ls, NEW m \in Nat
  PROVE  \E f : IsReading(f, ls, m)
<1> DEFINE T == {n \in Nat : ~ \E f : IsReading(f, ls, n)}
<1>1. SUFFICES ASSUME T # {} PROVE FALSE
  OBVIOUS
<1>2. PICK n \in T : \A k \in T : n <= k
  BY <1>1, LeastOf
<1>3. CASE n = 0
  <2>1. IsReading([i \in 0..0 |-> <<>>], ls, 0)
    BY DEF IsReading
  <2> QED  BY <1>3, <2>1
<1>4. CASE n # 0
  <2>1. n - 1 \in Nat /\ n - 1 \notin T
    BY <1>2, <1>4
  <2>2. PICK f : IsReading(f, ls, n - 1)
    BY <2>1
  <2> DEFINE g == [i \in 0..n |-> IF i = n THEN Through(ls, n, f[n - 1]) ELSE f[i]]
  <2>3. \A i \in 0..(n-1) : f[i] = IF i = 0 THEN <<>> ELSE Through(ls, i, f[i - 1])
    BY <2>2 DEF IsReading
  <2>4. \A i \in 0..n : g[i] = IF i = 0 THEN <<>> ELSE Through(ls, i, g[i - 1])
    BY <1>4, <2>1, <2>3
  <2>5. IsReading(g, ls, n)
    BY <2>4 DEF IsReading
  <2> QED  BY <2>5
<1> QED  BY <1>3, <1>4

(* That is what readAudit does (readAuditLocked's loop).                   *)
LEMMA ReadingUnfolds ==
  ASSUME NEW ls, Len(ls) \in Nat
  PROVE  IsReading(Reading(ls), ls, Len(ls))
<1> DEFINE Body(f) == [n \in 0..Len(ls) |->
                         IF n = 0 THEN <<>>
                         ELSE IF ls[n].text = "event" THEN Append(f[n - 1], Entry(ls[n])) ELSE f[n - 1]]
<1>1. \A f : IsReading(f, ls, Len(ls)) <=> f = Body(f)
  BY DEF IsReading, Through
<1>2. Reading(ls) = CHOOSE f : f = Body(f)
  BY DEF Reading
<1> HIDE DEF Body
<1>3. \E f : f = Body(f)
  BY <1>1, ReadingExists
<1>4. Reading(ls) = Body(Reading(ls))
  BY <1>2, <1>3, Zenon
<1> QED  BY <1>1, <1>4

(* Lines that say the same read the same.                                  *)
LEMMA ReadingsAgree ==
  ASSUME NEW f, NEW g, NEW ls, NEW ms, NEW m \in Nat, NEW k \in Nat,
         IsReading(f, ls, m), IsReading(g, ms, k),
         NEW n \in Nat, n <= m, n <= k,
         \A i \in 1..n : ls[i].text = ms[i].text /\ Entry(ls[i]) = Entry(ms[i])
  PROVE  f[n] = g[n]
<1> DEFINE T == {i \in 0..n : f[i] # g[i]}
<1>0. /\ \A i \in 0..m : f[i] = IF i = 0 THEN <<>> ELSE Through(ls, i, f[i - 1])
      /\ \A i \in 0..k : g[i] = IF i = 0 THEN <<>> ELSE Through(ms, i, g[i - 1])
  BY DEF IsReading
<1>1. SUFFICES ASSUME T # {} PROVE FALSE
  OBVIOUS
<1>2. PICK i \in T : \A j \in T : i <= j
  <2>1. T \subseteq Nat
    OBVIOUS
  <2> HIDE DEF T
  <2> QED  BY <1>1, <2>1, LeastOf
<1>3. i # 0 /\ i \in 1..n /\ i - 1 \in 0..n /\ f[i - 1] = g[i - 1]
  BY <1>0, <1>2
<1>4. ls[i].text = ms[i].text /\ Entry(ls[i]) = Entry(ms[i])
  BY <1>3
<1>5. Through(ls, i, f[i - 1]) = Through(ms, i, g[i - 1])
  BY <1>3, <1>4, Zenon DEF Through
<1>6. f[i] = Through(ls, i, f[i - 1]) /\ g[i] = Through(ms, i, g[i - 1])
  BY <1>0, <1>3
<1> QED  BY <1>2, <1>5, <1>6

(* An entry read is an event.                                              *)
Entries == [seq : Nat, about : About, to : Value]

Read(ls) == Reading(ls)[Len(ls)]

(* What is read of an empty trail, and of one line more (readAuditLocked). *)
LEMMA ReadEmpty == Read(<<>>) = <<>>
<1>1. Len(<<>>) = 0
  OBVIOUS
<1>2. IsReading(Reading(<<>>), <<>>, 0)
  BY <1>1, ReadingUnfolds
<1> QED  BY <1>1, <1>2 DEF Read, IsReading

(* A line more is one event more, if it is an event.                       *)
LEMMA ReadAppend ==
  ASSUME NEW S, NEW ls \in Seq(S), NEW l \in S
  PROVE  Read(Append(ls, l)) = IF l.text = "event" THEN Append(Read(ls), Entry(l)) ELSE Read(ls)
<1> DEFINE ms == Append(ls, l)
           n == Len(ls)
<1>1. n \in Nat /\ Len(ms) = n + 1 /\ ms[n + 1] = l /\ \A i \in 1..n : ms[i] = ls[i]
  OBVIOUS
<1> HIDE DEF ms, n
<1>2. IsReading(Reading(ls), ls, n) /\ IsReading(Reading(ms), ms, n + 1)
  <2>1. n = Len(ls)
    BY DEF n
  <2> QED  BY <1>1, <2>1, ReadingUnfolds
<1>3. Reading(ms)[n] = Reading(ls)[n]
  <2>1. \A i \in 1..n : ls[i].text = ms[i].text /\ Entry(ls[i]) = Entry(ms[i])
    BY <1>1
  <2>2. n + 1 \in Nat /\ n <= n + 1 /\ n <= n
    BY <1>1
  <2> QED  BY <1>1, <1>2, <2>1, <2>2, ReadingsAgree
<1>4. Reading(ms)[n + 1] = Through(ms, n + 1, Reading(ms)[n])
  BY <1>1, <1>2 DEF IsReading
<1>5. Read(ms) = Reading(ms)[n + 1] /\ Read(ls) = Reading(ls)[n]
  BY <1>1 DEF Read, n
<1>6. Read(ms) = IF l.text = "event" THEN Append(Read(ls), Entry(l)) ELSE Read(ls)
  BY <1>1, <1>3, <1>4, <1>5 DEF Through
<1> QED  BY <1>6 DEF ms

(* A separator put after the last line changes nothing that is read.       *)
LEMMA ReadClosed ==
  ASSUME NEW Q, lines \in Seq(Line(Q))
  PROVE  Read(Closed) = Read(lines) /\ Len(Closed) = Len(lines)
<1>1. CASE NeedsSeparator
  <2> DEFINE n == Len(lines)
             l == [lines[n] EXCEPT !.ended = TRUE]
  <2>1. n \in Nat /\ lines # <<>> /\ n \in 1..n
    BY <1>1 DEF NeedsSeparator, EndsMidLine
  <2>2. lines[n] \in Line(Q)
    BY <2>1
  <2>3. l \in Line(Q) /\ l.text = lines[n].text /\ Entry(l) = Entry(lines[n])
    BY <2>2 DEF Line, Entry
  <2>4. Closed = [lines EXCEPT ![n] = l]
    BY <1>1 DEF Closed
  <2> HIDE DEF l
  <2>5. Len(Closed) = n /\ Closed[n] = l /\ \A i \in 1..n : i # n => Closed[i] = lines[i]
    BY <2>1, <2>3, <2>4, ExceptSeq
  <2>6. \A i \in 1..n : Closed[i].text = lines[i].text /\ Entry(Closed[i]) = Entry(lines[i])
    BY <2>3, <2>5
  <2>7. IsReading(Reading(lines), lines, n) /\ IsReading(Reading(Closed), Closed, n)
    BY <2>1, <2>5, ReadingUnfolds
  <2>8. Reading(Closed)[n] = Reading(lines)[n]
    <3>1. n <= n
      BY <2>1
    <3> HIDE DEF n
    <3> QED  BY <2>1, <2>6, <2>7, <3>1, ReadingsAgree
  <2> QED  BY <2>5, <2>8 DEF Read
<1>2. CASE ~NeedsSeparator
  BY <1>2 DEF Closed
<1> QED  BY <1>1, <1>2

(* A reader is given events.                                               *)
LEMMA ReadIsTyped ==
  ASSUME NEW ls \in Seq(Line(Nat))
  PROVE  Read(ls) \in Seq(Entries)
<1> DEFINE n == Len(ls)
           f == Reading(ls)
           T == {i \in 0..n : f[i] \notin Seq(Entries)}
<1>1. n \in Nat /\ IsReading(f, ls, n)
  BY ReadingUnfolds
<1>2. \A i \in 0..n : f[i] = IF i = 0 THEN <<>> ELSE Through(ls, i, f[i - 1])
  BY <1>1 DEF IsReading
<1>3. ASSUME T # {} PROVE FALSE
  <2>1. T \subseteq Nat
    OBVIOUS
  <2>2. PICK i \in T : \A j \in T : i <= j
    <3> HIDE DEF T
    <3> QED  BY <1>3, <2>1, LeastOf
  <2>3. i # 0
    <3>1. 0 \in 0..n /\ f[0] = <<>> /\ <<>> \in Seq(Entries)
      BY <1>1, <1>2
    <3> QED  BY <2>2, <3>1
  <2> HIDE DEF f
  <2>4. i \in 1..n /\ i - 1 \in 0..n /\ f[i - 1] \in Seq(Entries)
    BY <1>1, <2>2, <2>3
  <2>5. Entry(ls[i]) \in Entries
    <3>1. ls[i] \in Line(Nat)
      BY <2>4
    <3> QED  BY <3>1 DEF Entry, Entries, Line
  <2>6. Through(ls, i, f[i - 1]) \in Seq(Entries)
    BY <2>4, <2>5 DEF Through
  <2> QED  BY <1>2, <2>2, <2>3, <2>6
<1> QED  BY <1>1, <1>3 DEF Read

-----------------------------------------------------------------------------
(* The inductive invariant of the port                                     *)

Gapless(rows) == \A i \in DOMAIN rows : rows[i].seq = i

Auths(rows) == {i \in DOMAIN rows : rows[i].about = "auth"}

(* The cursor counts only while the file is as long as when it was cached. *)
CursorFits(ls, cur) ==
  /\ cur.seq \in Nat /\ cur.size \in Nat \cup {-1} /\ cur.size <= Len(ls)
  /\ cur.size = Len(ls) => cur.seq = Len(Read(ls))

Trail(ls, cur) == ls \in Seq(Line(Nat)) /\ Gapless(Read(ls)) /\ CursorFits(ls, cur)

(* A job names its record, and there is none where nothing is done.        *)
Fit(j) ==
  Named(j) /\ (j.op = "none" => j.at = "idle") /\ (j.at = "acted" => j.op = "note")

(* What a call has written and not logged yet is still on record.          *)
Unlogged(j, run, nodes, grants, rows) ==
  /\ j.op \in {"open", "status"} => run = j.to
  /\ j.op = "node" => nodes[j.about] = j.to
  /\ j.op = "authorize" => Cardinality(Auths(rows)) < grants

StillUnlogged ==
  \A c \in Client :
    job[c].at = "log" => Unlogged(job[c], status, state, granted, Read(lines))

Granted == {c \in Client : job[c].at = "granted"}

(* An authorization is on record before its event, and its event before    *)
(* its statement.                                                          *)
Counted ==
  /\ granted \in Nat /\ acted \in Nat
  /\ Cardinality(Auths(Read(lines))) <= granted
  /\ acted + Cardinality(Granted) <= Cardinality(Auths(Read(lines)))

PortInv ==
  /\ FileInv /\ Trail(lines, cursor) /\ StillUnlogged /\ Counted
  /\ \A c \in Client : Fit(job[c])
  /\ stop \in BOOLEAN /\ holder \in Process
  /\ lease \in [holder : Process \cup {"nobody"}, fresh : BOOLEAN]

-----------------------------------------------------------------------------
(* The trail grows by events                                               *)

Numbered(rows, j) == [seq |-> Len(rows) + 1, about |-> j.about, to |-> j.to]

(* One event more is numbered, and counts when it is an authorization's.   *)
LEMMA OneMore ==
  ASSUME NEW rows \in Seq(Entries), NEW j \in Job, Gapless(rows)
  PROVE  LET more == Append(rows, Numbered(rows, j))
         IN  /\ Gapless(more) /\ Len(more) = Len(rows) + 1
             /\ Cardinality(Auths(rows)) \in Nat
             /\ Cardinality(Auths(more)) =
                  Cardinality(Auths(rows)) + IF j.about = "auth" THEN 1 ELSE 0
<1> DEFINE e == Numbered(rows, j)
           more == Append(rows, e)
           n == Len(rows)
<1>1. e \in Entries /\ e.seq = n + 1 /\ e.about = j.about
  BY DEF Numbered, Entries, Job
<1> HIDE DEF e
<1>2. /\ n \in Nat /\ DOMAIN rows = 1..n /\ DOMAIN more = 1..(n + 1) /\ Len(more) = n + 1
      /\ more[n + 1] = e /\ \A i \in 1..n : more[i] = rows[i]
  BY <1>1
<1> HIDE DEF more, n
<1>3. Gapless(more)
  BY <1>1, <1>2 DEF Gapless
<1>4. Auths(more) = IF j.about = "auth" THEN Auths(rows) \cup {n + 1} ELSE Auths(rows)
  BY <1>1, <1>2 DEF Auths
<1>5. IsFiniteSet(Auths(rows)) /\ n + 1 \notin Auths(rows)
  <2>1. Auths(rows) \subseteq 1..n
    BY <1>2 DEF Auths
  <2>2. IsFiniteSet(1..n)
    BY <1>2, FS_Interval
  <2> QED  BY <1>2, <2>1, <2>2, FS_Subset
<1>6. Cardinality(Auths(rows)) \in Nat
  BY <1>5, FS_CardinalityType
<1>7. Cardinality(Auths(rows) \cup {n + 1}) = Cardinality(Auths(rows)) + 1
  BY <1>5, FS_AddElement
<1> QED  BY <1>2, <1>3, <1>4, <1>6, <1>7 DEF more, e, n

(* The next number is one more than the events there are, cached or        *)
(* counted (nextSeqLocked).                                                *)
LEMMA NumberIsNext ==
  ASSUME Trail(lines, cursor)
  PROVE  NextSeq = Len(Read(lines)) + 1 /\ Read(lines) \in Seq(Entries)
<1>1. Read(lines) \in Seq(Entries) /\ readAudit = Read(lines)
  BY ReadIsTyped DEF Trail, Read, readAudit
<1>2. countAudit = Len(Read(lines))
  <2>1. CASE Read(lines) = <<>>
    BY <1>1, <2>1 DEF countAudit
  <2>2. CASE Read(lines) # <<>>
    <3>1. Len(Read(lines)) \in DOMAIN Read(lines)
      BY <1>1, <2>2
    <3> QED  BY <1>1, <2>2, <3>1 DEF countAudit, Trail, Gapless
  <2> QED  BY <2>1, <2>2
<1> QED  BY <1>1, <1>2 DEF NextSeq, auditSize, Trail, CursorFits

(* Whatever part of an event an append leaves, a reader is given the event *)
(* or nothing more than before; a file of the same length is the same.     *)
LEMMA ReachedReads ==
  ASSUME Trail(lines, cursor), NEW j \in Job,
         NEW ls \in Reached(j) \cup {Put(Closed, LineOf(j, TRUE))}
  PROVE  /\ ls \in Seq(Line(Nat)) /\ Len(lines) \in Nat
         /\ ls = lines \/ Len(ls) = Len(lines) + 1
         /\ Read(ls) \in {Read(lines), Append(Read(lines), Numbered(Read(lines), j))}
         /\ ls = Put(Closed, LineOf(j, TRUE)) =>
              /\ Len(ls) = Len(lines) + 1
              /\ Read(ls) = Append(Read(lines), Numbered(Read(lines), j))
<1>1. /\ lines \in Seq(Line(Nat)) /\ Closed \in Seq(Line(Nat)) /\ ~EndsMidLine(Closed)
      /\ Read(Closed) = Read(lines) /\ Len(Closed) = Len(lines) /\ Len(lines) \in Nat
  BY ClosedEnds, ReadClosed DEF Trail
<1>2. ASSUME NEW l \in Line(Nat)
      PROVE  /\ Put(Closed, l) = Append(Closed, l) /\ Append(Closed, l) \in Seq(Line(Nat))
             /\ Len(Append(Closed, l)) = Len(lines) + 1
             /\ Read(Append(Closed, l)) =
                  IF l.text = "event" THEN Append(Read(lines), Entry(l)) ELSE Read(lines)
  <2>1. Put(Closed, l) = Append(Closed, l)
    BY <1>1 DEF Put
  <2>2. Read(Append(Closed, l)) =
          IF l.text = "event" THEN Append(Read(Closed), Entry(l)) ELSE Read(Closed)
    BY <1>1, ReadAppend
  <2> QED  BY <1>1, <2>1, <2>2
<1>3. ASSUME NEW ended \in BOOLEAN
      PROVE  LET l == LineOf(j, ended)
             IN  l \in Line(Nat) /\ l.text = "event" /\ Entry(l) = Numbered(Read(lines), j)
  <2>1. NextSeq = Len(Read(lines)) + 1 /\ Len(Read(lines)) \in Nat
    BY NumberIsNext
  <2> QED  BY <2>1 DEF LineOf, Line, Entry, Numbered, Job
<1>4. /\ Fragment("torn", FALSE) \in Line(Nat) /\ Fragment("torn", FALSE).text # "event"
      /\ Fragment("empty", TRUE) \in Line(Nat) /\ Fragment("empty", TRUE).text # "event"
  BY DEF Fragment, Line, About, Value
<1>5. CASE \E ended \in BOOLEAN : ls = Put(Closed, LineOf(j, ended))
  <2>1. PICK ended \in BOOLEAN : ls = Put(Closed, LineOf(j, ended))
    BY <1>5
  <2> DEFINE l == LineOf(j, ended)
  <2>2. l \in Line(Nat) /\ l.text = "event" /\ Entry(l) = Numbered(Read(lines), j)
    BY <1>3
  <2>3. ls = Put(Closed, l)
    BY <2>1
  <2> HIDE DEF l
  <2> QED  BY <1>1, <1>2, <2>2, <2>3
<1>6. CASE ~(\E ended \in BOOLEAN : ls = Put(Closed, LineOf(j, ended)))
  <2>1. \/ ls = lines \/ ls = Put(Closed, Fragment("torn", FALSE))
        \/ ls = Append(Closed, Fragment("empty", TRUE))
    BY <1>6 DEF Reached
  <2>2. ls # Put(Closed, LineOf(j, TRUE))
    BY <1>6
  <2> QED  BY <1>1, <1>2, <1>4, <2>1, <2>2
<1> QED  BY <1>5, <1>6

-----------------------------------------------------------------------------
(* Every step keeps it                                                     *)

(* Only a rename changes a record, and only an append the trail.           *)
LEMMA OnlyWritesRecord ==
  ASSUME NEW c \in Client, Call(c) \/ Step(c) \/ SweptAway(c) \/ EmitFails(c), ~Write(c)
  PROVE  UNCHANGED <<status, stop, state, granted>>
  BY DEF Call, Step, SweptAway, EmitFails, Enter, Leave, Emit, Act, Report, AcquireLease, Heartbeat,
     ReleaseLease, RequestCancel, FindRuns, records

(* Only an append that ends well changes the trail and its cursor.         *)
LEMMA OnlyEmitsLog ==
  ASSUME NEW c \in Client, (Call(c) /\ UNCHANGED <<lines, cursor>>) \/ Step(c) \/ SweptAway(c),
         ~Emit(c)
  PROVE  UNCHANGED <<lines, cursor>>
  BY DEF Step, SweptAway, Enter, Leave, Write, Act, Report, AcquireLease, Heartbeat,
     ReleaseLease, RequestCancel, FindRuns, records

(* An authorization asked for and not on record yet.                       *)
Asking(j) == j.op = "authorize" /\ j.at \notin {"log", "granted"}

Asked == {c \in Client : Asking(job[c])}

(* Every step changes one job, and only into one that fits.                *)
LEMMA OneFitJob ==
  ASSUME PortInv, NEW c \in Client, Call(c) \/ Step(c) \/ SweptAway(c) \/ EmitFails(c)
  PROVE  \E j \in Job :
           /\ Fit(j) /\ Becomes(c, j)
           /\ j.at = "granted" => Emit(c) /\ job[c].op = "authorize"
           /\ j.at = "log" => \/ /\ Write(c) /\ j.op = job[c].op
                                 /\ j.about = job[c].about /\ j.to = job[c].to
                              \/ ~Write(c) /\ j.op \notin {"open", "status", "node", "authorize"}
           /\ Asking(j) => Call(c) \/ Asking(job[c])
<1>1. job[c] \in Job /\ Legal(job[c]) /\ Fit(job[c])
  BY DEF PortInv, FileInv, Typed, Jobs
<1>at. ASSUME NEW at \in At \ {"idle", "granted", "acted"}, Becomes(c, [job[c] EXCEPT !.at = at]),
              job[c].op # "none"
       PROVE  \E j \in Job : /\ Fit(j) /\ Becomes(c, j) /\ j.at = at /\ j.op = job[c].op
                             /\ j.about = job[c].about /\ j.to = job[c].to
  <2> DEFINE j == [job[c] EXCEPT !.at = at]
  <2>1. j \in Job /\ j.at = at /\ j.op = job[c].op /\ j.about = job[c].about /\ j.to = job[c].to
    BY <1>1, PlaceIsTyped
  <2>2. Becomes(c, j)
    BY <1>at
  <2> HIDE DEF j
  <2>3. Fit(j)
    BY <1>1, <1>at, <2>1 DEF Fit, Named
  <2> QED  BY <2>1, <2>2, <2>3
<1>idle. Becomes(c, Idle) =>
           \E j \in Job : Fit(j) /\ Becomes(c, j) /\ j.at = "idle" /\ ~Asking(j)
  <2>1. Idle \in Job /\ Fit(Idle) /\ Idle.at = "idle" /\ ~Asking(Idle)
    BY IdleIsTyped DEF Fit, Named, Asking
  <2> QED  BY <2>1
<1>2. CASE Call(c)
  <2>1. PICK j \in Job : /\ Legal(j) /\ Named(j) /\ j.at = "ready" /\ j.op \in Operation
                         /\ job' = [job EXCEPT ![c] = j]
    BY <1>2, CallIsLegal
  <2>2. Fit(j) /\ Becomes(c, j)
    BY <2>1 DEF Fit, Becomes, Operation
  <2> QED  BY <1>2, <2>1, <2>2
<1>3. CASE Enter(c)
  <2> DEFINE at == IF Matches(job[c]) THEN "write" ELSE "leave"
  <2>1. at \in At \ {"idle", "granted", "acted"} /\ at # "log"
    BY DEF At
  <2>2. Becomes(c, [job[c] EXCEPT !.at = at]) /\ job[c].op # "none" /\ job[c].at = "ready"
    BY <1>3 DEF Enter
  <2> HIDE DEF at
  <2>3. PICK j \in Job : Fit(j) /\ Becomes(c, j) /\ j.at = at /\ j.op = job[c].op
    BY <1>at, <2>1, <2>2
  <2> QED  BY <2>1, <2>2, <2>3 DEF Asking
<1>4. CASE Leave(c) \/ SweptAway(c) \/ EmitFails(c)
  BY <1>4, <1>idle DEF Leave, SweptAway, EmitFails, Returns
<1>5. CASE Write(c)
  <2>1. "log" \in At \ {"idle", "granted", "acted"} /\ job[c].op # "none"
        /\ Becomes(c, [job[c] EXCEPT !.at = "log"])
    BY <1>1, <1>5 DEF Write, Fit, At
  <2>2. PICK j \in Job : /\ Fit(j) /\ Becomes(c, j) /\ j.at = "log" /\ j.op = job[c].op
                         /\ j.about = job[c].about /\ j.to = job[c].to
    BY <1>at, <2>1
  <2> QED  BY <1>5, <2>2 DEF Asking
<1>6. CASE Emit(c)
  <2>1. Becomes(c, After(job[c])) /\ job[c].at = "log"
    BY <1>6 DEF Emit
  <2>2. After(job[c]) \in Job
    BY <2>1, AfterIsLegal DEF PortInv
  <2>3. CASE job[c].op = "authorize"
    <3> DEFINE j == [job[c] EXCEPT !.at = "granted"]
    <3>1. j \in Job /\ j.at = "granted" /\ j.op = "authorize" /\ j.about = job[c].about /\ j.to = job[c].to
      BY <1>1, <2>3, PlaceIsTyped DEF At
    <3>2. Becomes(c, j)
      BY <2>1, <2>3 DEF After
    <3> HIDE DEF j
    <3>3. Fit(j)
      BY <1>1, <2>3, <3>1 DEF Fit, Named
    <3> QED  BY <1>6, <2>3, <3>1, <3>2, <3>3 DEF Asking
  <2>4. CASE job[c].op = "flag" /\ ~job[c].live
    <3> DEFINE b == Begun("status", "run", status, "CANCELLED")
               j == [b EXCEPT !.at = "write"]
    <3>1. j = After(job[c])
      BY <2>4 DEF After
    <3>2. j.op = "status" /\ j.at = "write" /\ j.about = "run"
      BY DEF Begun, Idle
    <3> HIDE DEF j
    <3>3. Fit(j)
      BY <3>2 DEF Fit, Named
    <3> QED  BY <2>1, <2>2, <3>1, <3>2, <3>3 DEF Asking
  <2>5. CASE job[c].op # "authorize" /\ ~(job[c].op = "flag" /\ ~job[c].live)
    <3>1. After(job[c]) = Idle
      BY <2>5 DEF After
    <3> QED  BY <1>idle, <2>1, <3>1
  <2> QED  BY <2>3, <2>4, <2>5
<1>7. CASE Act(c)
  <2> DEFINE b == Begun("note", "note", "NONE", "done")
             j == [b EXCEPT !.at = "acted"]
  <2>1. "done" \in {"done", "lease", "released"}
    OBVIOUS
  <2>2. b \in Job /\ Legal(b) /\ Named(b) /\ b.op = "note"
    BY <2>1, NoteIsTyped, Zenon
  <2>3. Becomes(c, j)
    BY <1>7 DEF Act
  <2> HIDE DEF b
  <2>4. j \in Job /\ j.at = "acted" /\ j.op = "note" /\ j.about = b.about /\ j.to = b.to
    BY <2>2, PlaceIsTyped DEF At
  <2> HIDE DEF j
  <2>5. Fit(j)
    BY <2>2, <2>4 DEF Fit, Named
  <2> QED  BY <2>2, <2>3, <2>4, <2>5 DEF Asking
<1>8. CASE Report(c)
  <2>1. "log" \in At \ {"idle", "granted", "acted"} /\ job[c].op = "note"
        /\ Becomes(c, [job[c] EXCEPT !.at = "log"]) /\ ~Write(c)
    BY <1>1, <1>8 DEF Report, Write, Fit, At
  <2>2. PICK j \in Job : Fit(j) /\ Becomes(c, j) /\ j.at = "log" /\ j.op = "note"
    BY <1>at, <2>1
  <2> QED  BY <2>1, <2>2 DEF Asking
<1>9. CASE AcquireLease(c) \/ ReleaseLease(c) \/ Heartbeat(c) \/ FindRuns(c)
  <2>1. PICK at \in {"log", "leave"} : Becomes(c, [job[c] EXCEPT !.at = at])
    BY <1>9 DEF AcquireLease, ReleaseLease, Heartbeat, FindRuns
  <2>2. job[c].op \in {"acquire", "release", "beat", "inspect"} /\ ~Write(c)
    BY <1>9 DEF AcquireLease, ReleaseLease, Heartbeat, FindRuns, Write
  <2>3. at \in At \ {"idle", "granted", "acted"}
    BY DEF At
  <2>4. PICK j \in Job : Fit(j) /\ Becomes(c, j) /\ j.at = at /\ j.op = job[c].op
    BY <1>at, <2>1, <2>2, <2>3
  <2> QED  BY <2>2, <2>4 DEF Asking
<1>10. CASE RequestCancel(c)
  <2>1. job[c].op = "cancel" /\ ~Write(c)
    BY <1>10 DEF RequestCancel, Write
  <2>2. CASE status \in TerminalStatuses \cup {"NONE"}
    <3>1. Becomes(c, [job[c] EXCEPT !.at = "leave"])
      BY <1>10, <2>2 DEF RequestCancel
    <3>2. "leave" \in At \ {"idle", "granted", "acted"}
      BY DEF At
    <3>3. PICK j \in Job : Fit(j) /\ Becomes(c, j) /\ j.at = "leave" /\ j.op = job[c].op
      BY <1>at, <2>1, <3>1, <3>2
    <3> QED  BY <2>1, <3>3 DEF Asking
  <2>3. CASE status \notin TerminalStatuses \cup {"NONE"}
    <3> DEFINE j == [job[c] EXCEPT !.op = "flag", !.at = "write", !.live = LooksLive]
    <3>1. Becomes(c, j)
      BY <1>10, <2>3 DEF RequestCancel
    <3>2. LooksLive \in BOOLEAN
      BY DEF LooksLive
    <3>3. j \in Job /\ j.op = "flag" /\ j.at = "write" /\ j.about = job[c].about /\ j.to = job[c].to
      BY <1>1, <3>2 DEF Job, At
    <3> HIDE DEF j
    <3>4. Fit(j)
      BY <1>1, <2>1, <3>3 DEF Fit, Named
    <3> QED  BY <3>1, <3>3, <3>4 DEF Asking
  <2> QED  BY <2>2, <2>3
<1> QED
  BY <1>2, <1>3, <1>4, <1>5, <1>6, <1>7, <1>8, <1>9, <1>10 DEF Step

(* The lease is typed, whoever takes, renews or releases it.               *)
LEMMA LeaseIsTyped ==
  ASSUME PortInv, NEW c \in Client, Call(c) \/ Step(c) \/ SweptAway(c) \/ EmitFails(c)
  PROVE  lease' \in [holder : Process \cup {"nobody"}, fresh : BOOLEAN]
<1>1. lease \in [holder : Process \cup {"nobody"}, fresh : BOOLEAN] /\ holder \in Process
  BY DEF PortInv
<1>2. /\ NoLease \in [holder : Process \cup {"nobody"}, fresh : BOOLEAN]
      /\ [holder |-> holder, fresh |-> TRUE] \in [holder : Process \cup {"nobody"}, fresh : BOOLEAN]
      /\ [lease EXCEPT !.fresh = TRUE] \in [holder : Process \cup {"nobody"}, fresh : BOOLEAN]
  BY <1>1 DEF NoLease
<1>3. \/ UNCHANGED lease \/ lease' = NoLease
      \/ lease' = [holder |-> holder, fresh |-> TRUE] \/ lease' = [lease EXCEPT !.fresh = TRUE]
  BY DEF Call, Step, SweptAway, EmitFails, Enter, Leave, Write, Emit, Act, Report, AcquireLease,
     Heartbeat, ReleaseLease, RequestCancel, FindRuns, records
<1> QED  BY <1>1, <1>2, <1>3

(* An event about the authorizations is one authorizing call's.            *)
LEMMA OnlyGrantsAuthorize ==
  ASSUME PortInv, NEW c \in Client, job[c].at = "log"
  PROVE  /\ job[c] \in Job /\ Legal(job[c]) /\ Fit(job[c]) /\ job[c].op # "none"
         /\ Unlogged(job[c], status, state, granted, Read(lines))
         /\ job[c].about = "auth" <=> job[c].op = "authorize"
<1>1. /\ job[c] \in Job /\ Legal(job[c]) /\ Fit(job[c])
      /\ Unlogged(job[c], status, state, granted, Read(lines))
  BY DEF PortInv, FileInv, Typed, Jobs, StillUnlogged
<1>2. job[c].op \in Operation \cup {"none", "note", "flag"} /\ job[c].op # "none"
  BY <1>1 DEF Job, Fit
<1>3. job[c].op = "authorize" => job[c].about = "auth"
  BY <1>1 DEF Fit, Named
<1>4. job[c].op \in {"open", "status"} => job[c].about = "run"
  BY <1>1 DEF Fit, Named
<1>5. job[c].op = "node" => job[c].about # "auth"
  BY <1>1, NodeAssumption DEF Legal
<1>6. job[c].op \in {"note", "flag", "cancel", "acquire", "beat", "release", "inspect"} =>
        job[c].about = "note"
  BY <1>1 DEF Fit, Named
<1> QED  BY <1>1, <1>2, <1>3, <1>4, <1>5, <1>6 DEF Operation

(* What an append leaves: a trail that is numbered on, one authorization   *)
(* more if that is what was logged, and a cursor that tells (appendLine).  *)
LEMMA AppendKeeps ==
  ASSUME PortInv, NEW c \in Client, job[c].at = "log",
         NEW ls \in Reached(job[c]) \cup {Put(Closed, LineOf(job[c], TRUE))}
  PROVE  /\ ls \in Seq(Line(Nat)) /\ Gapless(Read(ls)) /\ CursorFits(ls, cursor)
         /\ Cardinality(Auths(Read(lines))) \in Nat /\ Cardinality(Auths(Read(ls))) \in Nat
         /\ Cardinality(Auths(Read(lines))) <= Cardinality(Auths(Read(ls)))
         /\ Cardinality(Auths(Read(ls))) <= granted
         /\ ls = Put(Closed, LineOf(job[c], TRUE)) =>
              /\ CursorFits(ls, [seq |-> NextSeq, size |-> Len(ls)])
              /\ Cardinality(Auths(Read(ls))) =
                   Cardinality(Auths(Read(lines))) + IF job[c].op = "authorize" THEN 1 ELSE 0
<1> DEFINE j == job[c]
           rows == Read(lines)
           more == Append(rows, Numbered(rows, j))
<1>1. /\ j \in Job /\ Unlogged(j, status, state, granted, rows)
      /\ j.about = "auth" <=> j.op = "authorize"
  BY OnlyGrantsAuthorize
<1>2. Trail(lines, cursor) /\ granted \in Nat /\ Cardinality(Auths(rows)) <= granted
  BY DEF PortInv, Counted
<1>3. /\ ls \in Seq(Line(Nat)) /\ Len(lines) \in Nat
      /\ ls = lines \/ Len(ls) = Len(lines) + 1
      /\ Read(ls) \in {rows, more}
      /\ ls = Put(Closed, LineOf(j, TRUE)) => Len(ls) = Len(lines) + 1 /\ Read(ls) = more
  BY <1>1, <1>2, ReachedReads
<1>4. /\ rows \in Seq(Entries) /\ Gapless(rows) /\ NextSeq = Len(rows) + 1
      /\ Gapless(more) /\ Len(more) = Len(rows) + 1 /\ Cardinality(Auths(rows)) \in Nat
      /\ Cardinality(Auths(more)) = Cardinality(Auths(rows)) + IF j.about = "auth" THEN 1 ELSE 0
  <2>1. rows \in Seq(Entries) /\ Gapless(rows) /\ NextSeq = Len(rows) + 1
    BY <1>2, NumberIsNext DEF Trail
  <2> HIDE DEF j, rows
  <2> QED  BY <1>1, <2>1, OneMore
<1> HIDE DEF j, rows, more
<1>5. CursorFits(lines, cursor) /\ rows = Read(lines)
  BY <1>2 DEF Trail, rows
<1>6. Gapless(Read(ls))
  BY <1>3, <1>4
<1>7. CursorFits(ls, cursor)
  BY <1>3, <1>5 DEF CursorFits
<1>8. /\ Cardinality(Auths(Read(ls))) \in Nat
      /\ Cardinality(Auths(rows)) <= Cardinality(Auths(Read(ls)))
      /\ Cardinality(Auths(Read(ls))) <= granted
  BY <1>1, <1>2, <1>3, <1>4 DEF Unlogged
<1>9. ASSUME ls = Put(Closed, LineOf(j, TRUE))
      PROVE  /\ CursorFits(ls, [seq |-> NextSeq, size |-> Len(ls)])
             /\ Cardinality(Auths(Read(ls))) =
                   Cardinality(Auths(rows)) + IF j.op = "authorize" THEN 1 ELSE 0
  <2> DEFINE n == Len(ls)
             m == Len(rows)
  <2>1. Read(ls) = more /\ Len(Read(ls)) = NextSeq /\ NextSeq = m + 1
    BY <1>3, <1>4, <1>9
  <2>2. n \in Nat /\ m \in Nat
    BY <1>3, <1>4
  <2> HIDE DEF m
  <2>3. CursorFits(ls, [seq |-> NextSeq, size |-> n])
    <3>1. NextSeq \in Nat /\ n \in Int /\ n <= n
      BY <2>1, <2>2
    <3> HIDE DEF n
    <3> QED  BY <2>1, <3>1 DEF CursorFits, n
  <2>4. Cardinality(Auths(Read(ls))) = Cardinality(Auths(rows)) + IF j.op = "authorize" THEN 1 ELSE 0
    BY <1>1, <1>4, <2>1
  <2> QED  BY <2>3, <2>4
<1> QED  BY <1>3, <1>4, <1>5, <1>6, <1>7, <1>8, <1>9 DEF j

(* One client's step keeps the count of what may be sent: an authorization *)
(* on record, its event, its statement, each after the one before.         *)
LEMMA CountKept ==
  ASSUME PortInv, NEW c \in Client, NEW j \in Job, Becomes(c, j), acted' \in Nat, granted' \in Nat,
         Cardinality(Auths(Read(lines'))) \in Nat, Cardinality(Auths(Read(lines'))) <= granted',
         acted' + (IF j.at = "granted" THEN 1 ELSE 0) + Cardinality(Auths(Read(lines)))
           <= acted + (IF job[c].at = "granted" THEN 1 ELSE 0) + Cardinality(Auths(Read(lines'))),
         Cardinality(Auths(Read(lines))) \in Nat
  PROVE  Counted'
<1>1. job'[c] = j /\ \A d \in Client \ {c} : job'[d] = job[d]
  BY DEF PortInv, FileInv, Typed, Jobs, Becomes
<1>2. /\ Granted \in SUBSET Client /\ Granted' \in SUBSET Client /\ Granted' \ {c} = Granted \ {c}
      /\ c \in Granted <=> job[c].at = "granted"
      /\ c \in Granted' <=> j.at = "granted"
  BY <1>1 DEF Granted
<1>3. /\ Cardinality(Granted) \in Nat /\ Cardinality(Granted') \in Nat /\ Cardinality(Granted \ {c}) \in Nat
      /\ Cardinality(Granted) = Cardinality(Granted \ {c}) + IF c \in Granted THEN 1 ELSE 0
      /\ Cardinality(Granted') = Cardinality(Granted \ {c}) + IF c \in Granted' THEN 1 ELSE 0
  BY <1>2, OneApart
<1>4. acted \in Nat /\ acted + Cardinality(Granted) <= Cardinality(Auths(Read(lines)))
  BY DEF PortInv, Counted
<1>5. acted' + Cardinality(Granted') <= Cardinality(Auths(Read(lines')))
  BY <1>2, <1>3, <1>4
<1> QED  BY <1>5 DEF Counted

(* What one client's step does to the records it has not logged.           *)
LEMMA WriteRecords ==
  ASSUME PortInv, NEW c \in Client, Write(c)
  PROVE  /\ UNCHANGED <<lines, cursor, acted>> /\ stop' \in BOOLEAN
         /\ granted' = IF job[c].op = "authorize" THEN granted + 1 ELSE granted
         /\ \A j : j.op = job[c].op /\ j.about = job[c].about /\ j.to = job[c].to
                   => Unlogged(j, status', state', granted', Read(lines))
<1>1. /\ job[c] \in Job /\ Legal(job[c]) /\ Recorded(job[c]) /\ stop \in BOOLEAN
      /\ state \in [Node -> NodeState] /\ granted \in Nat
      /\ Cardinality(Auths(Read(lines))) <= granted
  BY DEF PortInv, FileInv, Typed, Jobs, Counted, Write
<1>2. UNCHANGED <<lines, cursor, acted>>
  BY DEF Write
<1>3. stop' \in BOOLEAN /\ granted' = IF job[c].op = "authorize" THEN granted + 1 ELSE granted
  BY <1>1 DEF Recorded
<1>4. ASSUME NEW j, j.op = job[c].op, j.about = job[c].about, j.to = job[c].to
      PROVE  Unlogged(j, status', state', granted', Read(lines))
  <2>1. j.op \in {"open", "status"} => status' = j.to
    BY <1>1, <1>4 DEF Recorded
  <2>2. j.op = "node" => state'[j.about] = j.to
    BY <1>1, <1>4 DEF Recorded, Legal
  <2>3. j.op = "authorize" => Cardinality(Auths(Read(lines))) < granted'
    <3>1. Cardinality(Auths(Read(lines))) \in Nat
      <4>1. Read(lines) \in Seq(Entries) /\ Gapless(Read(lines))
        BY ReadIsTyped DEF PortInv, Trail
      <4> QED  BY <1>1, <4>1, OneMore
    <3> QED  BY <1>1, <1>3, <1>4, <3>1
  <2> QED  BY <2>1, <2>2, <2>3 DEF Unlogged
<1> QED  BY <1>2, <1>3, <1>4

(* Every goroutine's step keeps what the port needs.                       *)
LEMMA ClientKeeps ==
  ASSUME PortInv, FileInv', NEW c \in Client,
         (Call(c) /\ UNCHANGED <<lines, cursor, holder>>) \/ Step(c) \/ SweptAway(c) \/ EmitFails(c)
  PROVE  PortInv'
<1>1. PICK j \in Job :
        /\ Fit(j) /\ Becomes(c, j)
        /\ j.at = "granted" => Emit(c) /\ job[c].op = "authorize"
        /\ j.at = "log" => \/ /\ Write(c) /\ j.op = job[c].op
                              /\ j.about = job[c].about /\ j.to = job[c].to
                           \/ ~Write(c) /\ j.op \notin {"open", "status", "node", "authorize"}
  BY OneFitJob
<1>2. job'[c] = j /\ \A d \in Client \ {c} : job'[d] = job[d]
  BY <1>1 DEF PortInv, FileInv, Typed, Jobs, Becomes
<1>3. \A d \in Client : Fit(job'[d])
  BY <1>1, <1>2 DEF PortInv
<1>4. lease' \in [holder : Process \cup {"nobody"}, fresh : BOOLEAN]
  BY LeaseIsTyped
<1>5. holder' \in Process
  BY DEF PortInv, Step, SweptAway, EmitFails, Enter, Leave, Write, Emit, Act, Report, AcquireLease,
     Heartbeat, ReleaseLease, RequestCancel, FindRuns
<1>6. stop' \in BOOLEAN
  <2>1. CASE Write(c)
    BY <2>1, WriteRecords
  <2>2. CASE ~Write(c)
    BY <2>2, OnlyWritesRecord DEF PortInv
  <2> QED  BY <2>1, <2>2
<1>old. /\ granted \in Nat /\ acted \in Nat /\ Cardinality(Auths(Read(lines))) <= granted
        /\ Trail(lines, cursor) /\ Cardinality(Auths(Read(lines))) \in Nat
  <2>1. granted \in Nat /\ acted \in Nat /\ Cardinality(Auths(Read(lines))) <= granted
        /\ Trail(lines, cursor)
    BY DEF PortInv, Counted
  <2>2. Cardinality(Auths(Read(lines))) \in Nat
    BY <2>1, ReadIsTyped, OneMore, <1>1 DEF Trail
  <2> QED  BY <2>1, <2>2
<1>mine. ASSUME NEW d \in Client \ {c}, job[d].at = "log"
         PROVE  ~Write(c) /\ ~Emit(c) /\ ~EmitFails(c)
  BY <1>mine DEF PortInv, FileInv, Excluded, Inside, Write, Emit, EmitFails
<1>7. StillUnlogged'
  <2> SUFFICES ASSUME NEW d \in Client, job'[d].at = "log"
               PROVE  Unlogged(job'[d], status', state', granted', Read(lines'))
    BY DEF StillUnlogged
  <2>1. CASE d # c
    <3>1. job'[d] = job[d] /\ Unlogged(job[d], status, state, granted, Read(lines))
      BY <1>2, <2>1 DEF PortInv, StillUnlogged
    <3>2. UNCHANGED <<status, state, granted, lines>>
      <4>1. ~Write(c) /\ ~Emit(c) /\ ~EmitFails(c)
        BY <1>mine, <2>1, <3>1
      <4> QED  BY <4>1, OnlyWritesRecord, OnlyEmitsLog
    <3> QED  BY <3>1, <3>2
  <2>2. CASE d = c /\ Write(c)
    BY <1>1, <1>2, <2>2, WriteRecords
  <2>3. CASE d = c /\ ~Write(c)
    BY <1>1, <1>2, <2>3 DEF Unlogged
  <2> QED  BY <2>1, <2>2, <2>3
<1>8. Trail(lines', cursor') /\ Counted'
  <2>1. CASE Emit(c)
    <3> DEFINE ls == Put(Closed, LineOf(job[c], TRUE))
    <3>1. /\ job[c].at = "log" /\ lines' = ls /\ cursor' = [seq |-> NextSeq, size |-> Len(ls)]
          /\ UNCHANGED <<granted, acted>>
      BY <2>1 DEF Emit, records
    <3>2. /\ ls \in Seq(Line(Nat)) /\ Gapless(Read(ls))
          /\ Cardinality(Auths(Read(ls))) \in Nat /\ Cardinality(Auths(Read(ls))) <= granted
          /\ CursorFits(ls, [seq |-> NextSeq, size |-> Len(ls)])
          /\ Cardinality(Auths(Read(ls))) =
               Cardinality(Auths(Read(lines))) + IF job[c].op = "authorize" THEN 1 ELSE 0
      BY <3>1, AppendKeeps
    <3> HIDE DEF ls
    <3>3. Trail(lines', cursor')
      BY <3>1, <3>2 DEF Trail
    <3>4. Counted'
      BY <1>1, <1>old, <3>1, <3>2, CountKept
    <3> QED  BY <3>3, <3>4
  <2>2. CASE EmitFails(c)
    <3> DEFINE ls == lines'
    <3>1. /\ job[c].at = "log" /\ ls \in Reached(job[c]) /\ UNCHANGED <<granted, acted, cursor>>
          /\ job' = [job EXCEPT ![c] = Idle]
      BY <2>2 DEF EmitFails, records, Returns, Becomes
    <3>2. /\ ls \in Seq(Line(Nat)) /\ Gapless(Read(ls)) /\ CursorFits(ls, cursor)
          /\ Cardinality(Auths(Read(ls))) \in Nat /\ Cardinality(Auths(Read(ls))) <= granted
          /\ Cardinality(Auths(Read(lines))) <= Cardinality(Auths(Read(ls)))
      BY <3>1, AppendKeeps
    <3>3. Trail(lines', cursor')
      BY <3>1, <3>2 DEF Trail
    <3>4. j = Idle
      BY <1>2, <3>1 DEF PortInv, FileInv, Typed, Jobs
    <3>5. j.at # "granted" /\ job[c].at # "granted"
      BY <3>1, <3>4, IdleIsTyped
    <3>6. Counted'
      BY <1>1, <1>old, <3>1, <3>2, <3>5, CountKept
    <3> QED  BY <3>3, <3>6
  <2>3. CASE ~Emit(c) /\ ~EmitFails(c)
    <3>1. UNCHANGED <<lines, cursor>> /\ j.at # "granted"
      BY <1>1, <2>3, OnlyEmitsLog
    <3>2. \/ Write(c) /\ UNCHANGED acted /\ granted' = IF job[c].op = "authorize" THEN granted + 1 ELSE granted
          \/ Act(c) /\ acted' = acted + 1 /\ job[c].at = "granted" /\ UNCHANGED granted
          \/ ~Write(c) /\ ~Act(c) /\ UNCHANGED <<acted, granted>>
      <4>1. CASE Write(c)
        BY <4>1, WriteRecords
      <4>2. CASE Act(c)
        BY <4>2 DEF Act
      <4>3. CASE ~Write(c) /\ ~Act(c)
        BY <2>3, <4>3 DEF Call, Step, SweptAway, Enter, Leave, Report, AcquireLease,
           Heartbeat, ReleaseLease, RequestCancel, FindRuns, records
      <4> QED  BY <4>1, <4>2, <4>3
    <3>3. /\ acted' \in Nat /\ granted' \in Nat /\ Cardinality(Auths(Read(lines))) <= granted'
          /\ acted' <= acted + IF job[c].at = "granted" THEN 1 ELSE 0
      BY <1>old, <3>2
    <3>4. Trail(lines', cursor')
      BY <1>old, <3>1
    <3>5. lines' = lines
      BY <3>1
    <3>6. Counted'
      BY <1>1, <1>old, <3>1, <3>3, <3>5, CountKept
    <3> QED  BY <3>4, <3>6
  <2> QED  BY <2>1, <2>2, <2>3
<1> QED  BY <1>3, <1>4, <1>5, <1>6, <1>7, <1>8 DEF PortInv

(* A crash keeps it too: the records stand, and the next cursor counts.    *)
LEMMA PortCrashKeeps ==
  ASSUME PortInv, FileInv', Crash
  PROVE  /\ PortInv' /\ UNCHANGED records
         /\ \/ UNCHANGED lines
            \/ mutex \in Client /\ job[mutex].at = "log" /\ lines' \in Reached(job[mutex])
<1>1. /\ UNCHANGED records /\ job' = [c \in Client |-> Idle] /\ cursor' = NoCursor
      /\ holder' \in Process
  BY DEF Crash
<1>2. \/ UNCHANGED lines
      \/ mutex \in Client /\ job[mutex].at = "log" /\ lines' \in Reached(job[mutex])
  BY DEF Crash, PortInv, FileInv, Typed
<1>3. \A c \in Client : job'[c] = Idle
  BY <1>1
<1>4. Fit(Idle) /\ Idle.at = "idle"
  BY IdleIsTyped DEF Fit, Named
<1>old. /\ granted \in Nat /\ acted \in Nat /\ Cardinality(Auths(Read(lines))) <= granted
        /\ Trail(lines, cursor) /\ Cardinality(Auths(Read(lines))) \in Nat
        /\ Cardinality(Granted) \in Nat /\ acted <= Cardinality(Auths(Read(lines)))
  <2>1. granted \in Nat /\ acted \in Nat /\ Cardinality(Auths(Read(lines))) <= granted
        /\ Trail(lines, cursor) /\ acted + Cardinality(Granted) <= Cardinality(Auths(Read(lines)))
    BY DEF PortInv, Counted
  <2>2. Cardinality(Auths(Read(lines))) \in Nat
    BY <2>1, ReadIsTyped, OneMore, IdleIsTyped DEF Trail
  <2>3. Cardinality(Granted) \in Nat
    <3>1. Granted \in SUBSET Client
      BY DEF Granted
    <3>2. IsFiniteSet(Granted)
      BY <3>1, ClientAssumption, FS_Subset
    <3> QED  BY <3>2, FS_CardinalityType
  <2> QED  BY <2>1, <2>2, <2>3
<1>5. /\ lines' \in Seq(Line(Nat)) /\ Gapless(Read(lines'))
      /\ Cardinality(Auths(Read(lines'))) \in Nat /\ Cardinality(Auths(Read(lines'))) <= granted
      /\ Cardinality(Auths(Read(lines))) <= Cardinality(Auths(Read(lines')))
  <2>1. CASE UNCHANGED lines
    BY <1>old, <2>1 DEF Trail
  <2>2. CASE mutex \in Client /\ job[mutex].at = "log" /\ lines' \in Reached(job[mutex])
    BY <2>2, AppendKeeps
  <2> QED  BY <1>2, <2>1, <2>2
<1>6. CursorFits(lines', cursor')
  <2>1. Len(lines') \in Nat
    BY <1>5
  <2> QED  BY <1>1, <2>1 DEF CursorFits, NoCursor
<1>7. Counted'
  <2>1. Granted' = {}
    BY <1>3, <1>4 DEF Granted
  <2>2. Cardinality(Granted') = 0
    BY <2>1, FS_EmptySet
  <2>3. granted' = granted /\ acted' = acted
    BY <1>1 DEF records
  <2> QED  BY <1>old, <1>5, <2>2, <2>3 DEF Counted
<1>8. StillUnlogged'
  BY <1>3, <1>4 DEF StillUnlogged
<1>9. UNCHANGED <<stop, lease>>
  BY <1>1 DEF records
<1> QED  BY <1>1, <1>2, <1>3, <1>4, <1>5, <1>6, <1>7, <1>8, <1>9 DEF PortInv, Trail

(* So what the port needs stands throughout.                               *)
LEMMA PortStays == PortInv /\ [Next]_fileVars => PortInv'
<1> SUFFICES ASSUME PortInv, [Next]_fileVars PROVE PortInv'
  OBVIOUS
<1>0. FileInv'
  BY NextKeeps DEF PortInv
<1>same. ASSUME UNCHANGED <<status, stop, state, granted, acted, job, lines, cursor, holder>>,
                lease' \in [holder : Process \cup {"nobody"}, fresh : BOOLEAN]
         PROVE  PortInv'
  <2>1. StillUnlogged'
    BY <1>same DEF PortInv, StillUnlogged
  <2>2. Counted'
    BY <1>same DEF PortInv, Counted, Granted
  <2>3. Trail(lines', cursor')
    BY <1>same DEF PortInv
  <2> QED  BY <1>0, <1>same, <2>1, <2>2, <2>3 DEF PortInv
<1>1. ASSUME NEW c \in Client,
             (Call(c) /\ UNCHANGED <<lines, cursor, holder>>) \/ Step(c) \/ SweptAway(c) \/ EmitFails(c)
      PROVE  PortInv'
  BY <1>0, <1>1, ClientKeeps
<1>2. CASE Crash
  BY <1>0, <1>2, PortCrashKeeps
<1>3. CASE Expire /\ UNCHANGED <<lines, cursor, holder>>
  <2>1. lease' \in [holder : Process \cup {"nobody"}, fresh : BOOLEAN]
    BY <1>3 DEF Expire, PortInv
  <2> QED  BY <1>3, <1>same, <2>1 DEF Expire
<1>4. CASE UNCHANGED fileVars
  BY <1>4, <1>same DEF fileVars, records, PortInv
<1> QED  BY <1>1, <1>2, <1>3, <1>4 DEF Next

(* At first nothing is written, logged or granted.                         *)
LEMMA PortBegins == Init => PortInv
<1> SUFFICES ASSUME Init PROVE PortInv
  OBVIOUS
<1>1. /\ granted = 0 /\ acted = 0 /\ stop = FALSE /\ lease = NoLease /\ lines = <<>>
      /\ cursor = NoCursor /\ holder \in Process /\ \A c \in Client : job[c] = Idle
  BY DEF Init, StoreInit
<1>2. Fit(Idle) /\ Idle.at = "idle"
  BY IdleIsTyped DEF Fit, Named
<1>3. Read(lines) = <<>> /\ lines \in Seq(Line(Nat)) /\ Len(lines) = 0
  BY <1>1, ReadEmpty
<1>4. Auths(Read(lines)) = {} /\ Granted = {} /\ Gapless(Read(lines))
  BY <1>1, <1>2, <1>3 DEF Auths, Granted, Gapless
<1>5. Counted
  <2>1. Cardinality(Auths(Read(lines))) = 0 /\ Cardinality(Granted) = 0
    BY <1>4, FS_EmptySet
  <2> QED  BY <1>1, <2>1 DEF Counted
<1>6. Trail(lines, cursor)
  BY <1>1, <1>3, <1>4 DEF Trail, CursorFits, NoCursor
<1>7. StillUnlogged
  BY <1>1, <1>2 DEF StillUnlogged
<1>8. lease \in [holder : Process \cup {"nobody"}, fresh : BOOLEAN]
  BY <1>1 DEF NoLease
<1> QED  BY <1>1, <1>2, <1>5, <1>6, <1>7, <1>8, InitKeeps DEF PortInv

(* No authorization is on record that no call asked for.                   *)
EachAsked == calls \in 0..MaxCalls /\ granted + Cardinality(Asked) <= calls

(* At first none is asked for.                                             *)
LEMMA AskedBegins == Init => EachAsked
<1> SUFFICES ASSUME Init PROVE EachAsked
  OBVIOUS
<1>1. granted = 0 /\ calls = 0 /\ \A c \in Client : job[c] = Idle
  BY DEF Init, StoreInit
<1>2. Asked = {}
  BY <1>1, IdleIsTyped DEF Asked, Asking
<1>3. Cardinality(Asked) = 0
  BY <1>2, FS_EmptySet
<1> QED  BY <1>1, <1>3, CallsAssumption DEF EachAsked

(* A call asks, a rename grants, a crash forgets, and no other step counts.*)
LEMMA AskedStays == PortInv /\ EachAsked /\ [Next]_fileVars => EachAsked'
<1> SUFFICES ASSUME PortInv, EachAsked, [Next]_fileVars PROVE EachAsked'
  OBVIOUS
<1>0. granted \in Nat /\ calls \in 0..MaxCalls /\ granted + Cardinality(Asked) <= calls
  BY DEF PortInv, Counted, EachAsked
<1>1. ASSUME NEW c \in Client, Call(c) \/ Step(c) \/ SweptAway(c) \/ EmitFails(c)
      PROVE  EachAsked'
  <2>1. PICK j \in Job :
          /\ Becomes(c, j)
          /\ j.at = "log" => \/ /\ Write(c) /\ j.op = job[c].op
                                /\ j.about = job[c].about /\ j.to = job[c].to
                             \/ ~Write(c) /\ j.op \notin {"open", "status", "node", "authorize"}
          /\ Asking(j) => Call(c) \/ Asking(job[c])
    BY <1>1, OneFitJob
  <2>2. job'[c] = j /\ \A d \in Client \ {c} : job'[d] = job[d]
    BY <2>1 DEF PortInv, FileInv, Typed, Jobs, Becomes
  <2>3. /\ Asked \in SUBSET Client /\ Asked' \in SUBSET Client /\ Asked' \ {c} = Asked \ {c}
        /\ c \in Asked <=> Asking(job[c])
        /\ c \in Asked' <=> Asking(j)
    BY <2>2 DEF Asked
  <2>4. \/ calls < MaxCalls /\ calls' = calls + 1 /\ UNCHANGED granted
        \/ UNCHANGED <<calls, granted>> /\ (c \in Asked' => c \in Asked)
        \/ UNCHANGED calls /\ granted' = granted + 1 /\ c \in Asked /\ c \notin Asked'
    <3>1. CASE Call(c)
      BY <3>1 DEF Call, records
    <3>2. CASE Write(c)
      <4>1. /\ job[c].at = "write" /\ UNCHANGED calls
            /\ granted' = IF job[c].op = "authorize" THEN granted + 1 ELSE granted
        BY <3>2 DEF Write, Recorded
      <4>2. ~Call(c)
        BY <4>1 DEF Call, Active
      <4>3. j.at = "log"
        <5>1. job[c] \in Job
          BY DEF PortInv, FileInv, Typed, Jobs
        <5>2. job'[c] = [job[c] EXCEPT !.at = "log"]
          BY <3>2 DEF Write, Becomes, PortInv, FileInv, Typed, Jobs
        <5> QED  BY <2>2, <5>1, <5>2 DEF Job
      <4>4. c \in Asked' => c \in Asked
        BY <2>1, <2>3, <4>2
      <4>5. job[c].op = "authorize" => Asking(job[c])
        BY <4>1 DEF Asking
      <4>6. c \notin Asked'
        BY <2>3, <4>3 DEF Asking
      <4> QED  BY <2>3, <4>1, <4>4, <4>5, <4>6
    <3>3. CASE ~Call(c) /\ ~Write(c)
      <4>1. UNCHANGED granted
        BY <1>1, <3>3, OnlyWritesRecord
      <4>2. UNCHANGED calls
        BY <1>1, <3>3 DEF Step, SweptAway, EmitFails, Enter, Leave, Emit, Act, Report,
           AcquireLease, Heartbeat, ReleaseLease, RequestCancel, FindRuns, records
      <4> QED  BY <2>1, <2>3, <3>3, <4>1, <4>2
    <3> QED  BY <3>1, <3>2, <3>3
  <2> QED  BY <1>0, <2>3, <2>4, GrantsFollowCalls DEF EachAsked
<1>2. CASE Crash
  <2>1. UNCHANGED <<granted, calls>> /\ \A c \in Client : job'[c] = Idle
    BY <1>2 DEF Crash, records
  <2>2. Asked' = {}
    BY <2>1, IdleIsTyped DEF Asked, Asking
  <2>3. Cardinality(Asked') = 0
    BY <2>2, FS_EmptySet
  <2>4. Cardinality(Asked) \in Nat
    <3>1. Asked \in SUBSET Client
      BY DEF Asked
    <3>2. IsFiniteSet(Asked)
      BY <3>1, ClientAssumption, FS_Subset
    <3> QED  BY <3>2, FS_CardinalityType
  <2> QED  BY <1>0, <2>1, <2>3, <2>4, CallsAssumption DEF EachAsked
<1>3. CASE Expire \/ UNCHANGED fileVars
  BY <1>3 DEF Expire, fileVars, records, EachAsked, Asked
<1> QED  BY <1>1, <1>2, <1>3 DEF Next

(* Statements, authorizations and calls, each at most as many as the next. *)
LEMMA InBounds ==
  ASSUME PortInv, EachAsked
  PROVE  calls \in 0..MaxCalls /\ granted \in 0..calls /\ acted \in 0..granted
<1>1. Cardinality(Asked) \in Nat /\ Cardinality(Granted) \in Nat
  <2>1. Asked \in SUBSET Client /\ Granted \in SUBSET Client
    BY DEF Asked, Granted
  <2>2. IsFiniteSet(Asked) /\ IsFiniteSet(Granted)
    BY <2>1, ClientAssumption, FS_Subset
  <2> QED  BY <2>2, FS_CardinalityType
<1>2. Cardinality(Auths(Read(lines))) \in Nat
  <2>1. Read(lines) \in Seq(Entries) /\ Gapless(Read(lines))
    BY ReadIsTyped DEF PortInv, Trail
  <2> QED  BY <2>1, IdleIsTyped, OneMore
<1> QED  BY <1>1, <1>2, CallsAssumption DEF PortInv, Counted, EachAsked

-----------------------------------------------------------------------------
(* The file store implements the port                                      *)

Contract == INSTANCE StoreContract WITH Holder <- Process, trail <- readAudit

(* The contract's vocabulary is the store's.                               *)
LEMMA ContractWords ==
  /\ \A from, to : Contract!ValidRunTransition(from, to) <=> ValidRunTransition(from, to)
  /\ \A from, to, reason :
       Contract!ValidTransition(from, to, reason) <=> ValidTransition(from, to, reason)
  /\ Contract!TransitionReason = TransitionReason
  /\ Contract!RunStatus = RunStatus /\ Contract!NodeState = NodeState
  /\ Contract!InitialNodeState = InitialNodeState /\ Contract!NoLease = NoLease
  /\ Contract!Cardinality(Contract!Mentions("auth")) = Cardinality(Auths(readAudit))
<1>1. \A from, to : Contract!ValidRunTransition(from, to) <=> ValidRunTransition(from, to)
  BY DEF Contract!ValidRunTransition, ValidRunTransition, Contract!RunStatus, RunStatus,
     Contract!ResumableStatuses, ResumableStatuses
<1>2. \A from, to, reason :
        Contract!ValidTransition(from, to, reason) <=> ValidTransition(from, to, reason)
  BY DEF Contract!ValidTransition, ValidTransition, Contract!NormalTransitions, NormalTransitions
<1>3. /\ Contract!TransitionReason = TransitionReason
      /\ Contract!RunStatus = RunStatus /\ Contract!NodeState = NodeState
      /\ Contract!InitialNodeState = InitialNodeState /\ Contract!NoLease = NoLease
  BY DEF Contract!TransitionReason, TransitionReason, Contract!RunStatus, RunStatus,
     Contract!NodeState, NodeState, Contract!InitialNodeState, InitialNodeState,
     Contract!NoLease, NoLease
<1>4. Contract!Mentions("auth") = Auths(readAudit)
  BY DEF Contract!Mentions, Auths
<1>5. \A S : Contract!Cardinality(S) = Cardinality(S)
  BY DEF Contract!Cardinality, Cardinality, Contract!IsFiniteSet, IsFiniteSet
<1> QED  BY <1>1, <1>2, <1>3, <1>4, <1>5

(* A rename is one step of the port, whose event may come or not.          *)
LEMMA WriteImplements ==
  ASSUME PortInv, NEW c \in Client, Write(c)
  PROVE  [Contract!Next]_(Contract!port)
<1>0. /\ job[c] \in Job /\ Legal(job[c]) /\ Named(job[c]) /\ Recorded(job[c])
      /\ Current(job[c], status, state)
      /\ state \in [Node -> NodeState] /\ stop \in BOOLEAN /\ UNCHANGED <<lease, acted>>
      /\ status \in RunStatus \cup {"NONE"}
  BY DEF PortInv, FileInv, Typed, Jobs, StillCurrent, Fit, Write
<1>1. UNCHANGED readAudit
  BY DEF Write, readAudit
<1>2. \A about, to : Contract!MaybeLogged(about, to)
  BY <1>1 DEF Contract!MaybeLogged
<1>3. CASE job[c].op = "open"
  <2>1. status = "NONE" /\ status' = "RUNNING" /\ UNCHANGED <<stop, state, granted>>
    BY <1>0, <1>3 DEF Recorded, Current, Legal
  <2> QED  BY <1>0, <1>2, <2>1 DEF Contract!CreateRun, Contract!Next
<1>4. CASE job[c].op = "status"
  <2>1. /\ status' = job[c].to /\ stop' = (stop /\ job[c].to # "RUNNING")
        /\ UNCHANGED <<state, granted>> /\ ValidRunTransition(status, job[c].to)
    BY <1>0, <1>4 DEF Recorded, Current, Legal
  <2>2. job[c].to \in RunStatus
    BY <2>1 DEF ValidRunTransition, RunStatus
  <2>3. Contract!SetRunStatus(job[c].to)
    BY <1>0, <1>2, <2>1, ContractWords DEF Contract!SetRunStatus
  <2> QED  BY <2>2, <2>3, ContractWords DEF Contract!Next
<1>5. CASE job[c].op = "node"
  <2> DEFINE n == job[c].about
  <2>1. /\ state' = [state EXCEPT ![n] = job[c].to] /\ UNCHANGED <<status, granted>> /\ n \in Node
        /\ \E reason \in TransitionReason : ValidTransition(state[n], job[c].to, reason)
    BY <1>0, <1>5 DEF Recorded, Current, Legal
  <2>2. UNCHANGED stop
    BY <1>0, <1>5 DEF Recorded
  <2>3. job[c].to \in NodeState
    BY <2>1 DEF ValidTransition, NormalTransitions, NodeState, TransitionReason
  <2>4. Contract!TransitionNode(n, job[c].to)
    BY <1>0, <1>2, <2>1, <2>2, ContractWords DEF Contract!TransitionNode
  <2> QED  BY <2>1, <2>3, <2>4, ContractWords DEF Contract!Next
<1>6. CASE job[c].op = "authorize"
  <2>1. granted' = granted + 1 /\ UNCHANGED <<status, stop, state>>
    BY <1>0, <1>6 DEF Recorded
  <2> QED  BY <1>0, <1>2, <2>1 DEF Contract!Authorize, Contract!Next
<1>7. CASE job[c].op = "flag"
  <2>1. stop' = TRUE /\ UNCHANGED <<status, state, granted>>
    BY <1>0, <1>7 DEF Recorded
  <2>2. status # "NONE"
    BY <1>7 DEF PortInv, FileInv, StillFlagged, IncompleteStatuses, ResumableStatuses
  <2> QED  BY <1>0, <1>2, <2>1, <2>2 DEF Contract!RequestCancel, Contract!Next
<1>8. CASE job[c].op \notin {"open", "status", "node", "authorize", "flag"}
  <2>1. UNCHANGED <<status, state, granted, stop>>
    BY <1>0, <1>8 DEF Recorded
  <2> QED  BY <1>0, <1>1, <2>1 DEF Contract!port
<1> QED  BY <1>3, <1>4, <1>5, <1>6, <1>7, <1>8

(* An event that reaches the disk, whoever survives it, says what its      *)
(* record says; and no more of it is a step of the port.                   *)
LEMMA AppendImplements ==
  ASSUME PortInv, NEW c \in Client, job[c].at = "log", UNCHANGED records,
         lines' \in Reached(job[c]) \cup {Put(Closed, LineOf(job[c], TRUE))}
  PROVE  [Contract!Next]_(Contract!port)
<1> DEFINE j == job[c]
<1>0. /\ j \in Job /\ Legal(j) /\ Named(j) /\ j.op # "none"
      /\ Unlogged(j, status, state, granted, Read(lines))
      /\ j.about = "auth" <=> j.op = "authorize"
  BY OnlyGrantsAuthorize DEF Fit
<1>1. readAudit = Read(lines) /\ readAudit' = Read(lines')
  BY DEF readAudit, Read
<1>2. Read(lines') \in {Read(lines), Append(Read(lines), Numbered(Read(lines), j))}
  BY <1>0, ReachedReads DEF PortInv
<1>3. UNCHANGED <<status, stop, state, lease, granted, acted>>
  BY DEF records
<1> HIDE DEF j
<1>4. CASE readAudit' = readAudit
  BY <1>3, <1>4 DEF Contract!port
<1>5. CASE readAudit' = Append(readAudit, Numbered(readAudit, j))
  <2>1. Numbered(readAudit, j) = Contract!Numbered(j.about, j.to)
    BY DEF Numbered, Contract!Numbered
  <2>2. "run" \notin Node /\ "auth" \notin Node /\ "note" \notin Node
    BY NodeAssumption
  <2>3. CASE j.op \in {"open", "status"}
    <3>1. j.about = "run" /\ j.to = status
      BY <1>0, <2>3 DEF Named, Unlogged
    <3>2. j.to \in RunStatus
      BY <1>0, <2>3 DEF Legal, ValidRunTransition, RunStatus
    <3>3. Contract!AppendAudit("run", j.to)
      BY <1>3, <1>5, <2>1, <2>2, <3>1 DEF Contract!AppendAudit
    <3> QED  BY <3>2, <3>3, ContractWords DEF Contract!Next
  <2>4. CASE j.op = "node"
    <3>1. j.about \in Node /\ j.to = state[j.about]
      BY <1>0, <2>4 DEF Legal, Unlogged
    <3>2. j.to \in NodeState
      BY <3>1 DEF PortInv, FileInv, Typed
    <3>3. Contract!AppendAudit(j.about, j.to)
      BY <1>3, <1>5, <2>1, <2>2, <3>1 DEF Contract!AppendAudit
    <3> QED  BY <3>1, <3>2, <3>3, ContractWords DEF Contract!Next
  <2>5. CASE j.op = "authorize"
    <3>1. j.about = "auth" /\ j.to = "granted" /\ Cardinality(Auths(readAudit)) < granted
      BY <1>0, <1>1, <2>5 DEF Named, Unlogged
    <3>2. Contract!AppendAudit("auth", j.to)
      BY <1>3, <1>5, <2>1, <2>2, <3>1, ContractWords DEF Contract!AppendAudit
    <3> QED  BY <3>1, <3>2 DEF Contract!Next
  <2>6. CASE j.op \in {"note", "flag", "cancel", "acquire", "beat", "release", "inspect"}
    <3>1. j.about = "note" /\ j.to \in {"stop", "lease", "released", "done"}
      BY <1>0, <2>6 DEF Named
    <3>2. Contract!AppendAudit("note", j.to)
      BY <1>3, <1>5, <2>1, <2>2, <3>1 DEF Contract!AppendAudit
    <3> QED  BY <3>1, <3>2 DEF Contract!Next
  <2> QED  BY <1>0, <2>3, <2>4, <2>5, <2>6 DEF Job, Operation
<1> QED  BY <1>1, <1>2, <1>4, <1>5

(* A statement is sent after its authorization's event, and the lease      *)
(* moves as the port says; nothing else the store does can be told there.  *)
LEMMA StepImplements ==
  ASSUME PortInv, [Next]_fileVars
  PROVE  [Contract!Next]_(Contract!port)
<1>quiet. ASSUME UNCHANGED <<status, stop, state, lease, granted, acted, lines>>
          PROVE  UNCHANGED Contract!port
  BY <1>quiet DEF Contract!port, readAudit
<1>read. UNCHANGED lines => UNCHANGED readAudit
  BY DEF readAudit
<1>types. lease \in [holder : Process \cup {"nobody"}, fresh : BOOLEAN] /\ holder \in Process
  BY DEF PortInv
<1>1. ASSUME NEW c \in Client, (Call(c) /\ UNCHANGED <<lines, cursor>>) \/ Step(c) \/ SweptAway(c)
      PROVE  [Contract!Next]_(Contract!port)
  <2>1. CASE Write(c)
    BY <2>1, WriteImplements
  <2>2. CASE Emit(c)
    <3>1. job[c].at = "log" /\ UNCHANGED records /\ lines' = Put(Closed, LineOf(job[c], TRUE))
      BY <2>2 DEF Emit
    <3> QED  BY <3>1, AppendImplements
  <2>3. CASE Act(c)
    <3>1. /\ acted' = acted + 1 /\ UNCHANGED <<status, stop, state, lease, granted, readAudit>>
          /\ c \in Granted
      BY <1>read, <2>3 DEF Act, Granted
    <3>2. acted < Cardinality(Auths(readAudit))
      <4>1. /\ Cardinality(Granted) \in Nat /\ Cardinality(Granted \ {c}) \in Nat
            /\ Cardinality(Granted) = Cardinality(Granted \ {c}) + 1
        <5>1. Granted \in SUBSET Client
          BY DEF Granted
        <5> QED  BY <3>1, <5>1, OneApart
      <4>2. acted \in Nat /\ acted + Cardinality(Granted) <= Cardinality(Auths(readAudit))
        BY DEF PortInv, Counted, readAudit, Read
      <4>3. Cardinality(Auths(readAudit)) \in Nat
        BY ReadIsTyped, OneMore, IdleIsTyped DEF PortInv, Trail, readAudit, Read
      <4> QED  BY <4>1, <4>2, <4>3
    <3> QED  BY <3>1, <3>2, ContractWords DEF Contract!Act, Contract!Next
  <2>4. CASE AcquireLease(c) /\ ~UNCHANGED lease
    <3>1. /\ lease.holder \in {"nobody", holder} \/ ~lease.fresh
          /\ lease' = [holder |-> holder, fresh |-> TRUE]
          /\ UNCHANGED <<status, stop, state, granted, acted, readAudit>>
      BY <1>read, <2>4 DEF AcquireLease, Leasable
    <3>2. Contract!AcquireLease(holder)
      BY <3>1 DEF Contract!AcquireLease
    <3> QED  BY <1>types, <3>2 DEF Contract!Next
  <2>5. CASE Heartbeat(c) /\ ~UNCHANGED lease
    <3>1. /\ lease.holder = holder /\ lease' = [lease EXCEPT !.fresh = TRUE]
          /\ UNCHANGED <<status, stop, state, granted, acted, readAudit>>
      BY <1>read, <2>5 DEF Heartbeat
    <3>2. lease' = [holder |-> holder, fresh |-> TRUE]
      BY <1>types, <3>1
    <3>3. Contract!AcquireLease(holder)
      BY <3>1, <3>2 DEF Contract!AcquireLease
    <3> QED  BY <1>types, <3>3 DEF Contract!Next
  <2>6. CASE ReleaseLease(c) /\ ~UNCHANGED lease
    <3>1. /\ lease.holder = holder /\ lease' = NoLease
          /\ UNCHANGED <<status, stop, state, granted, acted, readAudit>>
      BY <1>read, <2>6 DEF ReleaseLease
    <3>2. Contract!ReleaseLease(holder)
      BY <3>1, ContractWords DEF Contract!ReleaseLease
    <3> QED  BY <1>types, <3>2 DEF Contract!Next
  <2>7. CASE /\ ~Write(c) /\ ~Emit(c) /\ ~Act(c)
             /\ (AcquireLease(c) \/ Heartbeat(c) \/ ReleaseLease(c)) => UNCHANGED lease
    <3>1. UNCHANGED <<lease, acted>>
      BY <1>1, <2>7 DEF Call, Step, SweptAway, Enter, Leave, Report, AcquireLease, Heartbeat,
         ReleaseLease, RequestCancel, FindRuns, records
    <3>2. UNCHANGED <<status, stop, state, granted>>
      BY <1>1, <2>7, OnlyWritesRecord
    <3>3. UNCHANGED lines
      BY <1>1, <2>7, OnlyEmitsLog
    <3> QED  BY <1>quiet, <3>1, <3>2, <3>3
  <2> QED  BY <2>1, <2>2, <2>3, <2>4, <2>5, <2>6, <2>7
<1>2. ASSUME NEW c \in Client, EmitFails(c) PROVE [Contract!Next]_(Contract!port)
  <2>1. job[c].at = "log" /\ UNCHANGED records /\ lines' \in Reached(job[c])
    BY <1>2 DEF EmitFails
  <2> QED  BY <2>1, AppendImplements
<1>3. CASE Crash
  <2>1. /\ UNCHANGED records
        /\ \/ UNCHANGED lines
           \/ mutex \in Client /\ job[mutex].at = "log" /\ lines' \in Reached(job[mutex])
    BY <1>3, NextKeeps, PortCrashKeeps DEF PortInv
  <2>2. CASE UNCHANGED lines
    BY <1>quiet, <2>1, <2>2 DEF records
  <2>3. CASE mutex \in Client /\ job[mutex].at = "log" /\ lines' \in Reached(job[mutex])
    BY <2>1, <2>3, AppendImplements
  <2> QED  BY <2>1, <2>2, <2>3
<1>4. CASE Expire /\ UNCHANGED lines
  BY <1>4, <1>read DEF Expire, Contract!Expire, Contract!Next
<1>5. CASE UNCHANGED fileVars
  BY <1>5, <1>quiet DEF fileVars, records
<1> QED  BY <1>1, <1>2, <1>3, <1>4, <1>5 DEF Next

(* The file store keeps every promise of the state store port, through     *)
(* every crash, failed write and failed append, for any number of them and *)
(* of goroutines (store.go, file.go, atomic.go).                           *)
THEOREM FileImplementsContract == Spec => Contract!Spec
<1>1. Init => Contract!Init
  <2> SUFFICES ASSUME Init PROVE Contract!Init
    OBVIOUS
  <2>1. readAudit = <<>>
    BY ReadEmpty DEF Init, readAudit, Read
  <2> QED  BY <2>1, ContractWords DEF Init, StoreInit, Contract!Init
<1>2. PortInv /\ [Next]_fileVars => [Contract!Next]_(Contract!port)
  BY StepImplements
<1> QED  BY <1>1, <1>2, PortBegins, PortStays, PTL DEF Spec, Contract!Spec

=================================================================================
