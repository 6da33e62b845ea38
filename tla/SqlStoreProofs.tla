----------------------------- MODULE SqlStoreProofs -----------------------------
(***************************************************************************)
(* What the transactions of the SQL state store keep, for every number of  *)
(* clients and every interleaving of their statements: the row locks make  *)
(* each compare-and-set whole, and the unique index numbers the trail.     *)
(***************************************************************************)
EXTENDS SqlStore, StoreCallsProofs, SequenceTheorems

-----------------------------------------------------------------------------
(* The inductive invariant *)

Event == [seq : Nat, about : About, to : Value]

Typed ==
  /\ Jobs
  /\ status \in RunStatus \cup {"NONE"}
  /\ state \in [Node -> NodeState]
  /\ log \in Seq(Event)

(* Inside a transaction that holds its row.                                *)
Inside == {"touched", "blocked", "logged"}

(* A row is one transaction's, and what was compared is so until it ends.  *)
Exclusive ==
  \A c, d \in Client :
    c # d /\ job[c].at \in Inside /\ job[d].at \in Inside /\ Row(job[c]) # "none"
      => Row(job[c]) # Row(job[d])

StillMatches == \A c \in Client : job[c].at \in Inside => Matches(job[c])

(* The trail is numbered from 1 without a gap.                             *)
Gapless == \A i \in DOMAIN log : log[i].seq = i

(* One transaction at a time has the next number; a blocked one waits for  *)
(* it, or for a number already taken.                                      *)
NextNumber ==
  /\ \A c \in Client : job[c].at = "logged" => job[c].seq = Len(log) + 1
  /\ \A c, d \in Client : job[c].at = "logged" /\ job[d].at = "logged" => c = d
  /\ \A c \in Client : job[c].at = "blocked" => job[c].seq \in 1..(Len(log) + 1)

SqlInv == Typed /\ Exclusive /\ StillMatches /\ Gapless /\ NextNumber

-----------------------------------------------------------------------------
(* Steps that leave the records and the trail alone *)

(* One client's job changes and the others' stay (any statement).          *)
LEMMA JobOf ==
  ASSUME Typed, NEW c \in Client, NEW j \in Job, Becomes(c, j)
  PROVE  job' \in [Client -> Job] /\ job'[c] = j /\ \A d \in Client \ {c} : job'[d] = job[d]
  BY DEF Typed, Jobs, Becomes

(* A client that is not inside a transaction, or leaves it, disturbs none. *)
LEMMA OutsideKeeps ==
  ASSUME SqlInv, NEW c \in Client, NEW j \in Job, Legal(j), j.at \notin Inside, Becomes(c, j),
         UNCHANGED <<status, state, log>>
  PROVE  SqlInv'
<1>1. job' \in [Client -> Job] /\ job'[c] = j /\ \A d \in Client \ {c} : job'[d] = job[d]
  BY JobOf DEF SqlInv
<1>2. Typed'
  BY <1>1 DEF SqlInv, Typed, Jobs
<1>3. Exclusive'
  BY <1>1 DEF SqlInv, Exclusive
<1>4. StillMatches'
  BY <1>1 DEF SqlInv, StillMatches, Matches
<1>5. NextNumber' /\ Gapless'
  BY <1>1 DEF SqlInv, NextNumber, Gapless, Inside
<1> QED  BY <1>2, <1>3, <1>4, <1>5 DEF SqlInv

(* A client makes a call of a legal job.                                   *)
LEMMA CallKeeps ==
  ASSUME SqlInv, NEW c \in Client, Call(c), UNCHANGED log
  PROVE  SqlInv'
<1>1. PICK j \in Job : Legal(j) /\ j.at = "ready" /\ Becomes(c, j)
  BY CallIsLegal DEF Becomes
<1>2. UNCHANGED <<status, state, log>>
  BY DEF Call, records
<1> QED  BY <1>1, <1>2, OutsideKeeps DEF Inside

(* Beginning, reading, the lease's statements and every rollback.          *)
LEMMA OtherStepsKeep ==
  ASSUME SqlInv, NEW c \in Client,
         \/ Begin(c) \/ Diagnose(c) \/ Act(c) \/ AcquireLease(c) \/ Heartbeat(c)
         \/ ReadOwnLease(c) \/ ReleaseLease(c) \/ ReadRun(c) \/ ReadLease(c)
         \/ OpenSnapshot(c) \/ ListRuns(c) \/ ListNodes(c) \/ Fail(c)
  PROVE  SqlInv'
<1>1. job[c] \in Job /\ Legal(job[c])
  BY DEF SqlInv, Typed, Jobs
<1> DEFINE Outer == {"begun", "refused", "owned", "running", "snapped", "listed"}
<1>2. ASSUME UNCHANGED <<status, state, log>>, NEW at \in Outer, Moves(c, at)
      PROVE  SqlInv'
  <2>1. /\ [job[c] EXCEPT !.at = at] \in Job /\ Legal([job[c] EXCEPT !.at = at])
        /\ [job[c] EXCEPT !.at = at].at = at
    <3>1. at \in At
      BY DEF At
    <3> QED  BY <1>1, <3>1, PlaceIsTyped, Zenon
  <2> QED  BY <1>2, <2>1, OutsideKeeps DEF Moves, Inside
<1>3. ASSUME UNCHANGED <<status, state, log>>, Returns(c)
      PROVE  SqlInv'
  BY <1>3, IdleIsTyped, OutsideKeeps DEF Returns, Inside
<1>4. ASSUME UNCHANGED <<status, state, log>>, NEW v \in {"done", "lease", "released"},
             Becomes(c, Begun("note", "note", "NONE", v))
      PROVE  SqlInv'
  BY <1>4, NoteIsTyped, OutsideKeeps DEF Inside
<1>5. ASSUME UNCHANGED <<status, state, log>>, NEW b \in BOOLEAN, Becomes(c, Flag(b))
      PROVE  SqlInv'
  <2>1. "note" \in About /\ "NONE" \in Value /\ "stop" \in Value
    BY DEF About, Value
  <2>2. LET j == Begun("flag", "note", "NONE", "stop")
        IN  j \in Job /\ j.at = "ready" /\ j.op = "flag"
    BY <2>1, BegunIsTyped
  <2>3. Flag(b) \in Job /\ Flag(b).at = "ready" /\ Flag(b).op = "flag"
    BY <2>2 DEF Flag, Job
  <2> QED  BY <1>5, <2>3, OutsideKeeps DEF Legal, Inside
<1>6. CASE Begin(c)
  <2>1. Moves(c, "begun") /\ UNCHANGED <<status, state, log>>
    BY <1>6 DEF Begin, records
  <2> QED  BY <2>1, <1>2
<1>7. CASE Diagnose(c) \/ ListNodes(c) \/ Fail(c)
  <2>1. Returns(c) /\ UNCHANGED <<status, state, log>>
    BY <1>7 DEF Diagnose, ListNodes, Fail, records
  <2> QED  BY <2>1, <1>3
<1>8. CASE Act(c)
  <2>1. Becomes(c, Begun("note", "note", "NONE", "done")) /\ UNCHANGED <<status, state, log>>
    BY <1>8 DEF Act
  <2> QED  BY <2>1, <1>4
<1>9. CASE AcquireLease(c)
  <2>1. UNCHANGED <<status, state, log>>
    BY <1>9 DEF AcquireLease
  <2>2. Moves(c, "refused") \/ Becomes(c, Begun("note", "note", "NONE", "lease"))
    BY <1>9 DEF AcquireLease
  <2> QED  BY <2>1, <2>2, <1>2, <1>4
<1>10. CASE Heartbeat(c)
  <2>1. UNCHANGED <<status, state, log>> /\ (Moves(c, "refused") \/ Returns(c))
    BY <1>10 DEF Heartbeat
  <2> QED  BY <2>1, <1>2, <1>3
<1>11. CASE ReadOwnLease(c)
  <2>1. UNCHANGED <<status, state, log>> /\ (Moves(c, "owned") \/ Returns(c))
    BY <1>11 DEF ReadOwnLease, records
  <2> QED  BY <2>1, <1>2, <1>3
<1>12. CASE ReleaseLease(c)
  <2>1. UNCHANGED <<status, state, log>> /\ Becomes(c, Begun("note", "note", "NONE", "released"))
    BY <1>12 DEF ReleaseLease
  <2> QED  BY <2>1, <1>4
<1>13. CASE ReadRun(c)
  <2>1. /\ UNCHANGED <<status, state, log>>
        /\ Moves(c, "running") \/ Returns(c) \/ Becomes(c, Flag(FALSE))
    BY <1>13 DEF ReadRun, records
  <2> QED  BY <2>1, <1>2, <1>3, <1>5
<1>14. CASE ReadLease(c)
  <2>1. UNCHANGED <<status, state, log>> /\ \E b \in BOOLEAN : Becomes(c, Flag(b))
    BY <1>14 DEF ReadLease, records
  <2> QED  BY <2>1, <1>5
<1>15. CASE OpenSnapshot(c) \/ ListRuns(c)
  <2>1. UNCHANGED <<status, state, log>> /\ (Moves(c, "snapped") \/ Moves(c, "listed"))
    BY <1>15 DEF OpenSnapshot, ListRuns, records
  <2> QED  BY <2>1, <1>2
<1> QED
  BY <1>6, <1>7, <1>8, <1>9, <1>10, <1>11, <1>12, <1>13, <1>14, <1>15

-----------------------------------------------------------------------------
(* Inside a transaction *)

(* The row decides who compares, whatever the job.                         *)
LEMMA RowOfOp ==
  ASSUME NEW j, NEW k, j.op = k.op, j.about = k.about
  PROVE  Row(j) = Row(k)
  BY DEF Row

(* The UPDATE: the row is taken when it is free and matches.               *)
LEMMA TouchKeeps ==
  ASSUME SqlInv, NEW c \in Client, Touch(c)
  PROVE  SqlInv'
<1>1. job[c] \in Job /\ Legal(job[c]) /\ UNCHANGED <<status, state, log>>
  BY DEF SqlInv, Typed, Jobs, Touch, records
<1>2. CASE ~Matches(job[c])
  <2> DEFINE j == [job[c] EXCEPT !.at = "refused"]
  <2>1. j \in Job /\ Legal(j) /\ j.at = "refused"
    BY <1>1, PlaceIsTyped DEF At
  <2>2. Becomes(c, j)
    BY <1>2 DEF Touch, Moves
  <2> HIDE DEF j
  <2> QED  BY <1>1, <2>1, <2>2, OutsideKeeps DEF Inside
<1>3. CASE Matches(job[c])
  <2> DEFINE j == [job[c] EXCEPT !.at = "touched"]
  <2>1. /\ j \in Job /\ Legal(j) /\ j.at = "touched" /\ j.op = job[c].op
        /\ j.about = job[c].about /\ j.from = job[c].from
    BY <1>1, PlaceIsTyped DEF At
  <2>2. Becomes(c, j)
    BY <1>3 DEF Touch, Moves
  <2> HIDE DEF j
  <2>3. job' \in [Client -> Job] /\ job'[c] = j /\ \A d \in Client \ {c} : job'[d] = job[d]
    BY <2>1, <2>2, JobOf DEF SqlInv
  <2>4. Typed'
    BY <1>1, <2>1, <2>3 DEF SqlInv, Typed, Jobs
  <2>5. Exclusive'
    <3>1. Row(j) = Row(job[c])
      BY <2>1, RowOfOp
    <3>2. \A d \in Client \ {c} : job[d].at \in Inside /\ Row(j) # "none" => Row(job[d]) # Row(j)
      BY <3>1 DEF Touch, RowFree, Inside
    <3> QED  BY <2>3, <3>2 DEF SqlInv, Exclusive
  <2>6. StillMatches'
    <3>1. Matches(j)
      BY <1>3, <2>1 DEF Matches
    <3> QED  BY <1>1, <2>3, <3>1 DEF SqlInv, StillMatches, Matches
  <2>7. NextNumber' /\ Gapless'
    BY <1>1, <2>1, <2>3 DEF SqlInv, NextNumber, Gapless
  <2> QED  BY <2>4, <2>5, <2>6, <2>7 DEF SqlInv
<1> QED  BY <1>2, <1>3

(* Going on inside one's transaction disturbs no row.                      *)
LEMMA InsideKeeps ==
  ASSUME SqlInv, NEW c \in Client, NEW j \in Job, Becomes(c, j), UNCHANGED <<status, state, log>>,
         job[c].at \in Inside, j.op = job[c].op, j.about = job[c].about, j.from = job[c].from,
         Legal(j)
  PROVE  /\ Typed' /\ Exclusive' /\ StillMatches' /\ Gapless'
         /\ job'[c] = j /\ \A d \in Client \ {c} : job'[d] = job[d]
<1>1. job' \in [Client -> Job] /\ job'[c] = j /\ \A d \in Client \ {c} : job'[d] = job[d]
  BY JobOf DEF SqlInv
<1>2. Typed' /\ Gapless'
  BY <1>1 DEF SqlInv, Typed, Jobs, Gapless
<1>3. Exclusive'
  <2>1. Row(j) = Row(job[c])
    BY RowOfOp
  <2> QED  BY <1>1, <2>1 DEF SqlInv, Exclusive
<1>4. StillMatches'
  <2>1. Matches(job[c])
    BY DEF SqlInv, StillMatches
  <2>2. Matches(j)
    BY <2>1 DEF Matches
  <2> QED  BY <1>1, <2>2 DEF SqlInv, StillMatches, Matches
<1> QED  BY <1>1, <1>2, <1>3, <1>4

(* The event's number: the next one, or a wait for who has it.             *)
LEMMA InsertAuditKeeps ==
  ASSUME SqlInv, NEW c \in Client, InsertAudit(c)
  PROVE  SqlInv'
<1>0. /\ job[c] \in Job /\ Legal(job[c]) /\ job[c].at = "touched"
      /\ UNCHANGED <<status, state, log>> /\ Len(log) \in Nat
  BY DEF SqlInv, Typed, Jobs, InsertAudit, records
<1> DEFINE at == IF Claimants(c, NextSeq) = {} THEN "logged" ELSE "blocked"
           j == [job[c] EXCEPT !.seq = NextSeq, !.at = at]
<1>5. at \in {"logged", "blocked"}
  OBVIOUS
<1>1. /\ j \in Job /\ j.at = at /\ j.seq = Len(log) + 1 /\ j.op = job[c].op
      /\ j.about = job[c].about /\ j.from = job[c].from /\ j.to = job[c].to
  <2> DEFINE k == [job[c] EXCEPT !.seq = NextSeq]
  <2> HIDE DEF at
  <2>1. /\ k \in Job /\ k.seq = Len(log) + 1 /\ k.op = job[c].op
        /\ k.about = job[c].about /\ k.from = job[c].from /\ k.to = job[c].to
    BY <1>0 DEF Job, NextSeq
  <2>2. j = [k EXCEPT !.at = at]
    OBVIOUS
  <2> HIDE DEF k, j
  <2>3. at \in At
    BY <1>5 DEF At
  <2> QED  BY <2>1, <2>2, <2>3 DEF Job
<1>2. Legal(j)
  BY <1>0, <1>1 DEF Legal
<1>3. Becomes(c, j)
  BY DEF InsertAudit
<1>4. at = "logged" => \A d \in Client \ {c} : job[d].at # "logged"
  BY DEF Claimants, NextSeq, SqlInv, NextNumber
<1> HIDE DEF j, at
<1>6. /\ Typed' /\ Exclusive' /\ StillMatches' /\ Gapless'
      /\ job'[c] = j /\ \A d \in Client \ {c} : job'[d] = job[d]
  BY <1>0, <1>1, <1>2, <1>3, InsideKeeps DEF Inside
<1>7. NextNumber'
  BY <1>0, <1>1, <1>4, <1>5, <1>6 DEF SqlInv, NextNumber
<1> QED  BY <1>6, <1>7 DEF SqlInv

(* The wait ends: the loser goes, or has the number to itself.             *)
LEMMA UnblockKeeps ==
  ASSUME SqlInv, NEW c \in Client, Unblock(c)
  PROVE  SqlInv'
<1>0. /\ job[c] \in Job /\ Legal(job[c]) /\ job[c].at = "blocked"
      /\ UNCHANGED <<status, state, log>> /\ Len(log) \in Nat
  BY DEF SqlInv, Typed, Jobs, Unblock, records
<1>1. CASE job[c].seq <= Len(log)
  <2>1. Becomes(c, Idle)
    BY <1>1 DEF Unblock, Returns
  <2> QED  BY <1>0, <2>1, IdleIsTyped, OutsideKeeps DEF Inside
<1>2. CASE ~(job[c].seq <= Len(log))
  <2> DEFINE j == [job[c] EXCEPT !.at = "logged"]
  <2>1. /\ j \in Job /\ Legal(j) /\ j.at = "logged" /\ j.op = job[c].op /\ j.seq = job[c].seq
        /\ j.about = job[c].about /\ j.from = job[c].from
    BY <1>0, PlaceIsTyped DEF At
  <2>2. Becomes(c, j)
    BY <1>2 DEF Unblock, Moves
  <2>3. job[c].seq = Len(log) + 1
    BY <1>0, <1>2 DEF SqlInv, NextNumber
  <2>4. \A d \in Client \ {c} : job[d].at # "logged"
    BY <2>3 DEF Unblock, Claimants, SqlInv, NextNumber
  <2> HIDE DEF j
  <2>5. /\ Typed' /\ Exclusive' /\ StillMatches' /\ Gapless'
        /\ job'[c] = j /\ \A d \in Client \ {c} : job'[d] = job[d]
    BY <1>0, <2>1, <2>2, InsideKeeps DEF Inside
  <2>6. NextNumber'
    BY <1>0, <2>1, <2>3, <2>4, <2>5 DEF SqlInv, NextNumber
  <2> QED  BY <2>5, <2>6 DEF SqlInv
<1> QED  BY <1>1, <1>2

(* What a commit leads to is legal: cancel's status change is validated    *)
(* against the status its UPDATE returned (RequestCancel).                 *)
LEMMA AfterIsTyped ==
  ASSUME Typed, NEW j \in Job, Legal(j)
  PROVE  After(j) \in Job /\ Legal(After(j)) /\ After(j).at \notin Inside
<1>1. CASE j.op = "authorize"
  <2>1. LET k == [j EXCEPT !.at = "granted"] IN k \in Job /\ Legal(k) /\ k.at = "granted"
    BY PlaceIsTyped DEF At
  <2> QED  BY <1>1, <2>1 DEF After, Inside
<1>2. CASE j.op = "flag"
  <2>1. After(j) = AfterFlag(j)
    BY <1>2 DEF After
  <2>2. CASE AfterFlag(j) = Idle
    BY <2>1, <2>2, IdleIsTyped DEF Inside
  <2>3. CASE AfterFlag(j) # Idle
    <3>1. ValidRunTransition(status, "CANCELLED") /\ AfterFlag(j) = Begun("status", "run", status, "CANCELLED")
      BY <2>3 DEF AfterFlag
    <3>2. "status" \in Operation /\ "run" \in About /\ status \in Value /\ "CANCELLED" \in Value
      BY DEF Typed, Operation, About, Value, RunStatus
    <3>3. LET k == Begun("status", "run", status, "CANCELLED")
          IN  k \in Job /\ k.at = "ready" /\ k.op = "status" /\ k.from = status /\ k.to = "CANCELLED"
      BY <3>2, BegunIsTyped
    <3> QED  BY <2>1, <3>1, <3>3 DEF Legal, Inside
  <2> QED  BY <2>2, <2>3
<1>3. CASE j.op \notin {"authorize", "flag"}
  BY <1>3, IdleIsTyped DEF After, Inside
<1> QED  BY <1>1, <1>2, <1>3

(* What a commit writes is one edge of a diagram, from the record as it is *)
(* now and not only as it was when it was compared (casUpdate).            *)
LEMMA CommitMoves ==
  ASSUME SqlInv, NEW c \in Client, Commit(c)
  PROVE  /\ MovesLegally
         /\ status' \in RunStatus \cup {"NONE"} /\ state' \in [Node -> NodeState]
         /\ status # "NONE" => status' # "NONE"
<1>0. /\ job[c] \in Job /\ Legal(job[c]) /\ job[c].at \in Inside /\ Matches(job[c])
      /\ status \in RunStatus \cup {"NONE"} /\ state \in [Node -> NodeState]
      /\ Recorded(job[c])
  BY DEF SqlInv, Typed, Jobs, StillMatches, Commit, Inside
<1>1. CASE job[c].op = "open"
  BY <1>0, <1>1 DEF Recorded, Legal, Matches, MovesLegally, RunStatus
<1>2. CASE job[c].op = "status"
  <2>1. status' = job[c].to /\ status = job[c].from /\ UNCHANGED state
    BY <1>0, <1>2 DEF Recorded, Matches
  <2>2. ValidRunTransition(status, status')
    BY <1>0, <1>2, <2>1 DEF Legal
  <2>3. status' \in RunStatus /\ status' # "NONE"
    BY <2>2 DEF ValidRunTransition, RunStatus
  <2> QED  BY <1>0, <2>1, <2>2, <2>3 DEF MovesLegally
<1>3. CASE job[c].op = "node"
  <2> DEFINE n == job[c].about
  <2>1. UNCHANGED status /\ state' = [state EXCEPT ![n] = job[c].to] /\ state[n] = job[c].from
    BY <1>0, <1>3 DEF Recorded, Matches
  <2>2. n \in Node /\ \E reason \in TransitionReason : ValidTransition(job[c].from, job[c].to, reason)
    BY <1>0, <1>3 DEF Legal
  <2>3. job[c].to \in NodeState
    BY <2>2 DEF ValidTransition, NormalTransitions, NodeState, TransitionReason
  <2>4. state' \in [Node -> NodeState] /\ state'[n] = job[c].to /\ \A m \in Node \ {n} : state'[m] = state[m]
    BY <1>0, <2>1, <2>2, <2>3
  <2> QED  BY <1>0, <2>1, <2>2, <2>4 DEF MovesLegally
<1>4. CASE job[c].op \notin {"open", "status", "node"}
  BY <1>0, <1>4 DEF Recorded, MovesLegally
<1> QED  BY <1>1, <1>2, <1>3, <1>4

(* The records another transaction has compared are not the ones a commit  *)
(* writes: its row is its own (the row lock of an UPDATE).                 *)
LEMMA CommitSpares ==
  ASSUME SqlInv, NEW c \in Client, Commit(c),
         NEW d \in Client \ {c}, job[d].at \in Inside
  PROVE  Matches(job[d])'
<1>0. /\ job[c] \in Job /\ Legal(job[c]) /\ job[c].at \in Inside /\ Recorded(job[c])
      /\ job[d] \in Job /\ Legal(job[d]) /\ Matches(job[d])
      /\ state \in [Node -> NodeState]
  BY DEF SqlInv, Typed, Jobs, StillMatches, Commit, Inside
<1>1. job'[d] = job[d]
  BY <1>0, AfterIsTyped DEF Commit, Becomes, SqlInv, Typed, Jobs
<1>2. Row(job[c]) # "none" => Row(job[c]) # Row(job[d])
  BY <1>0 DEF SqlInv, Exclusive
<1>3. status # "NONE" => status' # "NONE"
  BY CommitMoves
<1>4. job[d].op \in {"open", "status"} => status' = status
  <2>1. SUFFICES ASSUME job[d].op \in {"open", "status"}, job[c].op \in {"open", "status"}
                 PROVE  FALSE
    BY <1>0 DEF Recorded
  <2>2. Row(job[c]) = "run" /\ Row(job[d]) = "run"
    BY <2>1 DEF Row
  <2> QED  BY <1>2, <2>2
<1>5. job[d].op = "node" => state'[job[d].about] = state[job[d].about]
  <2>1. SUFFICES ASSUME job[d].op = "node", job[c].op = "node", job[c].about = job[d].about
                 PROVE  FALSE
    <3>1. job[c].op = "node" => job[c].about \in Node
      BY <1>0 DEF Legal
    <3> QED  BY <1>0, <3>1 DEF Recorded, Legal
  <2>2. Row(job[c]) = job[c].about /\ Row(job[d]) = job[c].about
    BY <2>1 DEF Row
  <2>3. job[c].about # "none"
    BY <1>0, <2>1, NodeAssumption DEF Legal
  <2> QED  BY <1>2, <2>2, <2>3
<1> QED  BY <1>0, <1>1, <1>3, <1>4, <1>5 DEF Matches

(* The COMMIT: record and event together, and the next number moves on.    *)
LEMMA CommitKeeps ==
  ASSUME SqlInv, NEW c \in Client, Commit(c)
  PROVE  SqlInv'
<1> DEFINE e == [seq |-> job[c].seq, about |-> job[c].about, to |-> job[c].to]
<1>0. /\ job[c] \in Job /\ Legal(job[c]) /\ job[c].at = "logged" /\ log' = Append(log, e)
      /\ log \in Seq(Event) /\ Len(log) \in Nat /\ job[c].seq = Len(log) + 1
  BY DEF SqlInv, Typed, Jobs, Commit, NextNumber
<1>1. After(job[c]) \in Job /\ Legal(After(job[c])) /\ After(job[c]).at \notin Inside
  BY <1>0, AfterIsTyped DEF SqlInv
<1>2. /\ job' \in [Client -> Job] /\ job'[c] = After(job[c])
      /\ \A d \in Client \ {c} : job'[d] = job[d]
  BY <1>1, JobOf DEF SqlInv, Commit
<1>3. e \in Event
  BY <1>0 DEF Job, Event
<1> HIDE DEF e
<1>4. log' \in Seq(Event) /\ Len(log') = Len(log) + 1
  BY <1>0, <1>3
<1>5. Typed'
  BY <1>1, <1>2, <1>4, CommitMoves DEF SqlInv, Typed, Jobs
<1>6. Exclusive'
  BY <1>1, <1>2 DEF SqlInv, Exclusive
<1>7. StillMatches'
  BY <1>1, <1>2, CommitSpares DEF StillMatches
<1>8. Gapless'
  <2>1. SUFFICES ASSUME NEW i \in 1..(Len(log) + 1) PROVE log'[i].seq = i
    BY <1>4 DEF Gapless
  <2>2. CASE i = Len(log) + 1
    BY <1>0, <2>2 DEF e
  <2>3. CASE i \in 1..Len(log)
    BY <1>0, <2>3 DEF SqlInv, Gapless
  <2> QED  BY <1>0, <2>2, <2>3
<1>9. NextNumber'
  <2>1. \A d \in Client : job'[d].at # "logged"
    BY <1>0, <1>1, <1>2 DEF SqlInv, NextNumber, Inside
  <2>2. \A d \in Client : job'[d].at = "blocked" => job'[d].seq \in 1..(Len(log) + 2)
    BY <1>0, <1>1, <1>2 DEF SqlInv, NextNumber, Inside
  <2> QED  BY <1>0, <1>4, <2>1, <2>2 DEF NextNumber
<1> QED  BY <1>5, <1>6, <1>7, <1>8, <1>9 DEF SqlInv

-----------------------------------------------------------------------------
(* The store *)

(* Before the first call nothing is in flight and nothing is recorded.     *)
LEMMA InitKeeps == Init => SqlInv
<1> SUFFICES ASSUME Init PROVE SqlInv
  OBVIOUS
<1>1. job \in [Client -> Job] /\ \A c \in Client : job[c] = Idle
  BY IdleIsTyped DEF Init, StoreInit
<1>2. log = <<>> /\ log \in Seq(Event) /\ DOMAIN log = {}
  BY DEF Init
<1>3. state \in [Node -> NodeState] /\ status = "NONE"
  BY DEF Init, StoreInit, InitialNodeState, NodeState
<1> QED  BY <1>1, <1>2, <1>3, IdleIsTyped
        DEF SqlInv, Typed, Jobs, Exclusive, StillMatches, Gapless, NextNumber, Inside

(* And then every step of every client keeps the invariant.                *)
LEMMA NextKeeps == SqlInv /\ [Next]_sqlVars => SqlInv'
<1> SUFFICES ASSUME SqlInv, [Next]_sqlVars PROVE SqlInv'
  OBVIOUS
<1>1. ASSUME UNCHANGED <<status, state, job, log>> PROVE SqlInv'
  BY <1>1 DEF SqlInv, Typed, Jobs, Exclusive, StillMatches, Matches, Gapless, NextNumber
<1>2. ASSUME NEW c \in Client, Call(c) /\ UNCHANGED log PROVE SqlInv'
  BY <1>2, CallKeeps
<1>3. ASSUME NEW c \in Client, Step(c) \/ Fail(c) PROVE SqlInv'
  BY <1>3, OtherStepsKeep, TouchKeeps, InsertAuditKeeps, UnblockKeeps, CommitKeeps DEF Step
<1>4. CASE Expire /\ UNCHANGED log
  BY <1>1, <1>4 DEF Expire
<1>5. CASE UNCHANGED sqlVars
  BY <1>1, <1>5 DEF sqlVars, records
<1> QED  BY <1>2, <1>3, <1>4, <1>5 DEF Next

(* Concurrent transactions that read one MAX(seq) never leave a hole or a  *)
(* double in the trail, whoever rolls back (insertAudit, UNIQUE(run, seq)).*)
THEOREM SqlTrailGapless == Spec => []Gapless
<1>1. SqlInv => Gapless
  BY DEF SqlInv
<1> QED  BY <1>1, InitKeeps, NextKeeps, PTL DEF Spec

(* No two compare-and-sets work from one record: every status and state    *)
(* written follows the one before it along its diagram (TransitionNode,    *)
(* TransitionRun, RequestCancel).                                          *)
THEOREM SqlRecordsFollowDiagrams == Spec => [][MovesLegally]_sqlVars
<1>1. ASSUME SqlInv, [Next]_sqlVars PROVE [MovesLegally]_sqlVars
  <2>1. ASSUME UNCHANGED <<status, state>> PROVE MovesLegally
    BY <2>1 DEF MovesLegally
  <2>2. ASSUME NEW c \in Client, Call(c) PROVE MovesLegally
    BY <2>1, <2>2 DEF Call, records
  <2>3. ASSUME NEW c \in Client, Step(c) \/ Fail(c) PROVE MovesLegally
    <3>1. CASE Commit(c)
      BY <1>1, <3>1, CommitMoves
    <3>2. CASE ~Commit(c)
      <4>1. UNCHANGED <<status, state>>
        BY <2>3, <3>2 DEF Step, Fail, Begin, Touch, Diagnose, InsertAudit, Unblock, Act,
           AcquireLease, Heartbeat, ReadOwnLease, ReleaseLease, ReadRun, ReadLease,
           OpenSnapshot, ListRuns, ListNodes, records
      <4> QED  BY <2>1, <4>1
    <3> QED  BY <3>1, <3>2
  <2>4. CASE Expire
    BY <2>1, <2>4 DEF Expire
  <2> QED  BY <1>1, <2>2, <2>3, <2>4 DEF Next
<1> QED  BY <1>1, InitKeeps, NextKeeps, PTL DEF Spec

-----------------------------------------------------------------------------
(* What the trail says of the records                                      *)

Events(rows, about) == {i \in DOMAIN rows : rows[i].about = about}

Says(rows, about, v) ==
  \E i \in Events(rows, about) : rows[i].to = v /\ \A k \in Events(rows, about) : k <= i

(* The last event about each record says what the record is, and every     *)
(* authorization on record is an event.                                    *)
Told ==
  /\ status # "NONE" => Says(log, "run", status)
  /\ \A n \in Node : state[n] # InitialNodeState => Says(log, n, state[n])
  /\ Cardinality(Events(log, "auth")) = granted

(* A transaction is one of those that are.                                 *)
Proper(j) == Named(j) /\ (j.at \in {"begun"} \cup Inside => j.op \in Transactional)

Granted == {c \in Client : job[c].at = "granted"}

TrailInv ==
  /\ SqlInv /\ Told
  /\ \A c \in Client : Proper(job[c])
  /\ stop \in BOOLEAN /\ lease \in [holder : Process \cup {"nobody"}, fresh : BOOLEAN]
  /\ granted \in Nat /\ acted \in Nat /\ acted + Cardinality(Granted) <= granted

(* An event appended is the last about its record, and changes nothing in  *)
(* what the trail says of the others (insertAudit).                        *)
LEMMA AppendSays ==
  ASSUME log \in Seq(Event), NEW e \in Event, log' = Append(log, e)
  PROVE  /\ Says(log', e.about, e.to)
         /\ \A about : about # e.about => Events(log', about) = Events(log, about)
         /\ \A about : \A v : about # e.about /\ Says(log, about, v) => Says(log', about, v)
         /\ Events(log', e.about) = Events(log, e.about) \cup {Len(log) + 1}
         /\ Len(log) + 1 \notin Events(log, e.about)
<1>1. /\ Len(log) \in Nat /\ DOMAIN log = 1..Len(log) /\ DOMAIN log' = 1..(Len(log) + 1)
      /\ log'[Len(log) + 1] = e /\ \A i \in 1..Len(log) : log'[i] = log[i]
  OBVIOUS
<1>2. Events(log', e.about) = Events(log, e.about) \cup {Len(log) + 1}
  BY <1>1 DEF Events
<1>3. ASSUME NEW about, about # e.about
      PROVE  Events(log', about) = Events(log, about)
  BY <1>1, <1>3 DEF Events
<1>4. \A about : Events(log, about) \subseteq 1..Len(log)
  BY <1>1 DEF Events
<1>5. Says(log', e.about, e.to)
  <2>1. \A k \in Events(log', e.about) : k <= Len(log) + 1
    BY <1>1, <1>2, <1>4
  <2> QED  BY <1>1, <1>2, <2>1 DEF Says
<1>6. ASSUME NEW about, NEW v, about # e.about, Says(log, about, v)
      PROVE  Says(log', about, v)
  <2>1. PICK i \in Events(log, about) : log[i].to = v /\ \A k \in Events(log, about) : k <= i
    BY <1>6 DEF Says
  <2>2. i \in 1..Len(log) /\ log'[i] = log[i]
    BY <1>1, <1>4
  <2>3. Events(log', about) = Events(log, about)
    BY <1>3, <1>6
  <2>4. i \in Events(log', about) /\ log'[i].to = v /\ \A k \in Events(log', about) : k <= i
    BY <2>1, <2>2, <2>3
  <2> QED  BY <2>4 DEF Says
<1>7. Len(log) + 1 \notin Events(log, e.about)
  BY <1>1, <1>4
<1> QED  BY <1>2, <1>3, <1>5, <1>6, <1>7

(* What every step but a commit leaves as it was.                          *)
LEMMA OnlyCommitsRecord ==
  ASSUME NEW c \in Client, Step(c) \/ Fail(c) \/ (Call(c) /\ UNCHANGED log), ~Commit(c)
  PROVE  UNCHANGED <<status, stop, state, granted, log>>
  BY DEF Step, Fail, Call, Begin, Touch, Diagnose, InsertAudit, Unblock, Act, AcquireLease, Heartbeat,
     ReadOwnLease, ReleaseLease, ReadRun, ReadLease, OpenSnapshot, ListRuns, ListNodes, records

(* An authorization asked for and not committed yet, and not yet about to. *)
Asking(j) == j.op = "authorize" /\ j.at # "granted"

Going(c) == Asking(job[c]) /\ job[c].at # "logged"

(* Every step changes one job, and only into a proper one.                 *)
LEMMA OneProperJob ==
  ASSUME TrailInv, NEW c \in Client, Step(c) \/ Fail(c) \/ Call(c)
  PROVE  \E j \in Job : /\ Proper(j) /\ Becomes(c, j)
                        /\ j.at = "granted" => Commit(c) /\ job[c].op = "authorize"
                        /\ Asking(j) => Call(c) \/ Going(c)
<1>1. job[c] \in Job /\ Legal(job[c]) /\ Proper(job[c])
  BY DEF TrailInv, SqlInv, Typed, Jobs
<1>at. ASSUME NEW at \in At \ {"granted"}, Moves(c, at),
              at \in {"begun"} \cup Inside => job[c].op \in Transactional,
              job[c].at \notin {"granted", "logged"}
       PROVE  \E j \in Job : /\ Proper(j) /\ Becomes(c, j) /\ j.at # "granted"
                             /\ Asking(j) => Going(c)
  <2> DEFINE j == [job[c] EXCEPT !.at = at]
  <2>1. /\ j \in Job /\ j.at = at /\ j.op = job[c].op /\ j.about = job[c].about /\ j.to = job[c].to
    BY <1>1, PlaceIsTyped
  <2>2. Becomes(c, j)
    BY <1>at DEF Moves
  <2> HIDE DEF j
  <2>3. Proper(j)
    BY <1>1, <1>at, <2>1 DEF Proper, Named
  <2>4. Asking(j) => Going(c)
    BY <1>at, <2>1 DEF Asking, Going
  <2> QED  BY <2>1, <2>2, <2>3, <2>4
<1>idle. Returns(c) => \E j \in Job : Proper(j) /\ Becomes(c, j) /\ j.at # "granted" /\ ~Asking(j)
  <2>1. Idle \in Job /\ Proper(Idle) /\ Idle.at # "granted" /\ ~Asking(Idle)
    BY IdleIsTyped DEF Proper, Named, Inside, Asking
  <2> QED  BY <2>1 DEF Returns
<1>note. ASSUME NEW v \in {"done", "lease", "released"}, Becomes(c, Begun("note", "note", "NONE", v))
         PROVE  \E j \in Job : Proper(j) /\ Becomes(c, j) /\ j.at # "granted" /\ ~Asking(j)
  <2> DEFINE j == Begun("note", "note", "NONE", v)
  <2>1. j \in Job /\ Named(j) /\ j.at = "ready" /\ j.op = "note"
    BY NoteIsTyped
  <2>2. Becomes(c, j)
    BY <1>note
  <2> HIDE DEF j
  <2>3. Proper(j)
    BY <2>1 DEF Proper, Inside
  <2> QED  BY <2>1, <2>2, <2>3 DEF Asking
<1>flag. ASSUME NEW b \in BOOLEAN, Becomes(c, Flag(b))
         PROVE  \E j \in Job : Proper(j) /\ Becomes(c, j) /\ j.at # "granted" /\ ~Asking(j)
  <2>1. "note" \in About /\ "NONE" \in Value /\ "stop" \in Value
    BY DEF About, Value
  <2>2. LET j == Begun("flag", "note", "NONE", "stop")
        IN  j \in Job /\ j.at = "ready" /\ j.op = "flag" /\ j.about = "note" /\ j.to = "stop"
    BY <2>1, BegunIsTyped
  <2>3. /\ Flag(b) \in Job /\ Flag(b).at = "ready" /\ Flag(b).op = "flag"
        /\ Flag(b).about = "note" /\ Flag(b).to = "stop"
    BY <2>2 DEF Flag, Job
  <2>4. Proper(Flag(b))
    BY <2>3 DEF Proper, Named, Inside
  <2> QED  BY <1>flag, <2>3, <2>4 DEF Asking
<1>p. {"begun", "refused", "owned", "running", "snapped", "listed", "touched", "logged", "blocked"}
      \subseteq At \ {"granted"}
  BY DEF At
<1>in. job[c].at \in {"begun"} \cup Inside => job[c].op \in Transactional
  BY <1>1 DEF Proper
<1>2. CASE Call(c)
  <2>1. PICK j \in Job : Named(j) /\ j.at = "ready" /\ Becomes(c, j)
    BY <1>2, CallIsLegal DEF Becomes
  <2> QED  BY <1>2, <2>1 DEF Proper, Inside
<1>3. CASE Begin(c)
  <2>1. Moves(c, "begun") /\ job[c].op \in Transactional /\ job[c].at = "ready"
    BY <1>3 DEF Begin
  <2> QED  BY <1>p, <1>at, <2>1
<1>4. CASE Touch(c)
  <2>1. /\ Moves(c, "touched") \/ Moves(c, "refused")
        /\ job[c].op \in Transactional /\ job[c].at = "begun"
    BY <1>4, <1>in DEF Touch
  <2> QED  BY <1>p, <1>at, <2>1
<1>5. CASE Diagnose(c) \/ ListNodes(c) \/ Fail(c)
  <2>1. Returns(c)
    BY <1>5 DEF Diagnose, ListNodes, Fail
  <2> QED  BY <1>idle, <2>1
<1>6. CASE InsertAudit(c)
  <2> DEFINE at == IF Claimants(c, NextSeq) = {} THEN "logged" ELSE "blocked"
             k == [job[c] EXCEPT !.seq = NextSeq]
             j == [k EXCEPT !.at = at]
  <2>1. at \in {"logged", "blocked"} /\ Becomes(c, j)
    BY <1>6 DEF InsertAudit
  <2> HIDE DEF at
  <2>2. /\ k \in Job /\ k.op = job[c].op /\ k.about = job[c].about /\ k.to = job[c].to
    <3>1. NextSeq \in Nat
      BY DEF NextSeq, TrailInv, SqlInv, Typed
    <3> QED  BY <1>1, <3>1 DEF Job
  <2> HIDE DEF k
  <2>3. j \in Job /\ j.at = at /\ j.op = k.op /\ j.about = k.about /\ j.to = k.to
    <3>1. at \in At
      BY <2>1 DEF At
    <3> QED  BY <2>2, <3>1 DEF Job
  <2> HIDE DEF j
  <2>4. job[c].op \in Transactional /\ job[c].at = "touched"
    BY <1>6, <1>in DEF InsertAudit, Inside
  <2>5. Proper(j)
    BY <1>1, <2>2, <2>3, <2>4 DEF Proper, Named
  <2>6. Asking(j) => Going(c)
    BY <2>2, <2>3, <2>4 DEF Asking, Going
  <2> QED  BY <2>1, <2>3, <2>5, <2>6
<1>7. CASE Unblock(c)
  <2>1. /\ Returns(c) \/ (Moves(c, "logged") /\ job[c].op \in Transactional)
        /\ job[c].at = "blocked"
    BY <1>7, <1>in DEF Unblock, Inside
  <2> QED  BY <1>p, <1>at, <1>idle, <2>1
<1>8. CASE Commit(c)
  <2>1. Becomes(c, After(job[c]))
    BY <1>8 DEF Commit
  <2>2. After(job[c]) \in Job
    BY <1>1, AfterIsTyped DEF TrailInv, SqlInv
  <2>3. CASE job[c].op = "authorize"
    <3>1. LET j == [job[c] EXCEPT !.at = "granted"]
          IN  j.at = "granted" /\ j.op = job[c].op /\ j.about = job[c].about /\ j.to = job[c].to
      BY <1>1, PlaceIsTyped DEF At
    <3>2. After(job[c]) = [job[c] EXCEPT !.at = "granted"]
      BY <2>3 DEF After
    <3>3. Proper(After(job[c])) /\ ~Asking(After(job[c]))
      BY <1>1, <3>1, <3>2 DEF Proper, Named, Inside, Asking
    <3> QED  BY <1>8, <2>1, <2>2, <2>3, <3>3
  <2>4. CASE job[c].op = "flag" /\ AfterFlag(job[c]) # Idle
    <3>1. After(job[c]) = Begun("status", "run", status, "CANCELLED")
      BY <2>4 DEF After, AfterFlag
    <3>2. "status" \in Operation /\ "run" \in About /\ status \in Value /\ "CANCELLED" \in Value
      BY DEF TrailInv, SqlInv, Typed, Operation, About, Value, RunStatus
    <3>3. After(job[c]).at = "ready" /\ After(job[c]).op = "status" /\ After(job[c]).about = "run"
      BY <3>1, <3>2, BegunIsTyped
    <3>4. Proper(After(job[c]))
      BY <3>3 DEF Proper, Named, Inside
    <3> QED  BY <2>1, <2>2, <3>3, <3>4 DEF Asking
  <2>5. CASE job[c].op # "authorize" /\ ~(job[c].op = "flag" /\ AfterFlag(job[c]) # Idle)
    <3>1. After(job[c]) = Idle
      BY <2>5 DEF After
    <3> QED  BY <1>idle, <2>1, <3>1 DEF Returns
  <2> QED  BY <2>3, <2>4, <2>5
<1>9. CASE Act(c)
  BY <1>9, <1>note DEF Act
<1>10. CASE AcquireLease(c)
  <2>1. /\ Moves(c, "refused") \/ Becomes(c, Begun("note", "note", "NONE", "lease"))
        /\ job[c].at = "ready"
    BY <1>10 DEF AcquireLease
  <2>2. "refused" \notin {"begun"} \cup Inside
    BY DEF Inside
  <2> QED  BY <1>p, <1>at, <1>note, <2>1, <2>2
<1>11. CASE Heartbeat(c) \/ ReadOwnLease(c) \/ OpenSnapshot(c) \/ ListRuns(c)
  <2>1. /\ Returns(c) \/ \E at \in {"refused", "owned", "snapped", "listed"} : Moves(c, at)
        /\ job[c].at \in {"ready", "snapped"}
    BY <1>11 DEF Heartbeat, ReadOwnLease, OpenSnapshot, ListRuns
  <2>2. {"refused", "owned", "snapped", "listed"} \cap ({"begun"} \cup Inside) = {}
    BY DEF Inside
  <2> QED  BY <1>p, <1>at, <1>idle, <2>1, <2>2
<1>12. CASE ReleaseLease(c)
  BY <1>12, <1>note DEF ReleaseLease
<1>13. CASE ReadRun(c)
  <2>1. /\ Returns(c) \/ Moves(c, "running") \/ Becomes(c, Flag(FALSE))
        /\ job[c].at = "ready"
    BY <1>13 DEF ReadRun
  <2>2. "running" \notin {"begun"} \cup Inside
    BY DEF Inside
  <2> QED  BY <1>p, <1>at, <1>idle, <1>flag, <2>1, <2>2
<1>14. CASE ReadLease(c)
  <2>1. \E b \in BOOLEAN : Becomes(c, Flag(b))
    BY <1>14 DEF ReadLease
  <2> QED  BY <1>flag, <2>1
<1> QED
  BY <1>2, <1>3, <1>4, <1>5, <1>6, <1>7, <1>8, <1>9, <1>10, <1>11, <1>12, <1>13, <1>14 DEF Step

(* The records' types, which a lease's statement changes too.              *)
LEMMA LeaseIsTyped ==
  ASSUME TrailInv, NEW c \in Client, Step(c) \/ Fail(c) \/ Call(c)
  PROVE  lease' \in [holder : Process \cup {"nobody"}, fresh : BOOLEAN]
<1>1. lease \in [holder : Process \cup {"nobody"}, fresh : BOOLEAN] /\ Host[c] \in Process
  BY HostAssumption DEF TrailInv
<1>2. /\ NoLease \in [holder : Process \cup {"nobody"}, fresh : BOOLEAN]
      /\ [holder |-> Host[c], fresh |-> TRUE] \in [holder : Process \cup {"nobody"}, fresh : BOOLEAN]
      /\ [lease EXCEPT !.fresh = TRUE] \in [holder : Process \cup {"nobody"}, fresh : BOOLEAN]
  BY <1>1 DEF NoLease
<1>3. \/ UNCHANGED lease \/ lease' = NoLease
      \/ lease' = [holder |-> Host[c], fresh |-> TRUE] \/ lease' = [lease EXCEPT !.fresh = TRUE]
  BY DEF Step, Fail, Call, Begin, Touch, Diagnose, InsertAudit, Unblock, Commit, Act, AcquireLease,
     Heartbeat, ReadOwnLease, ReleaseLease, ReadRun, ReadLease, OpenSnapshot, ListRuns, ListNodes,
     records
<1> QED  BY <1>1, <1>2, <1>3

(* How many statements may be sent: each has its authorization committed.  *)
LEMMA GrantsCounted ==
  ASSUME TrailInv, NEW c \in Client, NEW j \in Job, Becomes(c, j),
         \/ j.at # "granted" /\ UNCHANGED <<acted, granted>>
         \/ job[c].at = "granted" /\ j.at # "granted" /\ acted' = acted + 1 /\ UNCHANGED granted
         \/ UNCHANGED acted /\ granted' = granted + 1
  PROVE  acted' \in Nat /\ granted' \in Nat /\ acted' + Cardinality(Granted') <= granted'
<1>1. job'[c] = j /\ \A d \in Client \ {c} : job'[d] = job[d]
  BY JobOf DEF TrailInv, SqlInv
<1>2. /\ Granted \in SUBSET Client /\ Granted' \in SUBSET Client /\ Granted' \ {c} = Granted \ {c}
      /\ c \in Granted <=> job[c].at = "granted"
      /\ c \in Granted' <=> j.at = "granted"
  BY <1>1 DEF Granted
<1>3. /\ Cardinality(Granted) \in Nat /\ Cardinality(Granted') \in Nat /\ Cardinality(Granted \ {c}) \in Nat
      /\ Cardinality(Granted) = Cardinality(Granted \ {c}) + IF c \in Granted THEN 1 ELSE 0
      /\ Cardinality(Granted') = Cardinality(Granted \ {c}) + IF c \in Granted' THEN 1 ELSE 0
  BY <1>2, OneApart
<1> QED  BY <1>2, <1>3 DEF TrailInv

(* Nothing but a commit moves a record or the trail, and a commit moves    *)
(* them together (WithTx).                                                 *)
LEMMA CommitTells ==
  ASSUME TrailInv, NEW c \in Client, Commit(c)
  PROVE  Told' /\ stop' \in BOOLEAN
<1> DEFINE e == [seq |-> job[c].seq, about |-> job[c].about, to |-> job[c].to]
<1>0. /\ job[c] \in Job /\ Legal(job[c]) /\ Named(job[c]) /\ job[c].op \in Transactional
      /\ log' = Append(log, e) /\ log \in Seq(Event) /\ Recorded(job[c]) /\ Matches(job[c])
      /\ state \in [Node -> NodeState] /\ Len(log) \in Nat /\ stop \in BOOLEAN
  BY DEF TrailInv, SqlInv, Typed, Jobs, Commit, StillMatches, Proper, Inside
<1>1. e \in Event /\ e.about = job[c].about /\ e.to = job[c].to
  BY <1>0 DEF Job, Event
<1> HIDE DEF e
<1>2. /\ Says(log', e.about, e.to)
      /\ \A about : about # e.about => Events(log', about) = Events(log, about)
      /\ \A about : \A v : about # e.about /\ Says(log, about, v) => Says(log', about, v)
      /\ Events(log', e.about) = Events(log, e.about) \cup {Len(log) + 1}
      /\ Len(log) + 1 \notin Events(log, e.about)
  BY <1>0, <1>1, AppendSays
<1>3. "run" \notin Node /\ "auth" \notin Node /\ "note" \notin Node
  BY NodeAssumption
<1>4. status' # "NONE" => Says(log', "run", status')
  <2>1. CASE job[c].op \in {"open", "status"}
    BY <1>0, <1>1, <1>2, <2>1 DEF Recorded, Named
  <2>2. CASE job[c].op \notin {"open", "status"}
    <3>1. status' = status /\ e.about # "run"
      BY <1>0, <1>1, <1>3, <2>2 DEF Recorded, Named, Legal, Transactional
    <3>2. status # "NONE" => Says(log, "run", status)
      BY DEF TrailInv, Told
    <3> QED  BY <1>2, <3>1, <3>2
  <2> QED  BY <2>1, <2>2
<1>5. \A n \in Node : state'[n] # InitialNodeState => Says(log', n, state'[n])
  <2> SUFFICES ASSUME NEW n \in Node, state'[n] # InitialNodeState PROVE Says(log', n, state'[n])
    OBVIOUS
  <2>1. CASE job[c].op = "node" /\ job[c].about = n
    <3>1. state'[n] = job[c].to
      BY <1>0, <2>1 DEF Recorded
    <3> QED  BY <1>1, <1>2, <2>1, <3>1
  <2>2. CASE ~(job[c].op = "node" /\ job[c].about = n)
    <3>1. state'[n] = state[n] /\ e.about # n
      BY <1>0, <1>1, <1>3, <2>2 DEF Recorded, Named, Legal, Transactional
    <3>2. Says(log, n, state[n])
      BY <3>1 DEF TrailInv, Told
    <3> QED  BY <1>2, <3>1, <3>2
  <2> QED  BY <2>1, <2>2
<1>6. Cardinality(Events(log', "auth")) = granted'
  <2>1. Cardinality(Events(log, "auth")) = granted
    BY DEF TrailInv, Told
  <2>2. CASE job[c].op = "authorize"
    <3>1. e.about = "auth" /\ granted' = granted + 1
      BY <1>0, <1>1, <2>2 DEF Recorded, Named
    <3>2. IsFiniteSet(Events(log, "auth"))
      <4>1. Events(log, "auth") \in SUBSET (1..Len(log))
        BY <1>0 DEF Events
      <4>2. IsFiniteSet(1..Len(log))
        BY <1>0, FS_Interval
      <4> QED  BY <4>1, <4>2, FS_Subset
    <3> QED  BY <1>2, <2>1, <3>1, <3>2, FS_AddElement
  <2>3. CASE job[c].op # "authorize"
    <3>1. e.about # "auth" /\ granted' = granted
      BY <1>0, <1>1, <1>3, <2>3 DEF Recorded, Named, Legal, Transactional
    <3> QED  BY <1>2, <2>1, <3>1
  <2> QED  BY <2>2, <2>3
<1>7. stop' \in BOOLEAN
  BY <1>0 DEF Recorded
<1> QED  BY <1>4, <1>5, <1>6, <1>7 DEF Told

(* Every step of every client keeps what the trail tells.                  *)
LEMMA TrailStays == TrailInv /\ [Next]_sqlVars => TrailInv'
<1> SUFFICES ASSUME TrailInv, [Next]_sqlVars PROVE TrailInv'
  OBVIOUS
<1>s. SqlInv'
  BY NextKeeps DEF TrailInv
<1>told. ASSUME UNCHANGED <<status, state, granted, log>> PROVE Told'
  BY <1>told DEF TrailInv, Told, Says, Events
<1>1. ASSUME NEW c \in Client, (Call(c) /\ UNCHANGED log) \/ Step(c) \/ Fail(c)
      PROVE  TrailInv'
  <2>1. PICK j \in Job : /\ Proper(j) /\ Becomes(c, j)
                         /\ j.at = "granted" => Commit(c) /\ job[c].op = "authorize"
    BY <1>1, OneProperJob
  <2>2. \A d \in Client : Proper(job'[d])
    BY <2>1, JobOf DEF TrailInv, SqlInv
  <2>3. lease' \in [holder : Process \cup {"nobody"}, fresh : BOOLEAN]
    BY <1>1, LeaseIsTyped
  <2>4. Told' /\ stop' \in BOOLEAN
    <3>1. CASE Commit(c)
      BY <3>1, CommitTells
    <3>2. CASE ~Commit(c)
      <4>1. UNCHANGED <<status, stop, state, granted, log>>
        BY <1>1, <3>2, OnlyCommitsRecord
      <4>2. stop \in BOOLEAN
        BY DEF TrailInv
      <4> QED  BY <1>told, <4>1, <4>2
    <3> QED  BY <3>1, <3>2
  <2>5. acted' \in Nat /\ granted' \in Nat /\ acted' + Cardinality(Granted') <= granted'
    <3>1. CASE Commit(c)
      <4>1. UNCHANGED acted /\ granted' = IF job[c].op = "authorize" THEN granted + 1 ELSE granted
        BY <3>1 DEF Commit, Recorded
      <4> QED  BY <2>1, <4>1, GrantsCounted
    <3>2. CASE Act(c)
      <4>1. acted' = acted + 1 /\ UNCHANGED granted /\ job[c].at = "granted"
        BY <3>2 DEF Act
      <4>2. j.at # "granted"
        BY <2>1, <4>1 DEF Commit
      <4> QED  BY <2>1, <4>1, <4>2, GrantsCounted
    <3>3. CASE ~Commit(c) /\ ~Act(c)
      <4>1. UNCHANGED <<acted, granted>>
        BY <1>1, <3>3 DEF Step, Fail, Call, Begin, Touch, Diagnose, InsertAudit, Unblock,
           AcquireLease, Heartbeat, ReadOwnLease, ReleaseLease, ReadRun, ReadLease, OpenSnapshot,
           ListRuns, ListNodes, records
      <4> QED  BY <2>1, <3>3, <4>1, GrantsCounted
    <3> QED  BY <3>1, <3>2, <3>3
  <2> QED  BY <1>s, <2>2, <2>3, <2>4, <2>5 DEF TrailInv
<1>2. CASE Expire /\ UNCHANGED log
  <2>1. UNCHANGED <<status, stop, state, granted, acted, job, log>>
    BY <1>2 DEF Expire
  <2>2. lease' \in [holder : Process \cup {"nobody"}, fresh : BOOLEAN]
    BY <1>2 DEF Expire, TrailInv
  <2> QED  BY <1>s, <1>told, <2>1, <2>2 DEF TrailInv, Granted
<1>3. CASE UNCHANGED sqlVars
  <2>1. UNCHANGED <<status, stop, state, lease, granted, acted, job, log>>
    BY <1>3 DEF sqlVars, records
  <2> QED  BY <1>s, <1>told, <2>1 DEF TrailInv, Granted
<1> QED  BY <1>1, <1>2, <1>3 DEF Next

(* At first there is nothing to tell.                                      *)
LEMMA TrailBegins == Init => TrailInv
<1> SUFFICES ASSUME Init PROVE TrailInv
  OBVIOUS
<1>1. /\ status = "NONE" /\ state = [n \in Node |-> InitialNodeState] /\ log = <<>>
      /\ granted = 0 /\ acted = 0 /\ stop = FALSE /\ lease = NoLease
      /\ \A c \in Client : job[c] = Idle
  BY DEF Init, StoreInit
<1>2. Proper(Idle) /\ Idle.at = "idle"
  BY IdleIsTyped DEF Proper, Named, Inside
<1>3. Events(log, "auth") = {} /\ Granted = {}
  BY <1>1, <1>2 DEF Events, Granted
<1>4. Cardinality(Events(log, "auth")) = 0 /\ Cardinality(Granted) = 0
  BY <1>3, FS_EmptySet
<1>5. Told
  BY <1>1, <1>4 DEF Told
<1>6. lease \in [holder : Process \cup {"nobody"}, fresh : BOOLEAN]
  BY <1>1 DEF NoLease
<1>7. SqlInv /\ (\A c \in Client : Proper(job[c])) /\ stop \in BOOLEAN
  BY <1>1, <1>2, InitKeeps
<1> QED  BY <1>1, <1>4, <1>5, <1>6, <1>7 DEF TrailInv

(* A committed checkpoint is there whole, whoever collides with it or rolls*)
(* back: the trail never lags a record (WithTx, sql.go).                   *)
THEOREM SqlTrailTells == Spec => []Told
<1>1. TrailInv => Told
  BY DEF TrailInv
<1> QED  BY <1>1, TrailBegins, TrailStays, PTL DEF Spec

Asked == {c \in Client : Asking(job[c])}

(* No authorization is on record that no call asked for.                   *)
EachAsked == calls \in 0..MaxCalls /\ granted + Cardinality(Asked) <= calls

(* At first none is asked for.                                             *)
LEMMA AskedBegins == Init => EachAsked
<1> SUFFICES ASSUME Init PROVE EachAsked
  OBVIOUS
<1>1. granted = 0 /\ calls = 0 /\ \A c \in Client : job[c] = Idle
  BY DEF Init, StoreInit
<1>2. Asked = {}
  BY <1>1, IdleIsTyped DEF Asked, Asking
<1>3. Cardinality(Asked) = 0
  BY <1>2, FS_EmptySet
<1> QED  BY <1>1, <1>3, CallsAssumption DEF EachAsked

(* A call asks, a commit grants, and no other step does either.            *)
LEMMA AskedStays == TrailInv /\ EachAsked /\ [Next]_sqlVars => EachAsked'
<1> SUFFICES ASSUME TrailInv, EachAsked, [Next]_sqlVars PROVE EachAsked'
  OBVIOUS
<1>1. ASSUME NEW c \in Client, (Call(c) /\ UNCHANGED log) \/ Step(c) \/ Fail(c)
      PROVE  EachAsked'
  <2>1. PICK j \in Job : /\ Becomes(c, j)
                         /\ j.at = "granted" => Commit(c) /\ job[c].op = "authorize"
                         /\ Asking(j) => Call(c) \/ Going(c)
    BY <1>1, OneProperJob
  <2>2. job'[c] = j /\ \A d \in Client \ {c} : job'[d] = job[d]
    BY <2>1, JobOf DEF TrailInv, SqlInv
  <2>3. /\ Asked \in SUBSET Client /\ Asked' \in SUBSET Client /\ Asked' \ {c} = Asked \ {c}
        /\ c \in Asked <=> Asking(job[c])
        /\ c \in Asked' <=> Asking(j)
    BY <2>2 DEF Asked
  <2>4. granted \in Nat /\ calls \in 0..MaxCalls /\ granted + Cardinality(Asked) <= calls
    BY DEF TrailInv, EachAsked
  <2>5. \/ calls < MaxCalls /\ calls' = calls + 1 /\ UNCHANGED granted
        \/ UNCHANGED <<calls, granted>> /\ (c \in Asked' => c \in Asked)
        \/ UNCHANGED calls /\ granted' = granted + 1 /\ c \in Asked /\ c \notin Asked'
    <3>1. CASE Call(c)
      BY <3>1 DEF Call, records
    <3>2. CASE Commit(c)
      <4>1. /\ job[c].at = "logged" /\ UNCHANGED calls
            /\ granted' = IF job[c].op = "authorize" THEN granted + 1 ELSE granted
        BY <3>2 DEF Commit, Recorded
      <4>2. ~Asking(j)
        <5>1. ~Call(c)
          BY <4>1 DEF Call, Active
        <5> QED  BY <2>1, <4>1, <5>1 DEF Going
      <4>3. job[c].op = "authorize" => Asking(job[c])
        BY <4>1 DEF Asking
      <4> QED  BY <2>3, <4>1, <4>2, <4>3
    <3>3. CASE ~Call(c) /\ ~Commit(c)
      <4>1. UNCHANGED granted
        BY <1>1, <3>3, OnlyCommitsRecord
      <4>2. UNCHANGED calls
        BY <1>1, <3>3 DEF Step, Fail, Begin, Touch, Diagnose, InsertAudit, Unblock, Act,
           AcquireLease, Heartbeat, ReadOwnLease, ReleaseLease, ReadRun, ReadLease, OpenSnapshot,
           ListRuns, ListNodes, records
      <4> QED  BY <2>1, <2>3, <3>3, <4>1, <4>2 DEF Going
    <3> QED  BY <3>1, <3>2, <3>3
  <2> QED  BY <2>3, <2>4, <2>5, GrantsFollowCalls DEF EachAsked
<1>2. CASE Expire \/ UNCHANGED sqlVars
  BY <1>2 DEF Expire, sqlVars, records, EachAsked, Asked
<1> QED  BY <1>1, <1>2 DEF Next

(* Statements, authorizations and calls, each at most as many as the next. *)
LEMMA InBounds ==
  ASSUME TrailInv, EachAsked
  PROVE  calls \in 0..MaxCalls /\ granted \in 0..calls /\ acted \in 0..granted
<1>1. Cardinality(Asked) \in Nat /\ Cardinality(Granted) \in Nat
  <2>1. Asked \in SUBSET Client /\ Granted \in SUBSET Client
    BY DEF Asked, Granted
  <2>2. IsFiniteSet(Asked) /\ IsFiniteSet(Granted)
    BY <2>1, ClientAssumption, FS_Subset
  <2> QED  BY <2>2, FS_CardinalityType
<1> QED  BY <1>1, CallsAssumption DEF TrailInv, EachAsked

-----------------------------------------------------------------------------
(* The SQL store implements the port                                       *)

Contract == INSTANCE StoreContract WITH Holder <- Process, trail <- log

(* The contract's vocabulary is the store's.                               *)
LEMMA ContractWords ==
  /\ \A from, to : Contract!ValidRunTransition(from, to) <=> ValidRunTransition(from, to)
  /\ \A from, to, reason :
       Contract!ValidTransition(from, to, reason) <=> ValidTransition(from, to, reason)
  /\ Contract!TransitionReason = TransitionReason
  /\ Contract!RunStatus = RunStatus /\ Contract!NodeState = NodeState
  /\ Contract!InitialNodeState = InitialNodeState /\ Contract!NoLease = NoLease
  /\ Contract!Cardinality(Contract!Mentions("auth")) = Cardinality(Events(log, "auth"))
<1>1. \A from, to : Contract!ValidRunTransition(from, to) <=> ValidRunTransition(from, to)
  BY DEF Contract!ValidRunTransition, ValidRunTransition, Contract!RunStatus, RunStatus,
     Contract!ResumableStatuses, ResumableStatuses
<1>2. \A from, to, reason :
        Contract!ValidTransition(from, to, reason) <=> ValidTransition(from, to, reason)
  BY DEF Contract!ValidTransition, ValidTransition, Contract!NormalTransitions, NormalTransitions
<1>3. /\ Contract!TransitionReason = TransitionReason
      /\ Contract!RunStatus = RunStatus /\ Contract!NodeState = NodeState
      /\ Contract!InitialNodeState = InitialNodeState /\ Contract!NoLease = NoLease
  BY DEF Contract!TransitionReason, TransitionReason, Contract!RunStatus, RunStatus,
     Contract!NodeState, NodeState, Contract!InitialNodeState, InitialNodeState,
     Contract!NoLease, NoLease
<1>4. Contract!Mentions("auth") = Events(log, "auth")
  BY DEF Contract!Mentions, Events
<1>5. \A S : Contract!Cardinality(S) = Cardinality(S)
  BY DEF Contract!Cardinality, Cardinality, Contract!IsFiniteSet, IsFiniteSet
<1> QED  BY <1>1, <1>2, <1>3, <1>4, <1>5

(* A commit is one step of the port: the record's, with its event.         *)
LEMMA CommitImplements ==
  ASSUME TrailInv, NEW c \in Client, Commit(c)
  PROVE  Contract!Next
<1> DEFINE e == [seq |-> job[c].seq, about |-> job[c].about, to |-> job[c].to]
<1>0. /\ job[c] \in Job /\ Legal(job[c]) /\ Named(job[c]) /\ job[c].op \in Transactional
      /\ log' = Append(log, e) /\ Recorded(job[c]) /\ Matches(job[c])
      /\ state \in [Node -> NodeState] /\ stop \in BOOLEAN /\ UNCHANGED <<lease, acted>>
      /\ status \in RunStatus \cup {"NONE"} /\ job[c].seq = Len(log) + 1
  BY DEF TrailInv, SqlInv, Typed, Jobs, Commit, StillMatches, NextNumber, Proper, Inside
<1>1. e = Contract!Numbered(job[c].about, job[c].to)
  BY <1>0 DEF Contract!Numbered
<1> HIDE DEF e
<1>2. Contract!MaybeLogged(job[c].about, job[c].to)
  BY <1>0, <1>1 DEF Contract!MaybeLogged
<1>3. CASE job[c].op = "open"
  <2>1. /\ status = "NONE" /\ status' = "RUNNING" /\ UNCHANGED <<stop, state, granted>>
        /\ job[c].about = "run" /\ job[c].to = "RUNNING"
    BY <1>0, <1>3 DEF Recorded, Matches, Legal, Named
  <2> QED  BY <1>0, <1>2, <2>1 DEF Contract!CreateRun, Contract!Next
<1>4. CASE job[c].op = "status"
  <2>1. /\ status' = job[c].to /\ stop' = (stop /\ job[c].to # "RUNNING")
        /\ UNCHANGED <<state, granted>> /\ job[c].about = "run"
        /\ ValidRunTransition(status, job[c].to)
    BY <1>0, <1>4 DEF Recorded, Matches, Legal, Named
  <2>2. job[c].to \in RunStatus
    BY <2>1 DEF ValidRunTransition, RunStatus
  <2>3. Contract!SetRunStatus(job[c].to)
    BY <1>0, <1>2, <2>1, ContractWords DEF Contract!SetRunStatus
  <2> QED  BY <2>2, <2>3, ContractWords DEF Contract!Next
<1>5. CASE job[c].op = "node"
  <2> DEFINE n == job[c].about
  <2>1. /\ state' = [state EXCEPT ![n] = job[c].to] /\ UNCHANGED <<status, granted>> /\ n \in Node
        /\ \E reason \in TransitionReason : ValidTransition(state[n], job[c].to, reason)
    BY <1>0, <1>5 DEF Recorded, Matches, Legal
  <2>2. UNCHANGED stop
    BY <1>0, <1>5 DEF Recorded
  <2>3. job[c].to \in NodeState
    BY <2>1 DEF ValidTransition, NormalTransitions, NodeState, TransitionReason
  <2>4. Contract!TransitionNode(n, job[c].to)
    BY <1>0, <1>2, <2>1, <2>2, ContractWords DEF Contract!TransitionNode
  <2> QED  BY <2>1, <2>3, <2>4, ContractWords DEF Contract!Next
<1>6. CASE job[c].op = "authorize"
  <2>1. /\ granted' = granted + 1 /\ UNCHANGED <<status, stop, state>>
        /\ job[c].about = "auth" /\ job[c].to = "granted"
    BY <1>0, <1>6 DEF Recorded, Named
  <2> QED  BY <1>0, <1>2, <2>1 DEF Contract!Authorize, Contract!Next
<1>7. CASE job[c].op = "flag"
  <2>1. /\ stop' = TRUE /\ status # "NONE" /\ UNCHANGED <<status, state, granted>>
        /\ job[c].about = "note" /\ job[c].to = "stop"
    BY <1>0, <1>7 DEF Recorded, Matches, Named
  <2> QED  BY <1>0, <1>2, <2>1 DEF Contract!RequestCancel, Contract!Next
<1>8. CASE job[c].op = "note"
  <2>1. UNCHANGED <<status, state, granted>> /\ UNCHANGED stop
    BY <1>0, <1>8 DEF Recorded
  <2>2. job[c].about = "note" /\ job[c].to \in {"lease", "released", "done"} /\ "note" \notin Node
    BY <1>0, <1>8, NodeAssumption DEF Named
  <2>3. Contract!AppendAudit("note", job[c].to)
    BY <1>0, <1>1, <2>1, <2>2 DEF Contract!AppendAudit
  <2> QED  BY <2>2, <2>3 DEF Contract!Next
<1> QED  BY <1>0, <1>3, <1>4, <1>5, <1>6, <1>7, <1>8 DEF Transactional

(* So is a statement sent, or what happens to the lease; nothing else the  *)
(* store does can be told at the port.                                     *)
LEMMA StepImplements ==
  ASSUME TrailInv, [Next]_sqlVars
  PROVE  [Contract!Next]_(Contract!port)
<1>quiet. ASSUME UNCHANGED <<status, stop, state, lease, granted, acted, log>>
          PROVE  UNCHANGED Contract!port
  BY <1>quiet DEF Contract!port
<1>1. ASSUME NEW c \in Client, (Call(c) /\ UNCHANGED log) \/ Step(c) \/ Fail(c)
      PROVE  [Contract!Next]_(Contract!port)
  <2>h. Host[c] \in Process
    BY HostAssumption
  <2>l. lease \in [holder : Process \cup {"nobody"}, fresh : BOOLEAN]
    BY DEF TrailInv
  <2>1. CASE Commit(c)
    BY <2>1, CommitImplements
  <2>2. CASE Act(c)
    <3>1. /\ acted' = acted + 1 /\ UNCHANGED <<status, stop, state, lease, granted, log>>
          /\ c \in Granted
      BY <2>2 DEF Act, Granted
    <3>2. acted < granted
      <4>1. /\ Cardinality(Granted) \in Nat /\ Cardinality(Granted \ {c}) \in Nat
            /\ Cardinality(Granted) = Cardinality(Granted \ {c}) + 1
        <5>1. Granted \in SUBSET Client
          BY DEF Granted
        <5> QED  BY <3>1, <5>1, OneApart
      <4> QED  BY <4>1 DEF TrailInv
    <3>3. granted = Contract!Cardinality(Contract!Mentions("auth"))
      BY ContractWords DEF TrailInv, Told
    <3> QED  BY <3>1, <3>2, <3>3 DEF Contract!Act, Contract!Next
  <2>3. CASE AcquireLease(c) /\ ~UNCHANGED lease
    <3>1. /\ lease.holder \in {"nobody", Host[c]} \/ ~lease.fresh
          /\ lease' = [holder |-> Host[c], fresh |-> TRUE]
          /\ UNCHANGED <<status, stop, state, granted, acted, log>>
      BY <2>3 DEF AcquireLease, Leasable
    <3>2. Contract!AcquireLease(Host[c])
      BY <3>1 DEF Contract!AcquireLease
    <3> QED  BY <2>h, <3>2 DEF Contract!Next
  <2>4. CASE Heartbeat(c) /\ ~UNCHANGED lease
    <3>1. /\ lease.holder = Host[c] /\ lease' = [lease EXCEPT !.fresh = TRUE]
          /\ UNCHANGED <<status, stop, state, granted, acted, log>>
      BY <2>4 DEF Heartbeat
    <3>2. lease' = [holder |-> Host[c], fresh |-> TRUE]
      BY <2>l, <3>1
    <3>3. Contract!AcquireLease(Host[c])
      BY <3>1, <3>2 DEF Contract!AcquireLease
    <3> QED  BY <2>h, <3>3 DEF Contract!Next
  <2>5. CASE ReleaseLease(c) /\ ~UNCHANGED lease
    <3>1. /\ lease.holder = Host[c] /\ lease' = NoLease
          /\ UNCHANGED <<status, stop, state, granted, acted, log>>
      BY <2>5 DEF ReleaseLease
    <3>2. Contract!ReleaseLease(Host[c])
      BY <3>1, ContractWords DEF Contract!ReleaseLease
    <3> QED  BY <2>h, <3>2 DEF Contract!Next
  <2>6. CASE /\ ~Commit(c) /\ ~Act(c)
             /\ (AcquireLease(c) \/ Heartbeat(c) \/ ReleaseLease(c)) => UNCHANGED lease
    <3>1. UNCHANGED <<lease, acted>>
      BY <1>1, <2>6 DEF Step, Fail, Call, Begin, Touch, Diagnose, InsertAudit, Unblock,
         ReadOwnLease, ReadRun, ReadLease, OpenSnapshot, ListRuns, ListNodes, records,
         AcquireLease, Heartbeat, ReleaseLease
    <3>2. UNCHANGED <<status, stop, state, granted, log>>
      BY <1>1, <2>6, OnlyCommitsRecord
    <3> QED  BY <1>quiet, <3>1, <3>2
  <2> QED  BY <2>1, <2>2, <2>3, <2>4, <2>5, <2>6
<1>2. CASE Expire /\ UNCHANGED log
  BY <1>2 DEF Expire, Contract!Expire, Contract!Next
<1>3. CASE UNCHANGED sqlVars
  BY <1>3, <1>quiet DEF sqlVars, records
<1> QED  BY <1>1, <1>2, <1>3 DEF Next

(* The PostgreSQL store keeps every promise of the state store port, for   *)
(* any number of clients, processes and connections, through every race    *)
(* and every rollback (store.go, sql.go).                                  *)
THEOREM SqlImplementsContract == Spec => Contract!Spec
<1>1. Init => Contract!Init
  BY ContractWords DEF Init, StoreInit, Contract!Init
<1>2. TrailInv /\ [Next]_sqlVars => [Contract!Next]_(Contract!port)
  BY StepImplements
<1> QED  BY <1>1, <1>2, TrailBegins, TrailStays, PTL DEF Spec, Contract!Spec

=================================================================================
