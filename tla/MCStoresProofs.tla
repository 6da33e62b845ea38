--------------------------- MODULE MCStoresProofs ---------------------------
(***************************************************************************)
(* What both state stores keep, as one state store port: the theorems of   *)
(* SqlStoreProofs and FileStoreProofs, put together for whichever backend  *)
(* --state has chosen, for every number of clients, nodes and calls.       *)
(***************************************************************************)
EXTENDS MCStores, TLAPS

SqlP  == INSTANCE SqlStoreProofs
FileP == INSTANCE FileStoreProofs WITH Asks <- FileAsks, Alone <- {"cancel"}, MaxCalls <- MaxFileCalls

-----------------------------------------------------------------------------
(* The stores here and the stores proved about are two instances of the    *)
(* same modules, whose definitions say the same.                           *)

(* The assumption on clients in the theorems' own words.                   *)
LEMMA FiniteClients == SqlP!IsFiniteSet(Client) /\ FileP!IsFiniteSet(Client)
  BY ClientAssumption DEF IsFiniteSet, SqlP!IsFiniteSet, FileP!IsFiniteSet

(* What the theorems cited here assume of the constants.                   *)
LEMMA Assumptions ==
  /\ Node \cap {"run", "none", "note", "auth"} = {} /\ "free" \notin Client
  /\ SqlP!IsFiniteSet(Client) /\ FileP!IsFiniteSet(Client)
  /\ Host \in [Client -> Process] /\ MaxCalls \in Nat /\ MaxFileCalls \in Nat
  BY NodeAssumption, ClientAssumption, HostAssumption, CallsAssumption, BoundAssumption, FiniteClients

(* The SQL store's words in its two instances.                             *)
LEMMA SqlWords ==
  /\ Sql!Idle = SqlP!Idle /\ Sql!NoLease = SqlP!NoLease /\ Sql!NextSeq = SqlP!NextSeq
  /\ Sql!Transactional = SqlP!Transactional
  /\ \A c : Sql!Free(c) <=> SqlP!Free(c)
  /\ \A op, about, from, to : Sql!Begun(op, about, from, to) = SqlP!Begun(op, about, from, to)
  /\ \A from, to : Sql!ValidRunTransition(from, to) <=> SqlP!ValidRunTransition(from, to)
  /\ \A c : Sql!Requests(c) = SqlP!Requests(c)
  /\ \A j : Sql!Matches(j) <=> SqlP!Matches(j)
<1>1. \A S : Sql!Cardinality(S) = SqlP!Cardinality(S)
  BY DEF Sql!Cardinality, SqlP!Cardinality, Sql!IsFiniteSet, SqlP!IsFiniteSet
<1>2. \A c : Sql!Free(c) <=> SqlP!Free(c)
  BY <1>1 DEF Sql!Free, SqlP!Free, Sql!InUse, SqlP!InUse, Sql!LockPins, SqlP!LockPins, Sql!Pinned,
     SqlP!Pinned, Sql!Reading, SqlP!Reading, Sql!InTransaction, SqlP!InTransaction
<1>3. \A op, about, from, to : Sql!Begun(op, about, from, to) = SqlP!Begun(op, about, from, to)
  BY DEF Sql!Begun, SqlP!Begun, Sql!Idle, SqlP!Idle
<1>4. \A from, to : Sql!ValidRunTransition(from, to) <=> SqlP!ValidRunTransition(from, to)
  BY DEF Sql!ValidRunTransition, SqlP!ValidRunTransition, Sql!RunStatus, SqlP!RunStatus,
     Sql!ResumableStatuses, SqlP!ResumableStatuses
<1>5. \A c : Sql!Requests(c) = SqlP!Requests(c)
  <2>1. {m \in StatusMoves : Sql!ValidRunTransition(m[1], m[2])}
          = {m \in StatusMoves : SqlP!ValidRunTransition(m[1], m[2])}
    BY <1>4
  <2>2. \A from, to :
          (\E reason \in Sql!TransitionReason : Sql!ValidTransition(from, to, reason))
            <=> (\E reason \in SqlP!TransitionReason : SqlP!ValidTransition(from, to, reason))
    BY DEF Sql!ValidTransition, SqlP!ValidTransition, Sql!NormalTransitions, SqlP!NormalTransitions,
       Sql!TransitionReason, SqlP!TransitionReason
  <2>3. {m \in NodeMoves : \E reason \in Sql!TransitionReason :
                              Sql!ValidTransition(m[1], m[2], reason)}
          = {m \in NodeMoves : \E reason \in SqlP!TransitionReason :
                                SqlP!ValidTransition(m[1], m[2], reason)}
    BY <2>2
  <2> DEFINE runs == {m \in StatusMoves : SqlP!ValidRunTransition(m[1], m[2])}
             nodes == {m \in NodeMoves : \E reason \in SqlP!TransitionReason :
                                           SqlP!ValidTransition(m[1], m[2], reason)}
  <2>4. {Sql!Begun("status", "run", m[1], m[2]) : m \in runs}
          = {SqlP!Begun("status", "run", m[1], m[2]) : m \in runs}
    BY <1>3
  <2>5. {Sql!Begun("node", n, m[1], m[2]) : n \in Node, m \in nodes}
          = {SqlP!Begun("node", n, m[1], m[2]) : n \in Node, m \in nodes}
    BY <1>3
  <2> QED  BY <2>1, <2>3, <2>4, <2>5, <1>3 DEF Sql!Requests, SqlP!Requests
<1> QED
  BY <1>2, <1>3, <1>4, <1>5 DEF Sql!Idle, SqlP!Idle, Sql!NoLease, SqlP!NoLease, Sql!NextSeq,
     SqlP!NextSeq, Sql!Transactional, SqlP!Transactional, Sql!Matches, SqlP!Matches

(* The SQL store's steps in its two instances.                             *)
LEMMA SqlSame ==
  /\ Sql!Init => SqlP!Init
  /\ [Sql!Next]_(Sql!sqlVars) => [SqlP!Next]_(SqlP!sqlVars)
<1> USE SqlWords DEF Sql!records, SqlP!records, Sql!Becomes, SqlP!Becomes, Sql!Moves, SqlP!Moves,
        Sql!Returns, SqlP!Returns
<1>init. Sql!Init => SqlP!Init
  BY DEF Sql!Init, SqlP!Init, Sql!StoreInit, SqlP!StoreInit, Sql!InitialNodeState,
     SqlP!InitialNodeState
<1>call. \A c \in Client : Sql!Call(c) => SqlP!Call(c)
  BY DEF Sql!Call, SqlP!Call, Sql!Active, SqlP!Active
<1>1. \A c \in Client : Sql!Begin(c) => SqlP!Begin(c)
  BY DEF Sql!Begin, SqlP!Begin
<1>2. \A c \in Client : Sql!Touch(c) => SqlP!Touch(c)
  BY DEF Sql!Touch, SqlP!Touch, Sql!RowFree, SqlP!RowFree, Sql!Row, SqlP!Row
<1>3. \A c \in Client : Sql!Diagnose(c) => SqlP!Diagnose(c)
  BY DEF Sql!Diagnose, SqlP!Diagnose
<1>4. \A c \in Client : Sql!InsertAudit(c) => SqlP!InsertAudit(c)
  BY DEF Sql!InsertAudit, SqlP!InsertAudit, Sql!Claimants, SqlP!Claimants
<1>5. \A c \in Client : Sql!Unblock(c) => SqlP!Unblock(c)
  BY DEF Sql!Unblock, SqlP!Unblock, Sql!Claimants, SqlP!Claimants
<1>6. \A c \in Client : Sql!Commit(c) => SqlP!Commit(c)
  BY DEF Sql!Commit, SqlP!Commit, Sql!After, SqlP!After, Sql!AfterFlag, SqlP!AfterFlag,
     Sql!Recorded, SqlP!Recorded
<1>7. \A c \in Client : Sql!Act(c) => SqlP!Act(c)
  BY DEF Sql!Act, SqlP!Act
<1>8. \A c \in Client : Sql!AcquireLease(c) => SqlP!AcquireLease(c)
  BY DEF Sql!AcquireLease, SqlP!AcquireLease, Sql!Leasable, SqlP!Leasable
<1>9. \A c \in Client : Sql!Heartbeat(c) => SqlP!Heartbeat(c)
  BY DEF Sql!Heartbeat, SqlP!Heartbeat
<1>10. \A c \in Client : Sql!ReadOwnLease(c) => SqlP!ReadOwnLease(c)
  BY DEF Sql!ReadOwnLease, SqlP!ReadOwnLease
<1>11. \A c \in Client : Sql!ReleaseLease(c) => SqlP!ReleaseLease(c)
  BY DEF Sql!ReleaseLease, SqlP!ReleaseLease
<1>12. \A c \in Client : Sql!ReadRun(c) => SqlP!ReadRun(c)
  BY DEF Sql!ReadRun, SqlP!ReadRun, Sql!Flag, SqlP!Flag, Sql!TerminalStatuses,
     SqlP!TerminalStatuses, Sql!ResumableStatuses, SqlP!ResumableStatuses
<1>13. \A c \in Client : Sql!ReadLease(c) => SqlP!ReadLease(c)
  BY DEF Sql!ReadLease, SqlP!ReadLease, Sql!Flag, SqlP!Flag
<1>14. \A c \in Client : Sql!OpenSnapshot(c) => SqlP!OpenSnapshot(c)
  BY DEF Sql!OpenSnapshot, SqlP!OpenSnapshot
<1>15. \A c \in Client : Sql!ListRuns(c) => SqlP!ListRuns(c)
  BY DEF Sql!ListRuns, SqlP!ListRuns
<1>16. \A c \in Client : Sql!ListNodes(c) => SqlP!ListNodes(c)
  BY DEF Sql!ListNodes, SqlP!ListNodes
<1>17. \A c \in Client : Sql!Fail(c) => SqlP!Fail(c)
  BY DEF Sql!Fail, SqlP!Fail, Sql!Active, SqlP!Active
<1>expire. Sql!Expire => SqlP!Expire
  BY DEF Sql!Expire, SqlP!Expire
<1>next. Sql!Next => SqlP!Next
  BY <1>call, <1>1, <1>2, <1>3, <1>4, <1>5, <1>6, <1>7, <1>8, <1>9, <1>10, <1>11, <1>12, <1>13,
     <1>14, <1>15, <1>16, <1>17, <1>expire, Zenon DEF Sql!Next, SqlP!Next, Sql!Step, SqlP!Step
<1> QED
  BY <1>init, <1>next DEF Sql!sqlVars, SqlP!sqlVars

(* The file store's words in its two instances.                            *)
LEMMA FileWords ==
  /\ File!Idle = FileP!Idle /\ File!NoLease = FileP!NoLease /\ File!NoCursor = FileP!NoCursor
  /\ File!NextSeq = FileP!NextSeq /\ File!readAudit = FileP!readAudit /\ File!Closed = FileP!Closed
  /\ \A op, about, from, to : File!Begun(op, about, from, to) = FileP!Begun(op, about, from, to)
  /\ \A from, to : File!ValidRunTransition(from, to) <=> FileP!ValidRunTransition(from, to)
  /\ \A c : File!Requests(c) = FileP!Requests(c)
  /\ \A j : File!Matches(j) <=> FileP!Matches(j)
  /\ \A j : File!After(j) = FileP!After(j)
  /\ \A ls, l : File!Put(ls, l) = FileP!Put(ls, l)
  /\ \A j, ended : File!LineOf(j, ended) = FileP!LineOf(j, ended)
  /\ \A j : File!Reached(j) = FileP!Reached(j)
<1>1. \A ls : File!EndsMidLine(ls) <=> FileP!EndsMidLine(ls)
  BY DEF File!EndsMidLine, FileP!EndsMidLine
<1>2. \A ls : File!Reading(ls) = FileP!Reading(ls)
  BY DEF File!Reading, FileP!Reading, File!Entry, FileP!Entry
<1>3. File!readAudit = FileP!readAudit /\ File!NextSeq = FileP!NextSeq
  BY <1>2 DEF File!readAudit, FileP!readAudit, File!NextSeq, FileP!NextSeq, File!countAudit,
     FileP!countAudit, File!auditSize, FileP!auditSize
<1>4. \A text, ended : File!Fragment(text, ended) = FileP!Fragment(text, ended)
  BY DEF File!Fragment, FileP!Fragment
<1>5. \A j, ended : File!LineOf(j, ended) = FileP!LineOf(j, ended)
  BY <1>3 DEF File!LineOf, FileP!LineOf
<1>6. \A ls, l : File!Put(ls, l) = FileP!Put(ls, l)
  BY <1>1, <1>4 DEF File!Put, FileP!Put
<1>7. (File!NeedsSeparator <=> FileP!NeedsSeparator) /\ File!Closed = FileP!Closed
  BY <1>1 DEF File!Closed, FileP!Closed, File!NeedsSeparator, FileP!NeedsSeparator
<1>8. \A j : File!Reached(j) = FileP!Reached(j)
  BY <1>4, <1>5, <1>6, <1>7 DEF File!Reached, FileP!Reached
<1>9. \A op, about, from, to : File!Begun(op, about, from, to) = FileP!Begun(op, about, from, to)
  BY DEF File!Begun, FileP!Begun, File!Idle, FileP!Idle
<1>10. \A from, to : File!ValidRunTransition(from, to) <=> FileP!ValidRunTransition(from, to)
  BY DEF File!ValidRunTransition, FileP!ValidRunTransition, File!RunStatus, FileP!RunStatus,
     File!ResumableStatuses, FileP!ResumableStatuses
<1>11. File!Idle = FileP!Idle /\ File!NoLease = FileP!NoLease /\ File!NoCursor = FileP!NoCursor
  BY DEF File!Idle, FileP!Idle, File!NoLease, FileP!NoLease, File!NoCursor, FileP!NoCursor
<1>12. \A j : File!Matches(j) <=> FileP!Matches(j)
  BY DEF File!Matches, FileP!Matches
<1>13. \A j : File!After(j) = FileP!After(j)
  BY <1>9, <1>11 DEF File!After, FileP!After
<1>14. \A c : File!Requests(c) = FileP!Requests(c)
  <2>1. {m \in StatusMoves : File!ValidRunTransition(m[1], m[2])}
          = {m \in StatusMoves : FileP!ValidRunTransition(m[1], m[2])}
    BY <1>10
  <2>2. \A from, to :
          (\E reason \in File!TransitionReason : File!ValidTransition(from, to, reason))
            <=> (\E reason \in FileP!TransitionReason : FileP!ValidTransition(from, to, reason))
    BY DEF File!ValidTransition, FileP!ValidTransition, File!NormalTransitions, FileP!NormalTransitions,
       File!TransitionReason, FileP!TransitionReason
  <2>3. {m \in NodeMoves : \E reason \in File!TransitionReason :
                              File!ValidTransition(m[1], m[2], reason)}
          = {m \in NodeMoves : \E reason \in FileP!TransitionReason :
                                FileP!ValidTransition(m[1], m[2], reason)}
    BY <2>2
  <2> DEFINE runs == {m \in StatusMoves : FileP!ValidRunTransition(m[1], m[2])}
             nodes == {m \in NodeMoves : \E reason \in FileP!TransitionReason :
                                           FileP!ValidTransition(m[1], m[2], reason)}
  <2>4. {File!Begun("status", "run", m[1], m[2]) : m \in runs}
          = {FileP!Begun("status", "run", m[1], m[2]) : m \in runs}
    BY <1>9
  <2>5. {File!Begun("node", n, m[1], m[2]) : n \in Node, m \in nodes}
          = {FileP!Begun("node", n, m[1], m[2]) : n \in Node, m \in nodes}
    BY <1>9
  <2> QED  BY <2>1, <2>3, <2>4, <2>5, <1>9 DEF File!Requests, FileP!Requests
<1> QED
  BY <1>3, <1>5, <1>6, <1>7, <1>8, <1>9, <1>10, <1>11, <1>12, <1>13, <1>14

(* The file store's steps in its two instances.                            *)
LEMMA FileSame ==
  /\ File!Init => FileP!Init
  /\ [File!Next]_(File!fileVars) => [FileP!Next]_(FileP!fileVars)
<1> USE FileWords DEF File!records, FileP!records, File!Becomes, FileP!Becomes, File!Locks, FileP!Locks,
        File!Returns, FileP!Returns, File!Fault, FileP!Fault, File!Active, FileP!Active
<1>init. File!Init => FileP!Init
  BY DEF File!Init, FileP!Init, File!StoreInit, FileP!StoreInit, File!InitialNodeState,
     FileP!InitialNodeState
<1>call. \A c \in Client : File!Call(c) /\ File!Present(c) => FileP!Call(c) /\ FileP!Present(c)
  BY DEF File!Call, FileP!Call, File!Present, FileP!Present
<1>1. \A c \in Client : File!Enter(c) => FileP!Enter(c)
  BY DEF File!Enter, FileP!Enter
<1>2. \A c \in Client : File!Leave(c) => FileP!Leave(c)
  BY DEF File!Leave, FileP!Leave
<1>3. \A c \in Client : File!Write(c) => FileP!Write(c)
  BY DEF File!Write, FileP!Write, File!Recorded, FileP!Recorded
<1>4. \A c \in Client : File!Emit(c) => FileP!Emit(c)
  BY DEF File!Emit, FileP!Emit, File!Unlocks, FileP!Unlocks
<1>5. \A c \in Client : File!Act(c) => FileP!Act(c)
  BY DEF File!Act, FileP!Act
<1>6. \A c \in Client : File!Report(c) => FileP!Report(c)
  BY DEF File!Report, FileP!Report
<1>7. \A c \in Client : File!AcquireLease(c) => FileP!AcquireLease(c)
  BY DEF File!AcquireLease, FileP!AcquireLease, File!Leasable, FileP!Leasable
<1>8. \A c \in Client : File!Heartbeat(c) => FileP!Heartbeat(c)
  BY DEF File!Heartbeat, FileP!Heartbeat
<1>9. \A c \in Client : File!ReleaseLease(c) => FileP!ReleaseLease(c)
  BY DEF File!ReleaseLease, FileP!ReleaseLease
<1>10. \A c \in Client : File!RequestCancel(c) => FileP!RequestCancel(c)
  BY DEF File!RequestCancel, FileP!RequestCancel, File!LooksLive, FileP!LooksLive,
     File!TerminalStatuses, FileP!TerminalStatuses
<1>11. \A c \in Client : File!FindRuns(c) => FileP!FindRuns(c)
  BY DEF File!FindRuns, FileP!FindRuns
<1>12. \A c \in Client : File!SweptAway(c) => FileP!SweptAway(c)
  BY DEF File!SweptAway, FileP!SweptAway
<1>13. \A c \in Client : File!EmitFails(c) => FileP!EmitFails(c)
  BY DEF File!EmitFails, FileP!EmitFails
<1>crash. File!Crash => FileP!Crash
  BY DEF File!Crash, FileP!Crash
<1>expire. File!Expire => FileP!Expire
  BY DEF File!Expire, FileP!Expire
<1>next. File!Next => FileP!Next
  BY <1>call, <1>1, <1>2, <1>3, <1>4, <1>5, <1>6, <1>7, <1>8, <1>9, <1>10, <1>11, <1>12, <1>13,
     <1>crash, <1>expire, Zenon DEF File!Next, FileP!Next, File!Step, FileP!Step
<1> QED
  BY <1>init, <1>next DEF File!fileVars, FileP!fileVars

-----------------------------------------------------------------------------
(* The port as either store presents it *)

(* Over SQL the trail is the log, and the port is the SQL store's.          *)
LEMMA SqlPort ==
  ASSUME trail = log, trail' = log'
  PROVE  [SqlP!Contract!Next]_(SqlP!Contract!port) => [Contract!Next]_(Contract!port)
<1>1. /\ SqlP!Contract!Mentions("auth") = Contract!Mentions("auth")
      /\ \A S : SqlP!Contract!Cardinality(S) = Contract!Cardinality(S)
  BY DEF SqlP!Contract!Mentions, Contract!Mentions, SqlP!Contract!Cardinality,
     Contract!Cardinality, SqlP!Contract!IsFiniteSet, Contract!IsFiniteSet
<1>2. \A about, to : /\ SqlP!Contract!Numbered(about, to) = Contract!Numbered(about, to)
                    /\ SqlP!Contract!MaybeLogged(about, to) <=> Contract!MaybeLogged(about, to)
  BY DEF SqlP!Contract!Numbered, Contract!Numbered, SqlP!Contract!MaybeLogged,
     Contract!MaybeLogged
<1>3. /\ \A from, to : SqlP!Contract!ValidRunTransition(from, to) <=> Contract!ValidRunTransition(from, to)
      /\ \A from, to, reason :
           SqlP!Contract!ValidTransition(from, to, reason) <=> Contract!ValidTransition(from, to, reason)
      /\ SqlP!Contract!TransitionReason = Contract!TransitionReason
      /\ SqlP!Contract!RunStatus = Contract!RunStatus /\ SqlP!Contract!NodeState = Contract!NodeState
      /\ SqlP!Contract!NoLease = Contract!NoLease
  BY DEF SqlP!Contract!ValidRunTransition, Contract!ValidRunTransition, SqlP!Contract!RunStatus,
     Contract!RunStatus, SqlP!Contract!ResumableStatuses, Contract!ResumableStatuses,
     SqlP!Contract!ValidTransition, Contract!ValidTransition, SqlP!Contract!NormalTransitions,
     Contract!NormalTransitions, SqlP!Contract!TransitionReason, Contract!TransitionReason,
     SqlP!Contract!NodeState, Contract!NodeState, SqlP!Contract!NoLease, Contract!NoLease
<1>4. SqlP!Contract!CreateRun => Contract!CreateRun
  BY <1>1, <1>2 DEF SqlP!Contract!CreateRun, Contract!CreateRun, SqlP!Contract!MaybeLogged,
     Contract!MaybeLogged, SqlP!Contract!Numbered, Contract!Numbered
<1>5. SqlP!Contract!RequestCancel => Contract!RequestCancel
  BY <1>1, <1>2 DEF SqlP!Contract!RequestCancel, Contract!RequestCancel,
     SqlP!Contract!MaybeLogged, Contract!MaybeLogged, SqlP!Contract!Numbered, Contract!Numbered
<1>6. SqlP!Contract!Authorize => Contract!Authorize
  BY <1>1, <1>2 DEF SqlP!Contract!Authorize, Contract!Authorize, SqlP!Contract!MaybeLogged,
     Contract!MaybeLogged, SqlP!Contract!Numbered, Contract!Numbered
<1>7. SqlP!Contract!Act => Contract!Act
  BY <1>1, <1>2 DEF SqlP!Contract!Act, Contract!Act
<1>8. SqlP!Contract!Expire => Contract!Expire
  BY <1>1, <1>2 DEF SqlP!Contract!Expire, Contract!Expire
<1>9. \A to : SqlP!Contract!SetRunStatus(to) => Contract!SetRunStatus(to)
  BY <1>1, <1>2, <1>3 DEF SqlP!Contract!SetRunStatus, Contract!SetRunStatus,
     SqlP!Contract!MaybeLogged, Contract!MaybeLogged, SqlP!Contract!Numbered, Contract!Numbered
<1>10. \A n, to : SqlP!Contract!TransitionNode(n, to) => Contract!TransitionNode(n, to)
  BY <1>1, <1>2, <1>3 DEF SqlP!Contract!TransitionNode, Contract!TransitionNode,
     SqlP!Contract!MaybeLogged, Contract!MaybeLogged, SqlP!Contract!Numbered, Contract!Numbered
<1>11. \A h : SqlP!Contract!AcquireLease(h) => Contract!AcquireLease(h)
  BY <1>1, <1>2, <1>3 DEF SqlP!Contract!AcquireLease, Contract!AcquireLease
<1>12. \A h : SqlP!Contract!ReleaseLease(h) => Contract!ReleaseLease(h)
  BY <1>1, <1>2, <1>3 DEF SqlP!Contract!ReleaseLease, Contract!ReleaseLease
<1>13. \A about, to : SqlP!Contract!AppendAudit(about, to) => Contract!AppendAudit(about, to)
  BY <1>1, <1>2, <1>3 DEF SqlP!Contract!AppendAudit, Contract!AppendAudit, SqlP!Contract!Numbered,
     Contract!Numbered
<1>14. SqlP!Contract!Next => Contract!Next
  BY <1>3, <1>4, <1>5, <1>6, <1>7, <1>8, <1>9, <1>10, <1>11, <1>12, <1>13 DEF SqlP!Contract!Next,
     Contract!Next
<1>15. UNCHANGED SqlP!Contract!port => UNCHANGED Contract!port
  BY DEF SqlP!Contract!port, Contract!port
<1> QED  BY <1>14, <1>15

(* Over files the trail is what readAudit reads, and the port is theirs.     *)
LEMMA FilePort ==
  ASSUME trail = FileP!readAudit, trail' = FileP!readAudit'
  PROVE  [FileP!Contract!Next]_(FileP!Contract!port) => [Contract!Next]_(Contract!port)
<1>1. /\ FileP!Contract!Mentions("auth") = Contract!Mentions("auth")
      /\ \A S : FileP!Contract!Cardinality(S) = Contract!Cardinality(S)
  BY DEF FileP!Contract!Mentions, Contract!Mentions, FileP!Contract!Cardinality,
     Contract!Cardinality, FileP!Contract!IsFiniteSet, Contract!IsFiniteSet
<1>2. \A about, to : /\ FileP!Contract!Numbered(about, to) = Contract!Numbered(about, to)
                    /\ FileP!Contract!MaybeLogged(about, to) <=> Contract!MaybeLogged(about, to)
  BY DEF FileP!Contract!Numbered, Contract!Numbered, FileP!Contract!MaybeLogged,
     Contract!MaybeLogged
<1>3. /\ \A from, to : FileP!Contract!ValidRunTransition(from, to) <=> Contract!ValidRunTransition(from, to)
      /\ \A from, to, reason :
           FileP!Contract!ValidTransition(from, to, reason) <=> Contract!ValidTransition(from, to, reason)
      /\ FileP!Contract!TransitionReason = Contract!TransitionReason
      /\ FileP!Contract!RunStatus = Contract!RunStatus /\ FileP!Contract!NodeState = Contract!NodeState
      /\ FileP!Contract!NoLease = Contract!NoLease
  BY DEF FileP!Contract!ValidRunTransition, Contract!ValidRunTransition, FileP!Contract!RunStatus,
     Contract!RunStatus, FileP!Contract!ResumableStatuses, Contract!ResumableStatuses,
     FileP!Contract!ValidTransition, Contract!ValidTransition, FileP!Contract!NormalTransitions,
     Contract!NormalTransitions, FileP!Contract!TransitionReason, Contract!TransitionReason,
     FileP!Contract!NodeState, Contract!NodeState, FileP!Contract!NoLease, Contract!NoLease
<1>4. FileP!Contract!CreateRun => Contract!CreateRun
  BY <1>1, <1>2 DEF FileP!Contract!CreateRun, Contract!CreateRun, FileP!Contract!MaybeLogged,
     Contract!MaybeLogged, FileP!Contract!Numbered, Contract!Numbered
<1>5. FileP!Contract!RequestCancel => Contract!RequestCancel
  BY <1>1, <1>2 DEF FileP!Contract!RequestCancel, Contract!RequestCancel,
     FileP!Contract!MaybeLogged, Contract!MaybeLogged, FileP!Contract!Numbered, Contract!Numbered
<1>6. FileP!Contract!Authorize => Contract!Authorize
  BY <1>1, <1>2 DEF FileP!Contract!Authorize, Contract!Authorize, FileP!Contract!MaybeLogged,
     Contract!MaybeLogged, FileP!Contract!Numbered, Contract!Numbered
<1>7. FileP!Contract!Act => Contract!Act
  BY <1>1, <1>2 DEF FileP!Contract!Act, Contract!Act
<1>8. FileP!Contract!Expire => Contract!Expire
  BY <1>1, <1>2 DEF FileP!Contract!Expire, Contract!Expire
<1>9. \A to : FileP!Contract!SetRunStatus(to) => Contract!SetRunStatus(to)
  BY <1>1, <1>2, <1>3 DEF FileP!Contract!SetRunStatus, Contract!SetRunStatus,
     FileP!Contract!MaybeLogged, Contract!MaybeLogged, FileP!Contract!Numbered, Contract!Numbered
<1>10. \A n, to : FileP!Contract!TransitionNode(n, to) => Contract!TransitionNode(n, to)
  BY <1>1, <1>2, <1>3 DEF FileP!Contract!TransitionNode, Contract!TransitionNode,
     FileP!Contract!MaybeLogged, Contract!MaybeLogged, FileP!Contract!Numbered, Contract!Numbered
<1>11. \A h : FileP!Contract!AcquireLease(h) => Contract!AcquireLease(h)
  BY <1>1, <1>2, <1>3 DEF FileP!Contract!AcquireLease, Contract!AcquireLease
<1>12. \A h : FileP!Contract!ReleaseLease(h) => Contract!ReleaseLease(h)
  BY <1>1, <1>2, <1>3 DEF FileP!Contract!ReleaseLease, Contract!ReleaseLease
<1>13. \A about, to : FileP!Contract!AppendAudit(about, to) => Contract!AppendAudit(about, to)
  BY <1>1, <1>2, <1>3 DEF FileP!Contract!AppendAudit, Contract!AppendAudit,
     FileP!Contract!Numbered, Contract!Numbered
<1>14. FileP!Contract!Next => Contract!Next
  BY <1>3, <1>4, <1>5, <1>6, <1>7, <1>8, <1>9, <1>10, <1>11, <1>12, <1>13 DEF FileP!Contract!Next,
     Contract!Next
<1>15. UNCHANGED FileP!Contract!port => UNCHANGED Contract!port
  BY DEF FileP!Contract!port, Contract!port
<1> QED  BY <1>14, <1>15

-----------------------------------------------------------------------------
(* The stores together *)

(* Whichever backend was chosen keeps its invariant, and no other is used. *)
Stores ==
  \/ backend = "sql"  /\ SqlP!TrailInv /\ lines = <<>>
  \/ backend = "file" /\ FileP!PortInv

(* What the trail is, to a reader of either.                               *)
LEMMA TrailOf ==
  /\ backend = "sql"  => trail = log
  /\ backend = "file" => trail = FileP!readAudit
  BY FileWords DEF trail

(* The one chosen begins with its invariant.                               *)
LEMMA StoresBegin == Init => Stores
<1>1. Sql!Init => SqlP!TrailInv
  BY SqlSame, SqlP!TrailBegins, Assumptions
<1>2. File!Init => FileP!PortInv
  BY FileSame, FileP!PortBegins, Assumptions
<1> QED  BY <1>1, <1>2 DEF Init, Stores

(* A step of the composition is a step of the store in use.                *)
LEMMA StoresSteps ==
  ASSUME [Next]_vars
  PROVE  /\ UNCHANGED backend \/ ~(backend \in {"sql", "file"})
         /\ backend = "sql"  => [SqlP!Next]_(SqlP!sqlVars) /\ UNCHANGED lines
         /\ backend = "file" => [FileP!Next]_(FileP!fileVars)
<1>1. CASE UNCHANGED vars
  <2>1. UNCHANGED Sql!sqlVars /\ UNCHANGED fileOnly /\ UNCHANGED backend
    BY <1>1 DEF vars
  <2>2. UNCHANGED File!fileVars
    BY <2>1 DEF Sql!sqlVars, Sql!records, fileOnly, File!fileVars, File!records
  <2> QED  BY <2>1, <2>2, SqlSame, FileSame DEF fileOnly
<1>2. CASE Next
  BY <1>2, SqlSame, FileSame DEF Next, fileOnly
<1> QED  BY <1>1, <1>2

(* And keeps it, since no step is another's.                               *)
LEMMA StoresStay == Stores /\ [Next]_vars => Stores'
<1> SUFFICES ASSUME Stores, [Next]_vars PROVE Stores'
  OBVIOUS
<1>1. CASE backend = "sql"
  <2>1. SqlP!TrailInv /\ [SqlP!Next]_(SqlP!sqlVars) /\ UNCHANGED <<lines, backend>> /\ lines = <<>>
    BY <1>1, StoresSteps DEF Stores
  <2>2. SqlP!TrailInv'
    BY <2>1, SqlP!TrailStays, Assumptions
  <2> QED  BY <1>1, <2>1, <2>2 DEF Stores
<1>2. CASE backend = "file"
  <2>1. FileP!PortInv /\ [FileP!Next]_(FileP!fileVars) /\ UNCHANGED backend
    BY <1>2, StoresSteps DEF Stores
  <2>2. FileP!PortInv'
    BY <2>1, FileP!PortStays, Assumptions
  <2> QED  BY <1>2, <2>1, <2>2 DEF Stores
<1> QED  BY <1>1, <1>2 DEF Stores

(* What is counted stays in its bounds, and what the other backend keeps   *)
(* stays as it was.                                                        *)
Bounded ==
  \/ /\ backend = "sql" /\ SqlP!EachAsked
     /\ cursor = File!NoCursor /\ mutex = "free" /\ holder \in Process /\ faults = 0
  \/ /\ backend = "file" /\ FileP!EachAsked
     /\ log = <<>> /\ faults \in 0..MaxFaults

(* It does so at first.                                                    *)
LEMMA BoundedBegins == Init => Bounded
<1>1. Sql!Init => SqlP!EachAsked
  BY SqlSame, SqlP!AskedBegins, Assumptions
<1>2. File!Init => FileP!EachAsked /\ faults \in 0..MaxFaults
  <2>1. File!Init => FileP!EachAsked
    BY FileSame, FileP!AskedBegins, Assumptions
  <2>2. File!Init => faults \in 0..MaxFaults
    BY BoundAssumption DEF File!Init
  <2> QED  BY <2>1, <2>2
<1> QED  BY <1>1, <1>2 DEF Init, Bounded

(* And after every step.                                                   *)
LEMMA BoundedStays == Stores /\ Bounded /\ [Next]_vars => Bounded'
<1> SUFFICES ASSUME Stores, Bounded, [Next]_vars PROVE Bounded'
  OBVIOUS
<1>1. CASE backend = "sql"
  <2>1. SqlP!TrailInv /\ SqlP!EachAsked /\ [SqlP!Next]_(SqlP!sqlVars)
    BY <1>1, StoresSteps DEF Stores, Bounded
  <2>2. SqlP!EachAsked'
    BY <2>1, SqlP!AskedStays, Assumptions
  <2>3. UNCHANGED <<cursor, mutex, holder, faults, backend>>
    BY <1>1 DEF Next, vars, fileOnly
  <2> QED  BY <1>1, <2>2, <2>3 DEF Bounded
<1>2. CASE backend = "file"
  <2>1. FileP!PortInv /\ FileP!EachAsked /\ [FileP!Next]_(FileP!fileVars)
    BY <1>2, StoresSteps DEF Stores, Bounded
  <2>2. FileP!EachAsked'
    BY <2>1, FileP!AskedStays, Assumptions
  <2>3. UNCHANGED <<log, backend>>
    BY <1>2 DEF Next, vars, Sql!sqlVars
  <2>4. faults' \in 0..MaxFaults
    <3>1. faults' = faults \/ FileP!Fault
      BY <2>1 DEF FileP!Next, FileP!fileVars, FileP!SweptAway, FileP!EmitFails, FileP!Crash
    <3>2. faults \in 0..MaxFaults
      BY <1>2 DEF Bounded
    <3> QED  BY <3>1, <3>2, BoundAssumption DEF FileP!Fault
  <2> QED  BY <1>2, <2>2, <2>3, <2>4 DEF Bounded
<1> QED  BY <1>1, <1>2 DEF Stores

(* Every record, event and line is of its type, and no authorization is on *)
(* record that no call asked for, nor a statement sent that none allows.   *)
THEOREM StoresTyped == Spec => []TypeOK
<1>words. /\ RunStatus = SqlP!RunStatus /\ NodeState = SqlP!NodeState
          /\ RunStatus = FileP!RunStatus /\ NodeState = FileP!NodeState
  BY DEF RunStatus, SqlP!RunStatus, FileP!RunStatus, NodeState, SqlP!NodeState, FileP!NodeState
<1>1. Stores /\ Bounded => TypeOK
  <2> SUFFICES ASSUME Stores, Bounded PROVE TypeOK
    OBVIOUS
  <2>1. CASE backend = "sql"
    <3>1. /\ SqlP!TrailInv /\ SqlP!EachAsked /\ lines = <<>>
          /\ cursor = File!NoCursor /\ mutex = "free" /\ holder \in Process /\ faults = 0
      BY <2>1 DEF Stores, Bounded
    <3>2. calls \in 0..MaxCalls /\ granted \in 0..calls /\ acted \in 0..granted
      BY <3>1, SqlP!InBounds, Assumptions
    <3>3. /\ status \in RunStatus \cup {"NONE"} /\ stop \in BOOLEAN /\ state \in [Node -> NodeState]
          /\ lease \in [holder : Process \cup {"nobody"}, fresh : BOOLEAN]
      BY <1>words, <3>1 DEF SqlP!TrailInv, SqlP!SqlInv, SqlP!Typed
    <3>4. \A i \in DOMAIN log : log[i].seq \in 1..Len(log)
      <4>1. log \in Seq(SqlP!Event) /\ \A i \in DOMAIN log : log[i].seq = i
        BY <3>1 DEF SqlP!TrailInv, SqlP!SqlInv, SqlP!Typed, SqlP!Gapless
      <4> QED  BY <4>1
    <3>5. cursor.size \in -1..Len(lines) /\ \A i \in DOMAIN lines : lines[i].text \in File!LineText
      BY <3>1 DEF File!NoCursor
    <3>6. faults \in 0..MaxFaults
      BY <3>1, BoundAssumption
    <3> QED  BY <2>1, <3>1, <3>2, <3>3, <3>4, <3>5, <3>6 DEF TypeOK
  <2>2. CASE backend = "file"
    <3>1. FileP!PortInv /\ FileP!EachAsked /\ log = <<>> /\ faults \in 0..MaxFaults
      BY <2>2 DEF Stores, Bounded
    <3>2. calls \in 0..MaxFileCalls /\ granted \in 0..calls /\ acted \in 0..granted
      BY <3>1, FileP!InBounds, Assumptions
    <3>3. calls \in 0..MaxCalls
      BY <3>2, BoundAssumption, CallsAssumption
    <3>4. /\ status \in RunStatus \cup {"NONE"} /\ stop \in BOOLEAN /\ state \in [Node -> NodeState]
          /\ lease \in [holder : Process \cup {"nobody"}, fresh : BOOLEAN]
          /\ mutex \in Client \cup {"free"} /\ holder \in Process
      BY <1>words, <3>1 DEF FileP!PortInv, FileP!FileInv, FileP!Typed
    <3>5. lines \in Seq(FileP!Line(Nat)) /\ FileP!CursorFits(lines, cursor)
      BY <3>1 DEF FileP!PortInv, FileP!Trail
    <3>6. \A i \in DOMAIN lines : lines[i].text \in File!LineText
      <4>1. \A i \in DOMAIN lines : lines[i] \in FileP!Line(Nat)
        BY <3>5
      <4>2. \A l \in FileP!Line(Nat) : l.text \in File!LineText
        BY DEF FileP!Line, File!LineText
      <4> QED  BY <4>1, <4>2
    <3>7. cursor.size \in -1..Len(lines)
      BY <3>5 DEF FileP!CursorFits
    <3>8. \A i \in DOMAIN log : log[i].seq \in 1..Len(log)
      BY <3>1
    <3> QED  BY <2>2, <3>1, <3>2, <3>3, <3>4, <3>6, <3>7, <3>8 DEF TypeOK
  <2> QED  BY <2>1, <2>2 DEF Stores
<1> QED  BY <1>1, StoresBegin, StoresStay, BoundedBegins, BoundedStays, PTL DEF Spec

(* Over PostgreSQL the trail tells every record as it is, after every step *)
(* of every client (runGuarded and the checkpoints' WithTx, sql.go).       *)
THEOREM TrailAlwaysTells == Spec => []TrailTells
<1>1. Stores => TrailTells
  <2> SUFFICES ASSUME Stores, backend = "sql"
               PROVE  /\ status # "NONE" => Says("run", status)
                      /\ \A n \in Node : state[n] # InitialNodeState => Says(n, state[n])
                      /\ Cardinality(Events("auth")) = granted
    BY DEF TrailTells
  <2>1. SqlP!Told
    BY DEF Stores, SqlP!TrailInv
  <2>2. /\ \A about : SqlP!Events(log, about) = Events(about)
        /\ InitialNodeState = SqlP!InitialNodeState
        /\ \A S : SqlP!Cardinality(S) = Cardinality(S)
    BY DEF SqlP!Events, Events, InitialNodeState, SqlP!InitialNodeState,
       SqlP!Cardinality, Cardinality, SqlP!IsFiniteSet, IsFiniteSet
  <2>3. \A about, v : SqlP!Says(log, about, v) => Says(about, v)
    BY <2>2 DEF SqlP!Says, Says
  <2> QED  BY <2>1, <2>2, <2>3 DEF SqlP!Told
<1> QED  BY <1>1, StoresBegin, StoresStay, PTL DEF Spec

(* Whatever an append or a crash leaves, the trail can be read (separator, *)
(* readAudit).                                                             *)
THEOREM TrailAlwaysReadable == Spec => []NoneMalformed
<1>1. Stores => NoneMalformed
  <2>1. CASE lines = <<>>
    BY <2>1 DEF NoneMalformed, File!NoneMalformed
  <2>2. CASE FileP!PortInv
    <3>1. FileP!NoneMalformed
      BY <2>2, FileP!WholeIsReadable, Assumptions
         DEF FileP!PortInv
    <3> QED  BY <3>1 DEF NoneMalformed, File!NoneMalformed, FileP!NoneMalformed, File!Malformed,
                FileP!Malformed, File!EndsMidLine, FileP!EndsMidLine
  <2> QED  BY <2>1, <2>2 DEF Stores
<1> QED  BY <1>1, StoresBegin, StoresStay, PTL DEF Spec

(* Whichever backend keeps a run's records, they and the trail a reader is *)
(* given are what the port promises, for every number of nodes, clients,   *)
(* connections, crashes and failed writes (store.go).                      *)
THEOREM StoresImplementContract == Spec => ImplementsContract
<1>1. Init => Contract!Init
  <2> SUFFICES ASSUME Init PROVE Contract!Init
    OBVIOUS
  <2>1. trail = <<>>
    <3>1. CASE backend = "sql" /\ Sql!Init
      BY <3>1, TrailOf DEF Sql!Init
    <3>2. CASE backend = "file" /\ File!Init
      <4>1. FileP!Read(<<>>) = <<>>
        BY FileP!ReadEmpty, Assumptions
      <4>2. lines = <<>>
        BY <3>2 DEF File!Init
      <4> QED  BY <3>2, <4>1, <4>2, TrailOf DEF FileP!Read, FileP!readAudit
    <3> QED  BY <3>1, <3>2 DEF Init
  <2>2. /\ status = "NONE" /\ stop = FALSE /\ granted = 0 /\ acted = 0
        /\ state = [n \in Node |-> "PENDING"]
        /\ lease = [holder |-> "nobody", fresh |-> FALSE]
    BY DEF Init, Sql!Init, Sql!StoreInit, Sql!NoLease, Sql!InitialNodeState,
       File!Init, File!StoreInit, File!NoLease, File!InitialNodeState
  <2> QED  BY <2>1, <2>2 DEF Contract!Init, Contract!NoLease, Contract!InitialNodeState
<1>2. Stores /\ [Next]_vars => [Contract!Next]_(Contract!port)
  <2> SUFFICES ASSUME Stores, [Next]_vars PROVE [Contract!Next]_(Contract!port)
    OBVIOUS
  <2>1. CASE backend = "sql"
    <3>1. SqlP!TrailInv /\ [SqlP!Next]_(SqlP!sqlVars) /\ backend' = "sql"
      BY <2>1, StoresSteps DEF Stores
    <3>2. [SqlP!Contract!Next]_(SqlP!Contract!port)
      BY <3>1, SqlP!StepImplements, Assumptions
    <3>3. trail = log /\ trail' = log'
      BY <2>1, <3>1 DEF trail
    <3> QED  BY <3>2, <3>3, SqlPort
  <2>2. CASE backend = "file"
    <3>1. FileP!PortInv /\ [FileP!Next]_(FileP!fileVars) /\ backend' = "file"
      BY <2>2, StoresSteps DEF Stores
    <3>2. [FileP!Contract!Next]_(FileP!Contract!port)
      BY <3>1, FileP!StepImplements, Assumptions
    <3>3. trail = FileP!readAudit /\ trail' = FileP!readAudit'
      <4>1. trail = FileP!readAudit
        BY <2>2, TrailOf
      <4>2. File!Reading(lines') = FileP!Reading(lines')
        BY DEF File!Reading, FileP!Reading, File!Entry, FileP!Entry
      <4> QED  BY <3>1, <4>1, <4>2 DEF trail, File!readAudit, FileP!readAudit
    <3> QED  BY <3>2, <3>3, FilePort
  <2> QED  BY <2>1, <2>2 DEF Stores
<1> QED  BY <1>1, <1>2, StoresBegin, StoresStay, PTL DEF Spec, ImplementsContract, Contract!Spec

=============================================================================
