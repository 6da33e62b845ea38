---------------------------- MODULE StoreCallsProofs ----------------------------
(***************************************************************************)
(* Facts about the calls that both state stores are asked to make, for     *)
(* SqlStoreProofs and FileStoreProofs: the jobs clients work on are legal  *)
(* ones, and the moves that records may make.                              *)
(***************************************************************************)
EXTENDS StoreCalls, FiniteSetTheorems, TLAPS

-----------------------------------------------------------------------------
(* What a client can be in the middle of *)

About == Node \cup {"run", "note", "auth"}

Value == RunStatus \cup NodeState \cup {"NONE", "granted", "stop", "lease", "released", "done"}

At == {"idle", "ready", "begun", "touched", "refused", "blocked", "logged", "granted",
       "owned", "running", "snapped", "listed", "write", "log", "leave", "acted"}

Job == [op : Operation \cup {"none", "note", "flag"}, at : At,
        about : About, from : Value, to : Value, seq : Nat, live : BOOLEAN]

(* A request passed validation when it was made, and keeps what it asks.   *)
Legal(j) ==
  /\ j.op = "open"   => j.from = "NONE" /\ j.to = "RUNNING"
  /\ j.op = "status" => ValidRunTransition(j.from, j.to)
  /\ j.op = "node"   => j.about \in Node /\ \E reason \in TransitionReason :
                                               ValidTransition(j.from, j.to, reason)

(* An operation is about one record, and says one thing of it.             *)
Named(j) ==
  /\ j.op \in {"open", "status"} => j.about = "run"
  /\ j.op = "authorize" => j.about = "auth" /\ j.to = "granted"
  /\ j.op \in {"cancel", "flag"} => j.about = "note" /\ j.to = "stop"
  /\ j.op \in {"note", "acquire", "beat", "release", "inspect"} =>
       j.about = "note" /\ j.to \in {"lease", "released", "done"}

Jobs == job \in [Client -> Job] /\ \A c \in Client : Legal(job[c])

(* The statuses and states a record may go through.                        *)
MovesLegally ==
  /\ status' # status =>
       \/ status = "NONE" /\ status' = "RUNNING"
       \/ ValidRunTransition(status, status')
  /\ \A n \in Node :
       state'[n] # state[n] =>
         \E reason \in TransitionReason : ValidTransition(state[n], state'[n], reason)

(* A change of place leaves a job a job.                                   *)
LEMMA PlaceIsTyped ==
  ASSUME NEW j \in Job, Legal(j),
         NEW at \in At
  PROVE  /\ [j EXCEPT !.at = at] \in Job /\ Legal([j EXCEPT !.at = at])
         /\ [j EXCEPT !.at = at].at = at /\ [j EXCEPT !.at = at].op = j.op
         /\ [j EXCEPT !.at = at].seq = j.seq /\ [j EXCEPT !.at = at].about = j.about
         /\ [j EXCEPT !.at = at].from = j.from /\ [j EXCEPT !.at = at].to = j.to
  BY DEF Job, Legal

(* No job, and the jobs a call turns into, are jobs.                       *)
LEMMA IdleIsTyped == Idle \in Job /\ Legal(Idle) /\ Idle.at = "idle" /\ Idle.op = "none"
  BY DEF Idle, Job, At, Legal, About, Value

(* So is whatever a call begins with.                                      *)
LEMMA BegunIsTyped ==
  ASSUME NEW op \in Operation \cup {"note", "flag"}, NEW about \in About,
         NEW from \in Value, NEW to \in Value
  PROVE  /\ Begun(op, about, from, to) \in Job
         /\ Begun(op, about, from, to).at = "ready" /\ Begun(op, about, from, to).op = op
         /\ Begun(op, about, from, to).about = about /\ Begun(op, about, from, to).from = from
         /\ Begun(op, about, from, to).to = to
<1>1. Idle \in Job
  BY IdleIsTyped
<1> QED  BY <1>1 DEF Begun, Job, At

(* What is logged on its own is (appendAudit after a lease or statement). *)
LEMMA NoteIsTyped ==
  ASSUME NEW v \in {"done", "lease", "released"}
  PROVE  LET j == Begun("note", "note", "NONE", v)
         IN  j \in Job /\ Legal(j) /\ Named(j) /\ j.at = "ready" /\ j.op = "note"
<1>1. "note" \in About /\ "NONE" \in Value /\ v \in Value
  BY DEF About, Value
<1>2. LET j == Begun("note", "note", "NONE", v)
      IN  j \in Job /\ j.at = "ready" /\ j.op = "note" /\ j.about = "note" /\ j.to = v
  BY <1>1, BegunIsTyped
<1> QED  BY <1>2 DEF Legal, Named

(* A call begins with a job that passed validation (store.go's callers).   *)
LEMMA CallIsLegal ==
  ASSUME NEW c \in Client, Call(c)
  PROVE  \E j \in Job : /\ Legal(j) /\ Named(j) /\ j.at = "ready" /\ j.op \in Operation
                         /\ job' = [job EXCEPT ![c] = j]
<1>1. PICK j \in Requests(c) : job' = [job EXCEPT ![c] = j]
  BY DEF Call
<1>2. j \in Job /\ Legal(j) /\ Named(j) /\ j.at = "ready" /\ j.op \in Operation
  <2>1. CASE j = Begun("open", "run", "NONE", "RUNNING")
    <3>1. "open" \in Operation /\ "run" \in About /\ "NONE" \in Value /\ "RUNNING" \in Value
      BY DEF Operation, About, Value, RunStatus
    <3> QED  BY <2>1, <3>1, BegunIsTyped DEF Legal, Named
  <2>2. CASE \E m \in StatusMoves : ValidRunTransition(m[1], m[2])
                                    /\ j = Begun("status", "run", m[1], m[2])
    <3>1. PICK m : ValidRunTransition(m[1], m[2]) /\ j = Begun("status", "run", m[1], m[2])
      BY <2>2
    <3>2. "status" \in Operation /\ "run" \in About /\ m[1] \in Value /\ m[2] \in Value
      BY <3>1 DEF Operation, About, Value, RunStatus, ValidRunTransition, ResumableStatuses
    <3>3. j \in Job /\ j.at = "ready" /\ j.op = "status" /\ j.about = "run" /\ j.from = m[1] /\ j.to = m[2]
      BY <3>1, <3>2, BegunIsTyped
    <3> QED  BY <3>1, <3>2, <3>3 DEF Legal, Named
  <2>3. CASE \E n \in Node, m \in NodeMoves :
               /\ \E reason \in TransitionReason : ValidTransition(m[1], m[2], reason)
               /\ j = Begun("node", n, m[1], m[2])
    <3>1. PICK n \in Node, m \in NodeMoves :
               /\ \E reason \in TransitionReason : ValidTransition(m[1], m[2], reason)
               /\ j = Begun("node", n, m[1], m[2])
      BY <2>3
    <3>2. "node" \in Operation /\ n \in About /\ m[1] \in Value /\ m[2] \in Value
      <4>1. m[1] \in NodeState /\ m[2] \in NodeState
        BY <3>1 DEF ValidTransition, NormalTransitions, NodeState, TransitionReason
      <4> QED  BY <4>1 DEF Operation, About, Value
    <3>3. /\ j \in Job /\ j.at = "ready" /\ j.op = "node" /\ j.about = n
          /\ j.from = m[1] /\ j.to = m[2]
      BY <3>1, <3>2, BegunIsTyped
    <3> QED  BY <3>1, <3>2, <3>3 DEF Legal, Named
  <2>4. CASE j \in {Begun("authorize", "auth", "NONE", "granted"), Begun("cancel", "note", "NONE", "stop"),
                    Begun("acquire", "note", "NONE", "lease"), Begun("beat", "note", "NONE", "lease"),
                    Begun("release", "note", "NONE", "released"), Begun("inspect", "note", "NONE", "done")}
    <3>1. /\ {"authorize", "cancel", "acquire", "beat", "release", "inspect"} \subseteq Operation
          /\ {"auth", "note"} \subseteq About
          /\ {"NONE", "granted", "stop", "lease", "released", "done"} \subseteq Value
      BY DEF Operation, About, Value
    <3>2. j \in Job /\ j.at = "ready"
      BY <2>4, <3>1, BegunIsTyped
    <3>3. \/ j.op = "authorize" /\ j.about = "auth" /\ j.to = "granted"
          \/ j.op = "cancel" /\ j.about = "note" /\ j.to = "stop"
          \/ /\ j.op \in {"acquire", "beat", "release", "inspect"}
             /\ j.about = "note" /\ j.to \in {"lease", "released", "done"}
      BY <2>4, <3>1, BegunIsTyped
    <3> QED  BY <3>1, <3>2, <3>3 DEF Legal, Named
  <2> QED  BY <1>1, <2>1, <2>2, <2>3, <2>4 DEF Requests
<1> QED  BY <1>1, <1>2

-----------------------------------------------------------------------------
(* Counting clients *)

(* Two sets of clients that differ by one client at most differ in size by *)
(* that client.                                                            *)
LEMMA OneApart ==
  ASSUME NEW S \in SUBSET Client, NEW T \in SUBSET Client, NEW c \in Client, T \ {c} = S \ {c}
  PROVE  /\ Cardinality(S) \in Nat /\ Cardinality(T) \in Nat /\ Cardinality(S \ {c}) \in Nat
         /\ Cardinality(S) = Cardinality(S \ {c}) + IF c \in S THEN 1 ELSE 0
         /\ Cardinality(T) = Cardinality(S \ {c}) + IF c \in T THEN 1 ELSE 0
<1>1. IsFiniteSet(S) /\ IsFiniteSet(T) /\ IsFiniteSet(S \ {c})
  <2>1. IsFiniteSet(Client)
    BY ClientAssumption
  <2> QED  BY <2>1, FS_Subset
<1>2. Cardinality(S) \in Nat /\ Cardinality(T) \in Nat /\ Cardinality(S \ {c}) \in Nat
  BY <1>1, FS_CardinalityType
<1>3. Cardinality(S \ {c}) = IF c \in S THEN Cardinality(S) - 1 ELSE Cardinality(S)
  BY <1>1, FS_RemoveElement
<1>4. Cardinality(T \ {c}) = IF c \in T THEN Cardinality(T) - 1 ELSE Cardinality(T)
  BY <1>1, FS_RemoveElement
<1>5. Cardinality(T \ {c}) = Cardinality(S \ {c})
  BY Zenon
<1> QED  BY <1>2, <1>3, <1>4, <1>5

(* Grants made and grants asked for are no more than the calls: a step     *)
(* makes a call, makes a grant of one asked for, or does neither.          *)
LEMMA GrantsFollowCalls ==
  ASSUME NEW S \in SUBSET Client, NEW T \in SUBSET Client, NEW c \in Client, T \ {c} = S \ {c},
         granted \in Nat, calls \in 0..MaxCalls, granted + Cardinality(S) <= calls,
         \/ calls < MaxCalls /\ calls' = calls + 1 /\ UNCHANGED granted
         \/ UNCHANGED <<calls, granted>> /\ (c \in T => c \in S)
         \/ UNCHANGED calls /\ granted' = granted + 1 /\ c \in S /\ c \notin T
  PROVE  calls' \in 0..MaxCalls /\ granted' + Cardinality(T) <= calls'
<1>1. /\ Cardinality(S) \in Nat /\ Cardinality(T) \in Nat /\ Cardinality(S \ {c}) \in Nat
      /\ Cardinality(S) = Cardinality(S \ {c}) + IF c \in S THEN 1 ELSE 0
      /\ Cardinality(T) = Cardinality(S \ {c}) + IF c \in T THEN 1 ELSE 0
  BY OneApart
<1> QED  BY <1>1, CallsAssumption

=================================================================================
