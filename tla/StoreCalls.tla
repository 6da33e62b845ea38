----------------------------- MODULE StoreCalls -----------------------------
(***************************************************************************)
(* What both state stores are asked to do: the records they keep of one    *)
(* run, the calls the executor, resume, the heartbeat and cancel make on   *)
(* them, and what each call changes and logs when it succeeds.  SqlStore   *)
(* and FileStore say in which steps a call does so.                        *)
(***************************************************************************)
EXTENDS NodeLifecycle, Integers, Sequences, FiniteSets

CONSTANTS
  Node,          \* the nodes of the run's plan
  Process,       \* the processes, which are the lease holders
  Client,        \* the goroutines that call the store
  Host,          \* the process each runs in: [Client -> Process]
  Asks,          \* the operations each calls: [Client -> SUBSET Operation]
  StatusMoves,   \* the run status changes they ask for, as <<from, to>>
  NodeMoves,     \* the node state changes they ask for, as <<from, to>>
  MaxCalls       \* bounds the calls made in a behaviour

ASSUME NodeAssumption == Node \cap {"run", "none", "note", "auth"} = {}
ASSUME ClientAssumption == "free" \notin Client /\ IsFiniteSet(Client)
ASSUME HostAssumption == Host \in [Client -> Process]
ASSUME CallsAssumption == MaxCalls \in Nat

VARIABLES
  status, stop,   \* the run record: its status, its CancelRequested
  state,          \* the node records
  lease,          \* the lease record, [holder, fresh]
  granted,        \* the authorization records, counted
  acted,          \* the authorized statements sent, counted
  job,            \* what each client is in the middle of
  calls           \* calls made so far

records == <<status, stop, state, lease, granted, acted>>

Operation == {"open", "status", "node", "authorize", "cancel",
              "acquire", "beat", "release", "inspect"}

NoLease == [holder |-> "nobody", fresh |-> FALSE]

(* at: the next thing to do.  about, from, to: the record and its change.  *)
(* seq: the number its event was given.  live: what cancel made of the run.*)
Idle == [op |-> "none", at |-> "idle", about |-> "run", from |-> "NONE",
         to |-> "NONE", seq |-> 0, live |-> FALSE]

Active(c) == job[c].at # "idle"

Begun(op, about, from, to) ==
  [Idle EXCEPT !.op = op, !.at = "ready", !.about = about, !.from = from, !.to = to]

(* The requests that pass validation, which no record has to be read for.  *)
Requests(c) ==
  {Begun("open", "run", "NONE", "RUNNING")}
  \cup {Begun("status", "run", m[1], m[2]) :
          m \in {m \in StatusMoves : ValidRunTransition(m[1], m[2])}}
  \cup {Begun("node", n, m[1], m[2]) : n \in Node,
          m \in {m \in NodeMoves :
                   \E reason \in TransitionReason : ValidTransition(m[1], m[2], reason)}}
  \cup {Begun("authorize", "auth", "NONE", "granted"), Begun("cancel", "note", "NONE", "stop"),
        Begun("acquire", "note", "NONE", "lease"),     Begun("beat", "note", "NONE", "lease"),
        Begun("release", "note", "NONE", "released"),  Begun("inspect", "note", "NONE", "done")}

(* A run is opened once and first; after that calls come in any order.     *)
Call(c) ==
  /\ ~Active(c) /\ calls < MaxCalls
  /\ \E j \in Requests(c) :
       /\ j.op \in Asks[c] /\ (j.op = "open") = (calls = 0)
       /\ job' = [job EXCEPT ![c] = j]
  /\ calls' = calls + 1
  /\ UNCHANGED records

(* The compare of a compare-and-set: the record is what the caller thinks. *)
(* Only an event can be written for a run that is not there.               *)
Matches(j) ==
  /\ j.op \notin {"open", "note"}  => status # "NONE"
  /\ j.op \in {"open", "status"} => status = j.from
  /\ j.op = "node"               => state[j.about] = j.from

(* What a checkpoint writes.  Only adoption clears the stop request, and   *)
(* adoption is the one move back to RUNNING; nothing else touches it.      *)
Recorded(j) ==
  /\ status'  = IF j.op \in {"open", "status"} THEN j.to ELSE status
  /\ stop'    = IF j.op = "flag" THEN TRUE
                ELSE stop /\ ~(j.op = "status" /\ j.to = "RUNNING")
  /\ state'   = IF j.op = "node" THEN [state EXCEPT ![j.about] = j.to] ELSE state
  /\ granted' = IF j.op = "authorize" THEN granted + 1 ELSE granted

(* Live is RUNNING under an unexpired lease; cancel asks once, up front.   *)
LooksLive == status = "RUNNING" /\ lease.holder # "nobody" /\ lease.fresh

(* A lease belongs to a run, and to its holder until it expires.           *)
Leasable(h) ==
  status # "NONE" /\ (lease.holder \in {"nobody", h} \/ ~lease.fresh)

Expire ==
  /\ lease.fresh /\ lease' = [lease EXCEPT !.fresh = FALSE]
  /\ UNCHANGED <<status, stop, state, granted, acted, job, calls>>

StoreInit ==
  /\ status = "NONE" /\ stop = FALSE
  /\ state = [n \in Node |-> InitialNodeState]
  /\ lease = NoLease
  /\ granted = 0 /\ acted = 0 /\ calls = 0
  /\ job = [c \in Client |-> Idle]

=============================================================================
