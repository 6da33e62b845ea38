--------------------------- MODULE StoreContract ---------------------------
(***************************************************************************)
(* What the state store port promises its callers about one run, whichever *)
(* implementation is behind it (engine/state/store.go).  Records move by   *)
(* compare-and-set along their diagrams; a stop request stands until an    *)
(* adoption revokes it; a live lease is only its holder's; and the trail   *)
(* keeps every event once, in order, numbered without a gap, saying only   *)
(* what the records say.                                                   *)
(***************************************************************************)
EXTENDS NodeLifecycle, Sequences, Naturals, FiniteSets

CONSTANTS Node, Holder

VARIABLES
  status,   \* the run record's status, "NONE" before CreateRun
  stop,     \* its CancelRequested
  state,    \* the node records
  lease,    \* [holder, fresh], the holder "nobody" when there is no lease
  trail,    \* the events a reader is given, each [seq, about, to]
  granted,  \* how many authorizations are on record
  acted     \* how many authorized statements have been sent

port == <<status, stop, state, lease, trail, granted, acted>>

NoLease == [holder |-> "nobody", fresh |-> FALSE]

Mentions(about) == {i \in DOMAIN trail : trail[i].about = about}

Numbered(about, to) == [seq |-> Len(trail) + 1, about |-> about, to |-> to]

(* The change and its event may be two steps; a crash may come between.    *)
MaybeLogged(about, to) == trail' \in {trail, Append(trail, Numbered(about, to))}

-----------------------------------------------------------------------------

Init ==
  /\ status = "NONE" /\ stop = FALSE
  /\ state = [n \in Node |-> InitialNodeState]
  /\ lease = NoLease /\ trail = <<>>
  /\ granted = 0 /\ acted = 0

CreateRun ==
  /\ status = "NONE" /\ status' = "RUNNING"
  /\ MaybeLogged("run", "RUNNING")
  /\ UNCHANGED <<stop, state, lease, granted, acted>>

(* Moving back to RUNNING is adoption, which alone revokes a stop request. *)
SetRunStatus(to) ==
  /\ ValidRunTransition(status, to)
  /\ status' = to /\ stop' = (stop /\ to # "RUNNING")
  /\ MaybeLogged("run", to)
  /\ UNCHANGED <<state, lease, granted, acted>>

TransitionNode(n, to) ==
  /\ \E reason \in TransitionReason : ValidTransition(state[n], to, reason)
  /\ state' = [state EXCEPT ![n] = to]
  /\ MaybeLogged(n, to)
  /\ UNCHANGED <<status, stop, lease, granted, acted>>

RequestCancel ==
  /\ status # "NONE" /\ stop' = TRUE
  /\ MaybeLogged("note", "stop")
  /\ UNCHANGED <<status, state, lease, granted, acted>>

Authorize ==
  /\ granted' = granted + 1
  /\ MaybeLogged("auth", "granted")
  /\ UNCHANGED <<status, stop, state, lease, acted>>

(* No destructive statement before its authorization is on the trail.      *)
Act ==
  /\ acted < Cardinality(Mentions("auth"))
  /\ acted' = acted + 1
  /\ UNCHANGED <<status, stop, state, lease, trail, granted>>

AcquireLease(h) ==
  /\ lease.holder \in {"nobody", h} \/ ~lease.fresh
  /\ lease' = [holder |-> h, fresh |-> TRUE]
  /\ UNCHANGED <<status, stop, state, trail, granted, acted>>

ReleaseLease(h) ==
  /\ lease.holder = h /\ lease' = NoLease
  /\ UNCHANGED <<status, stop, state, trail, granted, acted>>

Expire ==
  /\ lease.fresh /\ lease' = [lease EXCEPT !.fresh = FALSE]
  /\ UNCHANGED <<status, stop, state, trail, granted, acted>>

(* An event says what its record says at the moment it is appended.        *)
AppendAudit(about, to) ==
  /\ about = "auth" => Cardinality(Mentions("auth")) < granted
  /\ about = "run"  => to = status
  /\ about \in Node => to = state[about]
  /\ trail' = Append(trail, Numbered(about, to))
  /\ UNCHANGED <<status, stop, state, lease, granted, acted>>

Next ==
  \/ CreateRun \/ RequestCancel \/ Authorize \/ Act \/ Expire
  \/ \E to \in RunStatus : SetRunStatus(to)
  \/ \E n \in Node, to \in NodeState : TransitionNode(n, to)
  \/ \E h \in Holder : AcquireLease(h) \/ ReleaseLease(h)
  \/ \E to \in RunStatus : AppendAudit("run", to)
  \/ \E n \in Node, to \in NodeState : AppendAudit(n, to)
  \/ \E about \in {"auth", "note"}, to \in {"granted", "stop", "lease", "released", "done"} :
       AppendAudit(about, to)

Spec == Init /\ [][Next]_port

=============================================================================
