---------------------------- MODULE PlanContract ----------------------------
(***************************************************************************)
(* What a run promises whoever approved the plan, with the process, the    *)
(* crashes, the retries and the catalog taken away: nodes are worked on    *)
(* one at a time and in dependency order, work done stays done, a run that *)
(* is complete has done all of it, and a run that is over starts nothing.  *)
(***************************************************************************)
EXTENDS Naturals

CONSTANTS Node, Deps   \* Deps[n] is the set of nodes n waits for

VARIABLES phase,   \* "new", "open", "completed" or "cancelled"
          done,    \* the nodes complete so far
          working  \* the node being worked on, if any

contract == <<phase, done, working>>

Init == phase = "new" /\ done = {} /\ working = {}

Open == phase = "new" /\ phase' = "open" /\ UNCHANGED <<done, working>>

Begin(n) ==
  /\ phase = "open" /\ working = {}
  /\ n \notin done /\ Deps[n] \subseteq done
  /\ working' = {n} /\ UNCHANGED <<phase, done>>

(* A node begun before a cancellation may still complete after it.         *)
Finish(n) ==
  /\ working = {n}
  /\ done' = done \cup {n} /\ working' = {} /\ UNCHANGED phase

(* A node given up can be begun again.                                     *)
GiveUp == working # {} /\ working' = {} /\ UNCHANGED <<phase, done>>

Complete ==
  /\ phase = "open" /\ done = Node
  /\ phase' = "completed" /\ UNCHANGED <<done, working>>

Cancel == phase = "open" /\ phase' = "cancelled" /\ UNCHANGED <<done, working>>

Next == \/ Open \/ Complete \/ Cancel \/ GiveUp
        \/ \E n \in Node : Begin(n) \/ Finish(n)

Spec == Init /\ [][Next]_contract

=============================================================================
