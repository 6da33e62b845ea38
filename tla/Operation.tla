----------------------------- MODULE Operation -----------------------------
(***************************************************************************)
(* An operation: a run of the engine, the plans made before and after it,  *)
(* the names those plans chose and the pauses the engine makes.  The names *)
(* are fixed when a plan is made, the policy when a run starts; here is    *)
(* what a run relies on of both.                                           *)
(***************************************************************************)
EXTENDS FreshPlan, Naming, RetryPolicy

(* A walk that backs off waits the exponential delay under its cap, less   *)
(* the jitter, whatever base, cap and budget are configured: never beyond  *)
(* the cap, and never a negative time (Delay, JitteredDelay).              *)
WaitsAreCapped == pc = "backoff" => Capped

(* The names under which the leaves are built were all told apart when the *)
(* plan was made, however long the partitions' own names are and whatever  *)
(* they imitate (ChildIndexName, ChildIndexNames).                         *)
ChildNamesApart ==
  pc = "exec" /\ current.kind = "create_concurrently" => ChildrenApart

(* The index whose marker decides about a leftover is the one it was made  *)
(* from (ResolveLeftoverBase, authorizeLeftover).                          *)
LeftoverBasesFound ==
  pc = "attempt" /\ current.auth = "leftover" => BaseIsFound

=============================================================================
