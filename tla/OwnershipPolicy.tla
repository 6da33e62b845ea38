-------------------------- MODULE OwnershipPolicy --------------------------
(***************************************************************************)
(* The destructive-action decision table: what PartitionCTL may do to an   *)
(* index, given the comment the index carries (the ownership marker) and   *)
(* the claim the state store holds on its name.                            *)
(*                                                                         *)
(* The same functions are called from four places: the planner (create and *)
(* drop), the executor at dispatch (Authorize), resume's cleanup, and the  *)
(* index_name_available assertion.  They are pure.                         *)
(*                                                                         *)
(* A comment is abstracted to what ParseMarker makes of it: absent, ours   *)
(* (a marker this binary reads), foreign (somebody's text) or unreadable   *)
(* (the marker prefix, but corrupt or from a newer version).               *)
(***************************************************************************)
EXTENDS NodeLifecycle

CONSTANT PriorClaims  \* the names that live runs, other than the one modelled, claim

MarkerStatus == {"absent", "ours", "foreign", "unreadable"}

Verdict == {"drop", "adopt_then_drop", "halt"}

(* The marker proves ownership for ever; a claim proves it only while the  *)
(* comment is missing, and then the marker is to be written first.         *)
DecideProvenanceDrop(marker, claimed) ==
  CASE marker = "ours"                  -> "drop"
    [] marker = "absent" /\ claimed     -> "adopt_then_drop"
    [] OTHER                            -> "halt"

(* Mutant: the name alone decides. *)
LeftoverByName(baseMarker) == "drop"

(* A REINDEX leftover is judged by its base index's marker, never its own. *)
(* The name test and the resolution of the base are the caller's.          *)
DecideLeftoverDrop(baseMarker) ==
  IF baseMarker = "ours" THEN "drop" ELSE "halt"

(* A node record claims its object while its statement may have run and    *)
(* the node has not finished with it.  FAILED claims nothing; PENDING and  *)
(* READY claim only after a dispatch.                                      *)
ClaimingNode(kind, nodeState, dispatched) ==
  /\ kind \in ClaimingKinds
  /\ \/ nodeState \in {"RUNNING", "RETRY_WAIT", "VERIFYING"}
     \/ nodeState \in {"READY", "PENDING"} /\ dispatched

(* A CANCELLED run's claims are dead by decree; a COMPLETED run has none.  *)
ClaimingStatuses == {"RUNNING", "ORPHANED", "FAILED", "INTERRUPTED"}

(* Mutant: our marker goes over whatever is there. *)
MarkRegardless(marker) == TRUE

(* RenderMarkerStatement writes over nothing and over our own marker only. *)
MayMark(marker) == marker \in {"absent", "ours"}

=============================================================================
