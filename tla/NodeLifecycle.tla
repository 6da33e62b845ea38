--------------------------- MODULE NodeLifecycle ---------------------------
(***************************************************************************)
(* The vocabulary every other module speaks: the states a plan node goes   *)
(* through within one run (diagram D7), the statuses of the run itself,    *)
(* and the nine node kinds with the attributes the executor dispatches on. *)
(*                                                                         *)
(* Sources: engine/protocol/nodestate.go, engine/protocol/nodekind.go and  *)
(* engine/state/run.go.  Everything here is a table, so the module has no  *)
(* variables; RunEngine is what walks the tables.                          *)
(***************************************************************************)

-----------------------------------------------------------------------------
(* Node states *)

NodeState == {"PENDING", "READY", "RUNNING", "VERIFYING",
              "DONE", "FAILED", "RETRY_WAIT", "SKIPPED"}

InitialNodeState == "PENDING"

(* FAILED ends a node but does not satisfy a dependency on it. *)
CompleteStates == {"DONE", "SKIPPED"}

TransitionReason == {"normal", "orphan_recovery", "resume_retry"}

(* Diagram D7 without its two recovery edges. *)
NormalTransitions ==
  {<<"PENDING", "READY">>,      <<"PENDING", "SKIPPED">>,
   <<"READY", "RUNNING">>,
   <<"RUNNING", "VERIFYING">>,  <<"RUNNING", "FAILED">>,
   <<"RUNNING", "RETRY_WAIT">>,
   <<"VERIFYING", "DONE">>,     <<"VERIFYING", "FAILED">>,
   <<"RETRY_WAIT", "READY">>,   <<"RETRY_WAIT", "FAILED">>}

(* Each recovery reason justifies exactly one edge, and nothing else does. *)
ValidTransition(from, to, reason) ==
  \/ reason = "normal"          /\ <<from, to>> \in NormalTransitions
  \/ reason = "orphan_recovery" /\ <<from, to>> = <<"RUNNING", "PENDING">>
  \/ reason = "resume_retry"    /\ <<from, to>> = <<"FAILED", "PENDING">>

-----------------------------------------------------------------------------
(* Run statuses.  "NONE" stands for a run that has not been created yet. *)

RunStatus == {"RUNNING", "COMPLETED", "FAILED", "ORPHANED",
              "INTERRUPTED", "CANCELLED"}

TerminalStatuses  == {"COMPLETED", "CANCELLED"}
ResumableStatuses == {"FAILED", "ORPHANED", "INTERRUPTED"}
IncompleteStatuses == ResumableStatuses \cup {"RUNNING"}

ValidRunTransition(from, to) ==
  \/ from = "RUNNING"            /\ to \in RunStatus \ {"RUNNING"}
  \/ from \in ResumableStatuses  /\ to \in {"RUNNING", "CANCELLED"}

-----------------------------------------------------------------------------
(* Node kinds.  The names drop the catalog., index. and wait prefixes. *)

DestructiveKinds == {"drop_concurrently", "drop_partitioned"}

(* The kinds that would make the object PartitionCTL's, hence may claim it. *)
ClaimingKinds == {"create_parent_invalid", "create_concurrently",
                  "attach", "reindex_concurrently"}

DDLKinds == DestructiveKinds \cup ClaimingKinds

NodeKind == DDLKinds \cup {"assert", "verify", "wait"}

(* Only a statement can be worth sending again; of the statements, only    *)
(* these two leave nothing committed behind when they fail.                *)
RetryableKinds == DDLKinds
RetrySafeKinds == {"attach", "drop_partitioned"}

=============================================================================
