------------------------------ MODULE MCTarget ------------------------------
(***************************************************************************)
(* Two executes of one plan and a resume meet on one target.               *)
(***************************************************************************)
EXTENDS TargetLock

Kinds == [p \in Process |-> IF p = "c" THEN "resume" ELSE "execute"]

=============================================================================
