----------------------------- MODULE FreshPlan -----------------------------
(***************************************************************************)
(* The other way out of an interrupted run: not `resume` but a new plan,   *)
(* made from the catalog the run has left and executed to its end.         *)
(* `execute` recommends it for a cancelled run (refuseExecute).            *)
(***************************************************************************)
EXTENDS RunEngine, Planner

(* Where an undisturbed execute would end before its plan does: a check    *)
(* that fails, a drop it may not make, a statement PostgreSQL refuses.     *)
(* An index held by a claim alone is not execute's to drop (AllowAdoption).*)
Stuck(n, c) ==
  CASE n.kind \in {"assert", "verify"} -> ~Holds(n, c)
    [] n.kind \in DestructiveKinds     -> Authorize(n, c) # "drop" \/ Committed(n, c) = {}
    [] n.kind \in ClaimingKinds        -> Committed(n, c) = {}
    [] OTHER                           -> FALSE

(* What the node makes of the catalog, marker included.                    *)
Carried(n, c) ==
  IF n.kind \notin DDLKinds THEN c
  ELSE LET d == CHOOSE d \in Committed(n, c) : TRUE
       IN  IF n.kind \in ClaimingKinds /\ MayMark(d[n.object].marker)
           THEN [d EXCEPT ![n.object].marker = "ours"] ELSE d

Step(r, n) ==
  IF r.stuck \/ Stuck(n, r.cat) THEN [r EXCEPT !.stuck = TRUE]
                               ELSE [r EXCEPT !.cat = Carried(n, r.cat)]

(* The plan, node by node: what it comes to after the first k of them.     *)
Executed(plan, c) ==
  LET after[k \in 0 .. Len(plan)] ==
        IF k = 0 THEN [cat |-> c, stuck |-> FALSE] ELSE Step(after[k - 1], plan[k])
  IN  after[Len(plan)]

LiveClaims == {o \in Object : Claimed(o)}

NoDDL(plan) == \A k \in DOMAIN plan : plan[k].kind \notin DDLKinds

(* Only the comment can tell whose it is, and there is none.               *)
Unproven(o) == Unusable(cat[o]) /\ cat[o].marker = "absent"

Left == pc = "idle" /\ status # "NONE"

-----------------------------------------------------------------------------

(* Wherever create-index was interrupted, also where resume cannot get on, *)
(* a new plan goes through and leaves nothing to plan, unless a dead build *)
(* carries no marker yet, which is resume's to adopt (leafChain,           *)
(* classifyParentIndex, refuseExecute).                                    *)
NewCreateBuilds ==
  Left =>
    \/ \E o \in Object : Unproven(o)
    \/ LET r == Executed(CreatePlan(cat), cat)
       IN  /\ ~CreateRefused(cat, LiveClaims)
           /\ ~r.stuck /\ NoDDL(CreatePlan(r.cat))

(* Wherever drop-index was interrupted, a new plan goes through as long as *)
(* the parent is there, and what is then left of ours nobody can prove to  *)
(* be so; once the parent is gone, so is everything else of ours.          *)
NewDropRemoves ==
  Left =>
    LET r    == Executed(DropPlan(cat, LiveClaims), cat)
        Ours == {o \in Object : cat[o].maker = "tool"}
    IN  IF DropRefused(cat) THEN Ours = {}
        ELSE \/ \E o \in Ours : cat[o].marker = "absent"
             \/ ~r.stuck /\ \A o \in Ours : ~Exists(r.cat[o])

(* Wherever reindex-index was interrupted, a new plan goes through and     *)
(* removes the leftovers the old one cannot, unless somebody wrote over the*)
(* marker of an index that has one (authorizeLeftover).                    *)
NewReindexCleans ==
  Left =>
    \/ \E l \in Leaf : Exists(cat[Rebuilding[l]]) /\ cat[l].marker # "ours"
    \/ LET r == Executed(ReindexPlan(cat), cat)
       IN  /\ ~ReindexRefused(cat) /\ ~r.stuck
           /\ \A l \in Leaf : Usable(r.cat[l]) /\ ~Exists(r.cat[Rebuilding[l]])

(* Over what any run has left and others have made of it meanwhile,        *)
(* reindex-index either refuses to plan or its plan goes through: no leaf  *)
(* is rebuilt for a plan whose own final verification has to fail          *)
(* (resolveParentIndex, attachedChild, authorizeLeftover).                 *)
NoHopelessReindex ==
  Left =>
    \/ ReindexRefused(cat)
    \/ LET r == Executed(ReindexPlan(cat), cat)
       IN  ~r.stuck /\ \A l \in Leaf : Usable(r.cat[l]) /\ ~Exists(r.cat[Rebuilding[l]])

=============================================================================
