------------------------------- MODULE MCDrop -------------------------------
(***************************************************************************)
(* drop-index on a half-built tree of three partitions: one child attached,*)
(* one of ours never attached, and one somebody else's under a generated   *)
(* name, which the plan leaves alone.  The second may be unmarked, when the*)
(* run that built it died first; then that run still claims it.            *)
(***************************************************************************)
EXTENDS FreshPlan

ThreeLeaves == <<"child1", "child2", "child3">>
NoRebuilds  == [l \in Leaf |-> l]

HalfBuilt(orphan, marker, foreign) ==
  [o \in Object |->
     CASE o = "parent" -> [NewIndex("invalid", "tool") EXCEPT !.marker = "ours"]
       [] o = "child1" -> [NewIndex("valid", "tool") EXCEPT !.marker = "ours",
                                                           !.attached = TRUE]
       [] o = "child2" -> [NewIndex(orphan, "tool") EXCEPT !.marker = marker]
       [] OTHER        -> [NewIndex(foreign, "other") EXCEPT !.marker = "foreign"]]

\* What is left alone is in working order; what is ours waits to be adopted.
Unmarked == HalfBuilt("valid", "absent", "valid")
\* Our orphan is a dead build.
DeadOrphan == HalfBuilt("invalid", "ours", "valid")

UnmarkedPlan    == DropPlan(Unmarked, PriorClaims)
UnmarkedCount   == Len(UnmarkedPlan)
DeadOrphanPlan  == DropPlan(DeadOrphan, PriorClaims)
DeadOrphanCount == Len(DeadOrphanPlan)

=============================================================================
