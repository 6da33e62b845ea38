------------------------------ MODULE MCCreate ------------------------------
(***************************************************************************)
(* create-index on a table of two partitions, with nothing there yet or    *)
(* with the wreckage of an earlier build under one name.                   *)
(***************************************************************************)
EXTENDS Operation

TwoLeaves  == <<"child1", "child2">>
NoRebuilds == [l \in Leaf |-> l]

EmptyCatalog == [o \in Object |-> NoIndex]

\* A parent and a dead build of ours under one name, a finished child under another,
\* and the leftover of a REINDEX CONCURRENTLY somebody ran on the dead one.
WreckedCatalog ==
  [o \in Object |->
     CASE o \in {Parent, "child1"} -> [NewIndex("invalid", "tool") EXCEPT !.marker = "ours"]
       [] o = "child2"             -> [NewIndex("valid", "tool") EXCEPT !.marker = "ours"]
       [] o = "child1_ccnew"       -> NewIndex("invalid", "other")
       [] OTHER                    -> NoIndex]

CcNew == [l \in Leaf |-> IF l = "child1" THEN "child1_ccnew" ELSE "child2_ccnew"]

EmptyPlan    == CreatePlan(EmptyCatalog)
WreckedPlan  == CreatePlan(WreckedCatalog)
EmptyCount   == Len(EmptyPlan)
WreckedCount == Len(WreckedPlan)

\* Runes of one and two bytes, and two tags.
Symbols == [r \in {"a", "b", "wide", "tag1", "tag2"} |-> IF r \in {"a", "b"} THEN 1 ELSE 2]
Before  == <<"a", "b">>

=============================================================================
