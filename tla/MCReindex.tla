----------------------------- MODULE MCReindex -----------------------------
(***************************************************************************)
(* reindex-index on a complete tree of two partitions, one of which still  *)
(* carries the leftover of an earlier rebuild.                             *)
(***************************************************************************)
EXTENDS Operation

TwoLeaves == <<"child1", "child2">>
CcNew     == [l \in Leaf |-> IF l = "child1" THEN "child1_ccnew" ELSE "child2_ccnew"]

Built == [o \in Object |->
            CASE o = Parent    -> [NewIndex("valid", "tool") EXCEPT !.marker = "ours"]
              [] o \in Leaf    -> [NewIndex("valid", "tool") EXCEPT !.marker = "ours",
                                                                   !.attached = TRUE]
              [] OTHER         -> NoIndex]

WithLeftover == [Built EXCEPT !["child2_ccnew"] = NewIndex("invalid", "tool")]

LeftoverPlan  == ReindexPlan(WithLeftover)
LeftoverCount == Len(LeftoverPlan)

\* Runes of one and two bytes.
Symbols == [r \in {"a", "b", "wide"} |-> IF r = "wide" THEN 2 ELSE 1]

Before  == <<"a", "b">>

=============================================================================
