------------------------------ MODULE Planner ------------------------------
(***************************************************************************)
(* What the three planners emit for a catalog: the node graph of           *)
(* create-index, drop-index and reindex-index, as a function of the        *)
(* indexes that are there when the plan is made.                           *)
(*                                                                         *)
(* A plan is the sequence of its nodes in plan order, which is also the    *)
(* topological order the executor walks: Plan.TopologicalOrder takes the   *)
(* ready node of least position, and every dependency points backwards.    *)
(* Refusals to plan are separate predicates (CreateRefused and so on); a   *)
(* plan means something only where its refusal is false.                   *)
(*                                                                         *)
(* Left out: the structural assertions (partitioned, RANGE or LIST, one    *)
(* level, role membership), which read things nothing in this model        *)
(* changes; _ccold leftovers; the reindex watermark; estimates and notes.  *)
(***************************************************************************)
EXTENDS PgIndexes, Naturals, SequencesExt

CONSTANTS LeafOrder,  \* the leaves in discovery order
          Rebuilding  \* the _ccnew name PostgreSQL gives each leaf's rebuild

(* Discovery finds each leaf once, and no leaf has the parent's index name.*)
ASSUME LeafAssumption ==
  /\ LeafOrder \in Seq(Leaf) /\ Parent \notin Leaf
  /\ \A l \in Leaf : \E i \in DOMAIN LeafOrder : LeafOrder[i] = l
  /\ \A i, j \in DOMAIN LeafOrder : LeafOrder[i] = LeafOrder[j] => i = j
  /\ Rebuilding \in [Leaf -> Object]

(* A node before numbering: after says which nodes it depends on.          *)
Bare(kind, object, after) ==
  [kind |-> kind, object |-> object, other |-> Parent, after |-> after,
   auth |-> "none", expect |-> "none", scope |-> {}]

Unusable(i) == Exists(i) /\ ~Usable(i)

-----------------------------------------------------------------------------
(* Numbering: "root" is the node the leaf chains hang from, "tails" the    *)
(* last nodes of those chains, or the root if there are none.              *)

Positions(s, after) == {k \in DOMAIN s : s[k].after = after}

Number(s, root) ==
  LET closing == SelectInSeq(s, LAMBDA n : n.after = "tails")
      tails   == {k \in (root + 1) .. (closing - 1) :
                    k + 1 \in Positions(s, "root") \cup Positions(s, "tails")}
      deps(k) == CASE s[k].after = "nothing"  -> {}
                   [] s[k].after = "previous" -> {k - 1}
                   [] s[k].after = "root"     -> {root}
                   [] s[k].after = "tails"    -> IF tails = {} THEN {root} ELSE tails
  IN  [k \in DOMAIN s |->
         [kind |-> s[k].kind, object |-> s[k].object, other |-> s[k].other,
          deps |-> deps(k), auth |-> s[k].auth, expect |-> s[k].expect,
          scope |-> s[k].scope]]

(* The leaf chains one after the other; the first node of each hangs from  *)
(* the root.                                                               *)
Chained(chain) == [k \in DOMAIN chain |->
                     [chain[k] EXCEPT !.after = IF k = 1 THEN "root" ELSE @]]
Chains(chain) ==
  FlattenSeq([i \in DOMAIN LeafOrder |-> Chained(chain[LeafOrder[i]])])

-----------------------------------------------------------------------------
(* create-index *)

(* claims: the names that runs which were never finished still claim.      *)
PlannedVerdict(c, o, claims) == DecideProvenanceDrop(c[o].marker, o \in claims)

CreateRefused(c, claims) ==
  \/ \E l \in Leaf : /\ Unusable(c[l])
                     /\ c[l].attached \/ PlannedVerdict(c, l, claims) = "halt"
  \/ Unusable(c[Parent]) /\ PlannedVerdict(c, Parent, claims) = "halt"

(* Mutant: what is built and not attached is built again. *)
CreateChainAnew(c, l) ==
  LET tail == <<[Bare("verify", l, "previous") EXCEPT !.expect = "index_valid"],
                Bare("attach", l, "previous"),
                Bare("wait", l, "previous")>>
      build == <<Bare("create_concurrently", l, "previous")>>
      drop == [Bare("drop_concurrently", l, "previous") EXCEPT !.auth = "provenance"]
  IN  CASE Usable(c[l]) /\ c[l].attached -> <<>>
        [] Unusable(c[l])                -> <<drop>> \o build \o tail
        [] OTHER                         -> build \o tail

(* Built and attached: nothing.  Built: the tail of the chain.  Ours but   *)
(* unusable: drop it first.                                                *)
CreateChain(c, l) ==
  LET drop == [Bare("drop_concurrently", l, "previous") EXCEPT !.auth = "provenance"]
      tail == <<[Bare("verify", l, "previous") EXCEPT !.expect = "index_valid"],
                Bare("attach", l, "previous"),
                Bare("wait", l, "previous")>>
      build == <<Bare("create_concurrently", l, "previous")>>
  IN  CASE Usable(c[l]) /\ c[l].attached  -> <<>>
        [] Usable(c[l]) /\ ~c[l].attached -> tail
        [] Unusable(c[l])                 -> <<drop>> \o build \o tail
        [] ~Exists(c[l])                  -> build \o tail

CreatePlan(c) ==
  LET assertion == [Bare("assert", Parent, "nothing") EXCEPT !.expect = "name_free"]
      parent == IF Exists(c[Parent]) THEN <<>>
                ELSE <<Bare("create_parent_invalid", Parent, "previous")>>
      final == [Bare("verify", Parent, "tails") EXCEPT !.expect = "tree_valid"]
  IN  Number(<<assertion>> \o parent \o Chains([l \in Leaf |-> CreateChain(c, l)]) \o <<final>>,
             1 + Len(parent))

-----------------------------------------------------------------------------
(* drop-index *)

DropRefused(c) == ~Exists(c[Parent])

(* Mutant: a dead index is taken for somebody else's. *)
OrphanUsable(c, l, claims) == /\ Usable(c[l]) /\ ~c[l].attached
                              /\ PlannedVerdict(c, l, claims) # "halt"

Orphan(c, l, claims) == /\ Exists(c[l]) /\ ~c[l].attached
                        /\ PlannedVerdict(c, l, claims) # "halt"

(* An unattached leaf that is not ours is left alone, and not verified.    *)
Skipped(c, l, claims) == Exists(c[l]) /\ ~c[l].attached /\ ~Orphan(c, l, claims)

DropPlan(c, claims) ==
  LET assertion == [Bare("assert", Parent, "nothing") EXCEPT !.expect = "parent_exists"]
      orphans == [l \in Leaf |->
                   IF Orphan(c, l, claims)
                     THEN <<[Bare("drop_concurrently", l, "previous") EXCEPT !.auth = "provenance"]>>
                     ELSE <<>>]
      drop  == [Bare("drop_partitioned", Parent, "tails") EXCEPT !.auth = "explicit"]
      final == [Bare("verify", Parent, "previous") EXCEPT
                  !.expect = "absent",
                  !.scope = {Parent} \cup {l \in Leaf : ~Skipped(c, l, claims)}]
  IN  Number(<<assertion>> \o Chains(orphans) \o <<drop, final>>, 1)

-----------------------------------------------------------------------------
(* reindex-index *)

(* Mutant: a parent that is not valid is taken for one to rebuild. *)
ReindexRefusedAbsent(c) ==
  \/ ~Exists(c[Parent])
  \/ \E l \in Leaf : ~Exists(c[l]) \/ ~c[l].attached
  \/ \E l \in Leaf : Exists(c[Rebuilding[l]]) /\ DecideLeftoverDrop(c[l].marker) = "halt"

(* The parent must be there and valid, each leaf have its attached index,  *)
(* valid or not, and each leftover be provably ours.                       *)
ReindexRefused(c) ==
  \/ ~Usable(c[Parent])
  \/ \E l \in Leaf : ~Exists(c[l]) \/ ~c[l].attached
  \/ \E l \in Leaf : Exists(c[Rebuilding[l]]) /\ DecideLeftoverDrop(c[l].marker) = "halt"

(* Mutant: the leftovers are not looked for. *)
ReindexChainBlind(c, l) ==
  <<[Bare("reindex_concurrently", l, "previous") EXCEPT !.other = Rebuilding[l]],
    [Bare("verify", l, "previous") EXCEPT !.expect = "index_attached"]>>

ReindexChain(c, l) ==
  LET leftover == [Bare("drop_concurrently", Rebuilding[l], "previous")
                     EXCEPT !.auth = "leftover", !.other = l]
  IN  (IF Exists(c[Rebuilding[l]]) THEN <<leftover>> ELSE <<>>) \o
      <<[Bare("reindex_concurrently", l, "previous") EXCEPT !.other = Rebuilding[l]],
        [Bare("verify", l, "previous") EXCEPT !.expect = "index_attached"]>>

ReindexPlan(c) ==
  LET assertion == [Bare("assert", Parent, "nothing") EXCEPT !.expect = "leaves_attached"]
      final == [Bare("verify", Parent, "tails") EXCEPT
                  !.expect = "tree_valid", !.scope = {Rebuilding[l] : l \in Leaf}]
  IN  Number(<<assertion>> \o Chains([l \in Leaf |-> ReindexChain(c, l)]) \o <<final>>, 1)

=============================================================================
