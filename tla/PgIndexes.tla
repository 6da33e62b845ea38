----------------------------- MODULE PgIndexes -----------------------------
(***************************************************************************)
(* The part of PostgreSQL the tool acts on: the indexes of one partitioned *)
(* table and what each kind of statement does to them.  It is external     *)
(* code, modelled from how src/ relies on it (the comments of nodekind.go, *)
(* executor.go and the operation planners); nothing of it is implemented   *)
(* in the repository.                                                      *)
(*                                                                         *)
(* A statement p is a plan node [kind, object, other, ...]: object is the  *)
(* index it acts on; other is the partitioned parent for attach, and for   *)
(* reindex the _ccnew index an interrupted rebuild leaves behind.          *)
(***************************************************************************)
EXTENDS OwnershipPolicy

CONSTANTS Object,  \* every index name the instance is about
          Leaf,    \* the generated child names, one per leaf partition
          Parent   \* the partitioned index

(* valid, invalid and not_live are the planner's classes of pg_index flags *)
(* (not_ready is not told apart from invalid, no decision does).  building *)
(* is invalid with the backend that builds it still at work.               *)
Condition == {"absent", "building", "invalid", "not_live", "valid"}

(* maker is who created the index: history, read by no operation of ours.  *)
Index == [cond : Condition, marker : MarkerStatus,
          maker : {"nobody", "tool", "other"}, attached : BOOLEAN]

Catalog == [Object -> Index]

NoIndex == [cond |-> "absent", marker |-> "absent",
            maker |-> "nobody", attached |-> FALSE]

NewIndex(cond, maker) == [cond |-> cond, marker |-> "absent",
                          maker |-> maker, attached |-> FALSE]

Exists(i) == i.cond # "absent"
Usable(i) == i.cond = "valid"

-----------------------------------------------------------------------------
(* CREATE INDEX ... ON ONLY parent: a parent nothing is attached to yet is *)
(* born invalid.  42P07 if the name is taken.                              *)
CreateParent(p, c) ==
  IF Exists(c[p.object]) THEN {}
  ELSE {[c EXCEPT ![p.object] = NewIndex("invalid", "tool")]}

CreateConcurrently(p, c) ==
  IF Exists(c[p.object]) THEN {}
  ELSE {[c EXCEPT ![p.object] = NewIndex("valid", "tool")]}

(* ALTER INDEX parent ATTACH PARTITION child.  Attaching twice is a no-op; *)
(* the attach that completes the set makes the parent valid.               *)
AttachChild(p, c) ==
  LET d     == [c EXCEPT ![p.object].attached = TRUE]
      whole == \A l \in Leaf : d[l].attached /\ Usable(d[l])
  IN  IF ~Exists(c[p.object]) \/ ~Exists(c[p.other]) THEN {}
      ELSE {IF whole THEN [d EXCEPT ![p.other].cond = "valid"] ELSE d}

(* DROP INDEX CONCURRENTLY: an attached child cannot go without its parent.*)
DropConcurrently(p, c) ==
  IF ~Exists(c[p.object]) \/ c[p.object].attached THEN {}
  ELSE {[c EXCEPT ![p.object] = NoIndex]}

(* REINDEX CONCURRENTLY keeps the name, the comment and the attachment.    *)
Reindex(p, c) ==
  IF ~Exists(c[p.object]) THEN {}
  ELSE {[c EXCEPT ![p.object].cond = "valid"]}

(* DROP INDEX parent cascades to every attached child, in one transaction. *)
DropPartitioned(p, c) ==
  IF ~Exists(c[p.object]) THEN {}
  ELSE {[o \in Object |->
           IF o = p.object \/ c[o].attached THEN NoIndex ELSE c[o]]}

(* The catalogs a statement can end in when it commits; none if refused.   *)
Committed(p, c) ==
  CASE p.kind = "create_parent_invalid" -> CreateParent(p, c)
    [] p.kind = "create_concurrently"   -> CreateConcurrently(p, c)
    [] p.kind = "attach"                -> AttachChild(p, c)
    [] p.kind = "drop_concurrently"     -> DropConcurrently(p, c)
    [] p.kind = "reindex_concurrently"  -> Reindex(p, c)
    [] p.kind = "drop_partitioned"      -> DropPartitioned(p, c)
    [] OTHER                            -> {}

(* What a CONCURRENTLY statement leaves behind when it dies part way: its  *)
(* early transactions have committed.  The others roll back to nothing.    *)
Wreckage(p, c) ==
  CASE p.kind = "create_concurrently" /\ ~Exists(c[p.object]) ->
         {[c EXCEPT ![p.object] = NewIndex("invalid", "tool")]}
    [] p.kind = "drop_concurrently" /\ Exists(c[p.object])
                                    /\ ~c[p.object].attached ->
         {[c EXCEPT ![p.object].cond = "not_live"]}
    [] p.kind = "reindex_concurrently" /\ Exists(c[p.object])
                                       /\ ~Exists(c[p.other]) ->
         {[c EXCEPT ![p.other] = NewIndex("invalid", "tool")]}
    [] OTHER -> {}

(* The client is gone but its backend has not noticed: it goes on building.*)
StillBuilding(p, c) ==
  IF p.kind = "create_concurrently" /\ ~Exists(c[p.object])
    THEN {[c EXCEPT ![p.object] = NewIndex("building", "tool")]}
    ELSE {}

(* Every CONCURRENTLY form takes ShareUpdateExclusive on the table, so a   *)
(* statement waits for a build that is under way there.                    *)
Blocked(p, c) == c[p.object].cond = "building"

(* COMMENT ON INDEX object IS '<marker>'. *)
Commented(o, c) ==
  IF ~Exists(c[o]) THEN {} ELSE {[c EXCEPT ![o].marker = "ours"]}

=============================================================================
