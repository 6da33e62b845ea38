---------------------------- MODULE CatalogProofs ----------------------------
(***************************************************************************)
(* What RunEngine does to the indexes, for every plan and every catalog:   *)
(* what it drops, what it leaves alone, what it makes and can account for, *)
(* and what a completed run has built.                                     *)
(***************************************************************************)
EXTENDS RunEngineProofs

USE SizeAssumption, PlanFacts, ObjectAssumption, BoundAssumption

-----------------------------------------------------------------------------
(* What a statement can do to an index *)

(* Index i has become j: it is the index it was, no less valid and still   *)
(* attached if it was.                                                     *)
Kept(i, j) ==
  /\ Exists(i) <=> Exists(j)
  /\ j.marker = i.marker /\ j.maker = i.maker
  /\ i.attached => j.attached
  /\ Usable(i) => Usable(j)

(* The tool has made it, and nobody has commented on it yet.               *)
Made(i, j) == ~Exists(i) /\ Exists(j) /\ j.marker = "absent" /\ j.maker = "tool"

Hurts(p, o) ==
  \/ p.kind = "drop_concurrently" /\ o = p.object /\ ~cat[o].attached
  \/ p.kind = "drop_partitioned" /\ (o = p.object \/ cat[o].attached)

(* It is gone, or on its way out.                                          *)
Hurt(p, i, j) ==
  \/ j = NoIndex
  \/ p.kind = "drop_concurrently" /\ Exists(i) /\ j = [i EXCEPT !.cond = "not_live"]

Effect(p, d) ==
  \A o \in Object : \/ Kept(cat[o], d[o])
                    \/ Makes(p, o) /\ Made(cat[o], d[o])
                    \/ Hurts(p, o) /\ Hurt(p, cat[o], d[o])

(* An index nothing happened to is kept.                                   *)
LEMMA KeptAsItIs == ASSUME NEW i PROVE Kept(i, i)
BY DEF Kept

(* Only one index changes, and it does so in one of the three ways.        *)
LEMMA EffectAt ==
  ASSUME cat \in Catalog, NEW p, NEW o \in Object, NEW j,
         \/ Kept(cat[o], j)
         \/ Makes(p, o) /\ Made(cat[o], j)
         \/ Hurts(p, o) /\ Hurt(p, cat[o], j)
  PROVE  Effect(p, [cat EXCEPT ![o] = j])
BY KeptAsItIs DEF Effect, Catalog

(* An index made where none was is an effect of the node that makes it.    *)
LEMMA MadeAt ==
  ASSUME cat \in Catalog, NEW p, NEW o \in Object, ~Exists(cat[o]), Makes(p, o),
         NEW cond \in {"building", "invalid", "valid"},
         NEW d, d = [cat EXCEPT ![o] = NewIndex(cond, "tool")]
  PROVE  Effect(p, d)
<1>1. Made(cat[o], NewIndex(cond, "tool"))
  BY DEF Made, NewIndex, Exists
<1>2. QED
  BY <1>1, EffectAt

(* What each statement does when it commits (PgIndexes).                   *)
LEMMA CommittedEffect ==
  ASSUME cat \in Catalog, NEW p, p.object \in Object, p.other \in Object,
         NEW d \in Committed(p, cat)
  PROVE  Effect(p, d)
<1>1. CASE p.kind \in {"create_parent_invalid", "create_concurrently"}
  <2>1. /\ ~Exists(cat[p.object]) /\ Makes(p, p.object)
        /\ \E cond \in {"invalid", "valid"} : d = [cat EXCEPT ![p.object] = NewIndex(cond, "tool")]
    BY <1>1 DEF Committed, CreateParent, CreateConcurrently, Makes
  <2>2. QED
    BY <2>1, MadeAt
<1>2. CASE p.kind = "attach"
  <2> DEFINE e == [cat EXCEPT ![p.object].attached = TRUE]
  <2>1. /\ Exists(cat[p.object]) /\ Exists(cat[p.other])
        /\ d = e \/ d = [e EXCEPT ![p.other].cond = "valid"]
    BY <1>2 DEF Committed, AttachChild
  <2>2. ASSUME NEW o \in Object
        PROVE  Kept(cat[o], e[o]) /\ (o = p.other => Exists(e[o]))
    BY <2>1 DEF Kept, Exists, Usable, Catalog, Index
  <2>3. ASSUME NEW o \in Object
        PROVE  Kept(cat[o], [e EXCEPT ![p.other].cond = "valid"][o])
    BY <2>1, <2>2 DEF Kept, Exists, Usable, Catalog, Index
  <2>4. QED
    BY <2>1, <2>2, <2>3 DEF Effect
<1>3. CASE p.kind = "drop_concurrently"
  <2>1. d = [cat EXCEPT ![p.object] = NoIndex] /\ Hurts(p, p.object)
    BY <1>3 DEF Committed, DropConcurrently, Hurts
  <2>2. QED
    BY <2>1, EffectAt DEF Hurt
<1>4. CASE p.kind = "reindex_concurrently"
  <2>1. Exists(cat[p.object]) /\ d = [cat EXCEPT ![p.object].cond = "valid"]
    BY <1>4 DEF Committed, Reindex
  <2>2. Kept(cat[p.object], [cat[p.object] EXCEPT !.cond = "valid"])
    BY <2>1 DEF Kept, Exists, Usable, Catalog, Index
  <2>3. QED
    BY <2>1, <2>2, EffectAt
<1>5. CASE p.kind = "drop_partitioned"
  <2>1. d = [o \in Object |-> IF o = p.object \/ cat[o].attached THEN NoIndex ELSE cat[o]]
    BY <1>5 DEF Committed, DropPartitioned
  <2>2. QED
    BY <1>5, <2>1, KeptAsItIs DEF Effect, Hurts, Hurt
<1>6. QED
  BY <1>1, <1>2, <1>3, <1>4, <1>5 DEF Committed

(* What is left when it dies part way, or goes on with nobody listening.   *)
LEMMA WreckageEffect ==
  ASSUME cat \in Catalog, NEW p, p.object \in Object, p.other \in Object,
         NEW d \in Wreckage(p, cat) \cup StillBuilding(p, cat)
  PROVE  Effect(p, d)
<1>1. CASE p.kind = "create_concurrently"
  <2>1. /\ ~Exists(cat[p.object]) /\ Makes(p, p.object)
        /\ \E cond \in {"invalid", "building"} : d = [cat EXCEPT ![p.object] = NewIndex(cond, "tool")]
    BY <1>1 DEF Wreckage, StillBuilding, Makes
  <2>2. QED
    BY <2>1, MadeAt
<1>2. CASE p.kind = "drop_concurrently"
  <2>1. /\ Exists(cat[p.object]) /\ Hurts(p, p.object)
        /\ d = [cat EXCEPT ![p.object] = [cat[p.object] EXCEPT !.cond = "not_live"]]
    BY <1>2 DEF Wreckage, StillBuilding, Hurts
  <2>2. Hurt(p, cat[p.object], [cat[p.object] EXCEPT !.cond = "not_live"])
    BY <1>2, <2>1 DEF Hurt
  <2>3. QED
    BY <2>1, <2>2, EffectAt
<1>3. CASE p.kind = "reindex_concurrently"
  <2>1. /\ ~Exists(cat[p.other]) /\ Makes(p, p.other)
        /\ d = [cat EXCEPT ![p.other] = NewIndex("invalid", "tool")]
    BY <1>3 DEF Wreckage, StillBuilding, Makes
  <2>2. QED
    BY <2>1, MadeAt
<1>4. QED
  BY <1>1, <1>2, <1>3 DEF Wreckage, StillBuilding

(* A statement cut short does no more than one that is not.                *)
LEMMA InterruptedEffect ==
  ASSUME cat \in Catalog, NEW p, p.object \in Object, p.other \in Object,
         NEW d \in TimedOut(p) \cup Interrupted(p)
  PROVE  Effect(p, d)
<1>1. \/ d = cat
      \/ d \in Committed(p, cat)
      \/ d \in Wreckage(p, cat) \cup StillBuilding(p, cat)
  BY DEF TimedOut, Interrupted
<1>2. Effect(p, cat)
  BY KeptAsItIs DEF Effect
<1>3. QED
  BY <1>1, <1>2, CommittedEffect, WreckageEffect

-----------------------------------------------------------------------------
(* Which steps touch the catalog, and how *)

(* All that may become of a statement. *)
Outcomes(p) == {cat} \cup Committed(p, cat) \cup Wreckage(p, cat) \cup StillBuilding(p, cat)

Sent ==
  \/ /\ pc = "exec" /\ current.kind \in DDLKinds
     /\ Effect(current, cat') /\ cat' \in Outcomes(current)
  \/ /\ pc = "cleanup_drop"
     /\ Effect(CleanupStatement, cat') /\ cat' \in Outcomes(CleanupStatement)

Commenting(o) ==
  /\ \/ pc = "mark" /\ o = current.object /\ MayMark(cat[o].marker)
     \/ pc = "comment" /\ o = current.object
     \/ pc = "cleanup_comment" /\ o = target
  /\ Exists(cat[o]) /\ cat' = [cat EXCEPT ![o].marker = "ours"]

(* A COMMENT marks an index that exists, and changes nothing else.         *)
LEMMA CommentedIs ==
  ASSUME NEW o, NEW d \in Commented(o, cat)
  PROVE  Exists(cat[o]) /\ d = [cat EXCEPT ![o].marker = "ours"]
BY DEF Commented

(* Everything else the tool does leaves the catalog alone.                 *)
LEMMA ToolSteps ==
  ASSUME TypeInv, Process \/ Crash
  PROVE  \/ cat' = cat
         \/ Sent
         \/ \E o \in Object : Commenting(o)
<1> USE DEF store
<1>0. cat \in Catalog
  BY DEF TypeInv, TypeOK
<1>1. pc \in NodePc => current.object \in Object /\ current.other \in Object
  BY PlanNodeType
<1>2. pc \in {"cleanup_comment", "cleanup_drop"} =>
        /\ target \in Object
        /\ CleanupStatement.object \in Object /\ CleanupStatement.other \in Object
  BY DEF TypeInv, CleanupStatement
<1>3. ASSUME pc = "cleanup_drop", cat' \in DropInterrupted \cup Committed(CleanupStatement, cat)
      PROVE  Sent
  <2>1. cat' \in TimedOut(CleanupStatement) \/ cat' \in Committed(CleanupStatement, cat)
    BY <1>3 DEF DropInterrupted
  <2>2. cat' \in Outcomes(CleanupStatement)
    BY <2>1 DEF TimedOut, Outcomes
  <2>3. Effect(CleanupStatement, cat')
    BY <1>0, <1>2, <1>3, <2>1, InterruptedEffect, CommittedEffect
  <2>4. QED
    BY <1>3, <2>2, <2>3 DEF Sent
<1>4. ASSUME pc = "exec", current.kind \in DDLKinds,
             cat' \in TimedOut(current) \cup Interrupted(current) \cup Committed(current, cat)
      PROVE  Sent
  <2>1. cat' \in Outcomes(current)
    BY <1>4 DEF TimedOut, Interrupted, Outcomes
  <2>2. Effect(current, cat')
    BY <1>0, <1>1, <1>4, InterruptedEffect, CommittedEffect DEF NodePc
  <2>3. QED
    BY <1>4, <2>1, <2>2 DEF Sent
<1>5. CASE \/ Execute \/ Resume \/ Adopting \/ Inspect \/ Recheck \/ CleanupFailed
           \/ WalkLease \/ LoadStates \/ Boundary \/ Attempt \/ Evaluate \/ Verify
           \/ Deferred \/ Backoff \/ Finish \/ Release
  BY <1>5 DEF Execute, Resume, Adopting, MarkOrphaned, RewindOrphans, Rewind, AdoptRun,
              AdoptLease, RewindFailed, Inspect, Recheck, CleanupFailed, WalkLease, LoadStates,
              Boundary, Attempt, Evaluate, Verify, Deferred, Backoff, Finish, Release
<1>6. CASE Recover \/ Ready \/ Run \/ Verifying \/ Finished \/ Halted \/ Retry
  BY <1>6 DEF Recover, Ready, Run, Verifying, Finished, Halted, Retry, Checkpoint
<1>7. CASE CleanupComment
  <2>1. cat' = cat \/ cat' \in Commented(target, cat)
    BY <1>7 DEF CleanupComment
  <2>2. QED
    BY <1>2, <1>7, <2>1, CommentedIs DEF CleanupComment, Commenting
<1>8. CASE CleanupDrop
  BY <1>3, <1>8 DEF CleanupDrop
<1>9. CASE AdoptComment
  <2>1. cat' = cat \/ cat' \in Commented(current.object, cat)
    BY <1>9 DEF AdoptComment
  <2>2. QED
    BY <1>1, <1>9, <2>1, CommentedIs DEF AdoptComment, Commenting, NodePc
<1>10. CASE Statement
  BY <1>4, <1>10 DEF Statement
<1>11. CASE Mark
  <2>1. cat' = cat \/ (MayMark(cat[current.object].marker) /\ cat' \in Commented(current.object, cat))
    BY <1>11 DEF Mark
  <2>2. QED
    BY <1>1, <1>11, <2>1, CommentedIs DEF Mark, Commenting, NodePc
<1>12. CASE Crash
  <2>1. \/ cat' = cat
        \/ pc = "exec" /\ current.kind \in DDLKinds /\ cat' \in Interrupted(current)
        \/ pc = "cleanup_drop" /\ cat' \in DropInterrupted
        \/ pc = "mark" /\ MayMark(cat[current.object].marker) /\ cat' \in Commented(current.object, cat)
        \/ pc = "comment" /\ cat' \in Commented(current.object, cat)
        \/ pc = "cleanup_comment" /\ cat' \in Commented(target, cat)
    BY <1>12 DEF Crash, InFlight
  <2>2. QED
    BY <1>1, <1>2, <1>3, <1>4, <2>1, CommentedIs DEF Commenting, NodePc
<1>13. QED
  BY <1>5, <1>6, <1>7, <1>8, <1>9, <1>10, <1>11, <1>12 DEF Process, Cleaning, Walking

(* So this is all that ever changes the catalog.                           *)
LEMMA CatalogSteps ==
  ASSUME TypeInv, Next
  PROVE  \/ cat' = cat
         \/ Sent
         \/ \E o \in Object : Commenting(o)
         \/ BackendFinishes
         \/ Dba
<1>1. CASE ExpireLease \/ LeaseLapses \/ Heartbeat \/ Signal \/ Cancel
  BY <1>1 DEF ExpireLease, LeaseLapses, Heartbeat, Signal, Cancel, store
<1>2. QED
  BY <1>1, ToolSteps DEF Next, Environment

-----------------------------------------------------------------------------
(* A decision to destroy still stands when its statement leaves *)

(* What authorized the drop of the node in hand.                           *)
Decided ==
  CASE current.auth = "provenance" ->
         cat[current.object].marker = IF adopt /\ pc # "exec" THEN "absent" ELSE "ours"
    [] current.auth = "leftover"   -> ~adopt /\ cat[current.other].marker = "ours"
    [] current.auth = "explicit"   -> ~adopt
    [] OTHER                       -> FALSE

DecisionInv ==
  /\ TypeInv
  /\ pc = "cleanup_comment" => cat[target].marker = "absent"
  /\ pc = "cleanup_drop" => cat[target].marker = "ours"
  /\ pc \in {"run", "comment", "exec"} /\ current.kind \in DestructiveKinds => Decided
  /\ pc \in NodePc /\ current.kind \notin DestructiveKinds => ~adopt
  /\ pc = "comment" => adopt

(* The index commented on then carries our marker.                         *)
LEMMA CommentTaken ==
  ASSUME TypeInv, NEW o \in Object, cat' \in Commented(o, cat)
  PROVE  cat'[o].marker = "ours"
BY DEF Commented, TypeInv, TypeOK, Catalog, Index

(* What a drop was decided on stays so until it is sent.                   *)
LEMMA DecisionStep ==
  ASSUME ~DbaInGap, DecisionInv, TypeInv', Next
  PROVE  DecisionInv'
<1> USE DEF DecisionInv, Decided, NodePc, store, run, nodes, mode, scan, walk, bounds,
            Goto, Ends, current
<1>0. pc \in NodePc => /\ current.object \in Object /\ current.other \in Object
                       /\ current.auth \in {"none", "provenance", "leftover", "explicit"}
  BY PlanNodeType
<1>1. CASE Execute \/ Resume \/ Adopting
  BY <1>1 DEF Execute, Resume, Adopting, MarkOrphaned, RewindOrphans, AdoptRun, AdoptLease,
              RewindFailed, Rewind, Gone
<1>2. CASE Inspect \/ Recheck
  BY <1>2 DEF Inspect, Recheck, ProvenanceVerdict, DecideProvenanceDrop
<1>3. CASE CleanupComment
  <2>1. target \in Object
    BY <1>3 DEF CleanupComment, TypeInv
  <2>2. pc' \in {"cleanup_failed", "cleanup_drop"} /\ target' = target
        /\ (pc' = "cleanup_drop" => cat' \in Commented(target, cat))
    BY <1>3 DEF CleanupComment
  <2>3. QED
    BY <2>1, <2>2, CommentTaken
<1>4. CASE CleanupDrop \/ CleanupFailed
  BY <1>4 DEF CleanupDrop, CleanupFailed, Gone
<1>5. CASE WalkLease \/ LoadStates \/ Finish \/ Release
  BY <1>5 DEF WalkLease, LoadStates, Finish, Release, Gone
<1>6. CASE Recover
  BY <1>6 DEF Recover, Checkpoint
<1>7. CASE Boundary
  BY <1>7 DEF Boundary, Entry
<1>8. CASE Ready \/ Verifying \/ Finished \/ Halted \/ Retry
  BY <1>8 DEF Ready, Verifying, Finished, Halted, Retry, Checkpoint
<1>9. CASE Attempt
  <2>1. /\ pc = "attempt" /\ UNCHANGED <<cat, cur, target>>
        /\ \/ pc' = "finish" /\ adopt' = adopt
           \/ pc' = "run" /\ current.kind \notin DestructiveKinds /\ adopt' = adopt
           \/ /\ pc' = "run" /\ current.kind \in DestructiveKinds
              /\ Authorize(current, cat) # "halt"
              /\ adopt' = (Authorize(current, cat) = "adopt_then_drop")
    BY <1>9 DEF Attempt
  <2>2. ASSUME pc' = "run", Authorize(current, cat) # "halt",
               adopt' = (Authorize(current, cat) = "adopt_then_drop")
        PROVE  Decided'
    <3>1. CASE current.auth = "provenance"
      BY <2>1, <2>2, <3>1 DEF Authorize, ProvenanceVerdict, DecideProvenanceDrop
    <3>2. CASE current.auth = "leftover"
      BY <2>1, <2>2, <3>2 DEF Authorize, DecideLeftoverDrop
    <3>3. CASE current.auth \in {"explicit", "none"}
      BY <2>1, <2>2, <3>3 DEF Authorize
    <3>4. QED
      BY <1>0, <2>1, <3>1, <3>2, <3>3
  <2>3. QED
    BY <2>1, <2>2
<1>10. CASE Run
  BY <1>0, <1>10 DEF Run, Checkpoint
<1>11. CASE AdoptComment
  <2>1. /\ pc = "comment" /\ UNCHANGED walk /\ pc' \in {"exec", "fail", "retry"}
        /\ pc' = "exec" => cat' \in Commented(current.object, cat)
    BY <1>11 DEF AdoptComment
  <2>2. current.auth = "provenance" /\ adopt
    BY <1>0, <2>1
  <2>3. pc' = "exec" => cat'[current.object].marker = "ours"
    BY <1>0, <2>1, CommentTaken
  <2>4. QED
    BY <2>1, <2>2, <2>3
<1>12. CASE Evaluate \/ Statement \/ Mark \/ Verify \/ Deferred \/ Backoff
  BY <1>12 DEF Evaluate, Statement, Mark, Verify, Deferred, Backoff
<1>13. CASE Crash
  BY <1>13 DEF Crash, Gone
<1>14. CASE ExpireLease \/ LeaseLapses \/ Heartbeat \/ Signal \/ Cancel
  BY <1>14 DEF ExpireLease, LeaseLapses, Heartbeat, Signal, Cancel
<1>15. CASE BackendFinishes
  <2>1. \A o \in Object : cat'[o].marker = cat[o].marker
    BY <1>15 DEF BackendFinishes, TypeInv, TypeOK, Catalog, Index
  <2>2. UNCHANGED <<pc, target, cur, adopt>>
    BY <1>15 DEF BackendFinishes
  <2>3. QED
    BY <1>0, <2>1, <2>2 DEF TypeInv
<1>16. CASE Dba
  BY <1>16 DEF Dba, InGap
<1>17. QED
  BY <1>1, <1>2, <1>3, <1>4, <1>5, <1>6, <1>7, <1>8, <1>9, <1>10, <1>11, <1>12, <1>13, <1>14,
     <1>15, <1>16 DEF Next, Process, Cleaning, Walking, Environment

(* And from the first state on.                                            *)
LEMMA DecisionInvariant ==
  ASSUME ~DbaInGap
  PROVE  Spec => []DecisionInv
<1>1. Init => DecisionInv
  BY InitType DEF Init, DecisionInv, NodePc
<1>2. DecisionInv /\ [Next]_vars => DecisionInv'
  <2> SUFFICES ASSUME DecisionInv, [Next]_vars PROVE DecisionInv'
    OBVIOUS
  <2>1. CASE UNCHANGED vars
    BY <2>1, TypeStep DEF vars, walk, scan, DecisionInv, Decided, current
  <2>2. CASE Next
    BY <2>2, TypeStep, DecisionStep DEF DecisionInv
  <2>3. QED
    BY <2>1, <2>2
<1>3. QED
  BY <1>1, <1>2, PTL DEF Spec

(* Provided nobody else works on the same indexes between the check and    *)
(* the statement (nothing of the table is locked meanwhile),               *)
(* the tool drops nothing but what carries our marker at that moment, what *)
(* was left by a rebuild of such an index, and what the operator has named *)
(* (Authorize, execDDL, App.adopt, dropOwnedIndex).                        *)
THEOREM OnlyMarkedIsDropped ==
  ASSUME ~DbaInGap
  PROVE  Spec => DroppedWasMarked
<1> DEFINE Dropped(o) ==
             Exists(cat[o]) /\ cat'[o] = NoIndex =>
               \/ cat[o].marker = "ours"
               \/ pc = "exec" /\ current.auth = "explicit"
               \/ pc = "exec" /\ current.auth = "leftover" /\ cat[current.other].marker = "ours"
           Step == Process => \A o \in Object : Dropped(o)
<1>1. DecisionInv /\ [Next]_vars => [Step]_vars
  <2> SUFFICES ASSUME DecisionInv, Process, NEW o \in Object, Exists(cat[o]), cat'[o] = NoIndex
               PROVE  Dropped(o)
    OBVIOUS
  <2>0. ~Exists(NoIndex)
    BY DEF Exists, NoIndex
  <2>1. cat' # cat /\ ~Kept(cat[o], cat'[o]) /\ ~Made(cat[o], cat'[o])
    BY <2>0 DEF Kept, Made
  <2>2. ASSUME NEW q \in Object, Commenting(q) PROVE FALSE
    BY <2>0, <2>2 DEF Commenting, DecisionInv, TypeInv, TypeOK, Catalog, Index, Exists
  <2>3. Sent
    BY <2>1, <2>2, ToolSteps DEF DecisionInv
  <2>4. CASE pc = "exec" /\ current.kind \in DDLKinds /\ Effect(current, cat')
    <3>1. Hurts(current, o) /\ cur \in Node
      BY <2>1, <2>4 DEF Effect, DecisionInv, TypeInv, NodePc
    <3>2. current.kind \in DestructiveKinds /\ Decided
      BY <2>4, <3>1 DEF Hurts, DestructiveKinds, DecisionInv
    <3>3. CASE current.kind = "drop_partitioned"
      BY <2>4, <3>1, <3>3, DropFacts DEF current
    <3>4. CASE current.kind = "drop_concurrently"
      BY <2>4, <3>1, <3>2, <3>4, DropFacts DEF current, Hurts, Decided
    <3>5. QED
      BY <3>1, <3>3, <3>4 DEF Hurts
  <2>5. CASE pc = "cleanup_drop" /\ Effect(CleanupStatement, cat')
    <3>1. Hurts(CleanupStatement, o)
      BY <2>1, <2>5 DEF Effect
    <3>2. o = target
      BY <3>1 DEF Hurts, CleanupStatement
    <3>3. QED
      BY <2>5, <3>2 DEF DecisionInv
  <2>6. QED
    BY <2>3, <2>4, <2>5 DEF Sent
<1>2. QED
  BY <1>1, DecisionInvariant, PTL DEF Spec, DroppedWasMarked

(* Under the same proviso no comment somebody else wrote is written over:  *)
(* every COMMENT follows a reading that found none, or ours.               *)
THEOREM ForeignCommentsAreKept ==
  ASSUME ~DbaInGap
  PROVE  Spec => ForeignCommentKept
<1> DEFINE Step == Process => \A o \in Object : cat[o].marker = "foreign" => cat'[o].marker # "ours"
<1>1. DecisionInv /\ [Next]_vars => [Step]_vars
  <2> SUFFICES ASSUME DecisionInv, Process, NEW o \in Object, cat[o].marker = "foreign"
               PROVE  cat'[o].marker # "ours"
    OBVIOUS
  <2>0. cat \in Catalog
    BY DEF DecisionInv, TypeInv, TypeOK
  <2>1. ASSUME NEW p, Effect(p, cat') PROVE cat'[o].marker # "ours"
    <3>1. CASE Kept(cat[o], cat'[o]) \/ Made(cat[o], cat'[o])
      BY <3>1 DEF Kept, Made
    <3>2. CASE cat'[o] = NoIndex
      BY <3>2 DEF NoIndex
    <3>3. CASE cat'[o] = [cat[o] EXCEPT !.cond = "not_live"]
      BY <2>0, <3>3 DEF Catalog, Index
    <3>4. QED
      BY <2>1, <3>1, <3>2, <3>3 DEF Effect, Hurt
  <2>2. ASSUME NEW q \in Object, Commenting(q) PROVE cat'[o].marker # "ours"
    <3>1. cat[q].marker # "foreign"
      BY <2>2 DEF Commenting, DecisionInv, Decided, NodePc, MayMark
    <3>2. QED
      BY <2>0, <2>2, <3>1 DEF Commenting, Catalog, Index
  <2>3. QED
    BY <2>1, <2>2, ToolSteps DEF Sent, DecisionInv
<1>2. QED
  BY <1>1, DecisionInvariant, PTL DEF Spec, ForeignCommentKept

-----------------------------------------------------------------------------
(* How the node records move *)

(* Only the node in hand moves forward, by one state, from where its label *)
(* says it is; resume and recovery move what was in flight back.           *)
LEMMA RecordSteps ==
  ASSUME RecordInv, Next
  PROVE  /\ dispatched \subseteq dispatched'
         /\ \A n \in Node :
              \/ state'[n] = state[n]
              \/ state[n] \in {"RUNNING", "FAILED"} /\ state'[n] = "PENDING" /\ pc' # "done"
              \/ /\ n = cur /\ state[n] \in RecordAt(pc)
                 /\ \/ pc = "ready"     /\ state'[n] = "READY"
                    \/ pc = "run"       /\ state'[n] = "RUNNING" /\ n \in dispatched'
                    \/ pc = "verifying" /\ state'[n] = "VERIFYING"
                    \/ pc = "done"      /\ state'[n] = "DONE"
                    \/ pc = "retry"     /\ state'[n] = "RETRY_WAIT"
                    \/ pc \in {"fail", "giveup"} /\ state'[n] = "FAILED"
<1> USE DEF store, nodes
<1>1. pc \in NodePc => cur \in Node /\ state[cur] \in RecordAt(pc)
  BY DEF RecordInv, TypeInv, MemoryMatchesStore, WalkPc
<1>2. state \in [Node -> NodeState] /\ dispatched \subseteq Node
  BY DEF RecordInv, TypeInv, TypeOK
<1>3. ASSUME NEW n \in Node, NEW to,
             Written(n, to) \/ UNCHANGED nodes
      PROVE  /\ dispatched \subseteq dispatched'
             /\ \A m \in Node : m # n => state'[m] = state[m]
             /\ state'[n] = state[n] \/ (state'[n] = to /\ (to = "RUNNING" => n \in dispatched'))
  BY <1>2, <1>3 DEF Written
<1>4. CASE Ready \/ Run \/ Verifying \/ Finished \/ Retry
  BY <1>1, <1>3, <1>4 DEF Ready, Run, Verifying, Finished, Retry, Checkpoint, NodePc
<1>5. CASE Halted
  BY <1>1, <1>3, <1>5 DEF Halted, NodePc
<1>6. CASE Recover
  <2>1. CASE \E n \in Node : mem[n] = "RUNNING" /\ Checkpoint(n, "PENDING", "recover")
    <3>1. PICK n \in Node : mem[n] = "RUNNING" /\ Checkpoint(n, "PENDING", "recover")
      BY <2>1
    <3>2. state[n] = "RUNNING"
      BY <1>6, <3>1 DEF Recover, RecordInv, MemoryMatchesStore
    <3>3. pc' # "done" /\ (Written(n, "PENDING") \/ UNCHANGED nodes)
      BY <3>1 DEF Checkpoint
    <3>4. QED
      BY <1>3, <3>2, <3>3
  <2>2. CASE UNCHANGED nodes
    BY <2>2
  <2>3. QED
    BY <1>6, <2>1, <2>2 DEF Recover
<1>7. CASE RewindOrphans \/ RewindFailed
  <2>1. CASE \E from \in {"RUNNING", "FAILED"} : Rewind(from) /\ pc # "done"
    BY <1>2, <2>1 DEF Rewind
  <2>2. CASE UNCHANGED nodes
    BY <2>2
  <2>3. QED
    BY <1>7, <2>1, <2>2 DEF RewindOrphans, RewindFailed
<1>8. CASE UNCHANGED nodes
  BY <1>8
<1>9. CASE \/ Execute \/ Resume \/ MarkOrphaned \/ AdoptRun \/ AdoptLease \/ Cleaning
           \/ WalkLease \/ LoadStates \/ Boundary \/ Attempt \/ Evaluate \/ AdoptComment
           \/ Statement \/ Mark \/ Verify \/ Deferred \/ Backoff \/ Finish \/ Release
           \/ Environment
  BY <1>8, <1>9 DEF Execute, Resume, MarkOrphaned, AdoptRun, AdoptLease, Cleaning, Inspect,
       Recheck, CleanupComment, CleanupDrop, CleanupFailed, WalkLease, LoadStates, Boundary,
       Attempt, Evaluate, AdoptComment, Statement, Mark, Verify, Deferred, Backoff, Finish,
       Release, Environment, Crash, ExpireLease, LeaseLapses, Heartbeat, BackendFinishes,
       Signal, Cancel, Dba
<1>10. QED
  BY <1>4, <1>5, <1>6, <1>7, <1>9 DEF Next, Process, Adopting, Walking

(* A node completes at one place, and no node is ever undone.              *)
LEMMA IncompleteSteps ==
  ASSUME RecordInv, Next
  PROVE  \/ Incomplete' = Incomplete
         \/ pc = "done" /\ cur \in Incomplete /\ Incomplete' = Incomplete \ {cur}
<1>1. \A n \in Node : Done(n, state)' <=> \/ Done(n, state)
                                          \/ pc = "done" /\ n = cur /\ state'[n] = "DONE"
  BY RecordSteps DEF Done, CompleteStates, RecordAt
<1>2. pc = "done" => cur \in Incomplete
  BY DEF RecordInv, RecordAt, TypeInv, NodePc, MemoryMatchesStore, WalkPc, Incomplete, Done,
         CompleteStates
<1>3. QED
  BY <1>1, <1>2 DEF Incomplete

-----------------------------------------------------------------------------
(* Nothing the tool makes is lost sight of *)

Unmarked(o) == cat[o].maker = "tool" /\ cat[o].marker = "absent"

(* An index comes to be unmarked only as a statement makes it.             *)
LEMMA UnmarkedSteps ==
  ASSUME TypeInv, Next, NEW o \in Object, Unmarked(o)'
  PROVE  \/ Unmarked(o)
         \/ pc = "exec" /\ current.kind \in DDLKinds /\ Makes(current, o)
<1>0. cat \in Catalog
  BY DEF TypeInv, TypeOK
<1>1. ASSUME NEW p, Effect(p, cat') PROVE Unmarked(o) \/ Makes(p, o)
  <2>1. CASE Kept(cat[o], cat'[o])
    BY <2>1 DEF Kept, Unmarked
  <2>2. CASE cat'[o] = NoIndex
    BY <2>2 DEF NoIndex, Unmarked
  <2>3. CASE cat'[o] = [cat[o] EXCEPT !.cond = "not_live"]
    BY <1>0, <2>3 DEF Unmarked, Catalog, Index
  <2>4. QED
    BY <1>1, <2>1, <2>2, <2>3 DEF Effect, Hurt
<1>2. CASE Sent
  BY <1>1, <1>2 DEF Sent, CleanupStatement, Makes
<1>3. CASE \E q \in Object : Commenting(q)
  BY <1>0, <1>3 DEF Commenting, Unmarked, Catalog, Index
<1>4. CASE BackendFinishes
  BY <1>0, <1>4 DEF BackendFinishes, Unmarked, Catalog, Index
<1>5. CASE Dba
  <2>1. PICK l \in Leaf :
          \/ cat' = [cat EXCEPT ![l] = NewIndex("valid", "other")]
          \/ cat' = [cat EXCEPT ![l] = NewIndex("invalid", "other")]
          \/ cat' = [cat EXCEPT ![l].marker = "foreign"]
          \/ cat' = [cat EXCEPT ![l] = NoIndex]
          \/ Usable(cat[l]) /\ cat' = [cat EXCEPT ![l].cond = "invalid"]
    BY <1>5 DEF Dba
  <2>2. QED
    BY <1>0, <2>1 DEF Unmarked, Catalog, Index, NewIndex, NoIndex
<1>6. QED
  BY <1>2, <1>3, <1>4, <1>5, CatalogSteps DEF Unmarked

ClaimsSince(n) == Plan[n].kind \in ClaimingKinds
                  /\ (state[n] = "VERIFYING" \/ (pc = "verifying" /\ n = cur))

UnmarkedInv ==
  /\ FrontierInv
  /\ \A n \in Node : state[n] \in {"RUNNING", "VERIFYING", "FAILED", "RETRY_WAIT"}
                       => n \in dispatched
  /\ \A n \in Node : ClaimsSince(n) => ~Unmarked(Plan[n].object)
  /\ UnmarkedIsClaimed

(* A plan that rebuilds no index: a _ccnew that a committed rebuild has to *)
(* leave behind carries no marker, and no node claims it.                  *)
NoReindex == \A n \in Node : Plan[n].kind # "reindex_concurrently"

(* The plan was made with no unmarked index of an earlier run around.      *)
NothingUnmarked == \A o \in Object : InitialCatalog[o].maker = "tool" => InitialCatalog[o].marker # "absent"

(* How a node comes to be verified. *)
LEMMA VerifyingSteps ==
  ASSUME Next, pc' = "verifying"
  PROVE  /\ cur' = cur
         /\ \/ pc = "verifying"
            \/ /\ pc = "exec" /\ current.kind \notin ClaimingKinds
               /\ current.kind \in DDLKinds => cat' \in Committed(current, cat)
            \/ Mark
<1> USE DEF Goto, Ends, walk, store, Gone
<1>1. CASE Execute \/ Resume \/ Adopting
  BY <1>1 DEF Execute, Resume, Adopting, MarkOrphaned, RewindOrphans, AdoptRun, AdoptLease,
              RewindFailed, Rewind
<1>2. CASE Cleaning
  BY <1>2 DEF Cleaning, Inspect, Recheck, CleanupComment, CleanupDrop, CleanupFailed
<1>3. CASE Recover \/ Ready \/ Run \/ Verifying \/ Finished \/ Halted \/ Retry
  BY <1>3 DEF Recover, Ready, Run, Verifying, Finished, Halted, Retry, Checkpoint
<1>4. CASE Boundary
  BY <1>4 DEF Boundary, Entry
<1>5. CASE Evaluate \/ Statement \/ Mark
  BY <1>5 DEF Evaluate, Statement, Mark, DDLKinds
<1>6. CASE WalkLease \/ LoadStates \/ Attempt \/ AdoptComment \/ Verify \/ Deferred \/ Backoff
           \/ Finish \/ Release
  BY <1>6 DEF WalkLease, LoadStates, Attempt, AdoptComment, Verify, Deferred, Backoff,
              Finish, Release
<1>7. CASE Environment
  BY <1>7 DEF Environment, Crash, ExpireLease, LeaseLapses, Heartbeat, BackendFinishes,
              Signal, Cancel, Dba
<1>8. QED
  BY <1>1, <1>2, <1>3, <1>4, <1>5, <1>6, <1>7 DEF Next, Process, Walking

(* A node is handed on to be verified only when its index is marked, or    *)
(* carries a comment that may not be written over.                         *)
LEMMA ClaimSteps ==
  ASSUME UnmarkedInv, Next, NEW n \in Node, ClaimsSince(n)'
  PROVE  ~Unmarked(Plan[n].object)'
<1>0. /\ cat \in Catalog /\ Plan[n].object \in Object /\ RecordInv /\ TypeInv /\ FrontierInv
      /\ pc \in NodePc => current.object \in Object /\ state[cur] \in RecordAt(pc) /\ cur \in Node
  BY PlanNodeType DEF UnmarkedInv, FrontierInv, RecordInv, TypeInv, TypeOK, PlanNode,
                      MemoryMatchesStore, WalkPc
<1>1. ASSUME ClaimsSince(n), pc = "exec" PROVE FALSE
  <2>1. state[n] = "VERIFYING" /\ n \in Incomplete
    BY <1>1 DEF ClaimsSince, Incomplete, Done, CompleteStates
  <2>2. cur \in Incomplete /\ cur <= n /\ cur # n /\ cur \in Node
    BY <1>0, <1>1, <2>1, InHandIsFirst DEF NodePc, RecordAt
  <2>3. cur < n
    BY <2>2 DEF Node
  <2>4. QED
    BY <1>0, <2>1, <2>2, <2>3 DEF FrontierInv, Frontier
<1>2. CASE ClaimsSince(n)
  BY <1>0, <1>1, <1>2, UnmarkedSteps DEF UnmarkedInv
<1>3. CASE ~ClaimsSince(n)
  <2>1. Mark /\ n = cur /\ pc' = "verifying"
    BY <1>0, <1>3, VerifyingSteps, RecordSteps DEF ClaimsSince, current
  <2>2. \/ cat' \in Commented(current.object, cat)
        \/ cat' = cat /\ cat[current.object].marker # "absent"
    BY <1>3, <2>1 DEF Mark, Goto, MayMark, ClaimsSince
  <2>3. QED
    BY <1>0, <2>1, <2>2, CommentTaken DEF Unmarked, Mark, NodePc, current
<1>4. QED
  BY <1>2, <1>3

(* No step leaves an index of ours unmarked and unclaimed.                 *)
LEMMA UnmarkedStep ==
  ASSUME NoReindex, UnmarkedInv, FrontierInv', Next
  PROVE  UnmarkedInv'
<1>0. /\ RecordInv /\ TypeInv /\ FrontierInv
      /\ pc \in NodePc => state[cur] \in RecordAt(pc) /\ cur \in Node
  BY DEF UnmarkedInv, FrontierInv, RecordInv, TypeInv, MemoryMatchesStore, WalkPc
<1>1. ASSUME NEW n \in Node, state'[n] \in {"RUNNING", "VERIFYING", "FAILED", "RETRY_WAIT"}
      PROVE  n \in dispatched'
  BY <1>0, <1>1, RecordSteps DEF UnmarkedInv, RecordAt
<1>2. ASSUME NEW o \in Object, Unmarked(o)'
      PROVE  \E n \in Incomplete' \cap dispatched' : Plan[n].kind \in ClaimingKinds /\ Plan[n].object = o
  <2>1. PICK n \in Incomplete \cap dispatched : Plan[n].kind \in ClaimingKinds /\ Plan[n].object = o
    <3>1. CASE Unmarked(o)
      BY <3>1 DEF UnmarkedInv, UnmarkedIsClaimed, Unmarked, NoReindex, Incomplete
    <3>2. CASE pc = "exec" /\ Makes(current, o)
      <4>1. cur \in Incomplete \cap dispatched
        BY <1>0, <3>2 DEF UnmarkedInv, NodePc, RecordAt, Incomplete, Done, CompleteStates
      <4>2. current.kind \in ClaimingKinds /\ current.object = o
        BY <1>0, <3>2 DEF Makes, NoReindex, current, ClaimingKinds, NodePc
      <4>3. QED
        BY <4>1, <4>2 DEF current
    <3>3. QED
      BY <1>0, <1>2, <3>1, <3>2, UnmarkedSteps
  <2>2. n \in dispatched'
    BY <1>0, <2>1, RecordSteps
  <2>3. n \in Incomplete'
    <3>1. ASSUME pc = "done", n = cur PROVE FALSE
      <4>1. ClaimsSince(n)
        BY <1>0, <2>1, <3>1 DEF ClaimsSince, NodePc, RecordAt
      <4>2. ~Unmarked(o)
        BY <2>1, <4>1 DEF UnmarkedInv, Incomplete
      <4>3. QED
        BY <1>0, <1>2, <3>1, <4>2, UnmarkedSteps
    <3>2. QED
      BY <1>0, <2>1, <3>1, IncompleteSteps
  <2>4. QED
    BY <2>1, <2>2, <2>3
<1>3. \A n \in Node : ClaimsSince(n)' => ~Unmarked(Plan[n].object)'
  BY ClaimSteps
<1>4. UnmarkedIsClaimed'
  BY <1>2 DEF UnmarkedIsClaimed, Unmarked
<1>5. QED
  BY <1>1, <1>3, <1>4 DEF UnmarkedInv

(* Whatever plan creates or drops indexes, and however often it is killed, *)
(* stopped or refused: an index the tool has made and not marked belongs to*)
(* a dispatched node that is not complete, for resume to claim.  A rebuild *)
(* that comes through does leave an unmarked _ccnew index of an earlier    *)
(* attempt to nobody, which is why the plan must have none.                *)
THEOREM NothingIsLostSightOf ==
  ASSUME NoReindex, NothingUnmarked
  PROVE  Spec => []UnmarkedIsClaimed
<1>1. Init => UnmarkedInv
  BY InitFrontier DEF Init, UnmarkedInv, UnmarkedIsClaimed, NothingUnmarked, ClaimsSince, Fresh,
                      InitialNodeState
<1>2. UnmarkedInv /\ FrontierInv' /\ [Next]_vars => UnmarkedInv'
  <2> SUFFICES ASSUME UnmarkedInv, FrontierInv', [Next]_vars PROVE UnmarkedInv'
    OBVIOUS
  <2>1. CASE UNCHANGED vars
    BY <2>1 DEF vars, store, nodes, walk, UnmarkedInv, UnmarkedIsClaimed, ClaimsSince, Unmarked,
                Incomplete, Done
  <2>2. CASE Next
    BY <2>2, UnmarkedStep
  <2>3. QED
    BY <2>1, <2>2
<1>3. UnmarkedInv => UnmarkedIsClaimed
  BY DEF UnmarkedInv
<1>4. QED
  BY <1>1, <1>2, <1>3, FrontierInvariant, PTL DEF Spec

-----------------------------------------------------------------------------
(* A completed run has built what it was for *)

(* What a verify node found survives a statement that neither drops the    *)
(* index nor makes one where there must be none.                           *)
LEMMA HoldsKept ==
  ASSUME TypeInv, NEW v \in Node, Plan[v].kind = "verify", Holds(Plan[v], cat),
         NEW p, Effect(p, cat'), p.kind # "drop_partitioned",
         Plan[v].expect = "index_valid" => ~Hurts(p, Plan[v].object),
         Plan[v].expect = "tree_valid"  => ~Hurts(p, Parent),
         \A o \in Plan[v].scope : ~Makes(p, o)
  PROVE  Holds(Plan[v], cat)'
<1> DEFINE q == Plan[v]
<1>0. /\ q \in PlanNode /\ q.object \in Object /\ q.scope \subseteq Object
      /\ q.expect \in {"index_valid", "index_attached", "tree_valid", "absent"}
  BY VerifyFacts DEF PlanNode
<1>1. ASSUME NEW o \in Object, Usable(cat[o]), ~Hurts(p, o) PROVE Usable(cat'[o])
  BY <1>1 DEF Effect, Kept, Made, Usable, Exists
<1>2. ASSUME NEW o \in Object, Attached(o, cat)
      PROVE  /\ Attached(o, cat)' /\ ~Hurts(p, o)
  BY <1>2 DEF Effect, Kept, Made, Hurts, Attached, Exists
<1>3. ASSUME NEW o \in q.scope PROVE ~Exists(cat'[o])
  <2>1. o \in Object /\ ~Exists(cat[o]) /\ ~Makes(p, o)
    BY <1>0, <1>3 DEF Holds
  <2>2. ~Exists(NoIndex)
    BY DEF Exists, NoIndex
  <2>3. QED
    BY <2>1, <2>2 DEF Effect, Kept, Hurt
<1>4. CASE q.expect = "index_valid"
  BY <1>0, <1>1, <1>3, <1>4 DEF Holds
<1>5. CASE q.expect = "index_attached"
  BY <1>0, <1>1, <1>2, <1>3, <1>5 DEF Holds
<1>6. CASE q.expect = "tree_valid"
  BY <1>1, <1>2, <1>3, <1>6 DEF Holds
<1>7. CASE q.expect = "absent"
  BY <1>3, <1>7 DEF Holds
<1>8. QED
  BY <1>0, <1>4, <1>5, <1>6, <1>7

(* So it does a comment, and the end of a build.                           *)
LEMMA HoldsAsConditionsDo ==
  ASSUME TypeInv, NEW v \in Node, Plan[v].kind = "verify", Holds(Plan[v], cat),
         \A o \in Object : /\ Exists(cat[o]) <=> Exists(cat'[o])
                           /\ Usable(cat[o]) => Usable(cat'[o])
                           /\ cat'[o].attached = cat[o].attached
  PROVE  Holds(Plan[v], cat)'
<1>1. /\ Plan[v].object \in Object /\ Plan[v].scope \subseteq Object
      /\ Plan[v].expect \in {"index_valid", "index_attached", "tree_valid", "absent"}
  BY VerifyFacts DEF PlanNode
<1>2. QED
  BY <1>1 DEF Holds, Attached

Verified(v) == Plan[v].kind = "verify" /\ (Done(v, state) \/ (pc = "done" /\ cur = v))

BuiltInv ==
  /\ FrontierInv
  /\ \A n \in Incomplete : \A v \in Node \ Incomplete : v < n
  /\ \A v \in Node : Verified(v) => Holds(Plan[v], cat)
  /\ pc \in {"cleanup_comment", "cleanup_drop"} =>
       \A v \in Node : Verified(v) /\ Plan[v].expect = "index_valid" => Plan[v].object # target
  /\ (pc = "finish" /\ outcome = "complete") \/ status = "COMPLETED" => Incomplete = {}

(* Nobody else builds or drops an index under the run, only comments on it.*)
OnlyComments == DbaMoves \subseteq {"comment"}

(* The catalog moves under a verified node and it still holds.             *)
LEMMA VerifiedKept ==
  ASSUME OnlyComments, BuiltInv, Next, NEW v \in Node, Verified(v)
  PROVE  Holds(Plan[v], cat)'
<1>0. /\ TypeInv /\ FrontierInv /\ RecordInv /\ cat \in Catalog
      /\ Plan[v].kind = "verify" /\ Holds(Plan[v], cat) /\ Parent \in Object
  BY DEF BuiltInv, FrontierInv, RecordInv, Verified, TypeInv, TypeOK
<1>1. CASE cat' = cat
  BY <1>0, <1>1, HoldsAsConditionsDo
<1>2. CASE pc = "exec" /\ Effect(current, cat')
  <2>1. cur \in Incomplete /\ v \notin Incomplete
    BY <1>0, <1>2, InHandIsFirst DEF NodePc, Verified, Incomplete
  <2>2. v < cur /\ cur \in Node
    BY <2>1 DEF BuiltInv, Incomplete
  <2>3. ~Undoes(current, Plan[v])
    BY <1>0, <2>2, VerifyFacts DEF current
  <2>4. /\ current.kind # "drop_partitioned"
        /\ ~Hurts(current, Plan[v].object) /\ ~Hurts(current, Parent)
        /\ \A o \in Plan[v].scope : ~Makes(current, o)
    BY <2>3 DEF Undoes, Hurts
  <2>5. QED
    BY <1>0, <1>2, <2>4, HoldsKept
<1>3. CASE pc = "cleanup_drop" /\ Effect(CleanupStatement, cat')
  <2>1. Plan[v].expect = "index_valid" => ~Hurts(CleanupStatement, Plan[v].object)
    BY <1>3 DEF BuiltInv, Hurts, CleanupStatement
  <2>2. Plan[v].expect = "tree_valid" => ~Hurts(CleanupStatement, Parent)
    BY <1>0, <1>3 DEF Hurts, CleanupStatement, TypeInv, Holds, Attached
  <2>3. CleanupStatement.kind # "drop_partitioned" /\ \A o : ~Makes(CleanupStatement, o)
    BY DEF CleanupStatement, Makes
  <2>4. QED
    BY <1>0, <1>3, <2>1, <2>2, <2>3, HoldsKept
<1>4. CASE \/ \E o \in Object : Commenting(o)
           \/ BackendFinishes
           \/ Dba
  <2>1. ASSUME NEW o \in Object, NEW m \in MarkerStatus, cat' = [cat EXCEPT ![o].marker = m]
        PROVE  \A x \in Object : /\ cat'[x].cond = cat[x].cond
                                 /\ cat'[x].attached = cat[x].attached
    BY <1>0, <2>1 DEF Catalog, Index
  <2>2. CASE \E o \in Object, m \in MarkerStatus : cat' = [cat EXCEPT ![o].marker = m]
    BY <1>0, <2>1, <2>2, HoldsAsConditionsDo DEF Exists, Usable
  <2>3. CASE BackendFinishes
    <3>1. PICK o \in Object, as \in {"invalid", "valid"} :
            cat[o].cond = "building" /\ cat' = [cat EXCEPT ![o].cond = as]
      BY <2>3 DEF BackendFinishes
    <3>2. \A x \in Object : /\ x # o => cat'[x] = cat[x]
                            /\ cat'[x].attached = cat[x].attached
                            /\ cat'[o].cond = as
      BY <1>0, <3>1 DEF Catalog, Index
    <3>3. \A x \in Object : /\ Exists(cat[x]) <=> Exists(cat'[x])
                            /\ Usable(cat[x]) => Usable(cat'[x])
      BY <3>1, <3>2 DEF Exists, Usable
    <3>4. QED
      BY <1>0, <3>2, <3>3, HoldsAsConditionsDo
  <2>4. CASE \E o \in Object : Commenting(o)
    BY <2>2, <2>4 DEF Commenting, MarkerStatus
  <2>5. CASE Dba
    <3>1. PICK l \in Leaf : cat' = [cat EXCEPT ![l].marker = "foreign"]
      BY <2>5 DEF Dba, OnlyComments
    <3>2. l \in Object
      BY <3>1
    <3>3. QED
      BY <2>2, <3>1, <3>2 DEF MarkerStatus
  <2>6. QED
    BY <1>4, <2>3, <2>4, <2>5
<1>5. QED
  BY <1>0, <1>1, <1>2, <1>3, <1>4, CatalogSteps DEF Sent

(* The labels the argument turns on, and how they are reached. *)
LEMMA BuiltLabels ==
  ASSUME Next, TypeInv
  PROVE  /\ pc' = "done" => \/ pc = "done" /\ cur' = cur
                            \/ Verify /\ UNCHANGED walk
         /\ pc' \in {"cleanup_comment", "cleanup_drop"} =>
              \/ pc \in {"cleanup_comment", "cleanup_drop"} /\ target' = target
              \/ target' \in Wreck /\ cat' = cat /\ pc # "done"
         /\ pc' = "finish" /\ outcome' = "complete" =>
              \/ pc = "finish" /\ outcome = "complete"
              \/ pc = "boundary" /\ Remaining = {}
<1> USE DEF Goto, Ends, walk, scan, store, Gone
<1>1. CASE Execute \/ Resume \/ Adopting
  BY <1>1 DEF Execute, Resume, Adopting, MarkOrphaned, RewindOrphans, AdoptRun, AdoptLease,
              RewindFailed, Rewind
<1>2. CASE Cleaning
  BY <1>2 DEF Cleaning, Inspect, Recheck, CleanupComment, CleanupDrop, CleanupFailed
<1>3. CASE Recover \/ Ready \/ Run \/ Verifying \/ Finished \/ Halted \/ Retry
  BY <1>3 DEF Recover, Ready, Run, Verifying, Finished, Halted, Retry, Checkpoint
<1>4. CASE Boundary
  BY <1>4 DEF Boundary, Entry
<1>5. CASE \/ WalkLease \/ LoadStates \/ Attempt \/ Evaluate \/ AdoptComment \/ Statement
           \/ Mark \/ Verify \/ Deferred \/ Backoff \/ Finish \/ Release
  BY <1>5 DEF WalkLease, LoadStates, Attempt, Evaluate, AdoptComment, Statement, Mark, Verify,
              Deferred, Backoff, Finish, Release
<1>6. CASE Environment
  BY <1>6 DEF Environment, Crash, ExpireLease, LeaseLapses, Heartbeat, BackendFinishes,
              Signal, Cancel, Dba
<1>7. QED
  BY <1>1, <1>2, <1>3, <1>4, <1>5, <1>6 DEF Next, Process, Walking

(* No step takes back what a verified node has found built.                *)
LEMMA BuiltStep ==
  ASSUME OnlyComments, BuiltInv, FrontierInv', Next
  PROVE  BuiltInv'
<1>0. TypeInv /\ FrontierInv /\ RecordInv
  BY DEF BuiltInv, FrontierInv, RecordInv
<1>1. \/ Incomplete' = Incomplete
      \/ /\ pc = "done" /\ cur \in Incomplete /\ Incomplete' = Incomplete \ {cur}
         /\ \A m \in Incomplete : cur <= m
  BY <1>0, IncompleteSteps, InHandIsFirst DEF NodePc
<1>2. \A n \in Incomplete' : \A v \in Node \ Incomplete' : v < n
  <2>1. Incomplete \subseteq Node
    BY DEF Incomplete
  <2>2. SUFFICES ASSUME NEW n \in Incomplete', NEW v \in Node \ Incomplete' PROVE v < n
    OBVIOUS
  <2>3. CASE v \notin Incomplete
    BY <1>1, <2>3 DEF BuiltInv
  <2>4. CASE v \in Incomplete
    <3>1. v = cur /\ n \in Incomplete /\ n # cur /\ cur <= n
      BY <1>1, <2>4
    <3>2. v \in Node /\ n \in Node
      BY <2>1, <2>4, <3>1
    <3>3. \A x, y \in Node : x <= y /\ x # y => x < y
      BY DEF Node
    <3>4. QED
      BY <3>1, <3>2, <3>3
  <2>5. QED
    BY <2>3, <2>4
<1>3. ASSUME NEW v \in Node, Verified(v)'
      PROVE  \/ Verified(v)
             \/ pc' = "done" /\ Verify /\ Plan[v].kind = "verify" /\ cur = v
  <2>1. CASE Done(v, state)'
    BY <1>1, <1>3, <2>1 DEF Verified, Incomplete
  <2>2. CASE pc' = "done" /\ cur' = v
    BY <1>0, <1>3, <2>2, BuiltLabels DEF Verified, walk
  <2>3. QED
    BY <1>3, <2>1, <2>2 DEF Verified
<1>4. ASSUME NEW v \in Node, Verified(v)' PROVE Holds(Plan[v], cat)'
  <2>1. CASE Verified(v)
    BY <2>1, VerifiedKept
  <2>2. CASE pc' = "done" /\ Verify /\ Plan[v].kind = "verify" /\ cur = v
    <3>1. Holds(Plan[v], cat) /\ cat' = cat
      BY <2>2 DEF Verify, Goto, current
    <3>2. QED
      BY <1>0, <2>2, <3>1, HoldsAsConditionsDo
  <2>3. QED
    BY <1>3, <1>4, <2>1, <2>2
<1>5. ASSUME pc' \in {"cleanup_comment", "cleanup_drop"}, NEW v \in Node, Verified(v)',
             Plan[v].expect = "index_valid"
      PROVE  Plan[v].object # target'
  <2>1. Verified(v)
    BY <1>3, <1>5
  <2>2. CASE pc \in {"cleanup_comment", "cleanup_drop"} /\ target' = target
    BY <1>5, <2>1, <2>2 DEF BuiltInv
  <2>3. CASE target' \in Wreck
    BY <1>5, <2>1, <2>3 DEF BuiltInv, Wreck, Holds
  <2>4. QED
    BY <1>0, <1>5, <2>2, <2>3, BuiltLabels
<1>6. (pc' = "finish" /\ outcome' = "complete") \/ status' = "COMPLETED" => Incomplete' = {}
  <2>1. CASE pc' = "finish" /\ outcome' = "complete"
    <3>1. pc = "boundary" /\ Remaining = {} => Incomplete = {}
      BY <1>0 DEF RecordInv, MemoryMatchesStore, WalkPc, Remaining, Incomplete
    <3>2. QED
      BY <1>0, <1>1, <2>1, <3>1, BuiltLabels DEF BuiltInv
  <2>2. CASE status' = "COMPLETED"
    BY <1>0, <1>1, <2>2, StatusSteps DEF BuiltInv
  <2>3. QED
    BY <2>1, <2>2
<1>7. QED
  BY <1>2, <1>4, <1>5, <1>6 DEF BuiltInv

(* What is done stays first, and what was verified holds.                  *)
LEMMA BuiltInvariant ==
  ASSUME OnlyComments
  PROVE  Spec => []BuiltInv
<1>1. Init => BuiltInv
  BY InitFrontier DEF Init, BuiltInv, Verified, Fresh, InitialNodeState, Incomplete, Done,
                      CompleteStates
<1>2. BuiltInv /\ FrontierInv' /\ [Next]_vars => BuiltInv'
  <2> SUFFICES ASSUME BuiltInv, FrontierInv', [Next]_vars PROVE BuiltInv'
    OBVIOUS
  <2>1. CASE UNCHANGED vars
    <3>1. \A v \in Node : Holds(Plan[v], cat) => Holds(Plan[v], cat)'
      BY <2>1 DEF vars, store, run, nodes, Holds, NameFree, ProvenanceVerdict, Claimed, Attached
    <3>2. QED
      BY <2>1, <3>1 DEF vars, store, run, nodes, walk, scan, BuiltInv, Verified, Incomplete, Done
  <2>2. CASE Next
    BY <2>2, BuiltStep
  <2>3. QED
    BY <2>1, <2>2
<1>3. QED
  BY <1>1, <1>2, FrontierInvariant, PTL DEF Spec

(* While nobody but the tool makes or drops indexes, a run is recorded     *)
(* COMPLETED only over a catalog in which every verify node still finds    *)
(* what it found when it was evaluated, however many sessions, crashes and *)
(* cleanups lie between (Executor.Run, verifyPhase, dropOwnedIndex).       *)
THEOREM CompletedIsBuilt ==
  ASSUME OnlyComments
  PROVE  Spec => []CompletedMeansBuilt
<1>1. BuiltInv => CompletedMeansBuilt
  BY DEF BuiltInv, CompletedMeansBuilt, Incomplete, Verified
<1>2. QED
  BY <1>1, BuiltInvariant, PTL

-----------------------------------------------------------------------------
(* What somebody else made is left alone *)

Others(o) == cat[o].maker = "other"

(* What the plans of this process find: whatever somebody else has made is *)
(* in working order or says whose it is, and it neither carries our marker,*)
(* nor is claimed by a live run, nor bears the name of a leftover.         *)
OthersKnown ==
  /\ \A o \in Object : InitialCatalog[o].maker = "other" =>
       /\ Exists(InitialCatalog[o]) /\ o \notin PriorClaims
       /\ InitialCatalog[o].marker # "ours"
       /\ Usable(InitialCatalog[o]) \/ InitialCatalog[o].marker \in {"foreign", "unreadable"}
  /\ \A n \in Node : Plan[n].auth = "leftover" =>
       Plan[n].object \notin Leaf /\ InitialCatalog[Plan[n].object].maker # "other"

(* What somebody else does meanwhile: they never leave a dead build of     *)
(* their own, and where a live run claims names they make no index at all. *)
OthersBehave ==
  /\ ~DbaInGap /\ "create_invalid" \notin DbaMoves
  /\ "create" \in DbaMoves => PriorClaims = {}

ForeignInv ==
  /\ DecisionInv
  /\ FrontierInv
  /\ pc = "mark" => current.kind \in ClaimingKinds
  /\ \A o \in Object : Others(o) =>
       /\ Exists(cat[o]) /\ o \notin PriorClaims
       /\ Usable(cat[o]) \/ cat[o].marker \in {"foreign", "unreadable"}
  /\ \A n \in Node : Plan[n].auth = "leftover" => ~Others(Plan[n].object)
  /\ \A n \in Incomplete : /\ Plan[n].kind = "drop_concurrently" /\ Plan[n].auth = "provenance"
                           /\ Others(Plan[n].object)
       => cat[Plan[n].object].marker # "ours"
  /\ pc \in {"run", "comment", "exec"} /\ current.kind = "drop_concurrently"
       => ~Others(current.object)
  /\ pc \in {"cleanup_comment", "cleanup_drop"} => ~Others(target)

(* How an index comes to be somebody else's, or stays it. *)
LEMMA OthersSteps ==
  ASSUME OthersBehave, ForeignInv, Next, NEW o \in Object, Others(o)'
  PROVE  \/ /\ Others(o) /\ Exists(cat'[o])
            /\ Usable(cat[o]) => Usable(cat'[o])
            /\ \/ cat'[o].marker \in {cat[o].marker, "foreign"}
               \/ Commenting(o)
         \/ /\ ~InGap /\ o \in Leaf /\ "create" \in DbaMoves
            /\ Usable(cat'[o]) /\ cat'[o].marker = "absent"
<1>0. TypeInv /\ cat \in Catalog /\ (Others(o) => Exists(cat[o]))
  BY DEF ForeignInv, DecisionInv, TypeInv, TypeOK
<1>1. CASE cat' = cat
  BY <1>0, <1>1 DEF Others
<1>2. ASSUME NEW p, Effect(p, cat'),
             p.kind = "drop_concurrently" => ~Others(p.object)
      PROVE  /\ Others(o) /\ Exists(cat'[o])
             /\ Usable(cat[o]) => Usable(cat'[o])
             /\ cat'[o].marker = cat[o].marker
  <2>1. ~Made(cat[o], cat'[o]) /\ cat'[o] # NoIndex
    BY <1>0 DEF Others, Made, NoIndex
  <2>2. ASSUME Hurts(p, o), Hurt(p, cat[o], cat'[o]) PROVE FALSE
    <3>1. p.kind = "drop_concurrently" /\ o = p.object /\ cat'[o] = [cat[o] EXCEPT !.cond = "not_live"]
      BY <2>1, <2>2 DEF Hurts, Hurt
    <3>2. Others(o)
      BY <1>0, <3>1 DEF Others, Catalog, Index
    <3>3. QED
      BY <1>2, <3>1, <3>2
  <2>3. Kept(cat[o], cat'[o])
    BY <1>2, <2>1, <2>2 DEF Effect
  <2>4. QED
    BY <1>0, <2>3 DEF Kept, Others
<1>3. CASE Sent
  <2>1. CASE pc = "exec" /\ Effect(current, cat')
    BY <1>2, <2>1 DEF ForeignInv
  <2>2. CASE pc = "cleanup_drop" /\ Effect(CleanupStatement, cat')
    BY <1>2, <2>2 DEF ForeignInv, CleanupStatement
  <2>3. QED
    BY <1>3, <2>1, <2>2 DEF Sent
<1>4. CASE \E q \in Object : Commenting(q)
  <2>1. PICK q \in Object : Commenting(q)
    BY <1>4
  <2>2. cat' = [cat EXCEPT ![q].marker = "ours"]
    BY <2>1 DEF Commenting
  <2>3. /\ cat'[o].maker = cat[o].maker /\ cat'[o].cond = cat[o].cond
        /\ o # q => cat'[o] = cat[o]
    BY <1>0, <2>2 DEF Catalog, Index
  <2>4. QED
    BY <1>0, <2>1, <2>3 DEF Others, Exists, Usable
<1>5. CASE BackendFinishes
  <2>1. PICK q \in Object, as \in {"invalid", "valid"} :
          cat[q].cond = "building" /\ cat' = [cat EXCEPT ![q].cond = as]
    BY <1>5 DEF BackendFinishes
  <2>2. /\ cat'[o].maker = cat[o].maker /\ cat'[o].marker = cat[o].marker
        /\ cat'[o].cond = IF o = q THEN as ELSE cat[o].cond
    BY <1>0, <2>1 DEF Catalog, Index
  <2>3. QED
    BY <1>0, <2>1, <2>2 DEF Others, Exists, Usable
<1>6. CASE Dba
  <2>1. ~InGap
    BY <1>6 DEF Dba, OthersBehave
  <2>2. PICK l \in Leaf :
          \/ "create" \in DbaMoves /\ cat' = [cat EXCEPT ![l] = NewIndex("valid", "other")]
          \/ Exists(cat[l]) /\ cat' = [cat EXCEPT ![l].marker = "foreign"]
          \/ cat' = [cat EXCEPT ![l] = NoIndex]
          \/ cat[l].maker = "tool" /\ cat' = [cat EXCEPT ![l].cond = "invalid"]
    BY <1>6 DEF Dba, OthersBehave
  <2>3. CASE o # l
    <3>1. cat'[o] = cat[o]
      BY <1>0, <2>2, <2>3 DEF Catalog
    <3>2. QED
      BY <1>0, <3>1 DEF Others
  <2>4. CASE o = l /\ cat' = [cat EXCEPT ![l].marker = "foreign"]
    <3>1. /\ cat'[o].maker = cat[o].maker /\ cat'[o].cond = cat[o].cond
          /\ cat'[o].marker = "foreign"
      BY <1>0, <2>4 DEF Catalog, Index
    <3>2. QED
      BY <1>0, <3>1 DEF Others, Exists, Usable
  <2>5. CASE o = l /\ "create" \in DbaMoves /\ cat' = [cat EXCEPT ![l] = NewIndex("valid", "other")]
    <3>1. cat'[o] = NewIndex("valid", "other")
      BY <1>0, <2>5 DEF Catalog
    <3>2. QED
      BY <2>1, <2>5, <3>1 DEF NewIndex, Usable
  <2>6. CASE o = l /\ cat' = [cat EXCEPT ![l] = NoIndex]
    <3>1. cat'[o] = NoIndex
      BY <1>0, <2>6 DEF Catalog
    <3>2. QED
      BY <3>1 DEF NoIndex, Others
  <2>7. CASE o = l /\ cat[l].maker = "tool" /\ cat' = [cat EXCEPT ![l].cond = "invalid"]
    <3>1. cat'[o].maker = "tool"
      BY <1>0, <2>7 DEF Catalog, Index
    <3>2. QED
      BY <3>1 DEF Others
  <2>8. QED
    BY <2>2, <2>3, <2>4, <2>5, <2>6, <2>7
<1>7. QED
  BY <1>0, <1>1, <1>3, <1>4, <1>5, <1>6, CatalogSteps

(* How the labels between a decision and its statement are reached. *)
LEMMA GapLabels ==
  ASSUME Next, TypeInv
  PROVE  /\ pc' = "mark" => /\ cur' = cur
                            /\ \/ pc = "mark"
                               \/ pc = "exec" /\ current.kind \in ClaimingKinds
         /\ pc' \in {"run", "comment", "exec"} =>
              /\ cur' = cur
              /\ \/ pc \in {"run", "comment", "exec"}
                 \/ /\ pc = "attempt" /\ cat' = cat
                    /\ current.kind \in DestructiveKinds => Authorize(current, cat) # "halt"
         /\ pc' \in {"cleanup_comment", "cleanup_drop"} =>
              \/ pc \in {"cleanup_comment", "cleanup_drop"} /\ target' = target
              \/ target' \in Wreck /\ cat' = cat /\ ProvenanceVerdict(target', cat) # "halt"
<1> USE DEF Goto, Ends, walk, scan, store, Gone
<1>1. CASE Execute \/ Resume \/ Adopting
  BY <1>1 DEF Execute, Resume, Adopting, MarkOrphaned, RewindOrphans, AdoptRun, AdoptLease,
              RewindFailed, Rewind
<1>2. CASE Cleaning
  BY <1>2 DEF Cleaning, Inspect, Recheck, CleanupComment, CleanupDrop, CleanupFailed
<1>3. CASE Recover \/ Ready \/ Run \/ Verifying \/ Finished \/ Halted \/ Retry
  BY <1>3 DEF Recover, Ready, Run, Verifying, Finished, Halted, Retry, Checkpoint
<1>4. CASE Boundary
  BY <1>4 DEF Boundary, Entry
<1>5. CASE Attempt
  BY <1>5 DEF Attempt
<1>6. CASE \/ WalkLease \/ LoadStates \/ Evaluate \/ AdoptComment \/ Statement
           \/ Mark \/ Verify \/ Deferred \/ Backoff \/ Finish \/ Release
  BY <1>6 DEF WalkLease, LoadStates, Evaluate, AdoptComment, Statement, Mark, Verify,
              Deferred, Backoff, Finish, Release
<1>7. CASE Crash
  BY <1>7 DEF Crash
<1>8. CASE ExpireLease \/ LeaseLapses \/ Heartbeat \/ BackendFinishes \/ Signal \/ Cancel \/ Dba
  <2>1. UNCHANGED <<pc, cur, target>>
    BY <1>8 DEF ExpireLease, LeaseLapses, Heartbeat, BackendFinishes, Signal, Cancel, Dba
  <2>2. QED
    BY <2>1
<1>9. QED
  BY <1>1, <1>2, <1>3, <1>4, <1>5, <1>6, <1>7, <1>8 DEF Next, Process, Walking, Environment

(* The object of a provenance drop is claimed by no node of its own plan:  *)
(* whatever would claim it comes later.                                    *)
LEMMA NotClaimedByLater ==
  ASSUME FrontierInv, pc = "attempt", current.kind = "drop_concurrently",
         Claimed(current.object)
  PROVE  current.object \in PriorClaims
<1>1. cur \in Incomplete /\ cur \in Node
  BY InHandIsFirst DEF NodePc, Incomplete
<1>2. SUFFICES ASSUME NEW m \in Node, Plan[m].object = current.object,
                      ClaimingNode(Plan[m].kind, state[m], m \in dispatched)
               PROVE  FALSE
  BY DEF Claimed
<1>3. cur < m
  BY <1>1, <1>2, DropFacts DEF current, ClaimingNode
<1>4. m \in Incomplete
  BY <1>2 DEF ClaimingNode, Incomplete, Done, CompleteStates
<1>5. state[m] = "PENDING" /\ m \notin dispatched
  BY <1>1, <1>3, <1>4 DEF FrontierInv, Frontier
<1>6. QED
  BY <1>2, <1>5 DEF ClaimingNode

(* No step makes somebody else's index look like ours.                     *)
LEMMA ForeignStep ==
  ASSUME OthersKnown, OthersBehave, ForeignInv, DecisionInv', FrontierInv', Next
  PROVE  ForeignInv'
<1>0. /\ TypeInv /\ RecordInv /\ FrontierInv /\ DecisionInv
      /\ pc \in NodePc => cur \in Node /\ current.object \in Object
      /\ \A n \in Node : Plan[n].object \in Object
  BY PlanNodeType DEF ForeignInv, DecisionInv, FrontierInv, RecordInv, TypeInv, PlanNode
<1>1. pc' = "mark" => current.kind \in ClaimingKinds /\ cur' = cur
  BY <1>0, GapLabels DEF ForeignInv
<1>2. ASSUME NEW o \in Object, Commenting(o)
      PROVE  /\ cat[o].marker \notin {"foreign", "unreadable"}
             /\ Others(o) => pc = "mark" /\ o = current.object
  <2>1. CASE pc = "mark"
    BY <1>2, <2>1 DEF Commenting, MayMark
  <2>2. CASE pc = "comment"
    <3>1. adopt /\ current.kind \in DestructiveKinds /\ Decided /\ o = current.object
      BY <1>0, <1>2, <2>2 DEF DecisionInv, Commenting, NodePc
    <3>2. current.auth = "provenance" /\ cat[o].marker = "absent"
      BY <2>2, <3>1 DEF Decided
    <3>3. current.kind = "drop_concurrently"
      BY <1>0, <2>2, <3>1, <3>2, DropFacts DEF NodePc, current, DestructiveKinds
    <3>4. QED
      BY <2>2, <3>1, <3>2, <3>3 DEF ForeignInv
  <2>3. CASE pc = "cleanup_comment"
    BY <1>0, <1>2, <2>3 DEF Commenting, ForeignInv, DecisionInv
  <2>4. QED
    BY <1>2, <2>1, <2>2, <2>3 DEF Commenting
<1>3. ASSUME NEW o \in Object, Others(o)'
      PROVE  /\ Exists(cat'[o]) /\ o \notin PriorClaims
             /\ Usable(cat'[o]) \/ cat'[o].marker \in {"foreign", "unreadable"}
  BY <1>2, <1>3, OthersSteps DEF ForeignInv, OthersBehave, Exists, Usable
<1>4. ASSUME NEW n \in Node, Plan[n].auth = "leftover", Others(Plan[n].object)'
      PROVE  FALSE
  BY <1>0, <1>4, OthersSteps DEF ForeignInv, OthersKnown
<1>5. ASSUME NEW n \in Incomplete', Plan[n].kind = "drop_concurrently",
             Plan[n].auth = "provenance", Others(Plan[n].object)'
      PROVE  cat'[Plan[n].object].marker # "ours"
  <2> DEFINE o == Plan[n].object
  <2>1. n \in Incomplete /\ n \in Node /\ o \in Object
    BY <1>0, <1>5, IncompleteSteps DEF Incomplete
  <2>2. ASSUME Others(o), Commenting(o) PROVE FALSE
    <3>1. pc = "mark" /\ o = current.object /\ current.kind \in ClaimingKinds /\ cur \in Node
      BY <1>0, <1>2, <2>1, <2>2 DEF ForeignInv, NodePc
    <3>2. n < cur
      BY <1>5, <2>1, <3>1, DropFacts DEF current
    <3>3. cur <= n
      BY <1>0, <2>1, <3>1, InHandIsFirst DEF NodePc
    <3>4. QED
      BY <2>1, <3>1, <3>2, <3>3 DEF Node
  <2>3. QED
    BY <1>5, <2>1, <2>2, OthersSteps DEF ForeignInv
<1>6. ASSUME pc' \in {"run", "comment", "exec"}, current'.kind = "drop_concurrently",
             Others(current.object)'
      PROVE  FALSE
  <2>1. cur' = cur /\ current' = current
    BY <1>0, <1>6, GapLabels DEF current
  <2>2. CASE pc \in {"run", "comment", "exec"}
    <3>1. ~Others(current.object) /\ InGap /\ current.object \in Object
      BY <1>0, <1>6, <2>1, <2>2 DEF ForeignInv, InGap, DestructiveKinds, NodePc
    <3>2. Others(current.object)'
      BY <1>6
    <3>3. cat'[current.object].maker = "other"
      BY <2>1, <3>2 DEF Others
    <3>4. QED
      BY <3>1, <3>3, OthersSteps DEF Others
  <2>3. CASE pc = "attempt" /\ cat' = cat /\ Authorize(current, cat) # "halt"
    <3>1. Others(current.object) /\ cur \in Incomplete /\ cur \in Node /\ current.object \in Object
      BY <1>0, <1>6, <2>1, <2>3, InHandIsFirst DEF Others, NodePc
    <3>2. current.auth \in {"provenance", "leftover"} /\ current.kind = "drop_concurrently"
      BY <1>6, <2>1, <3>1, DropFacts DEF current
    <3>3. CASE current.auth = "leftover"
      BY <3>1, <3>3 DEF ForeignInv, current
    <3>4. CASE current.auth = "provenance"
      <4>1. cat[current.object].marker # "ours" /\ current.object \notin PriorClaims
        BY <3>1, <3>2, <3>4 DEF ForeignInv, current
      <4>2. Claimed(current.object)
        BY <2>3, <3>4, <4>1 DEF Authorize, ProvenanceVerdict, DecideProvenanceDrop
      <4>3. QED
        BY <1>0, <2>3, <3>2, <4>1, <4>2, NotClaimedByLater
    <3>5. QED
      BY <3>2, <3>3, <3>4
  <2>4. QED
    BY <1>0, <1>6, <2>1, <2>2, <2>3, GapLabels DEF DestructiveKinds
<1>7. ASSUME pc' \in {"cleanup_comment", "cleanup_drop"}, Others(target)'
      PROVE  FALSE
  <2>1. CASE pc \in {"cleanup_comment", "cleanup_drop"} /\ target' = target
    <3>1. InGap /\ ~Others(target) /\ target \in Object /\ cat'[target].maker = "other"
      BY <1>0, <1>7, <2>1 DEF ForeignInv, InGap, TypeInv, Others
    <3>2. QED
      BY <3>1, OthersSteps DEF Others
  <2>2. CASE target' \in Wreck /\ cat' = cat /\ ProvenanceVerdict(target', cat) # "halt"
    <3>1. cat[target'].marker \in {"ours", "absent"}
      BY <2>2 DEF ProvenanceVerdict, DecideProvenanceDrop
    <3>2. target' \in Object /\ ~Usable(cat[target']) /\ cat[target'].maker = "other"
      BY <1>7, <2>2 DEF Wreck, Others
    <3>3. QED
      BY <3>1, <3>2 DEF ForeignInv, Others
  <2>3. QED
    BY <1>0, <1>7, <2>1, <2>2, GapLabels
<1>8. QED
  BY <1>1, <1>3, <1>4, <1>5, <1>6, <1>7 DEF ForeignInv, current

(* And from the first state on.                                            *)
LEMMA ForeignInvariant ==
  ASSUME OthersKnown, OthersBehave
  PROVE  Spec => []ForeignInv
<1>1. Init => ForeignInv
  <2> SUFFICES ASSUME Init PROVE ForeignInv
    OBVIOUS
  <2>1. DecisionInv /\ FrontierInv
    BY InitType, InitFrontier DEF Init, DecisionInv, NodePc
  <2>2. \A n \in Node : Plan[n].object \in Object
    BY DEF PlanNode
  <2>3. QED
    BY <2>1, <2>2 DEF Init, ForeignInv, OthersKnown, Others, Incomplete
<1>2. ForeignInv /\ DecisionInv' /\ FrontierInv' /\ [Next]_vars => ForeignInv'
  <2> SUFFICES ASSUME ForeignInv, DecisionInv', FrontierInv', [Next]_vars PROVE ForeignInv'
    OBVIOUS
  <2>1. CASE UNCHANGED vars
    BY <2>1 DEF vars, store, nodes, walk, scan, ForeignInv, Others, Incomplete, Done, current
  <2>2. CASE Next
    BY <2>2, ForeignStep
  <2>3. QED
    BY <2>1, <2>2
<1>3. Spec => []DecisionInv
  BY DecisionInvariant DEF OthersBehave
<1>4. QED
  BY <1>1, <1>2, <1>3, FrontierInvariant, PTL DEF Spec

(* Given that, no step of the tool destroys an index somebody else made,   *)
(* but the operator's own drop of the whole tree: neither a node's drop,   *)
(* nor resume's cleanup, nor a marker written over another's index for a   *)
(* later drop to rely on (Authorize, markObject, recheck, dropOwnedIndex). *)
THEOREM OthersAreLeftAlone ==
  ASSUME OthersKnown, OthersBehave
  PROVE  Spec => NothingForeignDestroyed
<1> DEFINE Step == Process => \A o \in Object : cat[o].maker = "other" /\ cat'[o].maker # "other" =>
                                pc = "exec" /\ current.auth = "explicit"
<1>1. ForeignInv /\ [Next]_vars => [Step]_vars
  <2> SUFFICES ASSUME ForeignInv, Process, NEW o \in Object, Others(o), cat'[o].maker # "other"
               PROVE  pc = "exec" /\ current.auth = "explicit"
    BY DEF Others
  <2>0. /\ TypeInv /\ cat \in Catalog /\ Exists(cat[o])
        /\ pc \in NodePc => cur \in Node
    BY DEF ForeignInv, DecisionInv, TypeInv, TypeOK
  <2>1. cat' # cat /\ ~Kept(cat[o], cat'[o]) /\ ~Made(cat[o], cat'[o])
    BY <2>0 DEF Others, Kept, Made
  <2>2. ~\E q \in Object : Commenting(q)
    BY <2>0 DEF Commenting, Others, Catalog, Index
  <2>3. CASE pc = "exec" /\ Effect(current, cat')
    <3>1. Hurts(current, o)
      BY <2>1, <2>3 DEF Effect
    <3>2. current.kind = "drop_partitioned"
      BY <2>3, <3>1 DEF Hurts, ForeignInv
    <3>3. QED
      BY <2>0, <2>3, <3>2, DropFacts DEF current, NodePc
  <2>4. CASE pc = "cleanup_drop" /\ Effect(CleanupStatement, cat')
    BY <2>1, <2>4 DEF Effect, Hurts, CleanupStatement, ForeignInv
  <2>5. QED
    BY <2>0, <2>1, <2>2, <2>3, <2>4, ToolSteps DEF Sent
<1>2. QED
  BY <1>1, ForeignInvariant, PTL DEF Spec, NothingForeignDestroyed

=============================================================================
