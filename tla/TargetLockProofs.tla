---------------------------- MODULE TargetLockProofs ----------------------------
(***************************************************************************)
(* The types of TargetLock, that the lock, while no lifetime runs out and  *)
(* no session is lost, lets one command at a time at its target, and that  *)
(* no run is left RUNNING when all commands have returned.                 *)
(***************************************************************************)
EXTENDS TargetLock, SequenceTheorems, TLAPS

(* A run with a field set is a run, and the other runs stay as they are    *)
(* (fileStore.AcquireLease, TransitionRun: one record rewritten).          *)
LEMMA RunsWith ==
  ASSUME NEW s \in Seq(Run), NEW i \in Nat, NEW r, i \in 1..Len(s) => r \in Run
  PROVE  [s EXCEPT ![i] = r] \in Seq(Run) /\ Len([s EXCEPT ![i] = r]) = Len(s)
<1> DEFINE t == [s EXCEPT ![i] = r]
<1>1. s \in [1..Len(s) -> Run] /\ Len(s) \in Nat
  OBVIOUS
<1>2. t \in [1..Len(s) -> Run]
  BY <1>1
<1>3. t \in Seq(Run)
  BY <1>1, <1>2, IsASeq
<1>4. Len(t) = Len(s)
  BY <1>1, <1>2, <1>3
<1> QED  BY <1>3, <1>4

(* A lease taken leaves runs with the shape they had (AcquireLease).       *)
LEMMA LeasedIsTyped ==
  ASSUME runs \in Seq(Run), NEW i \in Nat, NEW p \in Process
  PROVE  Leased(i, p) \in Seq(Run) /\ Len(Leased(i, p)) = Len(runs)
<1> DEFINE r == [runs[i] EXCEPT !.holder = p, !.fresh = TRUE]
<1>0. i \in 1..Len(runs) => runs[i] \in Run
  OBVIOUS
<1>1. i \in 1..Len(runs) => r \in Run
  BY <1>0 DEF Run
<1>2. Leased(i, p) = [runs EXCEPT ![i] = r]
  BY DEF Leased
<1> QED  BY <1>1, <1>2, RunsWith

(* A status written leaves runs with the shape they had (TransitionRun).   *)
LEMMA StatusIsTyped ==
  ASSUME runs \in Seq(Run), NEW i \in Nat, NEW v \in RunStatus
  PROVE  /\ [runs EXCEPT ![i].status = v] \in Seq(Run)
         /\ Len([runs EXCEPT ![i].status = v]) = Len(runs)
<1> DEFINE r == [runs[i] EXCEPT !.status = v]
<1>0. i \in 1..Len(runs) => runs[i] \in Run
  OBVIOUS
<1>1. i \in 1..Len(runs) => r \in Run
  BY <1>0 DEF Run
<1> QED  BY <1>1, RunsWith

(* A lease given up or run out does too (ReleaseLease).                    *)
LEMMA ReleasedIsTyped ==
  ASSUME runs \in Seq(Run), NEW i \in Nat
  PROVE  /\ [runs EXCEPT ![i].holder = "nobody", ![i].fresh = FALSE] \in Seq(Run)
         /\ Len([runs EXCEPT ![i].holder = "nobody", ![i].fresh = FALSE]) = Len(runs)
         /\ [runs EXCEPT ![i].fresh = FALSE] \in Seq(Run)
         /\ Len([runs EXCEPT ![i].fresh = FALSE]) = Len(runs)
<1> DEFINE r == [runs[i] EXCEPT !.holder = "nobody", !.fresh = FALSE]
           q == [runs[i] EXCEPT !.fresh = FALSE]
<1>0. i \in 1..Len(runs) => runs[i] \in Run
  OBVIOUS
<1>1. i \in 1..Len(runs) => r \in Run /\ q \in Run
  BY <1>0 DEF Run
<1>2. [runs EXCEPT ![i].holder = "nobody", ![i].fresh = FALSE] = [runs EXCEPT ![i] = r]
  OBVIOUS
<1> QED  BY <1>1, <1>2, RunsWith

(* And so does every lease running out at once (the lease TTL).            *)
LEMMA StaleIsTyped ==
  ASSUME runs \in Seq(Run)
  PROVE  Stale \in Seq(Run) /\ Len(Stale) = Len(runs)
<1>1. DOMAIN runs = 1..Len(runs) /\ Len(runs) \in Nat /\ runs \in [1..Len(runs) -> Run]
  OBVIOUS
<1>2. Stale \in [1..Len(runs) -> Run]
  BY <1>1 DEF Stale, Run
<1>3. Stale \in Seq(Run)
  BY <1>1, <1>2, IsASeq
<1> QED  BY <1>1, <1>2, <1>3

-----------------------------------------------------------------------------
(* Types *)

(* A command that is about to write a status has one to write.             *)
Settled == \A p \in Process : cmd[p].at \in {"finish", "halt"} => cmd[p].to \in RunStatus

TypeInv == TypeOK /\ Settled

(* One command goes from place to place and the others stay.               *)
Moved(p, at) ==
  /\ cmd' \in [Process -> Cmd] /\ Settled'
  /\ cmd'[p].at = at /\ cmd'[p].run \in 0..Len(runs')
  /\ \A q \in Process \ {p} : cmd'[q] = cmd[q]

(* However a command goes on, ends or gives up, it has moved.              *)
LEMMA GoesIsMoved ==
  ASSUME TypeInv, NEW p \in Process, NEW at \in Place \ {"finish", "halt"},
         Len(runs') \in Nat, Len(runs) <= Len(runs'),
         \/ Goes(p, at)
         \/ at = "done" /\ Ends(p)
         \/ at = "unlock" /\ Abandons(p)
  PROVE  Moved(p, at)
<1>1. cmd \in [Process -> Cmd] /\ cmd[p] \in Cmd /\ cmd[p].run \in 0..Len(runs)
  BY DEF TypeInv, TypeOK
<1>2. PICK r \in Cmd : cmd' = [cmd EXCEPT ![p] = r] /\ r.at = at /\ r.run \in {0, cmd[p].run}
  <2>1. CASE Goes(p, at)
    <3> DEFINE r == [cmd[p] EXCEPT !.at = at]
    <3>1. r \in Cmd /\ r.at = at /\ r.run = cmd[p].run
      BY <1>1 DEF Cmd
    <3> QED  BY <2>1, <3>1 DEF Goes
  <2>2. CASE at = "done" /\ Ends(p)
    <3>1. Idle \in Cmd /\ Idle.at = "done" /\ Idle.run = 0
      BY DEF Idle, Cmd, Place
    <3> QED  BY <2>2, <3>1 DEF Ends
  <2>3. CASE at = "unlock" /\ Abandons(p)
    <3> DEFINE r == [Idle EXCEPT !.at = "unlock"]
    <3>1. r \in Cmd /\ r.at = "unlock" /\ r.run = 0
      BY DEF Idle, Cmd, Place
    <3> QED  BY <2>3, <3>1 DEF Abandons
  <2> QED  BY <2>1, <2>2, <2>3
<1>3. cmd' \in [Process -> Cmd] /\ cmd'[p] = r /\ \A q \in Process \ {p} : cmd'[q] = cmd[q]
  BY <1>1, <1>2
<1>4. Settled'
  BY <1>2, <1>3 DEF TypeInv, Settled
<1>5. cmd'[p].run \in 0..Len(runs')
  <2>1. Len(runs) \in Nat
    BY DEF TypeInv, TypeOK
  <2> QED  BY <1>1, <1>2, <1>3, <2>1
<1> QED  BY <1>2, <1>3, <1>4, <1>5 DEF Moved

(* A command that moves while lock and runs keep their shape keeps all of  *)
(* the types.                                                              *)
LEMMA MovedIsTyped ==
  ASSUME TypeInv, NEW p \in Process, NEW at, Moved(p, at),
         lock' \in Lock, runs' \in Seq(Run), Len(runs) <= Len(runs'),
         fenced' \subseteq Process, beat' \subseteq Process, ahead' \subseteq Process,
         UNCHANGED backend, faults' \in 0..MaxFaults,
         lapsed' \in BOOLEAN, halted' \in BOOLEAN
  PROVE  TypeInv'
<1>1. \A q \in Process : cmd'[q].run \in 0..Len(runs')
  <2>1. SUFFICES ASSUME NEW q \in Process \ {p} PROVE cmd'[q].run \in 0..Len(runs')
    BY DEF Moved
  <2>2. cmd'[q].run \in 0..Len(runs) /\ Len(runs) \in Nat /\ Len(runs') \in Nat
    BY DEF Moved, TypeInv, TypeOK
  <2> QED  BY <2>2
<1> QED  BY <1>1 DEF Moved, TypeInv, TypeOK

(* The two values a lock is given are locks (TryLock, Unlock).             *)
LEMMA LockIsTyped == NoLock \in Lock /\ \A p \in Process : LockOf(p) \in Lock
  BY DEF NoLock, LockOf, Lock

NotesRun(p, at, n) == cmd' = [cmd EXCEPT ![p].at = at, ![p].run = n]
NotesFrom(p, at, n, v) == cmd' = [cmd EXCEPT ![p].at = at, ![p].run = n, ![p].from = v]
NotesTo(p, at, v) == cmd' = [cmd EXCEPT ![p].at = at, ![p].to = v]

(* And so it has when it notes which run it is at, what that run was found *)
(* as, or what the run is to become (execute, findOrphans, selectRun).     *)
LEMMA NotesIsMoved ==
  ASSUME TypeInv, NEW p \in Process, NEW at \in Place,
         Len(runs') \in Nat, Len(runs) <= Len(runs'),
         NEW n \in 0..Len(runs'), NEW v \in RunStatus,
         \/ /\ at \notin {"finish", "halt"}
            /\ NotesRun(p, at, n) \/ NotesFrom(p, at, n, v)
         \/ NotesTo(p, at, v)
  PROVE  Moved(p, at)
<1>1. /\ cmd \in [Process -> Cmd] /\ cmd[p] \in Cmd /\ cmd[p].run \in 0..Len(runs)
      /\ Len(runs) \in Nat /\ n \in Nat
  BY DEF TypeInv, TypeOK
<1>2. PICK r \in Cmd : /\ cmd' = [cmd EXCEPT ![p] = r] /\ r.at = at /\ r.run \in {n, cmd[p].run}
                       /\ at \in {"finish", "halt"} => r.to = v
  <2>1. CASE NotesRun(p, at, n) /\ at \notin {"finish", "halt"}
    <3> DEFINE r == [cmd[p] EXCEPT !.at = at, !.run = n]
    <3>1. r \in Cmd /\ r.at = at /\ r.run = n
      BY <1>1 DEF Cmd
    <3> QED  BY <2>1, <3>1 DEF NotesRun
  <2>2. CASE NotesFrom(p, at, n, v) /\ at \notin {"finish", "halt"}
    <3> DEFINE r == [cmd[p] EXCEPT !.at = at, !.run = n, !.from = v]
    <3>1. r \in Cmd /\ r.at = at /\ r.run = n
      BY <1>1 DEF Cmd
    <3> QED  BY <2>2, <3>1 DEF NotesFrom
  <2>3. CASE NotesTo(p, at, v)
    <3> DEFINE r == [cmd[p] EXCEPT !.at = at, !.to = v]
    <3>1. r \in Cmd /\ r.at = at /\ r.run = cmd[p].run /\ r.to = v
      BY <1>1 DEF Cmd
    <3> QED  BY <2>3, <3>1 DEF NotesTo
  <2> QED  BY <2>1, <2>2, <2>3
<1>3. cmd' \in [Process -> Cmd] /\ cmd'[p] = r /\ \A q \in Process \ {p} : cmd'[q] = cmd[q]
  BY <1>1, <1>2
<1>4. Settled'
  BY <1>2, <1>3 DEF TypeInv, Settled
<1>5. cmd'[p].run \in 0..Len(runs')
  BY <1>1, <1>2, <1>3
<1> QED  BY <1>2, <1>3, <1>4, <1>5 DEF Moved

(* The calls about the lock keep the types, and so do the calls about      *)
(* leases and runs (TryLock, Unlock, Refresh; CreateRun, TransitionRun).   *)
LEMMA CommandIsTyped ==
  ASSUME TypeInv, NEW p \in Process, Command(p)
  PROVE  TypeInv'
<1>t. /\ lock \in Lock /\ runs \in Seq(Run) /\ Len(runs) \in Nat
      /\ fenced \subseteq Process /\ beat \subseteq Process /\ ahead \subseteq Process
      /\ faults \in 0..MaxFaults /\ lapsed \in BOOLEAN /\ halted \in BOOLEAN
      /\ cmd \in [Process -> Cmd] /\ cmd[p] \in Cmd /\ cmd[p].run \in 0..Len(runs)
      /\ cmd[p].run \in Nat /\ DOMAIN runs = 1..Len(runs)
  BY DEF TypeInv, TypeOK
<1> DEFINE plain == Place \ {"finish", "halt"}
<1>p. /\ {"lock", "locked", "fill", "exists", "takeover", "readback", "unlock", "remove"} \subseteq plain
      /\ {"done", "choose", "take", "cleanup", "lease", "walking", "release"} \subseteq plain
  BY DEF Place, HoldingPlace
<1>q. "lease" \in Place /\ "mark" \in Place /\ "adopt" \in Place /\ "halt" \in Place /\ "finish" \in Place
  BY DEF Place, HoldingPlace
<1> HIDE DEF plain
<1>stay. ASSUME UNCHANGED runs, UNCHANGED quiet, lock' \in Lock,
                NEW at \in plain,
                \/ Goes(p, at)
                \/ at = "done" /\ Ends(p)
                \/ at = "unlock" /\ Abandons(p)
         PROVE  TypeInv'
  <2>1. Moved(p, at)
    BY <1>stay, <1>t, GoesIsMoved DEF plain
  <2> QED  BY <1>stay, <1>t, <2>1, MovedIsTyped DEF quiet
<1>wrote. ASSUME runs' \in Seq(Run), Len(runs') = Len(runs), UNCHANGED lock, UNCHANGED quiet,
                 NEW at \in plain, Goes(p, at)
          PROVE  TypeInv'
  <2>1. Moved(p, at)
    BY <1>wrote, <1>t, GoesIsMoved DEF plain
  <2> QED  BY <1>wrote, <1>t, <2>1, MovedIsTyped DEF quiet
<1>left. ASSUME runs' \in Seq(Run), Len(runs') = Len(runs), UNCHANGED lock, UNCHANGED quiet,
                Abandons(p)
         PROVE  TypeInv'
  <2>1. Moved(p, "unlock")
    BY <1>left, <1>t, <1>p, GoesIsMoved DEF plain
  <2> QED  BY <1>left, <1>t, <2>1, MovedIsTyped DEF quiet
<1>1. CASE PriorRuns(p)
  BY <1>1, <1>t, <1>p, <1>stay, LockIsTyped DEF PriorRuns
<1>2. CASE TryAdvisoryLock(p)
  BY <1>2, <1>t, <1>p, <1>stay, LockIsTyped DEF TryAdvisoryLock
<1>3. CASE CreateLock(p)
  <2>1. [NoLock EXCEPT !.kind = "blank"] \in Lock
    BY DEF NoLock, Lock
  <2> QED  BY <1>3, <1>t, <1>p, <1>stay, LockIsTyped, <2>1 DEF CreateLock
<1>4. CASE FillLock(p)
  BY <1>4, <1>t, <1>p, <1>stay, LockIsTyped DEF FillLock
<1>5. CASE ReadLock(p)
  BY <1>5, <1>t, <1>p, <1>stay, LockIsTyped DEF ReadLock
<1>6. CASE TakeOver(p)
  BY <1>6, <1>t, <1>p, <1>stay, LockIsTyped DEF TakeOver
<1>7. CASE ReadBack(p)
  BY <1>7, <1>t, <1>p, <1>stay, LockIsTyped DEF ReadBack
<1>8. CASE ReadToUnlock(p)
  BY <1>8, <1>t, <1>p, <1>stay, LockIsTyped DEF ReadToUnlock
<1>9. CASE RemoveLock(p)
  BY <1>9, <1>t, <1>p, <1>stay, LockIsTyped DEF RemoveLock
<1>10. CASE CreateRun(p)
  <2>1. CASE Abandons(p) /\ UNCHANGED runs
    BY <1>10, <1>t, <1>p, <1>stay, <2>1 DEF CreateRun
  <2>2. CASE ~(Abandons(p) /\ UNCHANGED runs)
    <3> DEFINE r == [status |-> "RUNNING", holder |-> "nobody", fresh |-> FALSE]
    <3>1. runs' = Append(runs, r) /\ UNCHANGED lock /\ UNCHANGED quiet
      BY <1>10, <2>2 DEF CreateRun
    <3>2. NotesRun(p, "lease", Len(runs) + 1)
      BY <1>10, <2>2 DEF CreateRun, NotesRun
    <3>3. r \in Run
      BY DEF Run, RunStatus
    <3>4. runs' \in Seq(Run) /\ Len(runs') = Len(runs) + 1
      BY <1>t, <3>1, <3>3
    <3>5. Moved(p, "lease")
      BY <1>t, <1>q, <3>2, <3>4, NotesIsMoved DEF RunStatus
    <3> QED  BY <1>t, <3>1, <3>4, <3>5, MovedIsTyped DEF quiet
  <2> QED  BY <2>1, <2>2
<1>11. CASE FindOrphans(p)
  <2>1. CASE Goes(p, "choose") \/ Abandons(p)
    BY <1>11, <1>t, <1>p, <1>stay, <2>1 DEF FindOrphans
  <2>2. CASE ~(Goes(p, "choose") \/ Abandons(p))
    <3>1. PICK i \in DOMAIN runs : NotesRun(p, "mark", i)
      BY <1>11, <2>2 DEF FindOrphans, NotesRun
    <3>2. i \in 0..Len(runs) /\ UNCHANGED <<lock, runs, quiet>>
      <4>1. UNCHANGED <<lock, runs, quiet>>
        BY <1>11 DEF FindOrphans
      <4> QED  BY <1>t, <4>1
    <3>3. Moved(p, "mark")
      BY <1>t, <1>q, <3>1, <3>2, NotesIsMoved DEF RunStatus
    <3> QED  BY <1>t, <3>2, <3>3, MovedIsTyped DEF quiet
  <2> QED  BY <2>1, <2>2
<1>12. CASE MarkOrphaned(p)
  <2>1. CASE UNCHANGED runs /\ Abandons(p)
    BY <1>12, <1>t, <1>p, <1>stay, <2>1 DEF MarkOrphaned
  <2>2. CASE ~(UNCHANGED runs /\ Abandons(p))
    <3>1. runs' = [runs EXCEPT ![cmd[p].run].status = "ORPHANED"] /\ Goes(p, "locked")
      BY <1>12, <2>2 DEF MarkOrphaned
    <3>2. runs' \in Seq(Run) /\ Len(runs') = Len(runs)
      BY <1>t, <3>1, StatusIsTyped DEF RunStatus
    <3>3. UNCHANGED lock /\ UNCHANGED quiet
      BY <1>12 DEF MarkOrphaned
    <3>4. "locked" \in plain /\ Goes(p, "locked")
      BY <1>p, <3>1
    <3> QED  BY <1>wrote, <3>2, <3>3, <3>4
  <2> QED  BY <2>1, <2>2
<1>13. CASE ChooseRun(p)
  <2>1. CASE Abandons(p)
    BY <1>13, <1>t, <1>p, <1>stay, <2>1 DEF ChooseRun
  <2>2. CASE ~Abandons(p)
    <3>1. PICK i \in Resumable : NotesFrom(p, "adopt", i, runs[i].status)
      BY <1>13, <2>2 DEF ChooseRun, NotesFrom
    <3>2. i \in 0..Len(runs) /\ UNCHANGED <<lock, runs, quiet>> /\ runs[i] \in Run
      <4>1. UNCHANGED <<lock, runs, quiet>>
        BY <1>13 DEF ChooseRun
      <4>2. i \in DOMAIN runs
        BY <3>1 DEF Resumable
      <4> QED  BY <1>t, <4>1, <4>2
    <3>3. runs[i].status \in RunStatus
      BY <3>2 DEF Run
    <3>4. Moved(p, "adopt")
      BY <1>t, <1>q, <3>1, <3>2, <3>3, NotesIsMoved
    <3> QED  BY <1>t, <3>2, <3>4, MovedIsTyped DEF quiet
  <2> QED  BY <2>1, <2>2
<1>14. CASE AdoptOrphan(p)
  <2>1. CASE UNCHANGED runs /\ Abandons(p)
    BY <1>14, <1>t, <1>p, <1>stay, <2>1 DEF AdoptOrphan
  <2>2. CASE ~(UNCHANGED runs /\ Abandons(p))
    <3>1. runs' = [runs EXCEPT ![cmd[p].run].status = "RUNNING"] /\ Goes(p, "take")
      BY <1>14, <2>2 DEF AdoptOrphan
    <3>2. runs' \in Seq(Run) /\ Len(runs') = Len(runs)
      BY <1>t, <3>1, StatusIsTyped DEF RunStatus
    <3>3. UNCHANGED lock /\ UNCHANGED quiet
      BY <1>14 DEF AdoptOrphan
    <3>4. "take" \in plain /\ Goes(p, "take")
      BY <1>p, <3>1
    <3> QED  BY <1>wrote, <3>2, <3>3, <3>4
  <2> QED  BY <2>1, <2>2
<1>lease. ASSUME NEW next \in plain, TakesLease(p, next), UNCHANGED <<lock, quiet>>
          PROVE  TypeInv'
  <2>1. Leased(cmd[p].run, p) \in Seq(Run) /\ Len(Leased(cmd[p].run, p)) = Len(runs)
    BY <1>t, LeasedIsTyped
  <2>2. CASE runs' = Leased(cmd[p].run, p) /\ Goes(p, next)
    <3>1. runs' \in Seq(Run) /\ Len(runs') = Len(runs) /\ Goes(p, next)
      BY <2>1, <2>2
    <3>2. UNCHANGED lock /\ UNCHANGED quiet
      BY <1>lease
    <3> QED  BY <1>lease, <1>wrote, <3>1, <3>2
  <2>3. CASE UNCHANGED runs /\ Abandons(p)
    BY <1>lease, <1>t, <1>p, <1>stay, <2>3
  <2> QED  BY <1>lease, <2>2, <2>3 DEF TakesLease
<1>15. CASE TakeLease(p)
  BY <1>15, <1>p, <1>lease DEF TakeLease
<1>16. CASE AcquireLease(p)
  BY <1>16, <1>p, <1>lease DEF AcquireLease
<1>17. CASE Cleanup(p)
  <2>1. CASE Goes(p, "lease") /\ UNCHANGED halted
    BY <1>17, <1>t, <1>p, <1>stay, <2>1 DEF Cleanup, quiet
  <2>2. CASE ~(Goes(p, "lease") /\ UNCHANGED halted)
    <3>1. NotesTo(p, "halt", "FAILED") /\ halted' = TRUE
      BY <1>17, <2>2 DEF Cleanup, NotesTo
    <3>2. UNCHANGED <<backend, lock, runs, fenced, beat, ahead, faults, lapsed>>
      BY <1>17 DEF Cleanup
    <3>3. Moved(p, "halt")
      BY <1>t, <1>q, <3>1, <3>2, NotesIsMoved DEF RunStatus
    <3> QED  BY <1>t, <3>1, <3>2, <3>3, MovedIsTyped
  <2> QED  BY <2>1, <2>2
<1>18. CASE EndWalk(p)
  <2>1. PICK to \in RunStatus : NotesTo(p, "finish", to)
    BY <1>18 DEF EndWalk, RunStatus, NotesTo
  <2>2. UNCHANGED <<lock, runs, quiet>>
    BY <1>18 DEF EndWalk
  <2>3. Moved(p, "finish")
    BY <1>t, <1>q, <2>1, <2>2, NotesIsMoved
  <2> QED  BY <1>t, <2>2, <2>3, MovedIsTyped DEF quiet
<1>19. CASE Finish(p)
  <2>1. cmd[p].to \in RunStatus
    BY <1>19 DEF Finish, TypeInv, Settled
  <2>2. runs' \in Seq(Run) /\ Len(runs') = Len(runs)
    BY <1>19, <1>t, <2>1, StatusIsTyped DEF Finish
  <2>3. UNCHANGED lock /\ UNCHANGED quiet /\ (Goes(p, "release") \/ Abandons(p))
    BY <1>19 DEF Finish
  <2> QED  BY <1>p, <1>wrote, <1>left, <2>2, <2>3
<1>20. CASE ReleaseLease(p)
  <2>1. runs' \in Seq(Run) /\ Len(runs') = Len(runs)
    BY <1>20, <1>t, ReleasedIsTyped DEF ReleaseLease
  <2> QED  BY <1>20, <1>left, <2>1 DEF ReleaseLease
<1> QED
  BY <1>1, <1>2, <1>3, <1>4, <1>5, <1>6, <1>7, <1>8, <1>9, <1>10, <1>11, <1>12, <1>13,
     <1>14, <1>15, <1>16, <1>17, <1>18, <1>19, <1>20 DEF Command

(* A heartbeat keeps the types (startHeartbeat's loop).                    *)
LEMMA HeartbeatIsTyped ==
  ASSUME TypeInv, NEW p \in Process, Heartbeat(p)
  PROVE  TypeInv'
<1>t. /\ lock \in Lock /\ runs \in Seq(Run) /\ Len(runs) \in Nat
      /\ fenced \subseteq Process /\ beat \subseteq Process /\ ahead \subseteq Process
      /\ faults \in 0..MaxFaults /\ lapsed \in BOOLEAN /\ halted \in BOOLEAN
      /\ cmd \in [Process -> Cmd] /\ cmd[p].run \in Nat
  BY DEF TypeInv, TypeOK, Cmd
<1>1. CASE ReadToRefresh(p)
  <2>1. faults' \in 0..MaxFaults
    BY <1>1, <1>t, BoundAssumption DEF ReadToRefresh, Fault
  <2>2. fenced' \subseteq Process /\ beat' \subseteq Process /\ ahead' \subseteq Process
    BY <1>1, <1>t DEF ReadToRefresh
  <2> QED  BY <1>1, <2>1, <2>2 DEF ReadToRefresh, TypeInv, TypeOK, Settled
<1>2. CASE Renew(p)
  <2>1. runs' \in Seq(Run) /\ Len(runs') = Len(runs)
    BY <1>2, <1>t, LeasedIsTyped DEF Renew
  <2>2. fenced' \subseteq Process /\ beat' \subseteq Process /\ ahead' \subseteq Process
    BY <1>2, <1>t DEF Renew
  <2>3. lock' \in Lock
    BY <1>2, <1>t, LockIsTyped DEF Renew
  <2> QED  BY <1>2, <2>1, <2>2, <2>3 DEF Renew, TypeInv, TypeOK, Settled
<1> QED  BY <1>1, <1>2 DEF Heartbeat

(* So do expiries, crashes and lost sessions.                              *)
LEMMA FaultIsTyped ==
  ASSUME TypeInv, ExpireLock \/ ExpireLease \/ LoseSession \/ \E p \in Process : Crash(p)
  PROVE  TypeInv'
<1>t. /\ lock \in Lock /\ runs \in Seq(Run) /\ Len(runs) \in Nat
      /\ fenced \subseteq Process /\ beat \subseteq Process /\ ahead \subseteq Process
      /\ faults \in 0..MaxFaults /\ lapsed \in BOOLEAN /\ halted \in BOOLEAN
      /\ cmd \in [Process -> Cmd]
  BY DEF TypeInv, TypeOK
<1>f. Fault => faults' \in 0..MaxFaults
  BY <1>t, BoundAssumption DEF Fault
<1>1. CASE ExpireLock
  <2>1. runs' \in Seq(Run) /\ Len(runs') = Len(runs)
    BY <1>1, <1>t, StaleIsTyped DEF ExpireLock
  <2>2. lock' \in Lock
    BY <1>1, <1>t DEF ExpireLock, Lock
  <2> QED  BY <1>1, <1>f, <2>1, <2>2 DEF ExpireLock, TypeInv, TypeOK, Settled
<1>2. CASE ExpireLease
  <2>1. PICK i \in DOMAIN runs : runs' = [runs EXCEPT ![i].fresh = FALSE]
    BY <1>2 DEF ExpireLease
  <2>2. i \in Nat
    BY <1>t, <2>1
  <2>3. runs' \in Seq(Run) /\ Len(runs') = Len(runs)
    BY <1>t, <2>1, <2>2, ReleasedIsTyped
  <2>4. Fault /\ UNCHANGED <<backend, lock, cmd, fenced, beat, ahead, lapsed, halted>>
    BY <1>2 DEF ExpireLease
  <2> QED  BY <1>f, <2>3, <2>4 DEF TypeInv, TypeOK, Settled
<1>3. CASE LoseSession
  <2>1. runs' \in Seq(Run) /\ Len(runs') = Len(runs)
    BY <1>3, <1>t, StaleIsTyped DEF LoseSession
  <2> QED  BY <1>3, <1>f, <2>1, LockIsTyped DEF LoseSession, TypeInv, TypeOK, Settled
<1>4. ASSUME NEW p \in Process, Crash(p)
      PROVE  TypeInv'
  <2> DEFINE r == [Idle EXCEPT !.at = "dead"]
  <2>1. r \in Cmd /\ r.at = "dead" /\ r.run = 0
    BY DEF Idle, Cmd, Place
  <2>2. cmd' = [cmd EXCEPT ![p] = r]
    BY <1>4 DEF Crash
  <2>3. cmd' \in [Process -> Cmd] /\ cmd'[p] = r /\ \A q \in Process \ {p} : cmd'[q] = cmd[q]
    BY <1>t, <2>1, <2>2
  <2> HIDE DEF r
  <2>4. UNCHANGED <<backend, runs, fenced, lapsed, halted>> /\ Fault
    BY <1>4 DEF Crash
  <2>5. Moved(p, "dead")
    BY <1>t, <2>1, <2>3, <2>4 DEF Moved, TypeInv, Settled
  <2>6. lock' \in Lock /\ beat' \subseteq Process /\ ahead' \subseteq Process
    BY <1>4, <1>t, LockIsTyped DEF Crash
  <2> QED  BY <1>t, <1>f, <2>4, <2>5, <2>6, MovedIsTyped
<1> QED  BY <1>1, <1>2, <1>3, <1>4

(* A step that leaves every variable alone keeps the types.                *)
LEMMA StutterIsTyped ==
  ASSUME TypeInv, UNCHANGED vars
  PROVE  TypeInv'
  BY DEF vars, TypeInv, TypeOK, Settled

(* The types hold before any command has started.                          *)
LEMMA InitIsTyped == Init => TypeInv
<1> SUFFICES ASSUME Init PROVE TypeInv
  OBVIOUS
<1>1. cmd \in [Process -> Cmd] /\ \A p \in Process : cmd[p].run = 0 /\ cmd[p].at \in {"prior", "lock"}
  <2>1. \A p \in Process : [Idle EXCEPT !.at = First(p)] \in Cmd
    BY DEF Idle, Cmd, First, Place
  <2> QED  BY <2>1 DEF Init, Idle, First
<1>2. runs \in Seq(Run) /\ Len(runs) = 0
  BY DEF Init
<1>3. /\ fenced \subseteq Process /\ beat \subseteq Process /\ ahead \subseteq Process
      /\ backend \in Backends /\ lock \in Lock /\ lapsed \in BOOLEAN /\ halted \in BOOLEAN
  BY LockIsTyped DEF Init
<1>4. faults \in 0..MaxFaults
  BY BoundAssumption DEF Init
<1>5. \A p \in Process : cmd[p].run \in 0..Len(runs)
  BY <1>1, <1>2
<1>6. Settled
  BY <1>1 DEF Settled
<1> QED  BY <1>1, <1>2, <1>3, <1>4, <1>5, <1>6 DEF TypeInv, TypeOK

(* The types as an invariant of any step.                                  *)
LEMMA NextIsTyped == TypeInv /\ [Next]_vars => TypeInv'
  BY CommandIsTyped, HeartbeatIsTyped, FaultIsTyped, StutterIsTyped DEF Next

(* Every command is at a place it can be at, and works on a run that is    *)
(* there, however many processes meet (execute, resume, both stores).      *)
THEOREM TargetTypes == Spec => []TypeOK
<1>1. TypeInv => TypeOK
  BY DEF TypeInv
<1> QED  BY <1>1, InitIsTyped, NextIsTyped, PTL DEF Spec

-----------------------------------------------------------------------------
(* One holder *)

(* Where a command has to find the lock its own, if nothing lapsed.        *)
Guarded == HoldingPlace \cup {"unlock", "remove"}

(* Until something lapses, who is at a guarded place owns a lock that is   *)
(* fresh, the one who made a blank file is its only writer, and nobody is  *)
(* taking over.                                                            *)
Owned == \A p \in Process : cmd[p].at \in Guarded => lock.kind = "held" /\ lock.owner = p

Blank == \A p \in Process :
  cmd[p].at = "fill" =>
    /\ lock.kind = "blank" /\ lock.owner = "nobody"
    /\ \A q \in Process : cmd[q].at = "fill" => q = p

NoTakeover == \A p \in Process : cmd[p].at \notin {"takeover", "readback"}

Fresh == lock.kind = "held" => lock.fresh

Alone == ~lapsed => Owned /\ Blank /\ NoTakeover /\ Fresh

(* One command is at a place and the others are where they were.           *)
Steps(p, at) == cmd'[p].at = at /\ \A q \in Process \ {p} : cmd'[q].at = cmd[q].at

(* The ways a command moves on are steps of that one command.             *)
LEMMA MovesAreSteps ==
  ASSUME TypeInv, NEW p \in Process, NEW at
  PROVE  /\ Goes(p, at) => Steps(p, at)
         /\ Ends(p) => Steps(p, "done")
         /\ Abandons(p) => Steps(p, "unlock")
         /\ \A n : NotesRun(p, at, n) => Steps(p, at)
         /\ \A n, v : NotesFrom(p, at, n, v) => Steps(p, at)
         /\ \A v : NotesTo(p, at, v) => Steps(p, at)
<1>1. cmd \in [Process -> Cmd] /\ \A q \in Process : cmd[q] \in Cmd
  BY DEF TypeInv, TypeOK
<1>2. Goes(p, at) => Steps(p, at)
  BY <1>1 DEF Goes, Steps, Cmd
<1>3. Ends(p) => Steps(p, "done")
  BY <1>1 DEF Ends, Steps, Idle
<1>4. Abandons(p) => Steps(p, "unlock")
  BY <1>1 DEF Abandons, Steps, Idle
<1>5. ASSUME NEW n, NotesRun(p, at, n) PROVE Steps(p, at)
  BY <1>1, <1>5 DEF NotesRun, Steps, Cmd
<1>6. ASSUME NEW n, NEW v, NotesFrom(p, at, n, v) PROVE Steps(p, at)
  BY <1>1, <1>6 DEF NotesFrom, Steps, Cmd
<1>7. ASSUME NEW v, NotesTo(p, at, v) PROVE Steps(p, at)
  BY <1>1, <1>7 DEF NotesTo, Steps, Cmd
<1> QED  BY <1>2, <1>3, <1>4, <1>5, <1>6, <1>7

(* Moving between guarded places, or to one that is not, keeps the holder. *)
LEMMA HolderKept ==
  ASSUME Alone, NEW p \in Process, NEW at, Steps(p, at), UNCHANGED lock, UNCHANGED lapsed,
         at \in Guarded => cmd[p].at \in Guarded,
         at \notin {"fill", "takeover", "readback"}
  PROVE  Alone'
  BY DEF Alone, Steps, Owned, Blank, NoTakeover, Fresh

(* No call of a command gives the lock to a second one (TryLock, Unlock).  *)
LEMMA CommandIsAlone ==
  ASSUME TypeInv, Alone, NEW p \in Process, Command(p)
  PROVE  Alone'
<1>g. {"locked", "lease", "mark", "choose", "adopt", "take", "cleanup", "halt", "walking",
       "finish", "release", "unlock", "remove"} = Guarded
  BY DEF Guarded, HoldingPlace
<1>m. \A at : /\ Goes(p, at) => Steps(p, at)
              /\ Ends(p) => Steps(p, "done")
              /\ Abandons(p) => Steps(p, "unlock")
  BY MovesAreSteps
<1> DEFINE Kept(at) == UNCHANGED lock /\ UNCHANGED lapsed /\ (at \in Guarded => cmd[p].at \in Guarded)
<1>k. ASSUME NEW at, Steps(p, at), Kept(at), at \notin {"fill", "takeover", "readback"}
      PROVE  Alone'
  BY <1>k, HolderKept
<1>1. CASE PriorRuns(p)
  <2>1. Kept("lock") /\ Kept("done") /\ (Steps(p, "lock") \/ Steps(p, "done"))
    BY <1>1, <1>m, <1>g DEF PriorRuns, quiet
  <2> QED  BY <2>1, <1>k
<1>2. CASE TryAdvisoryLock(p)
  <2>1. CASE lock = NoLock
    <3>1. lock' = LockOf(p) /\ Steps(p, "locked") /\ UNCHANGED lapsed
      BY <1>2, <2>1, <1>m DEF TryAdvisoryLock, quiet
    <3> QED  BY <2>1, <3>1, <1>g DEF Alone, Steps, Owned, Blank, NoTakeover, Fresh, NoLock, LockOf
  <2>2. CASE lock # NoLock
    <3>1. Kept("done") /\ Steps(p, "done")
      BY <1>2, <2>2, <1>m, <1>g DEF TryAdvisoryLock, quiet
    <3> QED  BY <3>1, <1>k
  <2> QED  BY <2>1, <2>2
<1>3. CASE CreateLock(p)
  <2>1. CASE lock = NoLock
    <3>1. lock' = [NoLock EXCEPT !.kind = "blank"] /\ Steps(p, "fill") /\ UNCHANGED lapsed
      BY <1>3, <2>1, <1>m DEF CreateLock, quiet
    <3>2. lock'.kind = "blank" /\ lock'.owner = "nobody"
      BY <3>1 DEF NoLock
    <3>3. lock.kind = "none"
      BY <2>1 DEF NoLock
    <3> QED  BY <3>1, <3>2, <3>3, <1>g DEF Alone, Steps, Owned, Blank, NoTakeover, Fresh
  <2>2. CASE lock # NoLock
    <3>1. Kept("exists") /\ Steps(p, "exists")
      BY <1>3, <2>2, <1>m, <1>g DEF CreateLock, quiet
    <3> QED  BY <3>1, <1>k
  <2> QED  BY <2>1, <2>2
<1>4. CASE FillLock(p)
  <2>1. ~lapsed => lock.kind = "blank" /\ \A q \in Process \ {p} : cmd[q].at # "fill"
    BY <1>4 DEF FillLock, At, Alone, Blank
  <2>2. UNCHANGED lapsed
    BY <1>4 DEF FillLock, quiet
  <2>3. CASE lock' = LockOf(p) /\ Steps(p, "locked")
    BY <2>1, <2>2, <2>3, <1>g DEF Alone, Steps, Owned, Blank, NoTakeover, Fresh, LockOf
  <2>4. CASE lock' = NoLock /\ Steps(p, "done")
    BY <2>1, <2>2, <2>4, <1>g DEF Alone, Steps, Owned, Blank, NoTakeover, Fresh, NoLock
  <2> QED  BY <1>4, <1>m, <2>3, <2>4 DEF FillLock
<1>5. CASE ReadLock(p)
  <2>1. ~lapsed => ~Expired
    BY DEF Alone, Fresh, Expired
  <2>2. CASE Expired
    BY <1>5, <2>1, <2>2 DEF ReadLock, Alone, quiet
  <2>3. CASE ~Expired
    <3>1. Kept("done") /\ Steps(p, "done")
      BY <1>5, <2>3, <1>m, <1>g DEF ReadLock, quiet
    <3> QED  BY <3>1, <1>k
  <2> QED  BY <2>2, <2>3
<1>6. CASE TakeOver(p) \/ ReadBack(p)
  <2>1. lapsed /\ UNCHANGED lapsed
    BY <1>6 DEF TakeOver, ReadBack, At, Alone, NoTakeover, quiet
  <2> QED  BY <2>1 DEF Alone
<1>7. CASE ReadToUnlock(p)
  <2>1. Kept("remove") /\ Kept("done") /\ (Steps(p, "remove") \/ Steps(p, "done"))
    BY <1>7, <1>m, <1>g DEF ReadToUnlock, At, quiet
  <2> QED  BY <2>1, <1>k
<1>8. CASE RemoveLock(p)
  <2>1. ~lapsed => lock.kind = "held" /\ lock.owner = p
    BY <1>8, <1>g DEF RemoveLock, At, Alone, Owned
  <2>2. Steps(p, "done") /\ UNCHANGED lapsed /\ (lock' = NoLock \/ UNCHANGED lock)
    BY <1>8, <1>m DEF RemoveLock, quiet
  <2>3. \A q \in Process \ {p} : ~lapsed => cmd[q].at \notin Guarded \cup {"fill"}
    BY <2>1 DEF Alone, Owned, Blank
  <2> QED  BY <2>1, <2>2, <2>3, <1>g DEF Alone, Steps, Owned, Blank, NoTakeover, Fresh, NoLock
<1>h. ASSUME cmd[p].at \in Guarded, UNCHANGED lock, UNCHANGED lapsed,
             NEW at \in Guarded, Steps(p, at)
      PROVE  Alone'
  BY <1>h, <1>g, <1>k
<1>9. CASE CreateRun(p)
  <2>1. cmd[p].at \in Guarded /\ UNCHANGED lock /\ UNCHANGED lapsed
    BY <1>9, <1>g DEF CreateRun, At, quiet
  <2>2. Steps(p, "unlock") \/ Steps(p, "lease")
    <3>1. Abandons(p) \/ NotesRun(p, "lease", Len(runs) + 1)
      BY <1>9 DEF CreateRun, NotesRun
    <3> QED  BY <3>1, MovesAreSteps
  <2> QED  BY <2>1, <2>2, <1>g, <1>h
<1>10. CASE FindOrphans(p)
  <2>1. cmd[p].at \in Guarded /\ UNCHANGED lock /\ UNCHANGED lapsed
    BY <1>10, <1>g DEF FindOrphans, At, quiet
  <2>2. Steps(p, "unlock") \/ Steps(p, "choose") \/ Steps(p, "mark")
    <3>1. Abandons(p) \/ Goes(p, "choose") \/ \E i \in DOMAIN runs : NotesRun(p, "mark", i)
      BY <1>10 DEF FindOrphans, NotesRun
    <3> QED  BY <3>1, MovesAreSteps
  <2> QED  BY <2>1, <2>2, <1>g, <1>h
<1>11. CASE ChooseRun(p)
  <2>1. cmd[p].at \in Guarded /\ UNCHANGED lock /\ UNCHANGED lapsed
    BY <1>11, <1>g DEF ChooseRun, At, quiet
  <2>2. Steps(p, "unlock") \/ Steps(p, "adopt")
    <3>1. Abandons(p) \/ \E i \in Resumable : NotesFrom(p, "adopt", i, runs[i].status)
      BY <1>11 DEF ChooseRun, NotesFrom
    <3> QED  BY <3>1, MovesAreSteps
  <2> QED  BY <2>1, <2>2, <1>g, <1>h
<1>12. CASE MarkOrphaned(p) \/ AdoptOrphan(p)
  <2>1. cmd[p].at \in Guarded /\ UNCHANGED lock /\ UNCHANGED lapsed
    BY <1>12, <1>g DEF MarkOrphaned, AdoptOrphan, At, quiet
  <2>2. Steps(p, "unlock") \/ Steps(p, "locked") \/ Steps(p, "take")
    BY <1>12, <1>m DEF MarkOrphaned, AdoptOrphan
  <2> QED  BY <2>1, <2>2, <1>g, <1>h
<1>13. CASE TakeLease(p) \/ AcquireLease(p)
  <2>1. cmd[p].at \in Guarded /\ UNCHANGED lock /\ UNCHANGED lapsed
    BY <1>13, <1>g DEF TakeLease, AcquireLease, At, quiet
  <2>2. Steps(p, "unlock") \/ Steps(p, "cleanup") \/ Steps(p, "walking")
    BY <1>13, <1>m DEF TakeLease, AcquireLease, TakesLease
  <2> QED  BY <2>1, <2>2, <1>g, <1>h
<1>14. CASE Cleanup(p)
  <2>1. cmd[p].at \in Guarded /\ UNCHANGED lock /\ UNCHANGED lapsed
    BY <1>14, <1>g DEF Cleanup, At
  <2>2. Steps(p, "lease") \/ Steps(p, "halt")
    <3>1. Goes(p, "lease") \/ NotesTo(p, "halt", "FAILED")
      BY <1>14 DEF Cleanup, NotesTo
    <3> QED  BY <3>1, MovesAreSteps
  <2> QED  BY <2>1, <2>2, <1>g, <1>h
<1>15. CASE EndWalk(p)
  <2>1. cmd[p].at \in Guarded /\ UNCHANGED lock /\ UNCHANGED lapsed
    BY <1>15, <1>g DEF EndWalk, Walking, At, quiet
  <2>2. Steps(p, "finish")
    <3>1. \E to : NotesTo(p, "finish", to)
      BY <1>15 DEF EndWalk, NotesTo
    <3> QED  BY <3>1, MovesAreSteps
  <2> QED  BY <2>1, <2>2, <1>g, <1>h
<1>16. CASE Finish(p) \/ ReleaseLease(p)
  <2>1. cmd[p].at \in Guarded /\ UNCHANGED lock /\ UNCHANGED lapsed
    BY <1>16, <1>g DEF Finish, ReleaseLease, At, quiet
  <2>2. Steps(p, "unlock") \/ Steps(p, "release")
    BY <1>16, <1>m DEF Finish, ReleaseLease
  <2> QED  BY <2>1, <2>2, <1>g, <1>h
<1> QED
  BY <1>1, <1>2, <1>3, <1>4, <1>5, <1>6, <1>7, <1>8, <1>9, <1>10, <1>11, <1>12, <1>13,
     <1>14, <1>15, <1>16 DEF Command

(* Nor does a heartbeat, which writes the lock only as its walker's own.   *)
LEMMA HeartbeatIsAlone ==
  ASSUME Alone, NEW p \in Process, Heartbeat(p)
  PROVE  Alone'
<1>1. CASE ReadToRefresh(p)
  BY <1>1 DEF ReadToRefresh, Alone, Owned, Blank, NoTakeover, Fresh
<1>2. CASE Renew(p)
  <2>1. ~lapsed => lock.kind = "held" /\ lock.owner = p /\ lock.fresh
    BY <1>2 DEF Renew, Walking, At, Alone, Owned, Fresh, Guarded, HoldingPlace
  <2>2. UNCHANGED <<cmd, lapsed>> /\ (UNCHANGED lock \/ lock' = LockOf(p))
    BY <1>2 DEF Renew
  <2>3. LockOf(p).kind = "held" /\ LockOf(p).owner = p /\ LockOf(p).fresh
    BY DEF LockOf
  <2>4. ~lapsed => /\ lock'.kind = "held" /\ lock'.owner = p /\ lock'.fresh
                   /\ \A q \in Process : cmd[q].at # "fill"
    BY <2>1, <2>2, <2>3 DEF Alone, Blank
  <2> QED  BY <2>1, <2>2, <2>4 DEF Alone, Owned, Blank, NoTakeover, Fresh
<1> QED  BY <1>1, <1>2 DEF Heartbeat

(* What lapses is set down as lapsed; a crash takes the crashed command's  *)
(* own lock at most (the session's end).                                   *)
LEMMA FaultIsAlone ==
  ASSUME TypeInv, Alone, ExpireLock \/ ExpireLease \/ LoseSession \/ \E p \in Process : Crash(p)
  PROVE  Alone'
<1>1. CASE ExpireLock \/ LoseSession
  BY <1>1 DEF ExpireLock, LoseSession, Alone
<1>2. CASE ExpireLease
  BY <1>2 DEF ExpireLease, Alone, Owned, Blank, NoTakeover, Fresh
<1>3. ASSUME NEW p \in Process, Crash(p)
      PROVE  Alone'
  <2>1. Steps(p, "dead")
    <3>1. cmd \in [Process -> Cmd] /\ cmd' = [cmd EXCEPT ![p] = [Idle EXCEPT !.at = "dead"]]
      BY <1>3 DEF Crash, TypeInv, TypeOK
    <3> QED  BY <3>1 DEF Steps, Idle
  <2>2. UNCHANGED lapsed
    BY <1>3 DEF Crash
  <2>3. "dead" \notin Guarded
    BY DEF Guarded, HoldingPlace
  <2>4. CASE UNCHANGED lock
    BY <2>1, <2>2, <2>3, <2>4, HolderKept
  <2>5. CASE lock # lock'
    <3>1. lock.owner = p /\ lock' = NoLock /\ backend = "sql"
      BY <1>3, <2>5 DEF Crash
    <3>2. ~lapsed => \A q \in Process \ {p} : cmd[q].at \notin Guarded \cup {"fill"}
      BY <3>1, ProcessAssumption DEF Alone, Owned, Blank
    <3> QED  BY <2>1, <2>2, <2>3, <3>1, <3>2 DEF Alone, Steps, Owned, Blank, NoTakeover, Fresh, NoLock
  <2> QED  BY <2>4, <2>5
<1> QED  BY <1>1, <1>2, <1>3

(* Until something lapses, no step of anybody lets a second holder in.     *)
LEMMA NextIsAlone == TypeInv /\ Alone /\ [Next]_vars => Alone'
<1>1. TypeInv /\ Alone /\ Next => Alone'
  BY CommandIsAlone, HeartbeatIsAlone, FaultIsAlone DEF Next
<1>2. Alone /\ UNCHANGED vars => Alone'
  BY DEF vars, Alone, Owned, Blank, NoTakeover, Fresh
<1> QED  BY <1>1, <1>2

(* Nobody is at a guarded place before the commands start.                 *)
LEMMA InitIsAlone == Init => Alone
<1> SUFFICES ASSUME Init PROVE Alone
  OBVIOUS
<1>1. \A p \in Process : cmd[p].at \in {"prior", "lock"}
  BY DEF Init, Idle, First
<1>2. lock.kind = "none"
  BY DEF Init, NoLock
<1> QED  BY <1>1, <1>2 DEF Alone, Owned, Blank, NoTakeover, Fresh, Guarded, HoldingPlace

(* Two holders would both own one lock.                                    *)
LEMMA AloneIsSole == Alone => SoleHolder
  BY DEF Alone, Owned, SoleHolder, Holding, Guarded

(* However many commands meet on a target, over either store and whatever  *)
(* crashes, only one has it, until a lock expires under its holder or is   *)
(* lost with its session (TryLock, fileLock, sqlLock).                     *)
THEOREM TargetHasOneHolder == Spec => []SoleHolder
<1>1. Init => TypeInv /\ Alone
  BY InitIsTyped, InitIsAlone
<1>2. TypeInv /\ Alone /\ [Next]_vars => (TypeInv /\ Alone)'
  BY NextIsTyped, NextIsAlone
<1> QED  BY <1>1, <1>2, AloneIsSole, PTL DEF Spec

-----------------------------------------------------------------------------
(* Nothing left running *)

(* Where a command answers for the run it is at, and where it may have the *)
(* run's lease.                                                            *)
Answering == {"lease", "take", "cleanup", "walking", "finish"}
Leasing == {"cleanup", "lease", "walking", "finish", "release"}

(* Every RUNNING run has a command that will finish it.                    *)
Watched == \A i \in DOMAIN runs : runs[i].status = "RUNNING" =>
             \E p \in Process : cmd[p].run = i /\ cmd[p].at \in Answering

(* A lease belongs to a command that still works on that very run.         *)
LeasesHeld == \A i \in DOMAIN runs : \A p \in Process :
                runs[i].holder = p => cmd[p].run = i /\ cmd[p].at \in Leasing

(* A command that ends its walk has an end to record.                      *)
Ending == \A p \in Process : /\ cmd[p].at # "halt"
                             /\ cmd[p].at = "finish" => cmd[p].to # "RUNNING"

Calm == faults = 0 /\ ~halted

Tidy == Calm => ~lapsed /\ Watched /\ LeasesHeld /\ Ending

(* What the writes to one run do to it, and that they do it to no other    *)
(* (TransitionRun, AcquireLease, ReleaseLease).                            *)
LEMMA RunsAfter ==
  ASSUME runs \in Seq(Run), NEW i \in Nat, NEW v, NEW p
  PROVE  /\ LET s == [runs EXCEPT ![i].status = v] IN
              /\ DOMAIN s = DOMAIN runs
              /\ \A k \in DOMAIN runs : /\ s[k].holder = runs[k].holder
                                        /\ s[k].status = IF k = i THEN v ELSE runs[k].status
         /\ LET s == Leased(i, p) IN
              /\ DOMAIN s = DOMAIN runs
              /\ \A k \in DOMAIN runs : /\ s[k].status = runs[k].status
                                        /\ s[k].holder = IF k = i THEN p ELSE runs[k].holder
         /\ LET s == [runs EXCEPT ![i].holder = "nobody", ![i].fresh = FALSE] IN
              /\ DOMAIN s = DOMAIN runs
              /\ \A k \in DOMAIN runs : /\ s[k].status = runs[k].status
                                        /\ s[k].holder = IF k = i THEN "nobody" ELSE runs[k].holder
<1>1. \A k \in DOMAIN runs : runs[k] \in Run
  OBVIOUS
<1> QED  BY <1>1 DEF Leased, Run

(* A command that goes on without a write, from where it answers for       *)
(* nothing, leaves everything tidy.                                        *)
LEMMA AwayIsTidy ==
  ASSUME TypeInv, Tidy, NEW p \in Process, NEW at, Moved(p, at), UNCHANGED <<runs, faults, halted, lapsed>>,
         cmd[p].at \notin Answering \cup Leasing, at \notin {"halt", "finish"}
  PROVE  Tidy'
<1> SUFFICES ASSUME Calm, ~lapsed, Watched, LeasesHeld, Ending
             PROVE  Watched' /\ LeasesHeld' /\ Ending' /\ ~lapsed'
  BY DEF Tidy, Calm
<1>1. Ending'
  BY DEF Moved, Ending
<1>2. Watched'
  BY DEF Moved, Watched
<1>3. LeasesHeld'
  BY DEF Moved, LeasesHeld
<1> QED  BY <1>1, <1>2, <1>3

(* What a command that goes on takes with it (runs it is at, end it has).  *)
LEMMA GoingOn ==
  ASSUME TypeInv, NEW p \in Process, NEW at
  PROVE  /\ Goes(p, at) => cmd'[p].run = cmd[p].run /\ cmd'[p].at = at
         /\ \A v : NotesTo(p, at, v) => cmd'[p].run = cmd[p].run /\ cmd'[p].at = at /\ cmd'[p].to = v
         /\ \A n : NotesRun(p, at, n) => cmd'[p].run = n /\ cmd'[p].at = at
<1>1. cmd \in [Process -> Cmd] /\ cmd[p] \in Cmd
  BY DEF TypeInv, TypeOK
<1>2. Goes(p, at) => cmd'[p].run = cmd[p].run /\ cmd'[p].at = at
  BY <1>1 DEF Goes, Cmd
<1>3. ASSUME NEW v, NotesTo(p, at, v)
      PROVE  cmd'[p].run = cmd[p].run /\ cmd'[p].at = at /\ cmd'[p].to = v
  BY <1>1, <1>3 DEF NotesTo, Cmd
<1>4. ASSUME NEW n, NotesRun(p, at, n)
      PROVE  cmd'[p].run = n /\ cmd'[p].at = at
  BY <1>1, <1>4 DEF NotesRun, Cmd
<1> QED  BY <1>2, <1>3, <1>4

(* A command that goes on answering for its run, and takes no lease but    *)
(* that run's, leaves everything tidy (AcquireLease, a walk's end).        *)
LEMMA StayIsTidy ==
  ASSUME TypeInv, ~lapsed, Watched, LeasesHeld, Ending, NEW p \in Process, NEW at, Moved(p, at),
         UNCHANGED lapsed,
         cmd'[p].run = cmd[p].run, at \in Answering \cap Leasing,
         at = "finish" => cmd'[p].to # "RUNNING",
         DOMAIN runs' = DOMAIN runs,
         \A k \in DOMAIN runs : /\ runs'[k].status = runs[k].status
                                /\ \/ runs'[k].holder = runs[k].holder
                                   \/ k = cmd[p].run /\ runs'[k].holder = p
  PROVE  Tidy'
<1>1. at \in Answering /\ at \in Leasing /\ at # "halt"
  BY DEF Answering
<1>2. Ending'
  BY <1>1 DEF Moved, Ending
<1>3. Watched'
  BY <1>1 DEF Moved, Watched
<1>4. LeasesHeld'
  BY <1>1 DEF Moved, LeasesHeld
<1> QED  BY <1>2, <1>3, <1>4 DEF Tidy

(* A lease is refused only to a command that is not alone (AcquireLease).  *)
LEMMA NobodyElsesLease ==
  ASSUME TypeInv, Alone, ~lapsed, LeasesHeld, NEW p \in Process, cmd[p].at \in {"take", "lease"},
         cmd[p].run \in DOMAIN runs
  PROVE  Leasable(My(p), p)
<1>0. My(p).holder \in Process \cup {"nobody"}
  <2>1. runs[cmd[p].run] \in Run
    BY DEF TypeInv, TypeOK
  <2> QED  BY <2>1 DEF My, Run
<1>1. SUFFICES ASSUME NEW q \in Process, My(p).holder = q
               PROVE  q = p
  BY <1>0 DEF Leasable
<1>2. cmd[q].at \in Leasing
  BY <1>1 DEF LeasesHeld, My
<1>3. Holding(p) /\ Holding(q)
  BY <1>2 DEF Leasing, Holding, HoldingPlace
<1> QED  BY <1>3, AloneIsSole DEF SoleHolder

(* No call of a command leaves a RUNNING run that nobody will finish, or a *)
(* lease behind it (CreateRun, AdoptOrphan, finish, ReleaseLease).         *)
LEMMA CommandIsTidy ==
  ASSUME TypeInv, Alone, Tidy, NEW p \in Process, Command(p)
  PROVE  Tidy'
<1>c. SUFFICES ASSUME Calm' PROVE Tidy'
  BY DEF Tidy
<1>u. UNCHANGED faults /\ UNCHANGED lapsed /\ (UNCHANGED halted \/ halted')
  BY DEF Command, PriorRuns, TryAdvisoryLock, CreateLock, FillLock, ReadLock, TakeOver, ReadBack,
         CreateRun, FindOrphans, MarkOrphaned, ChooseRun, AdoptOrphan, TakeLease, Cleanup,
         AcquireLease, EndWalk, Finish, ReleaseLease, ReadToUnlock, RemoveLock, quiet
<1>v. UNCHANGED <<faults, lapsed, halted>> /\ Calm
  BY <1>c, <1>u DEF Calm, TypeInv, TypeOK
<1>i. ~lapsed /\ Watched /\ LeasesHeld /\ Ending
  BY <1>v DEF Tidy
<1>t. /\ runs \in Seq(Run) /\ Len(runs) \in Nat /\ DOMAIN runs = 1..Len(runs)
      /\ cmd[p].run \in 0..Len(runs) /\ cmd[p].run \in Nat
  BY DEF TypeInv, TypeOK
<1> DEFINE plain == Place \ {"finish", "halt"}
<1>p. {"lock", "locked", "fill", "exists", "takeover", "readback", "unlock", "remove", "done",
       "choose", "mark", "adopt", "take", "cleanup", "lease", "walking", "release"} \subseteq plain
  BY DEF Place, HoldingPlace
<1>q. "finish" \in Place
  BY DEF Place, HoldingPlace
<1> HIDE DEF plain
<1>g. ASSUME NEW at \in plain, Len(runs') = Len(runs),
             \/ Goes(p, at)
             \/ at = "done" /\ Ends(p)
             \/ at = "unlock" /\ Abandons(p)
      PROVE  Moved(p, at)
  BY <1>g, <1>t, GoesIsMoved DEF plain
<1>away. ASSUME UNCHANGED runs, cmd[p].at \notin Answering \cup Leasing, NEW at \in plain,
                \/ Goes(p, at)
                \/ at = "done" /\ Ends(p)
                \/ at = "unlock" /\ Abandons(p)
         PROVE  Tidy'
  <2>1. Moved(p, at)
    BY <1>away, <1>g
  <2> QED  BY <1>away, <1>v, <2>1, AwayIsTidy DEF plain
<1>1. CASE PriorRuns(p)
  <2>1. cmd[p].at \notin Answering \cup Leasing
    BY <1>1 DEF PriorRuns, At, Answering, Leasing
  <2> QED  BY <1>1, <1>p, <1>away, <2>1 DEF PriorRuns
<1>2. CASE TryAdvisoryLock(p)
  <2>1. cmd[p].at \notin Answering \cup Leasing
    BY <1>2 DEF TryAdvisoryLock, At, Answering, Leasing
  <2> QED  BY <1>2, <1>p, <1>away, <2>1 DEF TryAdvisoryLock
<1>3. CASE CreateLock(p)
  <2>1. cmd[p].at \notin Answering \cup Leasing
    BY <1>3 DEF CreateLock, At, Answering, Leasing
  <2> QED  BY <1>3, <1>p, <1>away, <2>1 DEF CreateLock
<1>4. CASE FillLock(p)
  <2>1. cmd[p].at \notin Answering \cup Leasing
    BY <1>4 DEF FillLock, At, Answering, Leasing
  <2> QED  BY <1>4, <1>p, <1>away, <2>1 DEF FillLock
<1>5. CASE ReadLock(p)
  <2>1. cmd[p].at \notin Answering \cup Leasing
    BY <1>5 DEF ReadLock, At, Answering, Leasing
  <2> QED  BY <1>5, <1>p, <1>away, <2>1 DEF ReadLock
<1>6. CASE TakeOver(p)
  <2>1. cmd[p].at \notin Answering \cup Leasing
    BY <1>6 DEF TakeOver, At, Answering, Leasing
  <2> QED  BY <1>6, <1>p, <1>away, <2>1 DEF TakeOver
<1>7. CASE ReadBack(p)
  <2>1. cmd[p].at \notin Answering \cup Leasing
    BY <1>7 DEF ReadBack, At, Answering, Leasing
  <2> QED  BY <1>7, <1>p, <1>away, <2>1 DEF ReadBack
<1>8. CASE ReadToUnlock(p)
  <2>1. cmd[p].at \notin Answering \cup Leasing
    BY <1>8 DEF ReadToUnlock, At, Answering, Leasing
  <2> QED  BY <1>8, <1>p, <1>away, <2>1 DEF ReadToUnlock
<1>9. CASE RemoveLock(p)
  <2>1. cmd[p].at \notin Answering \cup Leasing
    BY <1>9 DEF RemoveLock, At, Answering, Leasing
  <2> QED  BY <1>9, <1>p, <1>away, <2>1 DEF RemoveLock
<1>10. CASE FindOrphans(p)
  <2>1. cmd[p].at \notin Answering \cup Leasing /\ UNCHANGED runs
    BY <1>10 DEF FindOrphans, At, Answering, Leasing
  <2>2. CASE Goes(p, "choose") \/ Abandons(p)
    BY <1>p, <1>away, <2>1, <2>2
  <2>3. CASE ~(Goes(p, "choose") \/ Abandons(p))
    <3>1. PICK k \in DOMAIN runs : NotesRun(p, "mark", k)
      BY <1>10, <2>3 DEF FindOrphans, NotesRun
    <3>2. Moved(p, "mark")
      <4>1. k \in 0..Len(runs') /\ Len(runs) <= Len(runs') /\ Len(runs') \in Nat
        BY <1>t, <2>1
      <4>2. "mark" \in Place
        BY DEF Place, HoldingPlace
      <4> QED  BY <3>1, <4>1, <4>2, NotesIsMoved DEF RunStatus
    <3> QED  BY <1>v, <2>1, <3>2, AwayIsTidy
  <2> QED  BY <2>2, <2>3
<1>11. CASE ChooseRun(p)
  <2>1. cmd[p].at \notin Answering \cup Leasing /\ UNCHANGED runs
    BY <1>11 DEF ChooseRun, At, Answering, Leasing
  <2>2. CASE Abandons(p)
    BY <1>p, <1>away, <2>1, <2>2
  <2>3. CASE ~Abandons(p)
    <3>1. PICK k \in Resumable : NotesFrom(p, "adopt", k, runs[k].status)
      BY <1>11, <2>3 DEF ChooseRun, NotesFrom
    <3>2. k \in DOMAIN runs /\ runs[k] \in Run
      BY <1>t, <3>1 DEF Resumable
    <3>3. runs[k].status \in RunStatus
      BY <3>2 DEF Run
    <3>4. Moved(p, "adopt")
      <4>1. k \in 0..Len(runs') /\ Len(runs) <= Len(runs') /\ Len(runs') \in Nat
        BY <1>t, <2>1, <3>2
      <4>2. "adopt" \in Place
        BY DEF Place, HoldingPlace
      <4> QED  BY <3>1, <3>3, <4>1, <4>2, NotesIsMoved
    <3> QED  BY <1>v, <2>1, <3>4, AwayIsTidy
  <2> QED  BY <2>2, <2>3
<1>12. CASE CreateRun(p)
  <2>1. cmd[p].at \notin Answering \cup Leasing
    BY <1>12 DEF CreateRun, At, Answering, Leasing
  <2>2. CASE Abandons(p) /\ UNCHANGED runs
    BY <1>p, <1>away, <2>1, <2>2
  <2>3. CASE ~(Abandons(p) /\ UNCHANGED runs)
    <3> DEFINE r == [status |-> "RUNNING", holder |-> "nobody", fresh |-> FALSE]
               n == Len(runs) + 1
    <3>1. runs' = Append(runs, r) /\ NotesRun(p, "lease", n)
      BY <1>12, <2>3 DEF CreateRun, NotesRun
    <3>2. /\ DOMAIN runs' = DOMAIN runs \cup {n} /\ Len(runs') = n /\ runs'[n] = r
          /\ \A k \in DOMAIN runs : runs'[k] = runs[k]
      BY <1>t, <3>1
    <3>3. Moved(p, "lease")
      <4>1. n \in 0..Len(runs') /\ Len(runs) <= Len(runs') /\ Len(runs') \in Nat
        BY <1>t, <3>2
      <4> QED  BY <1>p, <3>1, <4>1, NotesIsMoved DEF RunStatus, plain
    <3>4. cmd'[p].run = n /\ cmd'[p].at = "lease"
      BY <3>1, GoingOn
    <3> HIDE DEF n
    <3>5. Watched'
      BY <1>i, <2>1, <3>2, <3>3, <3>4 DEF Watched, Moved, Answering
    <3>6. LeasesHeld'
      <4>1. "nobody" \notin Process
        BY ProcessAssumption
      <4> QED  BY <1>i, <2>1, <3>2, <3>3, <4>1 DEF LeasesHeld, Moved
    <3>7. Ending'
      BY <1>i, <3>3 DEF Ending, Moved
    <3> QED  BY <1>i, <1>v, <3>5, <3>6, <3>7 DEF Tidy
  <2> QED  BY <2>2, <2>3
<1>stat. ASSUME NEW v \in RunStatus, NEW at \in plain,
                runs' = [runs EXCEPT ![cmd[p].run].status = v], Goes(p, at)
         PROVE  /\ Moved(p, at) /\ cmd'[p].run = cmd[p].run
                /\ DOMAIN runs' = DOMAIN runs
                /\ \A k \in DOMAIN runs : /\ runs'[k].holder = runs[k].holder
                                          /\ runs'[k].status = IF k = cmd[p].run THEN v ELSE runs[k].status
  <2>1. Len(runs') = Len(runs)
    BY <1>stat, <1>t, StatusIsTyped
  <2>2. Moved(p, at) /\ cmd'[p].run = cmd[p].run
    BY <1>stat, <1>g, <2>1, GoingOn
  <2> QED  BY <1>stat, <1>t, <2>2, RunsAfter
<1>13. CASE MarkOrphaned(p)
  <2>1. cmd[p].at \notin Answering \cup Leasing
    BY <1>13 DEF MarkOrphaned, At, Answering, Leasing
  <2>2. CASE UNCHANGED runs /\ Abandons(p)
    BY <1>p, <1>away, <2>1, <2>2
  <2>3. CASE ~(UNCHANGED runs /\ Abandons(p))
    <3>1. runs' = [runs EXCEPT ![cmd[p].run].status = "ORPHANED"] /\ Goes(p, "locked")
      BY <1>13, <2>3 DEF MarkOrphaned
    <3>2. /\ Moved(p, "locked")
          /\ DOMAIN runs' = DOMAIN runs
          /\ \A k \in DOMAIN runs : /\ runs'[k].holder = runs[k].holder
                                    /\ runs'[k].status \in {"ORPHANED", runs[k].status}
      BY <1>p, <1>stat, <3>1 DEF RunStatus
    <3>3. Watched'
      BY <1>i, <2>1, <3>2 DEF Watched, Moved
    <3>4. LeasesHeld'
      BY <1>i, <2>1, <3>2 DEF LeasesHeld, Moved
    <3>5. Ending'
      BY <1>i, <3>2 DEF Ending, Moved
    <3> QED  BY <1>i, <1>v, <3>3, <3>4, <3>5 DEF Tidy
  <2> QED  BY <2>2, <2>3
<1>14. CASE AdoptOrphan(p)
  <2>1. cmd[p].at \notin Answering \cup Leasing
    BY <1>14 DEF AdoptOrphan, At, Answering, Leasing
  <2>2. CASE UNCHANGED runs /\ Abandons(p)
    BY <1>p, <1>away, <2>1, <2>2
  <2>3. CASE ~(UNCHANGED runs /\ Abandons(p))
    <3>1. runs' = [runs EXCEPT ![cmd[p].run].status = "RUNNING"] /\ Goes(p, "take")
      BY <1>14, <2>3 DEF AdoptOrphan
    <3>2. /\ Moved(p, "take") /\ cmd'[p].run = cmd[p].run
          /\ DOMAIN runs' = DOMAIN runs
          /\ \A k \in DOMAIN runs : /\ runs'[k].holder = runs[k].holder
                                    /\ k # cmd[p].run => runs'[k].status = runs[k].status
      BY <1>p, <1>stat, <3>1 DEF RunStatus
    <3>3. Watched'
      BY <1>i, <2>1, <3>2 DEF Watched, Moved, Answering
    <3>4. LeasesHeld'
      BY <1>i, <2>1, <3>2 DEF LeasesHeld, Moved
    <3>5. Ending'
      BY <1>i, <3>2 DEF Ending, Moved
    <3> QED  BY <1>i, <1>v, <3>3, <3>4, <3>5 DEF Tidy
  <2> QED  BY <2>2, <2>3
<1>lease. ASSUME cmd[p].at \in {"take", "lease"}, NEW next \in plain, next \in Answering \cap Leasing,
                 TakesLease(p, next)
          PROVE  Tidy'
  <2>1. CASE runs' = Leased(cmd[p].run, p) /\ Goes(p, next)
    <3>1. Len(runs') = Len(runs)
      BY <1>t, <2>1, LeasedIsTyped
    <3>2. Moved(p, next) /\ cmd'[p].run = cmd[p].run
      BY <1>lease, <1>g, <2>1, <3>1, GoingOn
    <3>3. /\ DOMAIN runs' = DOMAIN runs
          /\ \A k \in DOMAIN runs : /\ runs'[k].status = runs[k].status
                                    /\ runs'[k].holder = IF k = cmd[p].run THEN p ELSE runs[k].holder
      BY <1>t, <2>1, RunsAfter DEF Leased
    <3>4. next # "finish"
      BY <1>lease DEF plain
    <3> QED  BY <1>i, <1>v, <1>lease, <3>2, <3>3, <3>4, StayIsTidy
  <2>2. CASE UNCHANGED runs /\ Abandons(p) /\ ~Leasable(My(p), p)
    <3>1. cmd[p].run \notin DOMAIN runs
      BY <1>i, <1>lease, <2>2, NobodyElsesLease
    <3>2. Moved(p, "unlock")
      BY <1>p, <1>g, <2>2
    <3>3. Watched'
      BY <1>i, <2>2, <3>1, <3>2 DEF Watched, Moved
    <3>4. LeasesHeld'
      BY <1>i, <2>2, <3>1, <3>2 DEF LeasesHeld, Moved
    <3>5. Ending'
      BY <1>i, <3>2 DEF Ending, Moved
    <3> QED  BY <1>i, <1>v, <3>3, <3>4, <3>5 DEF Tidy
  <2> QED  BY <1>lease, <2>1, <2>2 DEF TakesLease
<1>15. CASE TakeLease(p)
  <2>1. "cleanup" \in Answering \cap Leasing
    BY DEF Answering, Leasing
  <2> QED  BY <1>p, <1>15, <1>lease, <2>1 DEF TakeLease, At
<1>16. CASE AcquireLease(p)
  <2>1. "walking" \in Answering \cap Leasing
    BY DEF Answering, Leasing
  <2> QED  BY <1>p, <1>16, <1>lease, <2>1 DEF AcquireLease, At
<1>17. CASE Cleanup(p)
  <2>1. ~halted
    BY <1>v DEF Calm
  <2>2. Goes(p, "lease") /\ UNCHANGED runs
    BY <1>17, <1>v, <2>1 DEF Cleanup
  <2>3. Moved(p, "lease") /\ cmd'[p].run = cmd[p].run
    BY <1>p, <1>g, <2>2, GoingOn
  <2>4. "lease" \in Answering \cap Leasing
    BY DEF Answering, Leasing
  <2> QED  BY <1>i, <1>v, <2>2, <2>3, <2>4, StayIsTidy
<1>18. CASE EndWalk(p)
  <2>1. PICK to \in {"COMPLETED", "FAILED", "INTERRUPTED"} : NotesTo(p, "finish", to)
    BY <1>18 DEF EndWalk, NotesTo
  <2>2. UNCHANGED runs
    BY <1>18 DEF EndWalk
  <2>3. Moved(p, "finish")
    <3>1. to \in RunStatus
      BY DEF RunStatus
    <3>2. 0 \in 0..Len(runs') /\ Len(runs) <= Len(runs') /\ Len(runs') \in Nat
      BY <1>t, <2>2
    <3> QED  BY <1>q, <2>1, <3>1, <3>2, NotesIsMoved
  <2>4. cmd'[p].run = cmd[p].run /\ cmd'[p].to # "RUNNING"
    BY <2>1, GoingOn
  <2>5. "finish" \in Answering \cap Leasing
    BY DEF Answering, Leasing
  <2> QED  BY <1>i, <1>v, <2>2, <2>3, <2>4, <2>5, StayIsTidy
<1>19. CASE Finish(p)
  <2>1. cmd[p].at = "finish" /\ cmd[p].to # "RUNNING" /\ cmd[p].to \in RunStatus
    BY <1>i, <1>19 DEF Finish, Ending, TypeInv, Settled
  <2>2. Goes(p, "release") /\ UNCHANGED <<lock, quiet>>
    BY <1>19, <2>1 DEF Finish, At
  <2>3. /\ Moved(p, "release") /\ cmd'[p].run = cmd[p].run
        /\ DOMAIN runs' = DOMAIN runs
        /\ \A k \in DOMAIN runs :
             /\ runs'[k].holder = runs[k].holder
             /\ runs'[k].status = "RUNNING" => runs[k].status = "RUNNING" /\ k # cmd[p].run
    <3>1. CASE My(p).status = "RUNNING"
      <4>1. runs' = [runs EXCEPT ![cmd[p].run].status = cmd[p].to]
        BY <1>19, <3>1 DEF Finish
      <4> QED  BY <1>p, <1>stat, <2>1, <2>2, <4>1
    <3>2. CASE My(p).status # "RUNNING"
      <4>1. UNCHANGED runs
        BY <1>19, <3>2 DEF Finish
      <4>2. Moved(p, "release") /\ cmd'[p].run = cmd[p].run
        BY <1>p, <1>g, <2>2, <4>1, GoingOn
      <4> QED  BY <3>2, <4>1, <4>2 DEF My
    <3> QED  BY <3>1, <3>2
  <2>4. Watched'
    BY <1>i, <2>3 DEF Watched, Moved
  <2>5. LeasesHeld'
    BY <1>i, <2>3 DEF LeasesHeld, Moved, Leasing
  <2>6. Ending'
    BY <1>i, <2>3 DEF Ending, Moved
  <2> QED  BY <1>i, <1>v, <2>4, <2>5, <2>6 DEF Tidy
<1>20. CASE ReleaseLease(p)
  <2>1. cmd[p].at \notin Answering /\ Abandons(p)
    BY <1>20 DEF ReleaseLease, At, Answering
  <2>2. /\ Len(runs') = Len(runs) /\ DOMAIN runs' = DOMAIN runs
        /\ \A k \in DOMAIN runs :
             /\ runs'[k].status = runs[k].status
             /\ \A q \in Process : runs'[k].holder = q => runs[k].holder = q /\ q # p
    <3>0. "nobody" \notin Process
      BY ProcessAssumption
    <3>1. CASE My(p).holder = p
      <4>1. runs' = [runs EXCEPT ![cmd[p].run].holder = "nobody", ![cmd[p].run].fresh = FALSE]
        BY <1>20, <3>1 DEF ReleaseLease
      <4>2. Len(runs') = Len(runs)
        BY <1>t, <4>1, ReleasedIsTyped
      <4>3. /\ DOMAIN runs' = DOMAIN runs
            /\ \A k \in DOMAIN runs :
                 /\ runs'[k].status = runs[k].status
                 /\ runs'[k].holder = IF k = cmd[p].run THEN "nobody" ELSE runs[k].holder
        BY <1>t, <4>1, RunsAfter
      <4> QED  BY <1>i, <3>0, <4>2, <4>3 DEF LeasesHeld
    <3>2. CASE My(p).holder # p
      <4>1. UNCHANGED runs
        BY <1>20, <3>2 DEF ReleaseLease
      <4> QED  BY <1>i, <3>2, <4>1 DEF LeasesHeld, My
    <3> QED  BY <3>1, <3>2
  <2>3. Moved(p, "unlock")
    BY <1>p, <1>g, <2>1, <2>2
  <2>4. Watched'
    BY <1>i, <2>1, <2>2, <2>3 DEF Watched, Moved
  <2>5. LeasesHeld'
    BY <1>i, <2>2, <2>3 DEF LeasesHeld, Moved
  <2>6. Ending'
    BY <1>i, <2>3 DEF Ending, Moved
  <2> QED  BY <1>i, <1>v, <2>4, <2>5, <2>6 DEF Tidy
<1> QED
  BY <1>1, <1>2, <1>3, <1>4, <1>5, <1>6, <1>7, <1>8, <1>9, <1>10, <1>11, <1>12, <1>13,
     <1>14, <1>15, <1>16, <1>17, <1>18, <1>19, <1>20 DEF Command

(* Nor does a heartbeat, which renews the lease its walker has, or a step  *)
(* that is a fault, after which nothing is claimed (startHeartbeat).       *)
LEMMA NextIsTidy == TypeInv /\ Alone /\ Tidy /\ [Next]_vars => Tidy'
<1> SUFFICES ASSUME TypeInv, Alone, Tidy, [Next]_vars, Calm'
             PROVE  Tidy'
  BY DEF Tidy
<1>f. faults \in Nat
  BY DEF TypeInv, TypeOK
<1>n. ~Fault
  BY <1>f DEF Fault, Calm
<1>same. ASSUME UNCHANGED <<cmd, faults, lapsed, halted>>, DOMAIN runs' = DOMAIN runs,
                \A k \in DOMAIN runs : runs'[k].holder = runs[k].holder /\ runs'[k].status = runs[k].status
         PROVE  Tidy'
  BY <1>same DEF Tidy, Calm, Watched, LeasesHeld, Ending
<1>1. ASSUME NEW p \in Process, Command(p)
      PROVE  Tidy'
  BY <1>1, CommandIsTidy
<1>2. ASSUME NEW p \in Process, ReadToRefresh(p)
      PROVE  Tidy'
  <2>1. UNCHANGED <<cmd, runs, faults, lapsed, halted>>
    BY <1>2, <1>n DEF ReadToRefresh
  <2> QED  BY <1>same, <2>1
<1>3. ASSUME NEW p \in Process, Renew(p)
      PROVE  Tidy'
  <2>1. UNCHANGED <<cmd, faults, lapsed, halted>>
    BY <1>3 DEF Renew
  <2>2. CASE UNCHANGED runs
    BY <1>same, <2>1, <2>2
  <2>3. CASE My(p).holder = p /\ runs' = Leased(cmd[p].run, p)
    <3>1. runs \in Seq(Run) /\ cmd[p].run \in Nat
      BY DEF TypeInv, TypeOK
    <3>2. /\ DOMAIN runs' = DOMAIN runs
          /\ \A k \in DOMAIN runs : /\ runs'[k].status = runs[k].status
                                    /\ runs'[k].holder = IF k = cmd[p].run THEN p ELSE runs[k].holder
      BY <2>3, <3>1, RunsAfter DEF Leased
    <3> QED  BY <1>same, <2>1, <2>3, <3>2 DEF My
  <2> QED  BY <1>3, <2>2, <2>3 DEF Renew
<1>4. CASE UNCHANGED vars
  BY <1>4, <1>same DEF vars
<1>5. ASSUME NEW p \in Process
      PROVE  ~Crash(p)
  BY <1>n DEF Crash
<1>6. ~ExpireLock /\ ~ExpireLease /\ ~LoseSession
  BY <1>n DEF ExpireLock, ExpireLease, LoseSession
<1> QED  BY <1>1, <1>2, <1>3, <1>4, <1>5, <1>6 DEF Next, Heartbeat

(* There are no runs before the commands start.                            *)
LEMMA InitIsTidy == Init => Tidy
<1> SUFFICES ASSUME Init PROVE Tidy
  OBVIOUS
<1>1. \A p \in Process : cmd[p].at \in {"prior", "lock"}
  BY DEF Init, Idle, First
<1>2. runs = <<>> /\ ~lapsed
  BY DEF Init
<1> QED  BY <1>1, <1>2 DEF Tidy, Watched, LeasesHeld, Ending

(* A command that has returned, or has not started, answers for nothing.   *)
LEMMA TidyLeavesNothing == Tidy => NothingLeftRunning
<1> SUFFICES ASSUME Tidy, Calm, \A p \in Process : cmd[p].at \in {First(p), "done"},
                    NEW i \in DOMAIN runs, runs[i].status = "RUNNING"
             PROVE  FALSE
  BY DEF NothingLeftRunning, Calm
<1>1. PICK p \in Process : cmd[p].at \in Answering
  BY DEF Tidy, Watched
<1>2. cmd[p].at \in {"prior", "lock", "done"}
  BY DEF First
<1> QED  BY <1>1, <1>2 DEF Answering

(* However many commands meet, over either store and in any order, when    *)
(* all have returned and nothing died, expired or halted, every run has    *)
(* its end recorded (finish, AdoptOrphan's compare-and-set).               *)
THEOREM NothingIsLeftRunning == Spec => []NothingLeftRunning
<1>1. Init => TypeInv /\ Alone /\ Tidy
  BY InitIsTyped, InitIsAlone, InitIsTidy
<1>2. TypeInv /\ Alone /\ Tidy /\ [Next]_vars => (TypeInv /\ Alone /\ Tidy)'
  BY NextIsTyped, NextIsAlone, NextIsTidy
<1> QED  BY <1>1, <1>2, TidyLeavesNothing, PTL DEF Spec

====================================================================
