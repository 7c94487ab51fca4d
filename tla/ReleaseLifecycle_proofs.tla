----------------------- MODULE ReleaseLifecycle_proofs -----------------------
(***************************************************************************)
(* Proofs about ReleaseLifecycle, for any number of command processes, any *)
(* bound on the releases and any configuration.  IInv is inductive; the    *)
(* safety properties of the module and the refinement of ReleaseStore      *)
(* follow from it.                                                         *)
(***************************************************************************)
EXTENDS ReleaseLifecycle, FiniteSetTheorems, WellFoundedInduction, TLAPS

USE NoProcAssumption, MaxReleaseAssumption, KeepAssumption, RestoreAssumption,
    StrategyAssumption, CommandsAssumption, RollbackToAssumption
USE DEF Release, NoRelease, MaybeRelease, store, runtime

(***************************************************************************)
(* The helpers return releases that are on disk.                           *)
(***************************************************************************)

\* get_current_release returns a release on disk or none.
LEMMA GetCurrentType ==
  ASSUME releases \subseteq Release
  PROVE  GetCurrent \in MaybeRelease /\ (GetCurrent # NoRelease => GetCurrent \in releases)
  BY DEF GetCurrent

\* resolve_rollback_target picks a release on disk.
LEMMA RollbackTargetsType ==
  ASSUME NEW to PROVE RollbackTargets(to) \subseteq releases
  BY DEF RollbackTargets

\* prune_releases never picks the release which is live.
LEMMA PruneSetSpares ==
  PruneSet \subseteq releases \ {GetCurrent}
<1>1. CASE Keep < 1
  BY <1>1 DEF PruneSet
<1>2. CASE ~(Keep < 1)
  BY <1>2, Zenon DEF PruneSet
<1> QED
  BY <1>1, <1>2

\* rmtree removes one release, or none, and touches no manifest but its own.
LEMMA RemoveTreeOnly ==
  ASSUME NEW r, RemoveTree(r)
  PROVE  /\ releases' = releases \ {r} \/ releases' = releases
         /\ manifest' = [manifest EXCEPT ![r] = "none"] \/ manifest' = manifest
  BY DEF RemoveTree

-----------------------------------------------------------------------------
(* The types of the variables *)

LEMMA NoLocalsType == NoLocals \in Locals /\ Unregistered \in Metadata
  BY DEF NoLocals, Locals, Metadata, Unregistered

LEMMA InitType == Init => TypeOK
<1> SUFFICES ASSUME Init PROVE TypeOK
  OBVIOUS
<1>1. loc \in [Procs -> Locals] /\ meta \in Metadata
  BY NoLocalsType DEF Init
<1>2. pc \in [Procs -> Critical \cup Unlocked]
  BY DEF Init, Unlocked
<1>3. clock \in 1..(MaxRelease + 1) /\ current \in MaybeRelease /\ live \in MaybeRelease
      /\ worker \in MaybeRelease
  BY DEF Init
<1>4. manifest \in [Release -> {"none", "unfit", "failed", "deployed", "rolled-back-active"}]
  BY DEF Init
<1>5. lock \in Procs \cup {NoProc} /\ asked \in BOOLEAN /\ releases \subseteq Release
  BY DEF Init
<1> QED
  BY <1>1, <1>2, <1>3, <1>4, <1>5 DEF TypeOK

\* A process may change one field of what it remembers.
LEMMA LocalsUpdate ==
  ASSUME NEW l \in Locals, NEW c \in MaybeRelease, NEW d \in SUBSET Release
  PROVE  /\ [l EXCEPT !.cand = c] \in Locals
         /\ [l EXCEPT !.back = c] \in Locals
         /\ [l EXCEPT !.doomed = d, !.deleted = {}] \in Locals
  BY DEF Locals

LEMMA LocalsDeleted ==
  ASSUME NEW l \in Locals, NEW d \in SUBSET Release, NEW e \in SUBSET Release
  PROVE  [l EXCEPT !.doomed = d, !.deleted = e] \in Locals
  BY DEF Locals

LEMMA LocalsFields ==
  ASSUME NEW l \in Locals
  PROVE  l.doomed \in SUBSET Release /\ l.deleted \in SUBSET Release
  BY DEF Locals

\* The ways to leave a phase keep the types of what they change.
LEMMA GotoType ==
  ASSUME TypeOK, NEW p \in Procs, NEW label \in Critical \cup Unlocked, Goto(p, label)
  PROVE  pc' \in [Procs -> Critical \cup Unlocked]
  BY DEF Goto, TypeOK

LEMMA FinishType ==
  ASSUME TypeOK, NEW p \in Procs, Finish(p)
  PROVE  /\ lock' \in Procs \cup {NoProc} /\ live' \in MaybeRelease
         /\ pc' \in [Procs -> Critical \cup Unlocked] /\ loc' \in [Procs -> Locals]
<1>1. pc' \in [Procs -> Critical \cup Unlocked]
  BY GotoType DEF Finish, Unlocked
<1>2. loc' \in [Procs -> Locals]
  BY NoLocalsType DEF Finish, TypeOK
<1> QED
  BY <1>1, <1>2 DEF Finish, TypeOK

LEMMA RaiseType ==
  ASSUME TypeOK, NEW p \in Procs, Raise(p)
  PROVE  /\ lock' \in Procs \cup {NoProc} /\ live' \in MaybeRelease
         /\ pc' \in [Procs -> Critical \cup Unlocked] /\ loc' \in [Procs -> Locals]
<1>1. CASE Finish(p)
  BY <1>1, FinishType
<1>2. CASE loc[p].cmd \in {"deploy", "refresh"}
  BY <1>2, GotoType DEF Raise, TypeOK, Unlocked
<1> QED
  BY <1>1, <1>2 DEF Raise

LEMMA TakeType ==
  ASSUME TypeOK, NEW p \in Procs, NEW label \in Critical \cup Unlocked, Take(p, label)
  PROVE  /\ lock' \in Procs \cup {NoProc} /\ live' \in MaybeRelease
         /\ pc' \in [Procs -> Critical \cup Unlocked]
  BY GotoType, GetCurrentType DEF Take, TypeOK

LEMMA TypeStep == TypeOK /\ [Next]_vars => TypeOK'
<1> SUFFICES ASSUME TypeOK, [Next]_vars PROVE TypeOK'
  OBVIOUS
<1> USE DEF TypeOK
<1>0. /\ GetCurrent \in MaybeRelease
      /\ PruneSet \subseteq Release
      /\ \A to : RollbackTargets(to) \subseteq Release
  BY GetCurrentType, RollbackTargetsType, PruneSetSpares
<1>1. CASE UNCHANGED vars
  BY <1>1 DEF vars
<1>2. CASE StartWorker
  BY <1>2 DEF StartWorker
<1>3. ASSUME NEW p \in Procs, Start(p) PROVE TypeOK'
  <2>1. CASE Create(p, TRUE) \/ Create(p, FALSE)
    BY <2>1 DEF Create, Metadata, Unregistered
  <2>2. ASSUME NEW cmd \in {"deploy", "refresh"}, DeployLock(p, cmd) PROVE TypeOK'
    <3>1. [NoLocals EXCEPT !.cmd = cmd, !.back = GetCurrent, !.meta = meta] \in Locals
      BY <1>0 DEF NoLocals, Locals
    <3> QED
      BY <2>2, <3>1, TakeType DEF DeployLock, Critical, BeforeActivation
  <2>3. CASE ResolveTarget(p)
    <3>1. \A r \in Release : [NoLocals EXCEPT !.cmd = "rollback", !.cand = r] \in Locals
      BY NoLocalsType DEF NoLocals, Locals
    <3>2. PICK r \in Release :
            loc' = [loc EXCEPT ![p] = [NoLocals EXCEPT !.cmd = "rollback", !.cand = r]]
      BY <1>0, <2>3 DEF ResolveTarget
    <3>3. loc' \in [Procs -> Locals]
      BY <3>1, <3>2
    <3> QED
      BY <2>3, <3>3, GotoType DEF ResolveTarget, Unlocked
  <2>4. CASE ReadForBootstrap(p)
    <3>1. [NoLocals EXCEPT !.cmd = "bootstrap", !.cand = GetCurrent] \in Locals
      BY <1>0, NoLocalsType DEF NoLocals, Locals
    <3> QED
      BY <2>4, <3>1, GotoType DEF ReadForBootstrap, Unlocked
  <2> QED
    BY <1>3, <2>1, <2>2, <2>3, <2>4 DEF Start
<1>4. ASSUME NEW p \in Procs, Continue(p) PROVE TypeOK'
  <2> /\ {"idle", "bootread", "rollbacklock", "bootlock"} \subseteq Critical \cup Unlocked
      /\ BeforeActivation \cup AfterActivation \cup {"restored", "bootrun"} \subseteq Critical
    BY DEF Critical, Unlocked
  <2> AfterRefresh(p) \in Critical
    BY DEF AfterRefresh, AfterActivation
  <2>1. CASE Prepare(p)
    <3>1. clock \in Release /\ clock + 1 \in 1..(MaxRelease + 1)
      BY <2>1 DEF Prepare
    <3>2. loc' \in [Procs -> Locals]
      BY <2>1, <3>1, LocalsUpdate DEF Prepare
    <3> QED
      BY <2>1, <3>1, <3>2, GotoType DEF Prepare, BeforeActivation
  <2>2. CASE PassPhase(p)
    <3>1. \A x \in DOMAIN NextPhase : NextPhase[x] \in Critical
      BY DEF NextPhase, BeforeActivation, AfterActivation, Critical
    <3> QED
      BY <2>2, <3>1, GotoType DEF PassPhase
  <2>3. CASE PhaseError(p)
    BY <2>3, RaiseType DEF PhaseError
  <2>4. CASE Activate(p)
    <3>1. pc' \in [Procs -> Critical \cup Unlocked]
      BY <2>4, GotoType DEF Activate, AfterActivation
    <3> QED
      BY <2>4, <3>1 DEF Activate
  <2>5. CASE RestorePrevious(p)
    <3>1. pc' \in [Procs -> Critical \cup Unlocked]
      BY <2>5, GotoType DEF RestorePrevious
    <3> QED
      BY <2>5, <3>1 DEF RestorePrevious
  <2>6. CASE Discard(p)
    BY <2>6, RaiseType, RemoveTreeOnly DEF Discard
  <2>7. CASE WriteFailed(p)
    BY <2>7, FinishType DEF WriteFailed
  <2>8. CASE QueueRestart(p)
    BY <2>8, GotoType DEF QueueRestart, AfterActivation
  <2>9. CASE RestartEnabled(p)
    BY <1>0, <2>9, GotoType DEF RestartEnabled
  <2>10. CASE ListDoomed(p)
    <3>1. loc' \in [Procs -> Locals]
      BY <1>0, <2>10, LocalsUpdate DEF ListDoomed
    <3> QED
      BY <2>10, <3>1, GotoType DEF ListDoomed, AfterActivation
  <2>11. CASE DeleteOldest(p)
    <3>1. PICK r \in loc[p].doomed :
            /\ RemoveTree(r)
            /\ loc' = [loc EXCEPT ![p].doomed = @ \ {r}, ![p].deleted = @ \cup {r}]
      BY <2>11 DEF DeleteOldest
    <3>2. [loc[p] EXCEPT !.doomed = @ \ {r}, !.deleted = @ \cup {r}] \in Locals
      <4> HIDE DEF TypeOK
      <4>1. loc[p] \in Locals
        BY DEF TypeOK
      <4>2. loc[p].doomed \in SUBSET Release /\ loc[p].deleted \in SUBSET Release
        BY <4>1, LocalsFields
      <4>3. loc[p].doomed \ {r} \in SUBSET Release /\ loc[p].deleted \cup {r} \in SUBSET Release
        BY <4>2
      <4> QED
        BY <4>1, <4>3, LocalsDeleted
    <3>3. loc' \in [Procs -> Locals]
      BY <3>1, <3>2
    <3> QED
      BY <2>11, <3>1, <3>3, RemoveTreeOnly DEF DeleteOldest
  <2>12. CASE SaveDeploy(p)
    <3>1. meta' \in Metadata
      BY <2>12 DEF SaveDeploy, Locals, Metadata
    <3> QED
      BY <2>12, <3>1, GotoType DEF SaveDeploy, AfterActivation
  <2>13. CASE SaveRollback(p)
    <3>1. meta' \in Metadata
      BY <2>13 DEF SaveRollback, Locals, Metadata
    <3> QED
      BY <2>13, <3>1, GotoType DEF SaveRollback, AfterActivation
  <2>14. CASE WriteDeployed(p)
    <3>1. CASE Finish(p)
      BY <2>14, <3>1, FinishType DEF WriteDeployed
    <3>2. CASE Goto(p, "bootread") /\ lock' = NoProc /\ live' = NoRelease
                 /\ loc' = [loc EXCEPT ![p] = NoLocals]
      BY <2>14, <3>2, GotoType, NoLocalsType DEF WriteDeployed
    <3> QED
      BY <2>14, <3>1, <3>2 DEF WriteDeployed
  <2>15. CASE ReadCurrent(p)
    <3>1. loc' \in [Procs -> Locals]
      BY <1>0, <2>15, LocalsUpdate DEF ReadCurrent
    <3> QED
      BY <2>15, <3>1, GotoType DEF ReadCurrent
  <2>16. CASE RollbackLock(p) \/ BootstrapLock(p)
    BY <2>16, TakeType DEF RollbackLock, BootstrapLock, BeforeActivation
  <2>17. CASE WriteRolledBack(p)
    BY <2>17, FinishType DEF WriteRolledBack
  <2>18. CASE ReadForBootstrap(p)
    <3>1. [NoLocals EXCEPT !.cmd = "bootstrap", !.cand = GetCurrent] \in Locals
      BY <1>0, NoLocalsType DEF NoLocals, Locals
    <3> QED
      BY <2>18, <3>1, GotoType DEF ReadForBootstrap
  <2>19. CASE RunBootstrap(p)
    <3>1. meta' \in Metadata
      BY <2>19 DEF RunBootstrap, Metadata
    <3> QED
      BY <2>19, <3>1, FinishType DEF RunBootstrap
  <2>20. CASE GiveUp(p)
    BY <2>20, FinishType DEF GiveUp
  <2> QED
    BY <1>4, <2>1, <2>2, <2>3, <2>4, <2>5, <2>6, <2>7, <2>8, <2>9, <2>10, <2>11, <2>12,
       <2>13, <2>14, <2>15, <2>16, <2>17, <2>18, <2>19, <2>20 DEF Continue
<1>5. ASSUME NEW p \in Procs, Crash(p) PROVE TypeOK'
  BY <1>5, FinishType DEF Crash
<1> QED
  BY <1>1, <1>2, <1>3, <1>4, <1>5 DEF Next

\* Every variable keeps its type.
THEOREM TypeCorrect == Spec => []TypeOK
<1> QED
  BY InitType, TypeStep, PTL DEF Spec

\* What the two actions that remove directories leave of what they do not remove.
Fewer ==
  /\ releases' \subseteq releases
  /\ \A r \in Release : manifest'[r] \in {manifest[r], "none"}

LEMMA DiscardShape ==
  ASSUME TypeOK, NEW p \in Procs, Discard(p)
  PROVE  /\ Fewer /\ UNCHANGED <<current, meta, clock>>
         /\ releases \ releases' \subseteq {loc[p].cand}
         /\ loc[p].cmd = "rollback" => releases' = releases
<1>1. CASE UNCHANGED store
  BY <1>1 DEF Fewer, Discard, TypeOK
<1>2. CASE RemoveTree(loc[p].cand)
  BY <1>2, RemoveTreeOnly DEF Fewer, Discard, TypeOK
<1> QED
  BY <1>1, <1>2 DEF Discard

LEMMA DeleteOldestShape ==
  ASSUME TypeOK, NEW p \in Procs, DeleteOldest(p)
  PROVE  /\ Fewer /\ UNCHANGED <<current, meta, lock, clock, worker, asked, pc, live>>
         /\ pc[p] = "delete" /\ loc'[p].doomed \subseteq loc[p].doomed
         /\ releases \ releases' \subseteq loc[p].doomed \ loc'[p].doomed
         /\ loc'[p].cmd = loc[p].cmd /\ loc'[p].cand = loc[p].cand
         /\ loc'[p].back = loc[p].back /\ loc'[p].meta = loc[p].meta
         /\ \A q \in Procs \ {p} : loc'[q] = loc[q]
<1>1. PICK r \in loc[p].doomed :
        /\ RemoveTree(r)
        /\ loc' = [loc EXCEPT ![p].doomed = @ \ {r}, ![p].deleted = @ \cup {r}]
  BY DEF DeleteOldest
<1>2. Fewer
  BY <1>1, RemoveTreeOnly DEF Fewer, TypeOK
<1>3. /\ loc'[p] = [loc[p] EXCEPT !.doomed = @ \ {r}, !.deleted = @ \cup {r}]
      /\ \A q \in Procs \ {p} : loc'[q] = loc[q]
  BY <1>1 DEF TypeOK
<1>4. /\ loc'[p].doomed = loc[p].doomed \ {r}
      /\ loc'[p].cmd = loc[p].cmd /\ loc'[p].cand = loc[p].cand
      /\ loc'[p].back = loc[p].back /\ loc'[p].meta = loc[p].meta
  BY <1>3 DEF TypeOK, Locals
<1>5. releases \ releases' \subseteq {r}
  BY <1>1, RemoveTreeOnly
<1> QED
  BY <1>2, <1>3, <1>4, <1>5 DEF DeleteOldest

-----------------------------------------------------------------------------
(* Who may change what *)

Act(p) == Start(p) \/ Continue(p) \/ Crash(p)

\* A step of p leaves what the other processes are doing alone, keeps p in the
\* lock exactly while it is in a locked phase, and changes none of the shared
\* files (but a manifest) while another process holds the lock.
Isolated(p) ==
  /\ \A q \in Procs \ {p} : pc'[q] = pc[q] /\ loc'[q] = loc[q] /\ (lock' = q <=> lock = q)
  /\ pc'[p] \in Critical <=> lock' = p
  /\ lock \in Procs \ {p} => UNCHANGED <<releases, current, meta, clock, live>>

LEMMA MoveShape ==
  ASSUME TypeOK, LockInv, NEW p \in Procs, NEW label, Goto(p, label), lock' = lock,
         pc[p] \in Critical <=> label \in Critical,
         NEW l, loc' = [loc EXCEPT ![p] = l] \/ loc' = loc,
         pc[p] \in Critical \/ UNCHANGED <<releases, current, meta, clock, live>>
  PROVE  Isolated(p)
  BY DEF Isolated, TypeOK, LockInv, Goto

LEMMA FinishShape ==
  ASSUME TypeOK, LockInv, NEW p \in Procs, Finish(p),
         pc[p] \in Critical \/ UNCHANGED <<releases, current, meta, clock>>
  PROVE  Isolated(p)
<1> "idle" \notin Critical
  BY DEF Critical, BeforeActivation, AfterActivation
<1> QED
  BY DEF Isolated, TypeOK, LockInv, Finish, Goto

LEMMA RaiseShape ==
  ASSUME TypeOK, LockInv, NEW p \in Procs, Raise(p), pc[p] \in Critical
  PROVE  Isolated(p)
<1> {"writeunfit", "writefailed"} \cap Critical = {}
  BY DEF Critical, BeforeActivation, AfterActivation
<1>1. CASE Finish(p)
  BY <1>1, FinishShape
<1>2. CASE loc[p].cmd \in {"deploy", "refresh"}
  BY <1>2 DEF Isolated, TypeOK, LockInv, Raise, Goto
<1> QED
  BY <1>1, <1>2 DEF Raise

LEMMA TakeShape ==
  ASSUME TypeOK, LockInv, NEW p \in Procs, NEW label \in Critical, Take(p, label),
         NEW l, loc' = [loc EXCEPT ![p] = l] \/ loc' = loc
  PROVE  Isolated(p)
  BY DEF Isolated, TypeOK, LockInv, Take, Goto

LEMMA StepShape ==
  ASSUME TypeOK, LockInv, NEW p \in Procs, Act(p)
  PROVE  Isolated(p)
<1> USE DEF Critical, BeforeActivation, AfterActivation
<1>1. CASE Start(p)
  <2>1. CASE Create(p, TRUE) \/ Create(p, FALSE)
    BY <2>1 DEF Create, Isolated, LockInv
  <2>2. ASSUME NEW cmd \in {"deploy", "refresh"}, DeployLock(p, cmd) PROVE Isolated(p)
    BY <2>2, TakeShape DEF DeployLock
  <2>3. CASE ResolveTarget(p)
    BY <2>3, MoveShape DEF ResolveTarget
  <2>4. CASE ReadForBootstrap(p)
    BY <2>4, MoveShape DEF ReadForBootstrap
  <2> QED
    BY <1>1, <2>1, <2>2, <2>3, <2>4 DEF Start
<1>2. CASE Continue(p)
  <2>1. CASE Prepare(p)
    BY <2>1, MoveShape DEF Prepare
  <2>2. CASE PassPhase(p)
    BY <2>2, MoveShape DEF PassPhase, NextPhase, AfterRefresh
  <2>3. CASE PhaseError(p)
    BY <2>3, RaiseShape DEF PhaseError
  <2>4. CASE Activate(p)
    BY <2>4, MoveShape DEF Activate
  <2>5. CASE RestorePrevious(p)
    BY <2>5, MoveShape DEF RestorePrevious, AutoRestore
  <2>6. CASE Discard(p)
    BY <2>6, RaiseShape DEF Discard
  <2>7. CASE WriteFailed(p)
    BY <2>7, FinishShape DEF WriteFailed
  <2>8. CASE QueueRestart(p)
    BY <2>8, MoveShape DEF QueueRestart, AfterRefresh
  <2>9. CASE RestartEnabled(p)
    BY <2>9, MoveShape DEF RestartEnabled, AfterRefresh
  <2>10. CASE ListDoomed(p)
    BY <2>10, MoveShape DEF ListDoomed
  <2>11. CASE DeleteOldest(p)
    BY <2>11 DEF DeleteOldest, Isolated, TypeOK, LockInv
  <2>12. CASE SaveDeploy(p)
    BY <2>12, MoveShape DEF SaveDeploy
  <2>13. CASE WriteDeployed(p)
    BY <2>13 DEF WriteDeployed, Finish, Goto, Isolated, TypeOK, LockInv
  <2>14. CASE ReadCurrent(p)
    BY <2>14, MoveShape DEF ReadCurrent
  <2>15. CASE RollbackLock(p)
    BY <2>15, TakeShape DEF RollbackLock
  <2>16. CASE SaveRollback(p)
    BY <2>16, MoveShape DEF SaveRollback
  <2>17. CASE WriteRolledBack(p)
    BY <2>17, FinishShape DEF WriteRolledBack
  <2>18. CASE ReadForBootstrap(p)
    BY <2>18, MoveShape DEF ReadForBootstrap
  <2>19. CASE BootstrapLock(p)
    BY <2>19, TakeShape DEF BootstrapLock
  <2>20. CASE RunBootstrap(p)
    BY <2>20, FinishShape DEF RunBootstrap
  <2>21. CASE GiveUp(p)
    BY <2>21, FinishShape DEF GiveUp
  <2> QED
    BY <1>2, <2>1, <2>2, <2>3, <2>4, <2>5, <2>6, <2>7, <2>8, <2>9, <2>10, <2>11, <2>12, <2>13, <2>14, <2>15, <2>16, <2>17, <2>18, <2>19, <2>20, <2>21 DEF Continue
<1>3. CASE Crash(p)
  BY <1>3, FinishShape DEF Crash
<1> QED
  BY <1>1, <1>2, <1>3 DEF Act

LEMMA LockStep == TypeOK /\ LockInv /\ [Next]_vars => LockInv'
<1> SUFFICES ASSUME TypeOK, LockInv, [Next]_vars PROVE LockInv'
  OBVIOUS
<1>1. ASSUME NEW p \in Procs, Act(p) PROVE LockInv'
  BY <1>1, StepShape DEF Isolated, LockInv
<1>2. CASE StartWorker
  BY <1>2 DEF StartWorker, LockInv
<1>3. CASE UNCHANGED vars
  BY <1>3 DEF vars, LockInv
<1> QED
  BY <1>1, <1>2, <1>3 DEF Next, Act

-----------------------------------------------------------------------------
(* Phases and commands *)

LEMMA CommandOwn ==
  ASSUME TypeOK, NEW p \in Procs, CommandOf(p), Act(p)
  PROVE  CommandOf(p)'
<1> USE DEF TypeOK, CommandOf, Deploying, BeforeActivation, AfterActivation
<1>1. CASE Start(p)
  <2>1. CASE Create(p, TRUE) \/ Create(p, FALSE)
    BY <2>1 DEF Create, Unregistered
  <2>2. ASSUME NEW cmd \in {"deploy", "refresh"}, DeployLock(p, cmd) PROVE CommandOf(p)'
    BY <2>2 DEF DeployLock, Take, Goto, NoLocals
  <2>3. CASE ResolveTarget(p)
    BY <2>3 DEF ResolveTarget, Goto, NoLocals
  <2>4. CASE ReadForBootstrap(p)
    BY <2>4 DEF ReadForBootstrap, Goto, NoLocals
  <2> QED
    BY <1>1, <2>1, <2>2, <2>3, <2>4 DEF Start
<1>2. CASE Continue(p)
  <2>1. CASE Prepare(p)
    BY <2>1 DEF Prepare, Goto
  <2>2. CASE PassPhase(p)
    BY <2>2 DEF PassPhase, NextPhase, AfterRefresh, Goto
  <2>3. CASE PhaseError(p)
    BY <2>3 DEF PhaseError, Raise, Finish, Goto
  <2>4. CASE Activate(p)
    BY <2>4 DEF Activate, Goto
  <2>5. CASE RestorePrevious(p)
    BY <2>5 DEF RestorePrevious, AutoRestore, Goto
  <2>6. CASE Discard(p)
    BY <2>6 DEF Discard, Raise, Finish, Goto
  <2>7. CASE WriteFailed(p)
    BY <2>7 DEF WriteFailed, Finish, Goto
  <2>8. CASE QueueRestart(p)
    BY <2>8 DEF QueueRestart, AfterRefresh, Goto
  <2>9. CASE RestartEnabled(p)
    BY <2>9 DEF RestartEnabled, AfterRefresh, Goto
  <2>10. CASE ListDoomed(p)
    BY <2>10 DEF ListDoomed, Goto
  <2>11. CASE DeleteOldest(p)
    BY <2>11 DEF DeleteOldest
  <2>12. CASE SaveDeploy(p)
    BY <2>12 DEF SaveDeploy, Goto
  <2>13. CASE WriteDeployed(p)
    BY <2>13 DEF WriteDeployed, Finish, Goto
  <2>14. CASE ReadCurrent(p)
    BY <2>14 DEF ReadCurrent, Goto
  <2>15. CASE RollbackLock(p)
    BY <2>15 DEF RollbackLock, Take, Goto
  <2>16. CASE SaveRollback(p)
    BY <2>16 DEF SaveRollback, Goto
  <2>17. CASE WriteRolledBack(p)
    BY <2>17 DEF WriteRolledBack, Finish, Goto
  <2>18. CASE ReadForBootstrap(p)
    BY <2>18 DEF ReadForBootstrap, Goto, NoLocals
  <2>19. CASE BootstrapLock(p)
    BY <2>19 DEF BootstrapLock, Take, Goto
  <2>20. CASE RunBootstrap(p)
    BY <2>20 DEF RunBootstrap, Finish, Goto
  <2>21. CASE GiveUp(p)
    BY <2>21 DEF GiveUp, Finish, Goto
  <2> QED
    BY <1>2, <2>1, <2>2, <2>3, <2>4, <2>5, <2>6, <2>7, <2>8, <2>9, <2>10, <2>11, <2>12, <2>13, <2>14, <2>15, <2>16, <2>17, <2>18, <2>19, <2>20, <2>21 DEF Continue
<1>3. CASE Crash(p)
  BY <1>3 DEF Crash, Finish, Goto
<1> QED
  BY <1>1, <1>2, <1>3 DEF Act

LEMMA CommandStep == TypeOK /\ LockInv /\ CommandInv /\ [Next]_vars => CommandInv'
<1> SUFFICES ASSUME TypeOK, LockInv, CommandInv, [Next]_vars PROVE CommandInv'
  OBVIOUS
<1>1. ASSUME NEW p \in Procs, Act(p) PROVE CommandInv'
  <2>1. CommandOf(p)'
    BY <1>1, CommandOwn DEF CommandInv
  <2>2. ASSUME NEW q \in Procs \ {p} PROVE CommandOf(q)'
    <3>1. pc'[q] = pc[q] /\ loc'[q] = loc[q]
      BY <1>1, StepShape DEF Isolated
    <3> QED
      BY <3>1 DEF CommandInv, CommandOf, Deploying
  <2> QED
    BY <2>1, <2>2 DEF CommandInv
<1>2. CASE StartWorker \/ UNCHANGED vars
  BY <1>2 DEF StartWorker, vars, CommandInv, CommandOf, Deploying
<1> QED
  BY <1>1, <1>2 DEF Next, Act

-----------------------------------------------------------------------------
(* Ids *)

LEMMA IdOwn ==
  ASSUME TypeOK, CommandInv, IdInv, NEW p \in Procs, Act(p)
  PROVE  /\ \A r \in releases' : r < clock'
         /\ meta'.lastDeploy < clock'
         /\ \A r \in Release : r >= clock' => manifest'[r] = "none"
         /\ IdOf(p)'
         /\ clock' \in {clock, clock + 1}
<1> DEFINE Goal == /\ \A r \in releases' : r < clock'
                   /\ meta'.lastDeploy < clock'
                   /\ \A r \in Release : r >= clock' => manifest'[r] = "none"
                   /\ IdOf(p)'
                   /\ clock' \in {clock, clock + 1}
<1> SUFFICES Goal
  OBVIOUS
<1> USE DEF TypeOK, IdInv, IdOf, Deploying
<1>0. /\ CommandOf(p)
      /\ meta.lastDeploy \in MaybeRelease /\ Unregistered.lastDeploy = 0
      /\ loc[p].cand \in MaybeRelease /\ loc[p].back \in MaybeRelease
      /\ meta.lastDeploy \in Nat /\ clock \in Nat
      /\ GetCurrent = NoRelease \/ GetCurrent \in releases
  BY GetCurrentType DEF CommandInv, Metadata, Locals, Unregistered
<1>1. CASE Start(p)
  <2>1. CASE Create(p, TRUE) \/ Create(p, FALSE)
    BY <2>1, <1>0 DEF Create, Unregistered, CommandOf
  <2>2. ASSUME NEW cmd \in {"deploy", "refresh"}, DeployLock(p, cmd) PROVE Goal
    BY <2>2, <1>0 DEF DeployLock, Take, Goto, NoLocals, CommandOf
  <2>3. CASE ResolveTarget(p)
    BY <2>3, <1>0 DEF ResolveTarget, Goto, NoLocals, CommandOf
  <2>4. CASE ReadForBootstrap(p)
    BY <2>4, <1>0 DEF ReadForBootstrap, Goto, NoLocals, CommandOf
  <2> QED
    BY <1>1, <2>1, <2>2, <2>3, <2>4 DEF Start
<1>2. CASE Continue(p)
  <2>1. CASE Prepare(p)
    BY <2>1, <1>0 DEF Prepare, Goto, CommandOf
  <2>2. CASE PassPhase(p)
    BY <2>2, <1>0 DEF PassPhase, NextPhase, AfterRefresh, Goto, CommandOf
  <2>3. CASE PhaseError(p)
    BY <2>3, <1>0 DEF PhaseError, Raise, Finish, Goto, NoLocals, CommandOf
  <2>4. CASE Activate(p)
    BY <2>4, <1>0 DEF Activate, Goto, CommandOf
  <2>5. CASE RestorePrevious(p)
    BY <2>5, <1>0 DEF RestorePrevious, AutoRestore, Goto, CommandOf
  <2>6. CASE Discard(p)
    <3>1. CASE loc[p].cmd = "rollback"
      <4>1. Finish(p) /\ UNCHANGED <<store, meta, clock>>
        BY <2>6, <3>1 DEF Discard, Raise
      <4>2. loc'[p].cmd = "none"
        BY <4>1 DEF Finish, NoLocals
      <4> QED
        BY <4>1, <4>2
    <3>2. CASE Deploying(p)
      BY <2>6, <1>0, <3>2, DiscardShape DEF Fewer, Discard, Raise, Goto
    <3> QED
      BY <2>6, <1>0, <3>1, <3>2 DEF Discard, CommandOf
  <2>7. CASE WriteFailed(p)
    BY <2>7, <1>0 DEF WriteFailed, Finish, Goto, NoLocals, CommandOf
  <2>8. CASE QueueRestart(p)
    BY <2>8, <1>0 DEF QueueRestart, AfterRefresh, Goto, CommandOf
  <2>9. CASE RestartEnabled(p)
    BY <2>9, <1>0 DEF RestartEnabled, AfterRefresh, Goto, CommandOf
  <2>10. CASE ListDoomed(p)
    BY <2>10, <1>0 DEF ListDoomed, Goto, CommandOf
  <2>11. CASE DeleteOldest(p)
    <3>1. /\ Fewer /\ UNCHANGED <<meta, clock>> /\ loc'[p].cmd = loc[p].cmd
          /\ loc'[p].cand = loc[p].cand /\ loc'[p].back = loc[p].back
      BY <2>11, DeleteOldestShape
    <3>2. IdOf(p)'
      BY <3>1
    <3>3. /\ \A r \in releases' : r < clock'
          /\ meta'.lastDeploy < clock'
          /\ \A r \in Release : r >= clock' => manifest'[r] = "none"
      BY <3>1 DEF Fewer
    <3> QED
      BY <3>1, <3>2, <3>3
  <2>12. CASE SaveDeploy(p)
    BY <2>12, <1>0 DEF SaveDeploy, Goto, CommandOf
  <2>13. CASE WriteDeployed(p)
    BY <2>13, <1>0 DEF WriteDeployed, Finish, Goto, NoLocals, CommandOf
  <2>14. CASE ReadCurrent(p)
    BY <2>14, <1>0 DEF ReadCurrent, Goto, CommandOf
  <2>15. CASE RollbackLock(p)
    BY <2>15, <1>0 DEF RollbackLock, Take, Goto, CommandOf
  <2>16. CASE SaveRollback(p)
    BY <2>16, <1>0 DEF SaveRollback, Goto, CommandOf
  <2>17. CASE WriteRolledBack(p)
    BY <2>17, <1>0 DEF WriteRolledBack, Finish, Goto, NoLocals, CommandOf
  <2>18. CASE ReadForBootstrap(p)
    BY <2>18, <1>0 DEF ReadForBootstrap, Goto, NoLocals, CommandOf
  <2>19. CASE BootstrapLock(p)
    BY <2>19, <1>0 DEF BootstrapLock, Take, Goto, CommandOf
  <2>20. CASE RunBootstrap(p)
    BY <2>20, <1>0 DEF RunBootstrap, Finish, Goto, NoLocals, CommandOf
  <2>21. CASE GiveUp(p)
    BY <2>21, <1>0 DEF GiveUp, Finish, Goto, NoLocals, CommandOf
  <2> QED
    BY <1>2, <2>1, <2>2, <2>3, <2>4, <2>5, <2>6, <2>7, <2>8, <2>9, <2>10, <2>11, <2>12, <2>13, <2>14, <2>15, <2>16, <2>17, <2>18, <2>19, <2>20, <2>21 DEF Continue
<1>3. CASE Crash(p)
  BY <1>3, <1>0 DEF Crash, Finish, Goto, NoLocals, CommandOf
<1> QED
  BY <1>1, <1>2, <1>3 DEF Act

LEMMA IdStep == TypeOK /\ LockInv /\ CommandInv /\ IdInv /\ [Next]_vars => IdInv'
<1> SUFFICES ASSUME TypeOK, LockInv, CommandInv, IdInv, [Next]_vars PROVE IdInv'
  OBVIOUS
<1>1. ASSUME NEW p \in Procs, Act(p) PROVE IdInv'
  <2>1. ASSUME NEW q \in Procs \ {p} PROVE IdOf(q)'
    <3>1. loc'[q] = loc[q] /\ clock' \in {clock, clock + 1}
      BY <1>1, StepShape, IdOwn DEF Isolated
    <3>2. loc[q].cand \in Nat /\ loc[q].back \in Nat /\ clock \in Nat
      BY DEF TypeOK, Locals
    <3> QED
      BY <3>1, <3>2 DEF IdInv, IdOf, Deploying
  <2> QED
    BY <1>1, <2>1, IdOwn DEF IdInv
<1>2. CASE StartWorker \/ UNCHANGED vars
  BY <1>2 DEF StartWorker, vars, IdInv, IdOf, Deploying
<1> QED
  BY <1>1, <1>2 DEF Next, Act
-----------------------------------------------------------------------------
(* The symlink *)

LEMMA CurrentOwn ==
  ASSUME TypeOK, LockInv, CommandInv, IdInv, CurrentInv, NEW p \in Procs, Act(p)
  PROVE  NoDangling' /\ CurrentOf(p)'
<1> DEFINE Goal == NoDangling' /\ CurrentOf(p)'
<1> SUFFICES Goal
  OBVIOUS
<1> USE DEF TypeOK, NoDangling, CurrentOf, Deploying, Critical, BeforeActivation, AfterActivation
<1>0. /\ CommandOf(p) /\ IdOf(p) /\ CurrentOf(p) /\ NoDangling
      /\ \A r \in releases : r < clock
      /\ GetCurrent = current
      /\ PruneSet \subseteq releases \ {current}
      /\ loc[p].cand \in Nat /\ loc[p].back \in Nat /\ clock \in Nat
  BY PruneSetSpares DEF CommandInv, IdInv, CurrentInv, GetCurrent, Locals
<1>1. CASE Start(p)
  <2>1. CASE Create(p, TRUE) \/ Create(p, FALSE)
    BY <2>1, <1>0 DEF Create, Unregistered, CommandOf, IdOf
  <2>2. ASSUME NEW cmd \in {"deploy", "refresh"}, DeployLock(p, cmd) PROVE Goal
    BY <2>2, <1>0 DEF DeployLock, Take, Goto, NoLocals, CommandOf, IdOf
  <2>3. CASE ResolveTarget(p)
    BY <2>3, <1>0 DEF ResolveTarget, Goto, NoLocals, CommandOf, IdOf
  <2>4. CASE ReadForBootstrap(p)
    BY <2>4, <1>0 DEF ReadForBootstrap, Goto, NoLocals, CommandOf, IdOf
  <2> QED
    BY <1>1, <2>1, <2>2, <2>3, <2>4 DEF Start
<1>2. CASE Continue(p)
  <2>1. CASE Prepare(p)
    BY <2>1, <1>0 DEF Prepare, Goto, CommandOf, IdOf
  <2>2. CASE PassPhase(p)
    BY <2>2, <1>0 DEF PassPhase, NextPhase, AfterRefresh, Goto, CommandOf, IdOf
  <2>3. CASE PhaseError(p)
    BY <2>3, <1>0 DEF PhaseError, Raise, Finish, Goto, NoLocals, CommandOf, IdOf
  <2>4. CASE Activate(p)
    BY <2>4, <1>0 DEF Activate, Goto, CommandOf, IdOf
  <2>5. CASE RestorePrevious(p)
    BY <2>5, <1>0 DEF RestorePrevious, AutoRestore, Goto, CommandOf, IdOf
  <2>6. CASE Discard(p)
    BY <2>6, <1>0, DiscardShape DEF Fewer, Discard, Raise, Finish, Goto, NoLocals, CommandOf, IdOf
  <2>7. CASE WriteFailed(p)
    BY <2>7, <1>0 DEF WriteFailed, Finish, Goto, NoLocals, CommandOf, IdOf
  <2>8. CASE QueueRestart(p)
    BY <2>8, <1>0 DEF QueueRestart, AfterRefresh, Goto, CommandOf, IdOf
  <2>9. CASE RestartEnabled(p)
    BY <2>9, <1>0 DEF RestartEnabled, AfterRefresh, Goto, CommandOf, IdOf
  <2>10. CASE ListDoomed(p)
    BY <2>10, <1>0 DEF ListDoomed, Goto, CommandOf, IdOf
  <2>11. CASE DeleteOldest(p)
    BY <2>11, <1>0, DeleteOldestShape DEF Fewer, CommandOf, IdOf
  <2>12. CASE SaveDeploy(p)
    BY <2>12, <1>0 DEF SaveDeploy, Goto, CommandOf, IdOf
  <2>13. CASE WriteDeployed(p)
    BY <2>13, <1>0 DEF WriteDeployed, Finish, Goto, NoLocals, CommandOf, IdOf
  <2>14. CASE ReadCurrent(p)
    BY <2>14, <1>0 DEF ReadCurrent, Goto, CommandOf, IdOf
  <2>15. CASE RollbackLock(p)
    BY <2>15, <1>0 DEF RollbackLock, Take, Goto, CommandOf, IdOf
  <2>16. CASE SaveRollback(p)
    BY <2>16, <1>0 DEF SaveRollback, Goto, CommandOf, IdOf
  <2>17. CASE WriteRolledBack(p)
    BY <2>17, <1>0 DEF WriteRolledBack, Finish, Goto, NoLocals, CommandOf, IdOf
  <2>18. CASE ReadForBootstrap(p)
    BY <2>18, <1>0 DEF ReadForBootstrap, Goto, NoLocals, CommandOf, IdOf
  <2>19. CASE BootstrapLock(p)
    BY <2>19, <1>0 DEF BootstrapLock, Take, Goto, CommandOf, IdOf
  <2>20. CASE RunBootstrap(p)
    BY <2>20, <1>0 DEF RunBootstrap, Finish, Goto, NoLocals, CommandOf, IdOf
  <2>21. CASE GiveUp(p)
    BY <2>21, <1>0 DEF GiveUp, Finish, Goto, NoLocals, CommandOf, IdOf
  <2> QED
    BY <1>2, <2>1, <2>2, <2>3, <2>4, <2>5, <2>6, <2>7, <2>8, <2>9, <2>10, <2>11, <2>12, <2>13, <2>14, <2>15, <2>16, <2>17, <2>18, <2>19, <2>20, <2>21 DEF Continue
<1>3. CASE Crash(p)
  BY <1>3, <1>0 DEF Crash, Finish, Goto, NoLocals, CommandOf, IdOf
<1> QED
  BY <1>1, <1>2, <1>3 DEF Act

\* What a step changes of the symlink and the releases, it changes under the
\* lock: what the holder of the lock relies on stays as it is.
LEMMA CurrentStep ==
  TypeOK /\ LockInv /\ CommandInv /\ IdInv /\ CurrentInv /\ [Next]_vars => CurrentInv'
<1> SUFFICES ASSUME TypeOK, LockInv, CommandInv, IdInv, CurrentInv, [Next]_vars
             PROVE  CurrentInv'
  OBVIOUS
<1>1. ASSUME NEW p \in Procs, Act(p) PROVE CurrentInv'
  <2>1. ASSUME NEW q \in Procs \ {p} PROVE CurrentOf(q)'
    <3>1. pc'[q] = pc[q] /\ loc'[q] = loc[q]
      BY <1>1, StepShape DEF Isolated
    <3>2. CASE pc[q] \in Critical
      <4>1. UNCHANGED <<releases, current, live>>
        BY <1>1, <3>2, StepShape DEF Isolated, LockInv
      <4> QED
        BY <3>1, <4>1 DEF CurrentInv, CurrentOf, Deploying
    <3>3. CASE pc[q] \notin Critical
      BY <3>1, <3>3 DEF CurrentOf, Critical, AfterActivation
    <3> QED
      BY <3>2, <3>3
  <2> QED
    BY <1>1, <2>1, CurrentOwn DEF CurrentInv
<1>2. CASE StartWorker \/ UNCHANGED vars
  BY <1>2 DEF StartWorker, vars, CurrentInv, CurrentOf, NoDangling, Deploying
<1> QED
  BY <1>1, <1>2 DEF Next, Act

-----------------------------------------------------------------------------
(* The records *)

LEMMA RecordOwn ==
  ASSUME TypeOK, LockInv, CommandInv, IdInv, CurrentInv, RecordInv, NEW p \in Procs, Act(p)
  PROVE  NoFailedRecorded' /\ RecordOf(p)'
<1> DEFINE Goal == NoFailedRecorded' /\ RecordOf(p)'
<1> SUFFICES Goal
  OBVIOUS
<1> USE DEF TypeOK, NoFailedRecorded, RecordOf, Deploying, Critical, BeforeActivation, AfterActivation
<1>0. /\ CommandOf(p) /\ IdOf(p) /\ RecordOf(p) /\ NoFailedRecorded
      /\ meta.lastDeploy < clock
      /\ \A r \in Release : r >= clock => manifest[r] = "none"
      /\ loc[p].cand \in MaybeRelease /\ loc[p].back \in Nat /\ clock \in Nat
      /\ meta.lastDeploy \in MaybeRelease
      /\ meta \in Metadata /\ loc[p].meta \in Metadata
  BY DEF CommandInv, IdInv, RecordInv, Locals, Metadata
<1>1. CASE Start(p)
  <2>1. CASE Create(p, TRUE) \/ Create(p, FALSE)
    BY <2>1, <1>0 DEF Create, Unregistered, CommandOf, IdOf, Metadata
  <2>2. ASSUME NEW cmd \in {"deploy", "refresh"}, DeployLock(p, cmd) PROVE Goal
    BY <2>2, <1>0 DEF DeployLock, Take, Goto, NoLocals, CommandOf, IdOf, Metadata
  <2>3. CASE ResolveTarget(p)
    BY <2>3, <1>0 DEF ResolveTarget, Goto, NoLocals, CommandOf, IdOf, Metadata
  <2>4. CASE ReadForBootstrap(p)
    BY <2>4, <1>0 DEF ReadForBootstrap, Goto, NoLocals, CommandOf, IdOf, Metadata
  <2> QED
    BY <1>1, <2>1, <2>2, <2>3, <2>4 DEF Start
<1>2. CASE Continue(p)
  <2>1. CASE Prepare(p)
    BY <2>1, <1>0 DEF Prepare, Goto, CommandOf, IdOf, Metadata
  <2>2. CASE PassPhase(p)
    BY <2>2, <1>0 DEF PassPhase, NextPhase, AfterRefresh, Goto, CommandOf, IdOf, Metadata
  <2>3. CASE PhaseError(p)
    BY <2>3, <1>0 DEF PhaseError, Raise, Finish, Goto, NoLocals, CommandOf, IdOf, Metadata
  <2>4. CASE Activate(p)
    BY <2>4, <1>0 DEF Activate, Goto, CommandOf, IdOf, Metadata
  <2>5. CASE RestorePrevious(p)
    BY <2>5, <1>0 DEF RestorePrevious, AutoRestore, Goto, CommandOf, IdOf, Metadata
  <2>6. CASE Discard(p)
    <3>1. Fewer /\ meta' = meta /\ pc[p] = "restored"
      BY <2>6, DiscardShape DEF Discard
    <3>2. NoFailedRecorded'
      BY <3>1, <1>0 DEF Fewer
    <3>3. CASE loc[p].cmd = "rollback"
      <4>1. Finish(p)
        BY <2>6, <3>3 DEF Discard, Raise
      <4>2. loc'[p].cmd = "none"
        BY <4>1 DEF Finish, NoLocals
      <4> QED
        BY <3>2, <4>2
    <3>4. CASE Deploying(p)
      <4>1. pc'[p] = "writefailed" /\ loc' = loc
        BY <2>6, <3>4 DEF Discard, Raise, Goto
      <4>2. meta.lastDeploy # loc[p].cand \/ loc[p].cand = NoRelease
        BY <3>1, <3>4, <1>0
      <4>3. RecordOf(p)'
        BY <3>1, <4>1, <4>2
      <4> QED
        BY <3>2, <4>3
    <3> QED
      BY <3>1, <3>3, <3>4, <1>0 DEF CommandOf
  <2>7. CASE WriteFailed(p)
    BY <2>7, <1>0 DEF WriteFailed, Finish, Goto, NoLocals, CommandOf, IdOf, Metadata
  <2>8. CASE QueueRestart(p)
    BY <2>8, <1>0 DEF QueueRestart, AfterRefresh, Goto, CommandOf, IdOf, Metadata
  <2>9. CASE RestartEnabled(p)
    BY <2>9, <1>0 DEF RestartEnabled, AfterRefresh, Goto, CommandOf, IdOf, Metadata
  <2>10. CASE ListDoomed(p)
    BY <2>10, <1>0 DEF ListDoomed, Goto, CommandOf, IdOf, Metadata
  <2>11. CASE DeleteOldest(p)
    <3>1. /\ Fewer /\ UNCHANGED <<meta, clock>> /\ loc'[p].cmd = loc[p].cmd
          /\ loc'[p].cand = loc[p].cand /\ loc'[p].back = loc[p].back /\ loc'[p].meta = loc[p].meta
          /\ pc' = pc
      BY <2>11, DeleteOldestShape
    <3> QED
      BY <2>11, <3>1, <1>0 DEF Fewer, CommandOf, IdOf, Metadata
  <2>12. CASE SaveDeploy(p)
    BY <2>12, <1>0 DEF SaveDeploy, Goto, CommandOf, IdOf, Metadata
  <2>13. CASE WriteDeployed(p)
    BY <2>13, <1>0 DEF WriteDeployed, Finish, Goto, NoLocals, CommandOf, IdOf, Metadata
  <2>14. CASE ReadCurrent(p)
    BY <2>14, <1>0 DEF ReadCurrent, Goto, CommandOf, IdOf, Metadata
  <2>15. CASE RollbackLock(p)
    BY <2>15, <1>0 DEF RollbackLock, Take, Goto, CommandOf, IdOf, Metadata
  <2>16. CASE SaveRollback(p)
    BY <2>16, <1>0 DEF SaveRollback, Goto, CommandOf, IdOf, Metadata
  <2>17. CASE WriteRolledBack(p)
    BY <2>17, <1>0 DEF WriteRolledBack, Finish, Goto, NoLocals, CommandOf, IdOf, Metadata
  <2>18. CASE ReadForBootstrap(p)
    BY <2>18, <1>0 DEF ReadForBootstrap, Goto, NoLocals, CommandOf, IdOf, Metadata
  <2>19. CASE BootstrapLock(p)
    BY <2>19, <1>0 DEF BootstrapLock, Take, Goto, CommandOf, IdOf, Metadata
  <2>20. CASE RunBootstrap(p)
    BY <2>20, <1>0 DEF RunBootstrap, Finish, Goto, NoLocals, CommandOf, IdOf, Metadata
  <2>21. CASE GiveUp(p)
    BY <2>21, <1>0 DEF GiveUp, Finish, Goto, NoLocals, CommandOf, IdOf, Metadata
  <2> QED
    BY <1>2, <2>1, <2>2, <2>3, <2>4, <2>5, <2>6, <2>7, <2>8, <2>9, <2>10, <2>11, <2>12, <2>13, <2>14, <2>15, <2>16, <2>17, <2>18, <2>19, <2>20, <2>21 DEF Continue
<1>3. CASE Crash(p)
  BY <1>3, <1>0 DEF Crash, Finish, Goto, NoLocals, CommandOf, IdOf, Metadata
<1> QED
  BY <1>1, <1>2, <1>3 DEF Act

\* What a step of p may do to the records of the other commands: it names its
\* own release as last deploy, or none; without the lock it marks only its own
\* release; the release it works on is a new one or the one it had.
RecordChange(p) ==
  /\ \/ meta'.lastDeploy \in {meta.lastDeploy, NoRelease}
     \/ Deploying(p) /\ meta'.lastDeploy = loc[p].cand
  /\ \A r \in Release : manifest'[r] # manifest[r] =>
       pc[p] \in Critical \/ (Deploying(p) /\ r = loc[p].cand)
  /\ Deploying(p)' => \/ loc'[p].cand \in {NoRelease, clock}
                      \/ Deploying(p) /\ loc'[p].cand = loc[p].cand

LEMMA RecordChanges ==
  ASSUME TypeOK, CommandInv, NEW p \in Procs, Act(p)
  PROVE  RecordChange(p)
<1> USE DEF RecordChange, TypeOK, Deploying, Critical, BeforeActivation, AfterActivation
<1>0. CommandOf(p) /\ meta \in Metadata /\ loc[p].meta \in Metadata
  BY DEF CommandInv, Locals
<1>1. CASE Start(p)
  <2>1. CASE Create(p, TRUE) \/ Create(p, FALSE)
    BY <2>1, <1>0 DEF Create, Unregistered, CommandOf, Metadata
  <2>2. ASSUME NEW cmd \in {"deploy", "refresh"}, DeployLock(p, cmd) PROVE RecordChange(p)
    BY <2>2, <1>0 DEF DeployLock, Take, Goto, NoLocals, CommandOf, Metadata
  <2>3. CASE ResolveTarget(p)
    BY <2>3, <1>0 DEF ResolveTarget, Goto, NoLocals, CommandOf, Metadata
  <2>4. CASE ReadForBootstrap(p)
    BY <2>4, <1>0 DEF ReadForBootstrap, Goto, NoLocals, CommandOf, Metadata
  <2> QED
    BY <1>1, <2>1, <2>2, <2>3, <2>4 DEF Start
<1>2. CASE Continue(p)
  <2>1. CASE Prepare(p)
    BY <2>1, <1>0 DEF Prepare, Goto, CommandOf, Metadata
  <2>2. CASE PassPhase(p)
    BY <2>2, <1>0 DEF PassPhase, NextPhase, AfterRefresh, Goto, CommandOf, Metadata
  <2>3. CASE PhaseError(p)
    BY <2>3, <1>0 DEF PhaseError, Raise, Finish, Goto, NoLocals, CommandOf, Metadata
  <2>4. CASE Activate(p)
    BY <2>4, <1>0 DEF Activate, Goto, CommandOf, Metadata
  <2>5. CASE RestorePrevious(p)
    BY <2>5, <1>0 DEF RestorePrevious, AutoRestore, Goto, CommandOf, Metadata
  <2>6. CASE Discard(p)
    BY <2>6, <1>0, DiscardShape DEF Fewer, Discard, Raise, Finish, Goto, NoLocals, CommandOf, Metadata
  <2>7. CASE WriteFailed(p)
    BY <2>7, <1>0 DEF WriteFailed, Finish, Goto, NoLocals, CommandOf, Metadata
  <2>8. CASE QueueRestart(p)
    BY <2>8, <1>0 DEF QueueRestart, AfterRefresh, Goto, CommandOf, Metadata
  <2>9. CASE RestartEnabled(p)
    BY <2>9, <1>0 DEF RestartEnabled, AfterRefresh, Goto, CommandOf, Metadata
  <2>10. CASE ListDoomed(p)
    BY <2>10, <1>0 DEF ListDoomed, Goto, CommandOf, Metadata
  <2>11. CASE DeleteOldest(p)
    BY <2>11, <1>0, DeleteOldestShape DEF Fewer, CommandOf, Metadata
  <2>12. CASE SaveDeploy(p)
    BY <2>12, <1>0 DEF SaveDeploy, Goto, CommandOf, Metadata
  <2>13. CASE WriteDeployed(p)
    BY <2>13, <1>0 DEF WriteDeployed, Finish, Goto, NoLocals, CommandOf, Metadata
  <2>14. CASE ReadCurrent(p)
    BY <2>14, <1>0 DEF ReadCurrent, Goto, CommandOf, Metadata
  <2>15. CASE RollbackLock(p)
    BY <2>15, <1>0 DEF RollbackLock, Take, Goto, CommandOf, Metadata
  <2>16. CASE SaveRollback(p)
    BY <2>16, <1>0 DEF SaveRollback, Goto, CommandOf, Metadata
  <2>17. CASE WriteRolledBack(p)
    BY <2>17, <1>0 DEF WriteRolledBack, Finish, Goto, NoLocals, CommandOf, Metadata
  <2>18. CASE ReadForBootstrap(p)
    BY <2>18, <1>0 DEF ReadForBootstrap, Goto, NoLocals, CommandOf, Metadata
  <2>19. CASE BootstrapLock(p)
    BY <2>19, <1>0 DEF BootstrapLock, Take, Goto, CommandOf, Metadata
  <2>20. CASE RunBootstrap(p)
    BY <2>20, <1>0 DEF RunBootstrap, Finish, Goto, NoLocals, CommandOf, Metadata
  <2>21. CASE GiveUp(p)
    BY <2>21, <1>0 DEF GiveUp, Finish, Goto, NoLocals, CommandOf, Metadata
  <2> QED
    BY <1>2, <2>1, <2>2, <2>3, <2>4, <2>5, <2>6, <2>7, <2>8, <2>9, <2>10, <2>11, <2>12, <2>13, <2>14, <2>15, <2>16, <2>17, <2>18, <2>19, <2>20, <2>21 DEF Continue
<1>3. CASE Crash(p)
  BY <1>3, <1>0 DEF Crash, Finish, Goto, NoLocals, CommandOf, Metadata
<1> QED
  BY <1>1, <1>2, <1>3 DEF Act

LEMMA RecordStep ==
  TypeOK /\ LockInv /\ CommandInv /\ IdInv /\ CurrentInv /\ RecordInv /\ [Next]_vars
    => RecordInv'
<1> SUFFICES ASSUME TypeOK, LockInv, CommandInv, IdInv, CurrentInv, RecordInv, [Next]_vars
             PROVE  RecordInv'
  OBVIOUS
<1>1. ASSUME NEW p \in Procs, Act(p) PROVE RecordInv'
  <2>0. /\ RecordChange(p) /\ Isolated(p)
        /\ \A q \in Procs : loc[q].cand \in MaybeRelease /\ IdOf(q)
        /\ clock \in Nat
    BY <1>1, RecordChanges, StepShape DEF TypeOK, Locals, IdInv
  <2>1. ASSUME NEW q \in Procs \ {p} PROVE RecordOf(q)'
    <3>1. pc'[q] = pc[q] /\ loc'[q] = loc[q] /\ RecordOf(q)
      BY <2>0 DEF Isolated, RecordInv
    <3>2. ASSUME Deploying(q), loc[q].cand # NoRelease PROVE Deploying(p) => loc[p].cand # loc[q].cand
      BY <3>2 DEF RecordInv, DistinctCandidates
    <3>3. ASSUME pc[q] \in Critical
          PROVE  /\ meta' = meta
                 /\ \A r \in Release : manifest'[r] # manifest[r] => Deploying(p) /\ r = loc[p].cand
      BY <2>0, <3>3 DEF Isolated, LockInv, RecordChange
    <3> QED
      BY <2>0, <3>1, <3>2, <3>3 DEF RecordOf, RecordChange, Deploying
  <2>2. DistinctCandidates'
    <3>1. ASSUME NEW q \in Procs \ {p}, Deploying(q), Deploying(p)',
                 loc'[p].cand = loc[q].cand
          PROVE  loc[q].cand = NoRelease
      BY <2>0, <3>1 DEF RecordChange, RecordInv, DistinctCandidates, IdOf
    <3>2. \A q \in Procs \ {p} : loc'[q] = loc[q]
      BY <2>0 DEF Isolated
    <3> QED
      BY <3>1, <3>2 DEF RecordInv, DistinctCandidates, Deploying
  <2> QED
    BY <1>1, <2>1, <2>2, RecordOwn DEF RecordInv
<1>2. CASE StartWorker \/ UNCHANGED vars
  BY <1>2 DEF StartWorker, vars, RecordInv, RecordOf, DistinctCandidates, NoFailedRecorded, Deploying
<1> QED
  BY <1>1, <1>2 DEF Next, Act

-----------------------------------------------------------------------------
(* The theorems *)

LEMMA InitIInv == Init => IInv
<1> SUFFICES ASSUME Init PROVE IInv
  OBVIOUS
<1>1. TypeOK
  BY InitType
<1>2. LockInv /\ CommandInv
  BY DEF Init, LockInv, CommandInv, CommandOf, Deploying, NoLocals, Critical, BeforeActivation,
         AfterActivation
<1>3. IdInv
  BY DEF Init, IdInv, IdOf, Deploying, NoLocals, Unregistered
<1>4. CurrentInv /\ RecordInv
  BY DEF Init, CurrentInv, CurrentOf, NoDangling, RecordInv, RecordOf, NoFailedRecorded,
         DistinctCandidates, Deploying, NoLocals, Unregistered, AfterActivation
<1> QED
  BY <1>1, <1>2, <1>3, <1>4 DEF IInv

LEMMA IInvStep == IInv /\ [Next]_vars => IInv'
  BY TypeStep, LockStep, CommandStep, IdStep, CurrentStep, RecordStep DEF IInv

\* The invariant of the module is inductive.
THEOREM Inductive == Spec => []IInv
<1> QED
  BY InitIInv, IInvStep, PTL DEF Spec

\* Whatever runs, crashes or fails, `current` never dangles.
THEOREM NeverDangling == Spec => []NoDangling
<1>1. IInv => NoDangling
  BY DEF IInv, CurrentInv
<1> QED
  BY <1>1, Inductive, PTL

\* From its switch to its end a command serves the release it works on.
THEOREM ServesOwn == Spec => []ServesOwnRelease
<1>1. IInv => ServesOwnRelease
  BY DEF IInv, CurrentInv, CurrentOf, ServesOwnRelease
<1> QED
  BY <1>1, Inductive, PTL

\* A deploy whose gate fails puts back what was live when it began.
THEOREM DeployRestores == Spec => []DeployRestoresLive
<1>1. IInv => DeployRestoresLive
  BY DEF IInv, CurrentInv, CurrentOf, CommandInv, CommandOf, DeployRestoresLive, Deploying, Critical
<1> QED
  BY <1>1, Inductive, PTL

\* A failed release is never the recorded last deploy.
THEOREM NeverFailedRecorded == Spec => []NoFailedRecorded
<1>1. IInv => NoFailedRecorded
  BY DEF IInv, RecordInv
<1> QED
  BY <1>1, Inductive, PTL

\* The metadata a deploy saves differ from those on disk in last_deploy only.
THEOREM SavesLose == Spec => SavesLoseNothing
<1> DEFINE Saved(p) == pc[p] = "delete" /\ pc'[p] = "manifest" =>
                         meta' = [meta EXCEPT !.lastDeploy = loc[p].cand]
<1>1. ASSUME IInv, [Next]_vars, NEW p \in Procs PROVE Saved(p)
  <2> SUFFICES ASSUME pc[p] = "delete", pc'[p] = "manifest"
               PROVE  meta' = [meta EXCEPT !.lastDeploy = loc[p].cand]
    OBVIOUS
  <2>1. Act(p)
    <3>1. CASE StartWorker \/ UNCHANGED vars
      BY <3>1 DEF StartWorker, vars
    <3>2. ASSUME NEW q \in Procs, Act(q) PROVE q = p
      BY <1>1, <3>2, StepShape DEF IInv, Isolated
    <3> QED
      BY <1>1, <3>1, <3>2 DEF Next, Act
  <2>2. SaveDeploy(p)
    <3> USE DEF Goto
    <3>1. TypeOK
      BY <1>1 DEF IInv
    <3>2. ~Start(p)
      BY <3>1 DEF Start, Create, DeployLock, Take, ResolveTarget, ReadForBootstrap, TypeOK
    <3>3. ~Crash(p)
      BY <3>1 DEF Crash, Finish, TypeOK
    <3>4. Continue(p)
      BY <2>1, <3>2, <3>3 DEF Act
    <3>5. ~(Prepare(p) \/ PassPhase(p) \/ PhaseError(p) \/ Activate(p) \/ RestorePrevious(p)
            \/ Discard(p) \/ WriteFailed(p) \/ QueueRestart(p) \/ RestartEnabled(p))
      BY DEF Prepare, PassPhase, NextPhase, PhaseError, Activate, RestorePrevious, AutoRestore,
             Discard, WriteFailed, QueueRestart, RestartEnabled
    <3>6. ~(ListDoomed(p) \/ DeleteOldest(p) \/ WriteDeployed(p))
      BY DEF ListDoomed, DeleteOldest, WriteDeployed
    <3>7. ~(ReadCurrent(p) \/ RollbackLock(p) \/ SaveRollback(p) \/ WriteRolledBack(p)
            \/ ReadForBootstrap(p) \/ BootstrapLock(p) \/ RunBootstrap(p) \/ GiveUp(p))
      BY DEF ReadCurrent, RollbackLock, SaveRollback, WriteRolledBack, ReadForBootstrap,
             BootstrapLock, RunBootstrap, GiveUp
    <3> QED
      BY <3>4, <3>5, <3>6, <3>7 DEF Continue
  <2>3. loc[p].meta = meta
    BY <1>1 DEF IInv, CommandInv, CommandOf, RecordInv, RecordOf, Critical, AfterActivation
  <2> QED
    BY <2>2, <2>3 DEF SaveDeploy
<1>2. IInv /\ [Next]_vars => [\A p \in Procs : Saved(p)]_vars
  BY <1>1
<1> QED
  BY <1>2, Inductive, PTL DEF Spec, SavesLoseNothing

\* With restart-enabled, no worker runs other code than the live release once a
\* command has passed its runtime refresh.
LEMMA WorkerOwn ==
  ASSUME TypeOK, CommandInv, CurrentInv, NEW p \in Procs, Act(p),
         Strategy = "restart-enabled",
         pc[p] \in AfterRestart => worker \in {NoRelease, current}
  PROVE  /\ pc'[p] \in AfterRestart => worker' \in {NoRelease, current'}
         /\ pc[p] \in Critical \/ worker' = worker
<1> DEFINE Goal == /\ pc'[p] \in AfterRestart => worker' \in {NoRelease, current'}
                   /\ pc[p] \in Critical \/ worker' = worker
<1> SUFFICES Goal
  OBVIOUS
<1> USE DEF TypeOK, AfterRestart, Critical, AfterActivation, BeforeActivation
<1>0. CommandOf(p) /\ GetCurrent \in {NoRelease, current}
  BY DEF CommandInv, GetCurrent
<1>1. CASE Start(p)
  <2>1. CASE Create(p, TRUE) \/ Create(p, FALSE)
    BY <2>1, <1>0 DEF Create, Unregistered, CommandOf
  <2>2. ASSUME NEW cmd \in {"deploy", "refresh"}, DeployLock(p, cmd) PROVE Goal
    BY <2>2, <1>0 DEF DeployLock, Take, Goto, NoLocals, CommandOf
  <2>3. CASE ResolveTarget(p)
    BY <2>3, <1>0 DEF ResolveTarget, Goto, NoLocals, CommandOf
  <2>4. CASE ReadForBootstrap(p)
    BY <2>4, <1>0 DEF ReadForBootstrap, Goto, NoLocals, CommandOf
  <2> QED
    BY <1>1, <2>1, <2>2, <2>3, <2>4 DEF Start
<1>2. CASE Continue(p)
  <2>1. CASE Prepare(p)
    BY <2>1, <1>0 DEF Prepare, Goto, CommandOf
  <2>2. CASE PassPhase(p)
    BY <2>2, <1>0 DEF PassPhase, NextPhase, AfterRefresh, Goto, CommandOf
  <2>3. CASE PhaseError(p)
    BY <2>3, <1>0 DEF PhaseError, Raise, Finish, Goto, NoLocals, CommandOf
  <2>4. CASE Activate(p)
    BY <2>4, <1>0 DEF Activate, Goto, CommandOf
  <2>5. CASE RestorePrevious(p)
    BY <2>5, <1>0 DEF RestorePrevious, AutoRestore, Goto, CommandOf
  <2>6. CASE Discard(p)
    BY <2>6, <1>0, DiscardShape DEF Fewer, Discard, Raise, Finish, Goto, NoLocals, CommandOf
  <2>7. CASE WriteFailed(p)
    BY <2>7, <1>0 DEF WriteFailed, Finish, Goto, NoLocals, CommandOf
  <2>8. CASE QueueRestart(p)
    BY <2>8, <1>0 DEF QueueRestart, AfterRefresh, Goto, CommandOf
  <2>9. CASE RestartEnabled(p)
    BY <2>9, <1>0 DEF RestartEnabled, AfterRefresh, Goto, CommandOf
  <2>10. CASE ListDoomed(p)
    BY <2>10, <1>0 DEF ListDoomed, Goto, CommandOf
  <2>11. CASE DeleteOldest(p)
    BY <2>11, <1>0, DeleteOldestShape DEF Fewer, CommandOf
  <2>12. CASE SaveDeploy(p)
    BY <2>12, <1>0 DEF SaveDeploy, Goto, CommandOf
  <2>13. CASE WriteDeployed(p)
    BY <2>13, <1>0 DEF WriteDeployed, Finish, Goto, NoLocals, CommandOf
  <2>14. CASE ReadCurrent(p)
    BY <2>14, <1>0 DEF ReadCurrent, Goto, CommandOf
  <2>15. CASE RollbackLock(p)
    BY <2>15, <1>0 DEF RollbackLock, Take, Goto, CommandOf
  <2>16. CASE SaveRollback(p)
    BY <2>16, <1>0 DEF SaveRollback, Goto, CommandOf
  <2>17. CASE WriteRolledBack(p)
    BY <2>17, <1>0 DEF WriteRolledBack, Finish, Goto, NoLocals, CommandOf
  <2>18. CASE ReadForBootstrap(p)
    BY <2>18, <1>0 DEF ReadForBootstrap, Goto, NoLocals, CommandOf
  <2>19. CASE BootstrapLock(p)
    BY <2>19, <1>0 DEF BootstrapLock, Take, Goto, CommandOf
  <2>20. CASE RunBootstrap(p)
    BY <2>20, <1>0 DEF RunBootstrap, Finish, Goto, NoLocals, CommandOf
  <2>21. CASE GiveUp(p)
    BY <2>21, <1>0 DEF GiveUp, Finish, Goto, NoLocals, CommandOf
  <2> QED
    BY <1>2, <2>1, <2>2, <2>3, <2>4, <2>5, <2>6, <2>7, <2>8, <2>9, <2>10, <2>11, <2>12, <2>13, <2>14, <2>15, <2>16, <2>17, <2>18, <2>19, <2>20, <2>21 DEF Continue
<1>3. CASE Crash(p)
  BY <1>3, <1>0 DEF Crash, Finish, Goto, NoLocals, CommandOf
<1> QED
  BY <1>1, <1>2, <1>3 DEF Act

THEOREM WorkersFollow == Spec => []WorkersRestarted
<1>1. Init => WorkersRestarted
  BY DEF Init, WorkersRestarted
<1>2. IInv /\ WorkersRestarted /\ [Next]_vars => WorkersRestarted'
  <2> SUFFICES ASSUME IInv, WorkersRestarted, [Next]_vars, Strategy = "restart-enabled",
                      NEW q \in Procs, pc'[q] \in AfterRestart
               PROVE  worker' \in {NoRelease, current'}
    BY DEF WorkersRestarted
  <2> USE DEF WorkersRestarted
  <2>1. CASE StartWorker \/ UNCHANGED vars
    BY <2>1 DEF StartWorker, vars
  <2>2. ASSUME NEW p \in Procs, Act(p) PROVE worker' \in {NoRelease, current'}
    <3>1. CASE p = q
      BY <2>2, <3>1, WorkerOwn DEF IInv
    <3>2. CASE p # q
      <4>1. pc'[q] = pc[q] /\ Isolated(p)
        BY <2>2, <3>2, StepShape DEF IInv, Isolated
      <4>2. lock = q /\ pc[p] \notin Critical
        BY <3>2, <4>1 DEF IInv, LockInv, AfterRestart, Critical, AfterActivation
      <4>3. worker' = worker /\ current' = current
        BY <2>2, <3>2, <4>1, <4>2, WorkerOwn DEF IInv, Isolated
      <4> QED
        BY <4>1, <4>3
    <3> QED
      BY <3>1, <3>2
  <2> QED
    BY <2>1, <2>2 DEF Next, Act
<1> QED
  BY <1>1, <1>2, Inductive, PTL DEF Spec

\* The files implement ReleaseStore: every step of every command adds a newest
\* release, switches to one on disk, drops one that is not live, or changes
\* neither.
THEOREM ImplementsStore == Spec => StoreSpec
<1>1. Init => Store!StoreInit
  BY DEF Init, Store!StoreInit
<1>2. ASSUME IInv, [Next]_vars PROVE [Store!StoreNext]_(Store!storeVars)
  <2> USE DEF Store!StoreNext, Store!storeVars, Store!Add, Store!Switch, Store!Drop
  <2>1. CASE StartWorker \/ UNCHANGED vars
    BY <2>1 DEF StartWorker, vars
  <2>2. ASSUME NEW p \in Procs, Act(p) PROVE [Store!StoreNext]_(Store!storeVars)
    <3>0. /\ releases \subseteq Release /\ CommandOf(p) /\ IdOf(p) /\ CurrentOf(p)
          /\ loc[p].cand \in Nat /\ loc[p].back \in Nat /\ clock \in Nat
      BY <1>2 DEF IInv, TypeOK, Locals, CommandInv, IdInv, CurrentInv
    <3>1. CASE Prepare(p)
      <4>1. clock \in Release /\ \A r \in releases : r < clock
        BY <1>2, <3>1 DEF Prepare, IInv, TypeOK, IdInv
      <4>2. releases' = releases \cup {clock} /\ current' = current
        BY <3>1 DEF Prepare
      <4>3. Store!Add(clock)
        BY <3>0, <4>1, <4>2
      <4> QED
        BY <4>1, <4>3
    <3>2. CASE Activate(p)
      BY <3>2, <3>0 DEF Activate
    <3>3. CASE RestorePrevious(p)
      BY <3>3, <3>0 DEF RestorePrevious
    <3>4. CASE Discard(p)
      <4>1. CASE loc[p].cmd = "rollback"
        BY <3>4, <4>1 DEF Discard
      <4>2. CASE Deploying(p)
        <5>1. /\ releases' = releases \ {loc[p].cand} \/ releases' = releases
              /\ current' = current
              /\ loc[p].cand # current
          BY <3>4, <3>0, <4>2, RemoveTreeOnly
          DEF Discard, CurrentOf, IdOf, CommandOf, Deploying
        <5> QED
          BY <5>1, <3>0
      <4> QED
        BY <3>4, <3>0, <4>1, <4>2 DEF Discard, CommandOf, Deploying
    <3>5. CASE DeleteOldest(p)
      <4>1. PICK r \in loc[p].doomed :
              (releases' = releases \ {r} \/ releases' = releases) /\ current' = current
        BY <3>5, RemoveTreeOnly DEF DeleteOldest
      <4>2. r \in releases /\ r # current
        BY <3>5, <3>0, <4>1 DEF DeleteOldest, CurrentOf
      <4> QED
        BY <3>0, <4>1, <4>2
    <3>6. CASE UNCHANGED <<releases, current>>
      BY <3>6
    <3> QED
      BY <2>2, <3>1, <3>2, <3>3, <3>4, <3>5, <3>6
      DEF Act, Start, Continue, DeployLock, Create, ResolveTarget, ReadForBootstrap, PassPhase,
          PhaseError, WriteFailed, QueueRestart, RestartEnabled, ListDoomed, SaveDeploy,
          WriteDeployed, ReadCurrent, RollbackLock, SaveRollback, WriteRolledBack,
          BootstrapLock, RunBootstrap, GiveUp, Crash
  <2> QED
    BY <1>2, <2>1, <2>2 DEF Next, Act
<1> QED
  BY <1>1, <1>2, Inductive, PTL DEF Spec, StoreSpec, Store!StoreSpec

-----------------------------------------------------------------------------
(* What a prune leaves *)

\* The order of the numbers, as a relation.
LEMMA PairOfOrder ==
  ASSUME NEW m \in Nat, NEW n \in Nat, m < n PROVE <<m, n>> \in OpToRel(<, Nat)
<1>1. <<m, n>> \in Nat \X Nat /\ <<m, n>>[1] < <<m, n>>[2]
  OBVIOUS
<1>2. <<m, n>> \in {pair \in Nat \X Nat : pair[1] < pair[2]}
  BY <1>1
<1> QED
  BY <1>2, Zenon DEF OpToRel

\* A set of numbers has a least one.
LEMMA LeastNumber ==
  ASSUME NEW S \in SUBSET Nat, S # {} PROVE \E n \in S : \A m \in S : n <= m
<1>1. \E n \in S : \A m \in S : ~(<<m, n>> \in OpToRel(<, Nat))
  BY NatLessThanWellFounded, WFMin
<1>2. PICK n \in S : \A m \in S : ~(<<m, n>> \in OpToRel(<, Nat))
  BY <1>1, Zenon
<1>3. ASSUME NEW m \in S PROVE n <= m
  <2>1. ~(m < n)
    <3>1. SUFFICES ASSUME m < n PROVE FALSE
      OBVIOUS
    <3>2. m \in Nat /\ n \in Nat
      OBVIOUS
    <3>3. <<m, n>> \in OpToRel(<, Nat)
      BY <3>1, <3>2, PairOfOrder, Zenon
    <3> QED
      BY <1>2, <3>3, Zenon
  <2> QED
    BY <2>1
<1> QED
  BY <1>3

\* The elements of a set which fewer than k are below: they are k of them, if the set has as many.
LEMMA OldestAre ==
  ASSUME NEW S \in SUBSET Nat, IsFiniteSet(S), NEW k \in Nat, k <= Cardinality(S)
  PROVE  Cardinality({r \in S : ~(Cardinality({s \in S : s < r}) < k)}) <= Cardinality(S) - k
<1> DEFINE Old == {r \in S : Cardinality({s \in S : s < r}) < k}
           Young == {r \in S : ~(Cardinality({s \in S : s < r}) < k)}
<1>1. Cardinality(S) \in Nat
  BY FS_CardinalityType
<1>2. CASE Young = {}
  <2>1. Cardinality(Young) = 0
    BY <1>2, FS_EmptySet
  <2> HIDE DEF Young
  <2>2. Cardinality(Young) <= Cardinality(S) - k
    BY <1>1, <2>1
  <2> QED
    BY <2>2 DEF Young
<1>3. CASE Young # {}
  <2>1. PICK m \in Young : \A r \in Young : m <= r
    <3>1. Young \in SUBSET Nat
      OBVIOUS
    <3> HIDE DEF Young
    <3> QED
      BY <1>3, <3>1, LeastNumber
  <2> DEFINE Below == {s \in S : s < m}
  <2>2. Below \in SUBSET Old
    <3> SUFFICES ASSUME NEW s \in S, s < m, s \in Young PROVE FALSE
      OBVIOUS
    <3>1. m <= s /\ m \in Nat /\ s \in Nat
      BY <2>1
    <3> QED
      BY <3>1
  <2>3. ~(Cardinality(Below) < k)
    BY <2>1
  <2>4. Old \in SUBSET S /\ Young = S \ Old /\ S \cap Old = Old
    OBVIOUS
  <2> HIDE DEF Old, Young, Below
  <2>5. IsFiniteSet(Old) /\ Cardinality(Old) \in Nat
    BY <2>4, FS_Subset, FS_CardinalityType
  <2>6. Cardinality(Below) <= Cardinality(Old) /\ Cardinality(Below) \in Nat
    BY <2>2, <2>5, FS_Subset, FS_CardinalityType
  <2>7. Cardinality(Young) = Cardinality(S) - Cardinality(Old)
    BY <2>4, FS_Difference
  <2>8. Cardinality(Young) <= Cardinality(S) - k
    BY <1>1, <2>3, <2>5, <2>6, <2>7
  <2> QED
    BY <2>8 DEF Young
<1> QED
  BY <1>2, <1>3

\* What prune_releases chooses is enough, when the live release is on disk.
LEMMA PruneSetLeaves ==
  ASSUME TypeOK, current \in releases, Keep >= 1
  PROVE  Cardinality(releases \ PruneSet) <= Keep
<1> DEFINE others == releases \ {GetCurrent}
           excess == Cardinality(releases) - Keep
           young == {r \in others : ~(Cardinality({s \in others : s < r}) < excess)}
<1>1. /\ IsFiniteSet(releases) /\ releases \in SUBSET Nat /\ GetCurrent = current /\ Cardinality(releases) \in Nat
  <2>1. IsFiniteSet(1..MaxRelease)
    BY FS_Interval
  <2>2. releases \in SUBSET (1..MaxRelease)
    BY DEF TypeOK
  <2> QED
    <3>1. IsFiniteSet(releases)
      BY <2>1, <2>2, FS_Subset
    <3>2. Cardinality(releases) \in Nat
      BY <3>1, FS_CardinalityType
    <3>3. releases \in SUBSET Nat
      BY <2>2
    <3>4. GetCurrent = current
      BY DEF GetCurrent
    <3> QED
      BY <3>1, <3>2, <3>3, <3>4
<1>2. IsFiniteSet(others) /\ Cardinality(others) = Cardinality(releases) - 1 /\ others \in SUBSET Nat
  BY <1>1, FS_RemoveElement
<1>3. PruneSet = {r \in others : Cardinality({s \in others : s < r}) < excess}
  <2>1. ~(Keep < 1)
    OBVIOUS
  <2> QED
    BY <2>1, Zenon DEF PruneSet
<1>4. CASE excess < 0
  <2>1. releases \ PruneSet \in SUBSET releases
    OBVIOUS
  <2>2. Cardinality(releases \ PruneSet) <= Cardinality(releases) /\ Cardinality(releases \ PruneSet) \in Nat
    BY <1>1, <2>1, FS_Subset, FS_CardinalityType
  <2> QED
    BY <1>1, <1>4, <2>2
<1>5. CASE excess \in Nat
  <2>1. releases \ PruneSet = young \cup {current}
    BY <1>1, <1>3
  <2>2. excess <= Cardinality(others)
    BY <1>1, <1>2
  <2> HIDE DEF others, excess
  <2>3. Cardinality(young) <= Cardinality(others) - excess /\ young \in SUBSET others
    BY <1>2, <1>5, <2>2, OldestAre
  <2>4. IsFiniteSet(young) /\ Cardinality(young) \in Nat
    BY <1>2, <2>3, FS_Subset, FS_CardinalityType
  <2> HIDE DEF young
  <2>5. Cardinality(young \cup {current}) <= Cardinality(young) + 1 /\ Cardinality(young \cup {current}) \in Nat
    <3>1. IsFiniteSet(young \cup {current})
      BY <2>4, FS_AddElement
    <3>2. Cardinality(young \cup {current}) = IF current \in young THEN Cardinality(young) ELSE Cardinality(young) + 1
      BY <2>4, FS_AddElement
    <3> QED
      BY <2>4, <3>1, <3>2, FS_CardinalityType
  <2> QED
    <3>1. excess = Cardinality(releases) - Keep
      BY DEF excess
    <3>2. Cardinality(young) <= Keep - 1
      BY <1>1, <1>2, <2>3, <2>4, <3>1
    <3>3. Cardinality(young \cup {current}) <= Keep
      BY <2>4, <2>5, <3>2
    <3> QED
      BY <2>1, <3>3
<1> QED
  BY <1>1, <1>4, <1>5

\* It chooses the oldest.
LEMMA PruneSetOldest ==
  ASSUME TypeOK, NEW r \in PruneSet, NEW s \in releases \ (PruneSet \cup {GetCurrent})
  PROVE  r < s
<1> DEFINE others == releases \ {GetCurrent}
           excess == Cardinality(releases) - Keep
           Below(x) == {t \in others : t < x}
<1>1. /\ IsFiniteSet(others) /\ others \in SUBSET Nat /\ Cardinality(releases) \in Nat
  <2>1. IsFiniteSet(1..MaxRelease)
    BY FS_Interval
  <2>2. releases \in SUBSET (1..MaxRelease) /\ others \in SUBSET (1..MaxRelease)
    BY DEF TypeOK
  <2>3. IsFiniteSet(releases) /\ IsFiniteSet(others)
    BY <2>1, <2>2, FS_Subset
  <2> QED
    BY <2>2, <2>3, FS_CardinalityType
<1>2. PruneSet = {x \in others : Cardinality(Below(x)) < excess}
  BY Zenon DEF PruneSet
<1>3. /\ r \in others /\ Cardinality(Below(r)) < excess
      /\ s \in others /\ ~(Cardinality(Below(s)) < excess) /\ r # s
  BY <1>2
<1>4. SUFFICES ASSUME s < r PROVE FALSE
  BY <1>1, <1>3
<1>5. Below(s) \in SUBSET Below(r) /\ Below(r) \in SUBSET others
  BY <1>1, <1>3, <1>4
<1>6. IsFiniteSet(Below(r))
  BY <1>1, <1>5, FS_Subset
<1> HIDE DEF Below
<1>7. /\ Cardinality(Below(s)) <= Cardinality(Below(r))
      /\ Cardinality(Below(s)) \in Nat /\ Cardinality(Below(r)) \in Nat
  BY <1>5, <1>6, FS_Subset, FS_CardinalityType
<1> QED
  BY <1>1, <1>3, <1>7

\* While a command removes what it chose, what it has not chosen is no more than is to be kept, and
\* newer but for the release it has just activated.
Gone(p) == loc[p].doomed \cup loc[p].deleted

PruneOf(p) ==
  Keep >= 1 /\ pc[p] \in {"delete", "manifest"} =>
    /\ Cardinality(releases \ Gone(p)) <= Keep
    /\ current \notin Gone(p)
    /\ \A r \in Gone(p), s \in releases \ (Gone(p) \cup {current}) : r < s
    /\ pc[p] = "manifest" => loc[p].doomed = {}

\* The steps of a process itself.
LEMMA PruneOwn ==
  ASSUME IInv, NEW p \in Procs, PruneOf(p), Act(p)
  PROVE  PruneOf(p)'
<1> SUFFICES ASSUME Keep >= 1, pc'[p] \in {"delete", "manifest"} PROVE PruneOf(p)'
  BY DEF PruneOf
<1>1. TypeOK /\ loc[p] \in Locals /\ pc[p] \in Critical \cup Unlocked
  BY DEF IInv, TypeOK
<1>2. CASE ListDoomed(p)
  <2>1. current \in releases
    BY <1>2 DEF ListDoomed, IInv, CurrentInv, CurrentOf, CommandInv, CommandOf, NoDangling, AfterActivation
  <2>2. Cardinality(releases \ PruneSet) <= Keep
    BY <1>1, <2>1, PruneSetLeaves
  <2>3. /\ pc'[p] = "delete" /\ releases' = releases /\ current' = current
        /\ loc'[p].doomed = PruneSet /\ loc'[p].deleted = {}
    BY <1>1, <1>2 DEF ListDoomed, Goto, TypeOK, Locals
  <2>4. Gone(p)' = PruneSet /\ GetCurrent = current
    BY <2>1, <2>3 DEF Gone, GetCurrent
  <2>5. \A r \in PruneSet, s \in releases \ (PruneSet \cup {current}) : r < s
    BY <1>1, <2>4, PruneSetOldest
  <2>6. current \notin PruneSet
    BY <2>4, PruneSetSpares
  <2> QED
    BY <2>2, <2>3, <2>4, <2>5, <2>6 DEF PruneOf
<1>3. CASE DeleteOldest(p)
  <2>1. PICK r \in loc[p].doomed :
          /\ RemoveTree(r)
          /\ loc' = [loc EXCEPT ![p].doomed = @ \ {r}, ![p].deleted = @ \cup {r}]
    BY <1>3 DEF DeleteOldest
  <2>2. /\ loc'[p].doomed = loc[p].doomed \ {r} /\ loc'[p].deleted = loc[p].deleted \cup {r}
        /\ pc[p] = "delete" /\ pc'[p] = "delete" /\ current' = current
    BY <1>1, <1>3, <2>1 DEF DeleteOldest, TypeOK, Locals
  <2>3. Gone(p)' = Gone(p)
    BY <2>2 DEF Gone
  <2>4. releases' \ Gone(p) = releases \ Gone(p)
    BY <2>1, RemoveTreeOnly DEF Gone
  <2> QED
    BY <2>2, <2>3, <2>4 DEF PruneOf
<1>4. CASE SaveDeploy(p)
  <2>1. /\ pc[p] = "delete" /\ loc[p].doomed = {} /\ pc'[p] = "manifest"
        /\ UNCHANGED <<releases, current, loc>>
    BY <1>1, <1>4 DEF SaveDeploy, Goto, TypeOK
  <2> QED
    BY <2>1 DEF PruneOf, Gone
<1>5. ListDoomed(p) \/ DeleteOldest(p) \/ SaveDeploy(p)
  <2> USE DEF Goto
  <2>1. ~Crash(p)
    BY <1>1 DEF Crash, Finish, TypeOK
  <2>2. CASE Start(p)
    BY <1>1, <2>2 DEF Start, Create, DeployLock, Take, ResolveTarget, ReadForBootstrap, TypeOK
  <2>3. ~(Prepare(p) \/ PassPhase(p) \/ PhaseError(p) \/ Activate(p) \/ RestorePrevious(p)
          \/ Discard(p) \/ WriteFailed(p) \/ QueueRestart(p) \/ RestartEnabled(p))
    BY <1>1 DEF Prepare, PassPhase, NextPhase, PhaseError, Raise, Finish, Activate, RestorePrevious, AutoRestore,
           Discard, WriteFailed, QueueRestart, RestartEnabled, AfterRefresh, TypeOK
  <2>4. ~(ReadCurrent(p) \/ RollbackLock(p) \/ SaveRollback(p) \/ WriteRolledBack(p) \/ WriteDeployed(p)
          \/ ReadForBootstrap(p) \/ BootstrapLock(p) \/ RunBootstrap(p) \/ GiveUp(p))
    BY <1>1 DEF ReadCurrent, RollbackLock, Take, SaveRollback, WriteRolledBack, WriteDeployed, ReadForBootstrap,
           BootstrapLock, RunBootstrap, GiveUp, Finish, TypeOK
  <2> QED
    BY <2>1, <2>2, <2>3, <2>4 DEF Act, Continue
<1> QED
  BY <1>2, <1>3, <1>4, <1>5

\* A deploy that completes has pruned: what it did not choose to remove is keep_releases at most and
\* newer than what it chose, nobody adds a release before its lock is free, and what it serves is kept.
THEOREM DeployPruned == Spec => []DeployPrunes
<1> DEFINE PruneInv == \A p \in Procs : PruneOf(p)
<1>1. Init => PruneInv
  BY DEF Init, PruneOf
<1>2. IInv /\ PruneInv /\ [Next]_vars => PruneInv'
  <2> SUFFICES ASSUME IInv, PruneInv, [Next]_vars, NEW q \in Procs PROVE PruneOf(q)'
    OBVIOUS
  <2>1. CASE StartWorker \/ UNCHANGED vars
    BY <2>1 DEF StartWorker, vars, PruneOf, Gone
  <2>2. ASSUME NEW p \in Procs, Act(p) PROVE PruneOf(q)'
    <3>1. CASE p = q
      BY <2>2, <3>1, PruneOwn
    <3>2. CASE p # q
      <4>1. pc'[q] = pc[q] /\ loc'[q] = loc[q] /\ Isolated(p)
        BY <2>2, <3>2, StepShape DEF IInv, Isolated
      <4>2. CASE pc[q] \in Critical
        <5>1. releases' = releases /\ current' = current
          BY <3>2, <4>1, <4>2 DEF IInv, LockInv, Isolated
        <5> QED
          BY <4>1, <5>1 DEF PruneOf, Gone
      <4>3. CASE pc[q] \notin Critical
        BY <4>1, <4>3 DEF PruneOf, Critical, AfterActivation
      <4> QED
        BY <4>2, <4>3
    <3> QED
      BY <3>1, <3>2
  <2> QED
    BY <2>1, <2>2 DEF Next, Act
<1>3. IInv /\ PruneInv => DeployPrunes
  <2> SUFFICES ASSUME IInv, PruneInv, NEW p \in Procs, pc[p] = "manifest", Keep >= 1
               PROVE  LET left == releases \ loc[p].deleted
                      IN  /\ Cardinality(left) <= Keep
                          /\ loc[p].cand \in left
                          /\ \A r \in loc[p].deleted, s \in left \ {loc[p].cand} : r < s
    BY DEF DeployPrunes
  <2>1. loc[p].cand = current /\ current \in releases
    BY DEF IInv, CurrentInv, CurrentOf, CommandInv, CommandOf, NoDangling, AfterActivation
  <2>2. Gone(p) = loc[p].deleted
    BY DEF PruneOf, Gone
  <2> QED
    BY <2>1, <2>2 DEF PruneOf
<1> QED
  BY <1>1, <1>2, <1>3, Inductive, PTL DEF Spec

=============================================================================
