-------------------------- MODULE ReleaseLifecycle --------------------------
(***************************************************************************)
(* The commands `larops app create | deploy | refresh | rollback |         *)
(* bootstrap` on one site.  Every command is a process of the operating    *)
(* system: it takes the flock app-<domain> without waiting, works through  *)
(* its phases and may die at any of them, which frees the lock.  The       *)
(* processes share the releases directory, the `current` symlink, the      *)
(* deploy manifest of each release and the metadata file of the site.      *)
(***************************************************************************)
EXTENDS Integers, FiniteSets

CONSTANTS
  Procs,            \* the command processes
  NoProc,           \* nobody holds the lock
  MaxRelease,       \* bound: releases created in a behaviour
  Keep,             \* deploy.keep_releases
  RestoreOnHealth,  \* deploy.rollback_on_health_check_failure
  RestoreOnVerify,  \* deploy.rollback_on_verify_failure
  Strategy,         \* deploy.runtime_refresh_strategy
  Commands,         \* the commands the operators use; "force" is app create --force,
                    \* "worker" is worker enable
  RollbackTo        \* the kinds of --to they use

ASSUME NoProcAssumption == NoProc \notin Procs
ASSUME MaxReleaseAssumption == MaxRelease \in Nat \ {0}
ASSUME KeepAssumption == Keep \in Int
ASSUME RestoreAssumption == RestoreOnHealth \in BOOLEAN /\ RestoreOnVerify \in BOOLEAN
ASSUME StrategyAssumption == Strategy \in {"none", "queue-restart", "restart-enabled"}
ASSUME CommandsAssumption ==
  Commands \subseteq {"create", "force", "deploy", "refresh", "rollback", "bootstrap", "worker"}
ASSUME RollbackToAssumption == RollbackTo \subseteq {"previous", "explicit"}

VARIABLES
  (* shared: files under releases_path and state_path, and the lock *)
  releases,   \* ids of the release directories on disk
  current,    \* release the symlink points at (it may dangle), or NoRelease
  manifest,   \* status in the deploy manifest of each release directory
  meta,       \* apps/<domain>.json
  lock,       \* holder of the flock app-<domain>
  clock,      \* next release id: a timestamp, so ids grow
  (* the queue worker, a long-running service of the site *)
  worker,     \* release whose code the running worker loaded, or NoRelease
  asked,      \* queue:restart was signalled and not yet obeyed
  (* one entry per process *)
  pc, loc,
  (* history, read by properties only *)
  live        \* the release that was live when the holder took the lock

store   == <<releases, manifest>>
runtime == <<worker, asked>>
vars == <<releases, current, manifest, meta, lock, clock, worker, asked, pc, loc, live>>

Release   == 1..MaxRelease
NoRelease == 0
MaybeRelease == Release \cup {NoRelease}

Unregistered == [registered |-> FALSE, lastDeploy |-> NoRelease,
                 lastRollback |-> NoRelease, lastBootstrap |-> FALSE]

\* What a process remembers: the release it works on, the one it would
\* restore, the metadata it loaded, the releases it decided to prune and those
\* it has pruned, as its output lists them.
NoLocals == [cmd |-> "none", cand |-> NoRelease, back |-> NoRelease,
             meta |-> Unregistered, doomed |-> {}, deleted |-> {}]

-----------------------------------------------------------------------------
(* Helpers of app_lifecycle.py *)

\* get_current_release: a dangling symlink reads as no release.
GetCurrent == IF current \in releases THEN current ELSE NoRelease

\* resolve_rollback_target: "previous" is the newest release that is not
\* current; an explicit id must exist and not be current.
RollbackTargets(to) ==
  LET others == releases \ {GetCurrent}
  IN  IF to = "previous" THEN {r \in others : \A s \in others : s <= r} ELSE others

\* Mutant of PruneSet: the live release is not counted.
PruneCountsOthers ==
  LET others == releases \ {GetCurrent}
  IN  IF Keep < 1 THEN {}
      ELSE {r \in others : Cardinality({s \in others : s < r}) < Cardinality(others) - Keep}

\* prune_releases: the oldest releases other than current, as many as exceed
\* keep_releases; nothing when keep_releases is below 1.
PruneSet ==
  LET others == releases \ {GetCurrent}
      excess == Cardinality(releases) - Keep
  IN  IF Keep < 1 THEN {}
      ELSE {r \in others : Cardinality({s \in others : s < r}) < excess}

\* shutil.rmtree(..., ignore_errors=True): the directory goes, or the call
\* gives up half way and says nothing.  What is left of the directory is still
\* listed as a release, its manifest among the files removed or not.
RemoveTree(r) ==
  \E kept \in BOOLEAN :
    /\ releases' = IF kept THEN releases ELSE releases \ {r}
    /\ \/ manifest' = [manifest EXCEPT ![r] = "none"]
       \/ kept /\ UNCHANGED manifest

-----------------------------------------------------------------------------
(* Control shared by the commands *)

\* The phases a command passes without changing what is modelled here.
NextPhase == [build        |-> "preactivate",
              preactivate  |-> "activate",
              permissions  |-> "nginx",
              nginx        |-> "postactivate",
              postactivate |-> "health",
              health       |-> "verify",
              verify       |-> "refresh"]

AfterRefresh(p) == IF loc[p].cmd = "rollback" THEN "saverollback" ELSE "prune"

Goto(p, label) == pc' = [pc EXCEPT ![p] = label]

Take(p, label) ==
  /\ lock = NoProc
  /\ lock' = p
  /\ live' = GetCurrent
  /\ Goto(p, label)

\* The command is over: the lock, if it was held, is free again.
Finish(p) ==
  /\ lock' = IF lock = p THEN NoProc ELSE lock
  /\ live' = IF lock = p THEN NoRelease ELSE live
  /\ Goto(p, "idle")
  /\ loc' = [loc EXCEPT ![p] = NoLocals]

BeforeActivation == {"prepare", "build", "preactivate", "activate"}

\* A caught error leaves the `with CommandLock` block; only a deploy still
\* has its failed manifest to write, after the lock is free.
Raise(p) ==
  IF loc[p].cmd \in {"deploy", "refresh"}
  THEN /\ lock' = NoProc
       /\ live' = NoRelease
       /\ Goto(p, IF pc[p] \in BeforeActivation THEN "writeunfit" ELSE "writefailed")
       /\ UNCHANGED loc
  ELSE Finish(p)

AutoRestore(p) ==
  /\ loc[p].back # NoRelease
  /\ \/ pc[p] = "health" /\ RestoreOnHealth
     \/ pc[p] = "verify" /\ RestoreOnVerify


-----------------------------------------------------------------------------
(* app create: one write of the metadata file, under the lock.  --force *)
(* replaces the whole payload, the last_* records included.             *)

Create(p, force) ==
  /\ pc[p] = "idle" /\ lock = NoProc
  /\ ~meta.registered \/ force
  /\ meta' = [Unregistered EXCEPT !.registered = TRUE]
  /\ UNCHANGED <<releases, current, manifest, lock, clock, worker, asked, pc, loc, live>>

-----------------------------------------------------------------------------
(* app deploy, and the deploy which app refresh runs first *)

\* load_metadata and get_current_release come first under the lock.  A busy
\* lock or a site that is not registered ends the command with no effect.
DeployLock(p, cmd) ==
  /\ pc[p] = "idle"
  /\ Take(p, "prepare")
  /\ meta.registered
  /\ loc' = [loc EXCEPT ![p] = [NoLocals EXCEPT !.cmd = cmd, !.back = GetCurrent, !.meta = meta]]
  /\ UNCHANGED <<store, current, meta, clock, runtime>>

\* prepare_release_candidate.  The directory exists from the start of the
\* copy on: a command that dies in the middle leaves it behind (see Crash).
Prepare(p) ==
  /\ pc[p] = "prepare"
  /\ clock <= MaxRelease
  /\ releases' = releases \cup {clock}
  /\ clock' = clock + 1
  /\ loc' = [loc EXCEPT ![p].cand = clock]
  /\ Goto(p, "build")
  /\ UNCHANGED <<current, manifest, meta, lock, runtime, live>>

PassPhase(p) ==
  /\ \/ pc[p] \in DOMAIN NextPhase /\ Goto(p, NextPhase[pc[p]])
     \/ pc[p] = "refresh" /\ Strategy = "none" /\ Goto(p, AfterRefresh(p))
  /\ UNCHANGED <<store, current, meta, lock, clock, runtime, loc, live>>

\* A missing source, a failing build, pre-activate or post-activate command,
\* nginx refusing the site, a gate that fails with no restore configured (or
\* with the release to restore gone), a release that is not on disk any more,
\* queue:restart or systemctl restart failing.
PhaseError(p) ==
  /\ \/ pc[p] \in {"prepare", "build", "preactivate", "nginx", "postactivate"}
     \/ pc[p] \in {"health", "verify"} /\ (AutoRestore(p) => loc[p].back \notin releases)
     \/ pc[p] = "activate" /\ loc[p].cand \notin releases
     \/ pc[p] \in {"refresh", "restart"} /\ Strategy # "none"
     \/ pc[p] = "saverollback" /\ ~meta.registered
     \/ pc[p] = "bootrun"
  /\ Raise(p)
  /\ UNCHANGED <<store, current, meta, clock, runtime>>

\* Mutants of Activate: the target is not looked for on disk; the deploy is
\* recorded as soon as it is live.
ActivateBlindly(p) ==
  /\ pc[p] = "activate"
  /\ current' = loc[p].cand
  /\ Goto(p, IF loc[p].cmd = "rollback" THEN "postactivate" ELSE "permissions")
  /\ UNCHANGED <<store, meta, lock, clock, runtime, loc, live>>

ActivateAndRecord(p) ==
  /\ pc[p] = "activate"
  /\ loc[p].cand \in releases
  /\ current' = loc[p].cand
  /\ meta' = IF loc[p].cmd = "rollback" THEN meta ELSE [meta EXCEPT !.lastDeploy = loc[p].cand]
  /\ Goto(p, IF loc[p].cmd = "rollback" THEN "postactivate" ELSE "permissions")
  /\ UNCHANGED <<store, lock, clock, runtime, loc, live>>

\* activate_release and rollback_release: switch_current_symlink.
Activate(p) ==
  /\ pc[p] = "activate"
  /\ loc[p].cand \in releases
  /\ current' = loc[p].cand
  /\ Goto(p, IF loc[p].cmd = "rollback" THEN "postactivate" ELSE "permissions")
  /\ UNCHANGED <<store, meta, lock, clock, runtime, loc, live>>

\* Mutant of RestorePrevious: it goes back to what rollback --to previous would
\* choose, not to the release remembered.
RestoreNewestOther(p) ==
  /\ AutoRestore(p)
  /\ \E r \in RollbackTargets("previous") : current' = r
  /\ Goto(p, "restored")
  /\ UNCHANGED <<store, meta, lock, clock, runtime, loc, live>>

\* The health or the verify gate fails and the configuration says to go back.
RestorePrevious(p) ==
  /\ AutoRestore(p)
  /\ loc[p].back \in releases
  /\ current' = loc[p].back
  /\ Goto(p, "restored")
  /\ UNCHANGED <<store, meta, lock, clock, runtime, loc, live>>

\* remove_release_dir, by a deploy only; then the error is raised.
Discard(p) ==
  /\ pc[p] = "restored"
  /\ IF loc[p].cmd = "rollback" THEN UNCHANGED store ELSE RemoveTree(loc[p].cand)
  /\ Raise(p)
  /\ UNCHANGED <<current, meta, clock, runtime>>

\* The except clause of deploy, the lock already free.  The manifest says
\* "failed"; its error text names the phase, of which the model keeps whether
\* it came before activation ("unfit") or after it ("failed").
WriteFailed(p) ==
  /\ pc[p] \in {"writeunfit", "writefailed"}
  /\ manifest' = IF loc[p].cand \in releases
                 THEN [manifest EXCEPT ![loc[p].cand] =
                         IF pc[p] = "writeunfit" THEN "unfit" ELSE "failed"]
                 ELSE manifest
  /\ Finish(p)
  /\ UNCHANGED <<releases, current, meta, clock, runtime>>

\* Mutants of QueueRestart: the running worker is not told; restart-enabled
\* stops at the signal.
QueueRestartUnheard(p) ==
  /\ pc[p] = "refresh"
  /\ Strategy # "none"
  /\ Goto(p, IF Strategy = "restart-enabled" THEN "restart" ELSE AfterRefresh(p))
  /\ UNCHANGED <<store, current, meta, lock, clock, runtime, loc, live>>

QueueRestartOnly(p) ==
  /\ pc[p] = "refresh"
  /\ Strategy # "none"
  /\ asked' = (worker # NoRelease)
  /\ Goto(p, AfterRefresh(p))
  /\ UNCHANGED <<store, current, meta, lock, clock, worker, loc, live>>

\* refresh_runtime_after_activate: php artisan queue:restart asks the worker to
\* exit after its job; systemctl restart replaces it at once.
QueueRestart(p) ==
  /\ pc[p] = "refresh"
  /\ Strategy # "none"
  /\ asked' = (worker # NoRelease)
  /\ Goto(p, IF Strategy = "restart-enabled" THEN "restart" ELSE AfterRefresh(p))
  /\ UNCHANGED <<store, current, meta, lock, clock, worker, loc, live>>

RestartEnabled(p) ==
  /\ pc[p] = "restart"
  /\ worker' = IF worker # NoRelease THEN GetCurrent ELSE worker
  /\ asked' = FALSE
  /\ Goto(p, AfterRefresh(p))
  /\ UNCHANGED <<store, current, meta, lock, clock, loc, live>>

\* prune_releases lists the directories and reads `current` once, then
\* removes the chosen directories one by one, the oldest first.  It counts and
\* reports each of them as deleted, whatever the removal did.
ListDoomed(p) ==
  /\ pc[p] = "prune"
  /\ loc' = [loc EXCEPT ![p].doomed = PruneSet, ![p].deleted = {}]
  /\ Goto(p, "delete")
  /\ UNCHANGED <<store, current, meta, lock, clock, runtime, live>>

DeleteOldest(p) ==
  /\ pc[p] = "delete"
  /\ \E r \in loc[p].doomed :
       /\ \A s \in loc[p].doomed : r <= s
       /\ RemoveTree(r)
       /\ loc' = [loc EXCEPT ![p].doomed = @ \ {r}, ![p].deleted = @ \cup {r}]
  /\ UNCHANGED <<current, meta, lock, clock, runtime, pc, live>>

SaveDeploy(p) ==
  /\ pc[p] = "delete"
  /\ loc[p].doomed = {}
  /\ meta' = [loc[p].meta EXCEPT !.lastDeploy = loc[p].cand]
  /\ Goto(p, "manifest")
  /\ UNCHANGED <<store, current, lock, clock, runtime, loc, live>>

\* A refresh goes on with the bootstrap command, the lock free in between.
WriteDeployed(p) ==
  /\ pc[p] = "manifest"
  /\ manifest' = IF loc[p].cand \in releases
                 THEN [manifest EXCEPT ![loc[p].cand] = "deployed"] ELSE manifest
  /\ IF loc[p].cmd = "refresh" /\ loc[p].cand \in releases
     THEN /\ lock' = NoProc
          /\ live' = NoRelease
          /\ Goto(p, "bootread")
          /\ loc' = [loc EXCEPT ![p] = NoLocals]
     ELSE Finish(p)
  /\ UNCHANGED <<releases, current, meta, clock, runtime>>

-----------------------------------------------------------------------------
(* app rollback: the target and the release to restore are read before the *)
(* lock is taken.                                                          *)

ResolveTarget(p) ==
  /\ pc[p] = "idle"
  /\ \E to \in RollbackTo : \E r \in RollbackTargets(to) :
       loc' = [loc EXCEPT ![p] = [NoLocals EXCEPT !.cmd = "rollback", !.cand = r]]
  /\ Goto(p, "readcurrent")
  /\ UNCHANGED <<store, current, meta, lock, clock, runtime, live>>

ReadCurrent(p) ==
  /\ pc[p] = "readcurrent"
  /\ loc' = [loc EXCEPT ![p].back = GetCurrent]
  /\ Goto(p, "rollbacklock")
  /\ UNCHANGED <<store, current, meta, lock, clock, runtime, live>>

\* Mutant of RollbackLock: a busy lock does not stop it.
RollbackUnlocked(p) ==
  /\ pc[p] = "rollbacklock"
  /\ lock' = p
  /\ live' = GetCurrent
  /\ Goto(p, "activate")
  /\ UNCHANGED <<store, current, meta, clock, runtime, loc>>

RollbackLock(p) ==
  /\ pc[p] = "rollbacklock"
  /\ Take(p, "activate")
  /\ UNCHANGED <<store, current, meta, clock, runtime, loc>>

SaveRollback(p) ==
  /\ pc[p] = "saverollback"
  /\ meta.registered
  /\ meta' = [meta EXCEPT !.lastRollback = loc[p].cand]
  /\ Goto(p, "rolledback")
  /\ UNCHANGED <<store, current, lock, clock, runtime, loc, live>>

\* Mutant of WriteRolledBack: a status no reader knows.
WriteRolledBackOddly(p) ==
  /\ pc[p] = "rolledback"
  /\ manifest' = IF loc[p].cand \in releases
                 THEN [manifest EXCEPT ![loc[p].cand] = "active"] ELSE manifest
  /\ Finish(p)
  /\ UNCHANGED <<releases, current, meta, clock, runtime>>

WriteRolledBack(p) ==
  /\ pc[p] = "rolledback"
  /\ manifest' = IF loc[p].cand \in releases
                 THEN [manifest EXCEPT ![loc[p].cand] = "rolled-back-active"] ELSE manifest
  /\ Finish(p)
  /\ UNCHANGED <<releases, current, meta, clock, runtime>>

-----------------------------------------------------------------------------
(* app bootstrap: the release directory is resolved before the lock; the *)
(* metadata are loaded again before they are saved.                      *)

ReadForBootstrap(p) ==
  /\ pc[p] \in {"idle", "bootread"}
  /\ meta.registered
  /\ GetCurrent # NoRelease
  /\ loc' = [loc EXCEPT ![p] = [NoLocals EXCEPT !.cmd = "bootstrap", !.cand = GetCurrent]]
  /\ Goto(p, "bootlock")
  /\ UNCHANGED <<store, current, meta, lock, clock, runtime, live>>

\* Mutant of BootstrapLock: bootstrap runs beside whatever holds the lock.
BootstrapUnlocked(p) ==
  /\ pc[p] = "bootlock"
  /\ lock' = p
  /\ live' = GetCurrent
  /\ Goto(p, "bootrun")
  /\ UNCHANGED <<store, current, meta, clock, runtime, loc>>

BootstrapLock(p) ==
  /\ pc[p] = "bootlock"
  /\ Take(p, "bootrun")
  /\ UNCHANGED <<store, current, meta, clock, runtime, loc>>

RunBootstrap(p) ==
  /\ pc[p] = "bootrun"
  /\ loc[p].cand \in releases
  /\ meta.registered
  /\ meta' = [meta EXCEPT !.lastBootstrap = TRUE]
  /\ Finish(p)
  /\ UNCHANGED <<store, current, clock, runtime>>

-----------------------------------------------------------------------------
(* What ends a command from outside, and the workers *)

\* Mutant of GiveUp: a command waits for a busy lock.
GiveUpUnregistered(p) ==
  /\ pc[p] = "bootread" /\ (~meta.registered \/ GetCurrent = NoRelease)
  /\ Finish(p)
  /\ UNCHANGED <<store, current, meta, clock, runtime>>

\* The lock is busy, or what a bootstrap needs is not there.
GiveUp(p) ==
  /\ \/ pc[p] \in {"rollbacklock", "bootlock"} /\ lock # NoProc
     \/ pc[p] = "bootread" /\ (~meta.registered \/ GetCurrent = NoRelease)
  /\ Finish(p)
  /\ UNCHANGED <<store, current, meta, clock, runtime>>

\* The process is killed, or an error no clause catches ends it (a copy that
\* fails half way, PermissionServiceError in a deploy): nothing is cleaned up
\* and the kernel frees the lock.
Crash(p) ==
  /\ pc[p] # "idle"
  /\ Finish(p)
  /\ UNCHANGED <<store, current, meta, clock, runtime>>

\* systemd starts the queue worker in `current`: when it is enabled, and again
\* (Restart=always) whenever it exits: --max-jobs, --max-time, queue:restart.
StartWorker ==
  /\ "worker" \in Commands
  /\ current \in releases
  /\ worker' = current
  /\ asked' = FALSE
  /\ UNCHANGED <<store, current, meta, lock, clock, pc, loc, live>>

-----------------------------------------------------------------------------
Init ==
  /\ releases = {} /\ current = NoRelease
  /\ manifest = [r \in Release |-> "none"]
  /\ meta = Unregistered
  /\ lock = NoProc /\ clock = 1
  /\ worker = NoRelease /\ asked = FALSE
  /\ pc = [p \in Procs |-> "idle"]
  /\ loc = [p \in Procs |-> NoLocals]
  /\ live = NoRelease

Start(p) ==
  \/ "create" \in Commands /\ Create(p, FALSE)
  \/ "force" \in Commands /\ Create(p, TRUE)
  \/ \E cmd \in Commands \cap {"deploy", "refresh"} : DeployLock(p, cmd)
  \/ "rollback" \in Commands /\ ResolveTarget(p)
  \/ "bootstrap" \in Commands /\ pc[p] = "idle" /\ ReadForBootstrap(p)

Continue(p) ==
  \/ Prepare(p) \/ PassPhase(p) \/ PhaseError(p) \/ Activate(p)
  \/ RestorePrevious(p) \/ Discard(p) \/ WriteFailed(p)
  \/ QueueRestart(p) \/ RestartEnabled(p)
  \/ ListDoomed(p) \/ DeleteOldest(p) \/ SaveDeploy(p) \/ WriteDeployed(p)
  \/ ReadCurrent(p) \/ RollbackLock(p) \/ SaveRollback(p) \/ WriteRolledBack(p)
  \/ pc[p] = "bootread" /\ ReadForBootstrap(p)
  \/ BootstrapLock(p) \/ RunBootstrap(p) \/ GiveUp(p)

Next ==
  \/ \E p \in Procs : Start(p) \/ Continue(p) \/ Crash(p)
  \/ StartWorker

Spec == Init /\ [][Next]_vars

\* A command that was started goes on, and a worker that was asked to restart
\* does so after its job, whose length --timeout bounds.  The phases run their
\* programs with a timeout; php artisan queue:restart and systemctl restart
\* run without one, and that they return is an assumption.
FairSpec ==
  /\ Spec
  /\ \A p \in Procs : WF_vars(Continue(p))
  /\ WF_vars(asked /\ StartWorker)

-----------------------------------------------------------------------------
(* Properties *)

AfterActivation == {"permissions", "nginx", "postactivate", "health", "verify", "refresh",
                    "restart", "prune", "delete", "manifest", "saverollback", "rolledback"}
AfterRestart    == {"prune", "delete", "manifest", "saverollback", "rolledback"}
Critical        == BeforeActivation \cup AfterActivation \cup {"restored", "bootrun"}
Unlocked        == {"idle", "writeunfit", "writefailed", "readcurrent", "rollbacklock",
                    "bootread", "bootlock"}

Metadata == [registered : BOOLEAN, lastDeploy : MaybeRelease,
             lastRollback : MaybeRelease, lastBootstrap : BOOLEAN]
Locals == [cmd : {"none", "deploy", "refresh", "rollback", "bootstrap"}, cand : MaybeRelease,
           back : MaybeRelease, meta : Metadata, doomed : SUBSET Release,
           deleted : SUBSET Release]

\* Every variable has its type.
TypeOK ==
  /\ releases \subseteq Release /\ current \in MaybeRelease
  /\ manifest \in [Release -> {"none", "unfit", "failed", "deployed", "rolled-back-active"}]
  /\ meta \in Metadata
  /\ lock \in Procs \cup {NoProc} /\ clock \in 1..(MaxRelease + 1)
  /\ worker \in MaybeRelease /\ asked \in BOOLEAN
  /\ pc \in [Procs -> Critical \cup Unlocked]
  /\ loc \in [Procs -> Locals]
  /\ live \in MaybeRelease

\* The web server never follows `current` to a directory that is gone: neither
\* the prune of a deploy, nor the removal of a rejected release, nor a command
\* killed between any two of its steps leaves the symlink dangling.  (That the
\* directory is whole, or its build and gates passed, this does not say.)
NoDangling == current # NoRelease => current \in releases

\* From the switch to the last write of a deploy or a rollback the site stays
\* on the release of that command, whatever the other commands do: what it
\* checks, restarts and records is what is live.
ServesOwnRelease ==
  \A p \in Procs : pc[p] \in AfterActivation => current = loc[p].cand

\* When the health or verify gate of a deploy fails and the restore is
\* configured, the site is back on what was live when the deploy began.
DeployRestoresLive ==
  \A p \in Procs : pc[p] = "restored" /\ loc[p].cmd # "rollback" => current = live

\* The metadata never name as last deploy a release which the pipeline marks
\* failed: every step that can fail comes before the record.
NoFailedRecorded ==
  meta.lastDeploy # NoRelease => manifest[meta.lastDeploy] \notin {"failed", "unfit"}

\* A deploy saves the metadata it loaded before its build; still it never
\* overwrites what another app command recorded in the meantime.
SavesLoseNothing ==
  [][\A p \in Procs : pc[p] = "delete" /\ pc'[p] = "manifest" =>
       meta' = [meta EXCEPT !.lastDeploy = loc[p].cand]]_vars

\* A deploy that completes leaves at most keep_releases releases, not counting
\* directories which it reports as deleted although their removal gave up; the
\* release it activated is left, and what it reports as deleted is older than
\* every other release it leaves.
DeployPrunes ==
  \A p \in Procs : pc[p] = "manifest" /\ Keep >= 1 =>
    LET left == releases \ loc[p].deleted
    IN  /\ Cardinality(left) <= Keep
        /\ loc[p].cand \in left
        /\ \A r \in loc[p].deleted, s \in left \ {loc[p].cand} : r < s

\* With restart-enabled no worker runs any other code than the live release
\* once a deploy or rollback has passed its runtime refresh.
WorkersRestarted ==
  \A p \in Procs : Strategy = "restart-enabled" /\ pc[p] \in AfterRestart
                     => worker \in {NoRelease, current}

\* Whatever the strategy, if it is not "none": after a deploy or a rollback
\* the workers come to run what is live.
WorkersCatchUp ==
  \A p \in Procs : (Strategy # "none" /\ pc[p] \in AfterRestart)
                     ~> (worker \in {NoRelease, current})

\* Every command ends, also when it finds the lock busy or its release gone,
\* and with it the lock becomes free: no command waits for another.  (Those that
\* run queue:restart or systemctl end if these return, see FairSpec.)
CommandsEnd == \A p \in Procs : (pc[p] # "idle") ~> (pc[p] = "idle")

\* The files behave as ReleaseStore says.
Store == INSTANCE ReleaseStore WITH ReleaseIds <- Release
StoreSpec == Store!StoreSpec

-----------------------------------------------------------------------------
(* The inductive invariant *)

Deploying(p) == loc[p].cmd \in {"deploy", "refresh"}

\* The holder of the lock, and nobody else, is in a locked phase.
LockInv == \A p \in Procs : pc[p] \in Critical <=> lock = p

\* What a phase says of the command that is in it.
CommandOf(p) ==
  /\ pc[p] \in BeforeActivation \cup AfterActivation \cup {"restored"}
       => loc[p].cmd \in {"deploy", "refresh", "rollback"}
  /\ pc[p] \in {"readcurrent", "rollbacklock", "saverollback", "rolledback"}
       => loc[p].cmd = "rollback"
  /\ pc[p] \in {"bootlock", "bootrun"} => loc[p].cmd = "bootstrap"
  /\ pc[p] \in {"prepare", "build", "preactivate", "permissions", "nginx", "prune", "delete",
                "manifest", "writeunfit", "writefailed"}
       => Deploying(p)
  /\ pc[p] \in AfterActivation \cup {"restored"} => loc[p].cand # NoRelease
  /\ pc[p] = "prepare" => loc[p].cand = NoRelease

CommandInv == \A p \in Procs : CommandOf(p)

\* Ids grow: what a deploy adds is newer than all it can restore.
IdOf(p) ==
  Deploying(p) => /\ loc[p].cand < clock /\ loc[p].back < clock
                  /\ loc[p].cand # NoRelease => loc[p].back < loc[p].cand

IdInv ==
  /\ \A r \in releases : r < clock
  /\ meta.lastDeploy < clock
  /\ \A r \in Release : r >= clock => manifest[r] = "none"
  /\ \A p \in Procs : IdOf(p)

\* Where the symlink points while a command holds the lock.
CurrentOf(p) ==
  /\ pc[p] \in AfterActivation => current = loc[p].cand
  /\ pc[p] = "restored" => current = loc[p].back
  /\ pc[p] = "delete" => loc[p].doomed \subseteq releases \ {current}
  /\ pc[p] \in Critical /\ Deploying(p) => loc[p].back = live

CurrentInv == NoDangling /\ \A p \in Procs : CurrentOf(p)

\* What the records say of the releases deploys work on.
RecordOf(p) ==
  Deploying(p) =>
    /\ pc[p] \in Critical \ {"manifest"} => loc[p].meta = meta
    /\ pc[p] # "manifest" /\ loc[p].cand # NoRelease => meta.lastDeploy # loc[p].cand
    /\ pc[p] \in Critical /\ loc[p].cand # NoRelease
         => manifest[loc[p].cand] \notin {"failed", "unfit"}

DistinctCandidates ==
  \A p, q \in Procs : Deploying(p) /\ Deploying(q) /\ loc[p].cand = loc[q].cand
                        => p = q \/ loc[p].cand = NoRelease

RecordInv == NoFailedRecorded /\ DistinctCandidates /\ \A p \in Procs : RecordOf(p)

IInv == TypeOK /\ LockInv /\ CommandInv /\ IdInv /\ CurrentInv /\ RecordInv

=============================================================================
