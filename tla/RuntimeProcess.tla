--------------------------- MODULE RuntimeProcess ---------------------------
(***************************************************************************)
(* One runtime process of one site (its queue worker with its replicas,    *)
(* its scheduler or its horizon): the spec file which `larops worker |     *)
(* scheduler | horizon`, `larops site runtime` and `app deploy` work on,   *)
(* and the systemd services behind it.  The three families of commands     *)
(* hold three different locks.                                             *)
(*                                                                         *)
(* Times are kept as ages (how long ago) and remainders (how long still),  *)
(* in ticks, so that time may go on for ever.                              *)
(***************************************************************************)
EXTENDS Integers, Sequences, FiniteSets

CONSTANTS
  Kinds,         \* of "worker", "scheduler", "horizon": which the process is
  MaxReplicas,   \* bound: --concurrency of a worker
  MaxRestarts, Window, Cooldown,   \* runtime_policy
  Locks,         \* the locks of the commands in use: "own" (worker-<domain> etc.),
                 \* "site" (create-site-<domain>), "app" (app-<domain>)
  Faults,        \* what may happen, of "systemctl" (a call fails), "kill"
  MaxMishaps     \* bound: faults in a behaviour

ASSUME KindsAssumption == Kinds \subseteq {"worker", "scheduler", "horizon"}
ASSUME PolicyAssumption ==
  MaxRestarts \in Nat \ {0} /\ Window \in Nat \ {0} /\ Cooldown \in Nat \ {0}
ASSUME BoundsAssumption == MaxReplicas \in Nat \ {0} /\ MaxMishaps \in Nat
ASSUME LocksAssumption == Locks \subseteq {"own", "site", "app"}
ASSUME FaultsAssumption == Faults \subseteq {"systemctl", "kill"}

VARIABLES
  kind,      \* which process this is
  spec,      \* runtime/<domain>/<kind>.json
  unit,      \* state of each systemd service
  pc, loc,   \* the process of each lock, and what it remembers
  restarts,  \* history: ages of the restarts that reached every service, newest first
  mishaps    \* history: faults so far

vars == <<kind, spec, unit, pc, loc, restarts, mishaps>>

\* 0 is the service without a number, which a lone replica has.
Service == 0..MaxReplicas

NoSpec == [exists |-> FALSE, enabled |-> FALSE, services |-> {}, history |-> <<>>, cooldown |-> 0]

\* What a command remembers: the spec it read and will write back, the services it still has to
\* call, whether it met one that is not active, and how long ago it took `now`.
NoLocals == [cmd |-> "none", spec |-> NoSpec, todo |-> {}, degraded |-> FALSE, age |-> 0]

-----------------------------------------------------------------------------
(* Helpers *)

Least(a, b) == IF a < b THEN a ELSE b

\* Bound: what is older than this can break no property with a restart to come.
MaxAge == Window + Cooldown - 1

\* _service_names: numbered services for more than one replica.
ServiceNames(replicas) == IF replicas > 1 THEN 1..replicas ELSE {0}

\* Of a spec without service_names, as run-once leaves one: the single service.
ServicesOf(s) == IF s.services = {} THEN {0} ELSE s.services

\* _prune_restart_history.  A restart is appended to the history: what is too old stands first.
Recent(history) ==
  LET old == Cardinality({i \in DOMAIN history : history[i] > Window})
  IN  SubSeq(history, old + 1, Len(history))

\* _check_restart_policy.
Allowed(s) == s.cooldown = 0 /\ Len(Recent(s.history)) < MaxRestarts

NextOf(todo) == CHOOSE s \in todo : \A t \in todo : s <= t

Goto(p, label) == pc' = [pc EXCEPT ![p] = label]

Finish(p) ==
  /\ Goto(p, "idle")
  /\ loc' = [loc EXCEPT ![p] = NoLocals]

\* CommandLock: a command starts only when its lock is free.
Begin(p, cmd, label, todo) ==
  /\ pc[p] = "idle"
  /\ Goto(p, label)
  /\ loc' = [loc EXCEPT ![p] =
               [NoLocals EXCEPT !.cmd = cmd, !.todo = todo,
                                !.spec = IF cmd \in {"disable", "terminate"} THEN spec ELSE NoSpec]]

\* A call of systemctl for the next service.
Call(p, label) == pc[p] = label /\ loc[p].todo # {}
Done(p, label) == pc[p] = label /\ loc[p].todo = {}
Called(p) == loc' = [loc EXCEPT ![p].todo = @ \ {NextOf(@)}]

\* Bound: of the past restarts as many are kept as any property counts.
Newest(ages) == SubSeq(ages, 1, Least(Len(ages), MaxRestarts + MaxMishaps + 1))

Mishap(fault) == fault \in Faults /\ mishaps < MaxMishaps /\ mishaps' = mishaps + 1

-----------------------------------------------------------------------------
(* enable_process *)

\* Mutant of Enable: the spec is written anew, not over the one that is there.
EnableAfresh(p, replicas) ==
  /\ p \in {"own", "site"}
  /\ Begin(p, "enable", "units", ServiceNames(replicas))
  /\ spec' = [NoSpec EXCEPT !.exists = TRUE, !.enabled = TRUE, !.services = ServiceNames(replicas)]
  /\ UNCHANGED <<kind, unit, restarts, mishaps>>

\* The spec comes first; what it says of past restarts is kept.
Enable(p, replicas) ==
  /\ p \in {"own", "site"}
  /\ Begin(p, "enable", "units", ServiceNames(replicas))
  /\ spec' = [spec EXCEPT !.exists = TRUE, !.enabled = TRUE, !.services = ServiceNames(replicas)]
  /\ UNCHANGED <<kind, unit, restarts, mishaps>>

\* Mutant of WriteUnits: a service which has a unit file is taken for started.
WriteNewUnits(p) ==
  /\ pc[p] = "units"
  /\ unit' = [s \in Service |-> IF s \in loc[p].todo /\ unit[s] = "absent" THEN "stopped" ELSE unit[s]]
  /\ loc' = [loc EXCEPT ![p].todo = {s \in @ : unit[s] = "absent"}]
  /\ Goto(p, "enabling")
  /\ UNCHANGED <<kind, spec, restarts, mishaps>>

\* The unit files and daemon-reload.
WriteUnits(p) ==
  /\ pc[p] = "units"
  /\ unit' = [s \in Service |-> IF s \in loc[p].todo /\ unit[s] = "absent" THEN "stopped" ELSE unit[s]]
  /\ Goto(p, "enabling")
  /\ UNCHANGED <<kind, spec, loc, restarts, mishaps>>

\* systemctl enable --now.
EnableService(p) ==
  /\ Call(p, "enabling")
  /\ unit' = [unit EXCEPT ![NextOf(loc[p].todo)] = "running"]
  /\ Called(p)
  /\ UNCHANGED <<kind, spec, pc, restarts, mishaps>>

-----------------------------------------------------------------------------
(* disable_process *)

Disable(p) ==
  /\ p \in {"own", "site"}
  /\ Begin(p, "disable", "disabling", IF spec.exists THEN ServicesOf(spec) ELSE ServiceNames(1))
  /\ UNCHANGED <<kind, spec, unit, restarts, mishaps>>

\* systemctl disable --now, which may fail unheard.
DisableService(p) ==
  /\ Call(p, "disabling")
  /\ \/ /\ unit' = [unit EXCEPT ![NextOf(loc[p].todo)] = IF @ = "absent" THEN @ ELSE "stopped"]
        /\ UNCHANGED mishaps
     \/ /\ Mishap("systemctl")
        /\ UNCHANGED unit
  /\ Called(p)
  /\ UNCHANGED <<kind, spec, pc, restarts>>

\* The spec that was read is written back, disabled.
WriteDisabled(p) ==
  /\ Done(p, "disabling")
  /\ spec' = [loc[p].spec EXCEPT !.exists = TRUE, !.enabled = FALSE,
                                 !.services = IF loc[p].spec.exists THEN @ ELSE ServiceNames(1)]
  /\ Finish(p)
  /\ UNCHANGED <<kind, unit, restarts, mishaps>>

-----------------------------------------------------------------------------
(* restart_process, for `worker restart` and for reconcile_process *)

Restart(p) ==
  /\ p = "own" /\ kind = "worker"
  /\ spec.enabled
  /\ Begin(p, "restart", "policy", {})
  /\ UNCHANGED <<kind, spec, unit, restarts, mishaps>>

\* reconcile_process looks at every service first, in status_process.
Reconcile(p) ==
  /\ p \in {"own", "site"}
  /\ spec.enabled
  /\ Begin(p, "reconcile", "looking", ServicesOf(spec))
  /\ UNCHANGED <<kind, spec, unit, restarts, mishaps>>

LookAtService(p) ==
  /\ Call(p, "looking")
  /\ loc' = [loc EXCEPT ![p].todo = @ \ {NextOf(@)},
                        ![p].degraded = @ \/ unit[NextOf(loc[p].todo)] # "running"]
  /\ UNCHANGED <<kind, spec, unit, pc, restarts, mishaps>>

Looked(p) ==
  /\ Done(p, "looking")
  /\ IF loc[p].degraded THEN Goto(p, "policy") /\ UNCHANGED loc ELSE Finish(p)
  /\ UNCHANGED <<kind, spec, unit, restarts, mishaps>>

\* Mutants of CheckPolicy: the history that will be saved is not pruned; a
\* refused restart begins the cooldown anew.
CheckUnpruned(p) ==
  /\ pc[p] = "policy"
  /\ IF spec.enabled /\ Allowed(spec)
     THEN /\ loc' = [loc EXCEPT ![p] =
                       [NoLocals EXCEPT !.cmd = "restart", !.todo = ServicesOf(spec), !.spec = spec]]
          /\ Goto(p, "restarting")
     ELSE Finish(p)
  /\ UNCHANGED <<kind, spec, unit, restarts, mishaps>>

CheckAndCool(p) ==
  /\ pc[p] = "policy"
  /\ IF spec.enabled /\ Allowed(spec)
     THEN /\ loc' = [loc EXCEPT ![p] =
                       [NoLocals EXCEPT !.cmd = "restart", !.todo = ServicesOf(spec),
                                        !.spec = [spec EXCEPT !.history = Recent(@)]]]
          /\ Goto(p, "restarting")
          /\ UNCHANGED spec
     ELSE spec' = [spec EXCEPT !.cooldown = Cooldown] /\ Finish(p)
  /\ UNCHANGED <<kind, unit, restarts, mishaps>>

\* The spec is read again, and `now` is taken once and for all.
CheckPolicy(p) ==
  /\ pc[p] = "policy"
  /\ IF spec.enabled /\ Allowed(spec)
     THEN /\ loc' = [loc EXCEPT ![p] =
                       [NoLocals EXCEPT !.cmd = "restart", !.todo = ServicesOf(spec),
                                        !.spec = [spec EXCEPT !.history = Recent(@)]]]
          /\ Goto(p, "restarting")
     ELSE Finish(p)
  /\ UNCHANGED <<kind, spec, unit, restarts, mishaps>>

RestartService(p) ==
  /\ Call(p, "restarting")
  /\ unit[NextOf(loc[p].todo)] # "absent"
  /\ unit' = [unit EXCEPT ![NextOf(loc[p].todo)] = "running"]
  /\ Called(p)
  /\ restarts' = IF loc[p].cmd # "refresh" /\ Cardinality(loc[p].todo) = 1
                 THEN Newest(<<loc[p].age>> \o restarts) ELSE restarts
  /\ UNCHANGED <<kind, spec, pc, mishaps>>

\* Mutant of Recorded: no cooldown is set.
RecordedUncooled(s, age) ==
  [s EXCEPT !.history = Append(@, age), !.cooldown = 0]

\* _record_restart, with the `now` of the policy check.
Recorded(s, age) ==
  LET history == Append(s.history, age)
  IN  [s EXCEPT !.history = history,
                !.cooldown = IF Len(history) >= MaxRestarts /\ age < Cooldown
                             THEN Cooldown - age ELSE 0]

RecordRestart(p) ==
  /\ Done(p, "restarting")
  /\ loc[p].cmd # "refresh"
  /\ spec' = Recorded(loc[p].spec, loc[p].age)
  /\ Finish(p)
  /\ UNCHANGED <<kind, unit, restarts, mishaps>>

-----------------------------------------------------------------------------
(* The other commands *)

\* horizon terminate: SIGTERM to the first service, then the spec is saved.
Terminate(p) ==
  /\ p = "own" /\ kind = "horizon"
  /\ spec.enabled
  /\ unit[0] = "running"
  /\ Begin(p, "terminate", "terminated", {})
  /\ unit' = [unit EXCEPT ![0] = "down"]
  /\ UNCHANGED <<kind, spec, restarts, mishaps>>

SaveTerminated(p) ==
  /\ pc[p] = "terminated"
  /\ spec' = loc[p].spec
  /\ Finish(p)
  /\ UNCHANGED <<kind, unit, restarts, mishaps>>

\* scheduler run-once --apply: at its end it counts itself in the spec, and
\* creates one, disabled and without services, when there is none.
RunOnce(p) ==
  /\ p = "own" /\ kind = "scheduler"
  /\ pc[p] = "idle"
  /\ spec' = [spec EXCEPT !.exists = TRUE]
  /\ UNCHANGED <<kind, unit, pc, loc, restarts, mishaps>>

\* The runtime refresh of a deploy (restart-enabled) restarts the services of
\* the spec, under the lock of the app and outside the policy.
Refresh(p) ==
  /\ p = "app"
  /\ spec.enabled
  /\ Begin(p, "refresh", "restarting", ServicesOf(spec))
  /\ UNCHANGED <<kind, spec, unit, restarts, mishaps>>

\* A command with no service left to call is done.
EndCommand(p) ==
  /\ \/ Done(p, "enabling")
     \/ Done(p, "restarting") /\ loc[p].cmd = "refresh"
  /\ Finish(p)
  /\ UNCHANGED <<kind, spec, unit, restarts, mishaps>>

-----------------------------------------------------------------------------
(* What goes wrong, systemd, and time *)

\* systemctl fails: the command ends there and records nothing.
SystemctlFails(p) ==
  /\ Call(p, "enabling") \/ Call(p, "restarting")
  /\ IF unit[NextOf(loc[p].todo)] = "absent" THEN UNCHANGED mishaps ELSE Mishap("systemctl")
  /\ Finish(p)
  /\ UNCHANGED <<kind, spec, unit, restarts>>

Kill(p) ==
  /\ pc[p] # "idle"
  /\ Mishap("kill")
  /\ Finish(p)
  /\ UNCHANGED <<kind, spec, unit, restarts>>

\* A service exits; with Restart=always systemd starts it again after a while,
\* unless it gave up.  Whether one that the spec does not name is up or down
\* makes no difference to any command, so it is left as it is.
ServiceExits(s) ==
  /\ s \in ServicesOf(spec)
  /\ unit[s] = "running"
  /\ unit' = [unit EXCEPT ![s] = "down"]
  /\ UNCHANGED <<kind, spec, pc, loc, restarts, mishaps>>

ServiceReturns(s) ==
  /\ s \in ServicesOf(spec)
  /\ unit[s] = "down"
  /\ unit' = [unit EXCEPT ![s] = "running"]
  /\ UNCHANGED <<kind, spec, pc, loc, restarts, mishaps>>

\* History, the newest first: what has become too old to matter is forgotten.
Older(ages) ==
  LET aged == [i \in DOMAIN ages |-> ages[i] + 1]
  IN  SubSeq(aged, 1, Cardinality({i \in DOMAIN aged : aged[i] <= MaxAge}))

Aged(s) ==
  [s EXCEPT !.history = [i \in DOMAIN @ |-> Least(@[i] + 1, Window + 1)],
            !.cooldown = IF @ > 0 THEN @ - 1 ELSE 0]

\* restart_process has taken `now` and has not come to its end.
Restarting(p) == pc[p] = "restarting" /\ loc[p].cmd = "restart"

Tick ==
  /\ spec' = Aged(spec)
  /\ loc' = [p \in Locks |-> IF pc[p] = "idle" THEN loc[p]
                             ELSE [loc[p] EXCEPT !.spec = Aged(@), !.age = IF Restarting(p) THEN Least(@ + 1, Window + 1) ELSE @]]
  /\ restarts' = Older(restarts)
  /\ UNCHANGED <<kind, unit, pc, mishaps>>

-----------------------------------------------------------------------------
Init ==
  /\ kind \in Kinds
  /\ spec = NoSpec
  /\ unit = [s \in Service |-> "absent"]
  /\ pc = [p \in Locks |-> "idle"]
  /\ loc = [p \in Locks |-> NoLocals]
  /\ restarts = <<>> /\ mishaps = 0

Replicas == IF kind = "worker" THEN 1..MaxReplicas ELSE {1}

Start(p) ==
  \/ \E n \in Replicas : Enable(p, n)
  \/ Disable(p) \/ Reconcile(p) \/ Restart(p) \/ Terminate(p) \/ RunOnce(p) \/ Refresh(p)

Continue(p) ==
  \/ WriteUnits(p) \/ EnableService(p) \/ DisableService(p) \/ WriteDisabled(p)
  \/ LookAtService(p) \/ Looked(p) \/ CheckPolicy(p) \/ RestartService(p) \/ RecordRestart(p)
  \/ SaveTerminated(p) \/ EndCommand(p) \/ SystemctlFails(p)

Next ==
  \/ \E p \in Locks : Start(p) \/ Continue(p) \/ Kill(p)
  \/ \E s \in Service : ServiceExits(s) \/ ServiceReturns(s)
  \/ Tick

Spec == Init /\ [][Next]_vars

\* Time passes, the commands of the process's own lock go on, and somebody
\* (an operator, a timer) runs reconcile again and again.
FairSpec == Spec /\ WF_vars(Tick) /\ WF_vars(Continue("own")) /\ SF_vars(Reconcile("own"))

-----------------------------------------------------------------------------
(* Properties *)

SpecFile == [exists : BOOLEAN, enabled : BOOLEAN, services : SUBSET Service,
             history : Seq(0..(Window + 1)), cooldown : 0..Cooldown]

\* Every variable has its type, and the spec keeps no more restarts than the
\* policy allows in a window.
TypeOK ==
  /\ kind \in Kinds
  /\ spec \in SpecFile /\ Len(spec.history) <= MaxRestarts
  /\ unit \in [Service -> {"absent", "stopped", "running", "down"}]
  /\ pc \in [Locks -> {"idle", "units", "enabling", "disabling", "looking", "policy",
                       "restarting", "terminated"}]
  /\ \A p \in Locks : loc[p].spec \in SpecFile /\ loc[p].todo \subseteq Service
  /\ restarts \in Seq(0..(Window + Cooldown)) /\ mishaps \in 0..MaxMishaps

\* In no window are there more restarts than max_restarts, whatever is
\* enabled, disabled and reconciled in between; one more for each command that
\* was cut short, whose restart nobody recorded.
RestartsLimited ==
  Cardinality({i \in DOMAIN restarts : restarts[i] <= Window}) <= MaxRestarts + mishaps

\* Once max_restarts restarts lie within one window, the next comes no sooner
\* than cooldown_seconds after the last of them.
CooldownKept ==
  \A i \in DOMAIN restarts :
    i > 1 /\ i + MaxRestarts - 1 \in DOMAIN restarts /\ mishaps = 0
      /\ restarts[i + MaxRestarts - 1] - restarts[i] <= Window
    => restarts[i] - restarts[i - 1] >= Cooldown

\* While no command is at work, and none was cut short, every service of an
\* enabled spec is started: whatever was enabled, disabled and enabled again
\* with another number of replicas.
EnabledStarted ==
  spec.enabled /\ mishaps = 0 /\ (\A p \in Locks : pc[p] = "idle") =>
    \A s \in spec.services : unit[s] \in {"running", "down"}

\* Reconcile, run often enough, brings every service of the spec back: the
\* rate limit and the cooldown delay it and never lock it out.
Heals ==
  \A s \in Service :
    (spec.enabled /\ s \in spec.services /\ unit[s] = "down")
      ~> (unit[s] # "down" \/ ~spec.enabled \/ s \notin spec.services)

=============================================================================
