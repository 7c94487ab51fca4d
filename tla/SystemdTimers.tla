---------------------------- MODULE SystemdTimers ----------------------------
(***************************************************************************)
(* The systemd units of LarOps itself: the timers of the monitors, of the  *)
(* automatic backup, of the metrics and of the certificate renewal, and    *)
(* the daemon of the Telegram notifier.  A command is a sequence of calls; *)
(* an enable and a disable hold different locks, so that they overlap, and *)
(* the commands for the daemon hold none.                                  *)
(***************************************************************************)
EXTENDS MonitorHost

CONSTANT Options     \* what an enable can be called with: the schedule and the command line

ASSUME TimerAssumption == Options \cap {"none", "cut"} = {}

VARIABLES
  family,        \* the units this behaviour is about
  disk,          \* what is in each unit file
  loaded,        \* what systemd has read of each
  enabled,       \* the link from the target that starts the unit at boot
  started,       \* the options the running unit follows
  settled,       \* history: what the last command reported, when it was alone and no call failed
  overlapped     \* history: the commands that another ran beside

timerVars == <<family, disk, loaded, enabled, started, settled, overlapped>>

Content == Options \cup {"none", "cut"}
Unsure == [state |-> "unsure"]

-----------------------------------------------------------------------------
(* The units: their files and the calls of their commands.  "try" is a call whose failure is   *)
(* not looked at, "known" asks whether systemd knows the unit before the call is made.         *)

InstallTimer == <<"writeService", "writeTimer", "relabel", "reload", "enable">>
RemoveTimer == <<"unlinkService", "unlinkTimer">>

Timer(unit, disable) ==
  [unit |-> unit, files |-> {"service", "timer"}, main |-> "timer", locked |-> TRUE,
   enable |-> InstallTimer, disable |-> disable, remove |-> RemoveTimer]

ScanTimer == Timer("larops-monitor-scan", <<"tryDisable">>)
FimTimer == Timer("larops-monitor-fim", <<"tryDisable">>)
ServiceTimer == Timer("larops-monitor-service", <<"tryDisable">>)
AppTimer == Timer("larops-monitor-app", <<"tryDisable">>)
BackupTimer == Timer("larops-db-backup-domain", <<"tryDisable">>)
MetricsTimer == Timer("larops-doctor-metrics", <<"tryDisable">>)
RenewTimer == Timer("larops-ssl-renew", <<"known", "disable">>)

TelegramDaemon ==
  [unit |-> "larops-notify-telegram", files |-> {"service"}, main |-> "service", locked |-> FALSE,
   enable |-> <<"writeService", "relabel", "reload", "enable">>, disable |-> <<"known", "disable">>,
   remove |-> <<>>]

Families ==
  {ScanTimer, FimTimer, ServiceTimer, AppTimer, BackupTimer, MetricsTimer, RenewTimer, TelegramDaemon}

-----------------------------------------------------------------------------
(* A command begins, and goes from call to call *)

Busy == {p \in Processes : pc[p] # "idle"}

Begin(p, command, locals) ==
  /\ IF family.locked THEN Take(p, "timer", command, "call", locals)
     ELSE subject = "timer" /\ pc[p] = "idle" /\ Continue(p, "call", locals)
  /\ overlapped' = IF Busy = {} THEN overlapped \ {p} ELSE overlapped \cup Busy \cup {p}
  /\ settled' = Unsure
  /\ UNCHANGED <<family, disk, loaded, enabled, started>>

BeginEnable(p, options) ==
  Begin(p, "enable", [todo |-> family.enable, unseen |-> FALSE,
                      goal |-> [state |-> "on", options |-> options, kept |-> FALSE]])

BeginDisable(p, remove) ==
  /\ remove => family.remove # <<>>
  /\ Begin(p, "disable", [todo |-> family.disable \o (IF remove THEN family.remove ELSE <<>>),
                          unseen |-> FALSE, goal |-> [state |-> "off", removed |-> remove]])

\* Only the daemon has a command that restarts it.
BeginRestart(p) ==
  family = TelegramDaemon
  /\ Begin(p, "restart", [todo |-> <<"restart">>, unseen |-> FALSE, goal |-> Unsure])

Calls(p, call) ==
  /\ subject = "timer" /\ pc[p] = "call"
  /\ loc[p].todo # <<>> /\ Head(loc[p].todo) = call

Proceed(p) == Continue(p, "call", [loc[p] EXCEPT !.todo = Tail(@)])

\* A call has failed and nobody looks.
ProceedUnseen(p) ==
  /\ Goto(p, "call")
  /\ loc' = [loc EXCEPT ![p].todo = Tail(@), ![p].unseen = TRUE]
  /\ UNCHANGED <<subject, clock, lock>>

-----------------------------------------------------------------------------
(* The calls *)

WriteUnit(p, f) ==
  /\ Calls(p, IF f = "service" THEN "writeService" ELSE "writeTimer")
  /\ disk' = [disk EXCEPT ![f] = loc[p].goal.options]
  /\ Proceed(p)
  /\ UNCHANGED <<family, loaded, enabled, started, settled, overlapped>>

\* With a file removed, systemd reads its files again at the end.
UnlinkUnit(p, f) ==
  /\ Calls(p, IF f = "service" THEN "unlinkService" ELSE "unlinkTimer")
  /\ disk' = [disk EXCEPT ![f] = "none"]
  /\ IF disk[f] = "none" \/ loc[p].todo[Len(loc[p].todo)] = "tryReload" THEN Proceed(p)
     ELSE Continue(p, "call", [loc[p] EXCEPT !.todo = Append(Tail(@), "tryReload")])
  /\ UNCHANGED <<family, loaded, enabled, started, settled, overlapped>>

Relabel(p) == Calls(p, "relabel") /\ Proceed(p) /\ UNCHANGED timerVars

\* A running timer follows the new file at once, a running daemon does not.
Reloaded == IF started # "none" /\ family.main = "timer" THEN disk["timer"] ELSE started

Reload(p) ==
  /\ Calls(p, "reload") \/ Calls(p, "tryReload")
  /\ loaded' = disk
  /\ started' = Reloaded
  /\ Proceed(p)
  /\ UNCHANGED <<family, disk, enabled, settled, overlapped>>

ReloadFails(p) ==
  /\ Calls(p, "tryReload")
  /\ Mishap
  /\ ProceedUnseen(p)
  /\ UNCHANGED timerVars

\* systemctl enable --now: the link, a reload, and the start of a unit which does not run.
EnableNow(p) ==
  /\ Calls(p, "enable")
  /\ disk[family.main] \in Options
  /\ enabled' = TRUE
  /\ loaded' = disk
  /\ started' = IF started = "none" THEN disk[family.main] ELSE Reloaded
  /\ Continue(p, "call", [loc[p] EXCEPT !.todo = Tail(@), !.goal.kept = started # "none"])
  /\ UNCHANGED <<family, disk, settled, overlapped>>

\* There is no such unit: the call fails and so does the command.
EnableNothing(p) ==
  /\ Calls(p, "enable")
  /\ disk[family.main] \notin Options
  /\ End(p)
  /\ UNCHANGED timerVars

AskKnown(p) ==
  /\ Calls(p, "known")
  /\ \/ Proceed(p)
     \/ /\ disk[family.main] = "none" /\ ~enabled /\ started = "none"
        /\ Continue(p, "call", [loc[p] EXCEPT !.todo = Tail(Tail(@))])
  /\ UNCHANGED timerVars

Disables(p) == Calls(p, "disable") \/ Calls(p, "tryDisable")

\* Mutant of DisableNow: the unit is not stopped.
DisableLater(p) ==
  /\ Disables(p)
  /\ enabled' = FALSE
  /\ Proceed(p)
  /\ UNCHANGED <<family, disk, loaded, started, settled, overlapped>>

\* systemctl disable --now.
DisableNow(p) ==
  /\ Disables(p)
  /\ enabled' = FALSE
  /\ started' = "none"
  /\ Proceed(p)
  /\ UNCHANGED <<family, disk, loaded, settled, overlapped>>

\* It fails without a unit file, or for a reason of its own before the unit is stopped.
DisableFails(p) ==
  /\ Disables(p)
  /\ \/ disk[family.main] = "none" /\ enabled' = enabled /\ UNCHANGED mishaps
     \/ Mishap /\ enabled' \in {enabled, FALSE}
  /\ IF Calls(p, "disable") THEN Stop(p) /\ UNCHANGED <<subject, clock>>
     ELSE ProceedUnseen(p)
  /\ UNCHANGED <<family, disk, loaded, started, settled, overlapped>>

RestartDaemon(p) ==
  /\ Calls(p, "restart")
  /\ loaded["service"] \in Options
  /\ started' = loaded["service"]
  /\ Proceed(p)
  /\ UNCHANGED <<family, disk, loaded, enabled, settled, overlapped>>

RestartNothing(p) ==
  /\ Calls(p, "restart")
  /\ loaded["service"] \notin Options
  /\ End(p)
  /\ UNCHANGED timerVars

\* The command ends well and says that the unit is enabled or disabled.
EndTimer(p) ==
  /\ subject = "timer" /\ pc[p] = "call" /\ loc[p].todo = <<>>
  /\ settled' = IF p \in overlapped \/ Busy # {p} \/ loc[p].unseen THEN Unsure ELSE loc[p].goal
  /\ End(p)
  /\ UNCHANGED <<family, disk, loaded, enabled, started, overlapped>>

\* A kill, or a call that fails and ends the command.
KillTimer(p) ==
  /\ subject = "timer" /\ pc[p] # "idle"
  /\ Break(p)
  /\ \/ UNCHANGED disk
     \/ \E f \in family.files :
          /\ Calls(p, IF f = "service" THEN "writeService" ELSE "writeTimer")
          /\ disk' = [disk EXCEPT ![f] = "cut"]
  /\ enabled' \in {enabled} \cup (IF Calls(p, "enable") THEN {TRUE} ELSE {})
  /\ UNCHANGED <<family, loaded, started, settled, overlapped>>

TimerInit ==
  /\ family \in Families
  /\ disk = [f \in {"service", "timer"} |-> "none"]
  /\ loaded = disk
  /\ enabled = FALSE /\ started = "none"
  /\ settled = Unsure
  /\ overlapped = {}

TimerStep(p) ==
  \/ \E options \in Options : BeginEnable(p, options)
  \/ \E remove \in BOOLEAN : BeginDisable(p, remove)
  \/ BeginRestart(p)
  \/ \E f \in {"service", "timer"} : WriteUnit(p, f) \/ UnlinkUnit(p, f)
  \/ Relabel(p) \/ Reload(p) \/ ReloadFails(p) \/ EnableNow(p) \/ EnableNothing(p) \/ AskKnown(p)
  \/ DisableNow(p) \/ DisableFails(p) \/ RestartDaemon(p) \/ RestartNothing(p)
  \/ EndTimer(p) \/ KillTimer(p)

TimerNext == \E p \in Processes : TimerStep(p)

-----------------------------------------------------------------------------
(* Properties *)

TimerTypeOK ==
  /\ family \in Families
  /\ {disk, loaded} \subseteq [{"service", "timer"} -> Content]
  /\ enabled \in BOOLEAN /\ started \in Content
  /\ settled.state \in {"unsure", "on", "off"}
  /\ overlapped \subseteq Processes

\* A command that ended well, with none beside it and no failure it did not look at, has left
\* what it says, whatever half of an earlier command it began with: an enabled unit is linked,
\* runs and follows the options given, except that a daemon which ran before keeps the old ones;
\* a disabled unit is not linked and does not run, and with --remove-units its files are gone.
TimerSettled ==
  LET Read(f) == disk[f] = settled.options /\ loaded[f] = settled.options
  IN  /\ settled.state = "on" =>
           /\ enabled
           /\ \A f \in family.files : Read(f)
           /\ started = settled.options \/ (family = TelegramDaemon /\ settled.kept /\ started # "none")
      /\ settled.state = "off" =>
           /\ ~enabled /\ started = "none"
           /\ settled.removed => \A f \in family.files : disk[f] = "none"

=============================================================================
