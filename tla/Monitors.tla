------------------------------ MODULE Monitors -------------------------------
(***************************************************************************)
(* The monitors of LarOps, its timers and its nginx files on one host: a    *)
(* behaviour is about one of them, since they share neither files nor      *)
(* locks.                                                                  *)
(***************************************************************************)
EXTENDS ServiceWatch, AppMonitor, LogScan, FileIntegrity, SystemdTimers, NginxConfig

vars == <<hostVars, watchVars, appVars, scanVars, fimVars, timerVars, nginxVars>>

\* What the behaviour is not about stays as it is.
Init ==
  /\ HostInit /\ WatchInit /\ AppInit /\ ScanInit /\ FimInit /\ TimerInit /\ NginxInit
  /\ subject # "service" => unit = "active"
  /\ subject # "app" => health = "ok"
  /\ subject # "timer" => family = ScanTimer
  /\ subject # "nginx" => ~http /\ ~cert /\ ~vhost.there

\* Only the cooldown of the watchdog and the window of the scan look at the time.
TimePasses ==
  subject \in {"service", "scan"} /\ Tick /\ UNCHANGED <<watchVars, appVars, scanVars, fimVars, timerVars, nginxVars>>

Next ==
  \/ subject = "service" /\ WatchNext /\ UNCHANGED <<appVars, scanVars, fimVars, timerVars, nginxVars>>
  \/ subject = "app" /\ AppNext /\ UNCHANGED <<watchVars, scanVars, fimVars, timerVars, nginxVars>>
  \/ subject = "scan" /\ ScanNext /\ UNCHANGED <<watchVars, appVars, fimVars, timerVars, nginxVars>>
  \/ subject = "fim" /\ FimNext /\ UNCHANGED <<watchVars, appVars, scanVars, timerVars, nginxVars>>
  \/ subject = "timer" /\ TimerNext /\ UNCHANGED <<watchVars, appVars, scanVars, fimVars, nginxVars>>
  \/ subject = "nginx" /\ NginxNext /\ UNCHANGED <<watchVars, appVars, scanVars, fimVars, timerVars>>
  \/ TimePasses

Spec == Init /\ [][Next]_vars

-----------------------------------------------------------------------------
(* Properties *)

\* Every variable has its type, and of the runs of the watchdog, the application monitor and the
\* scan at most one is between its lock and its events.
MonitorsTypeOK ==
  /\ subject \in {"service", "app", "scan"} =>
       \A p \in Processes : pc[p] \notin {"idle", "emit"} => lock["run"] = p
  /\ HostTypeOK
  /\ WatchTypeOK
  /\ AppTypeOK
  /\ ScanTypeOK
  /\ FimTypeOK
  /\ TimerTypeOK
  /\ NginxTypeOK

\* What the state files of the watchdog and of the application monitor hold, so that no later
\* run tells of it, has been told or is about to be, unless a run was killed between its file
\* and its event, or the watchdog overlooked the failure: it owes no event for a service which
\* is down when it is first seen, or fails after it was seen activating, and is not restarted.
SavedTold == DownTold /\ AlertTold

=============================================================================
