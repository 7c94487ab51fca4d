----------------------------- MODULE AppMonitor ------------------------------
(***************************************************************************)
(* `larops monitor app run`: the application monitor.  It runs the checks   *)
(* of the doctor and tells of each check whose status is not what the state *)
(* file says: of which one stands here for all.                            *)
(***************************************************************************)
EXTENDS MonitorHost

VARIABLES
  health,      \* what the check finds
  appState,    \* the status of the check in the state file
  told,        \* history: an event told of the status in the state file since it is there
  lostNews     \* history: a run was killed between the state file and its event

appVars == <<health, appState, told, lostNews>>

Status == {"ok", "warn", "error"}

HealthChanges ==
  /\ subject = "app"
  /\ health' \in Status \ {health}
  /\ UNCHANGED <<hostVars, appState, told, lostNews>>

LockApp(p) == Take(p, "app", "run", "check", NoLocals) /\ UNCHANGED appVars

\* The checks run before the state file is read, under the lock.
CheckApp(p) ==
  /\ subject = "app" /\ pc[p] = "check"
  /\ Continue(p, "compare", [status |-> health])
  /\ UNCHANGED appVars

\* Mutant of Transition: what is not ok was told before.
TransitionOnce(previous, status) ==
  IF status = "ok" THEN IF previous \in {"warn", "error"} THEN "recovered" ELSE "steady"
  ELSE IF previous = "ok" THEN "alert" ELSE "steady"

\* A check that the file does not have yet alerts when it is not ok.
Transition(previous, status) ==
  IF status = "ok" THEN IF previous \in {"warn", "error"} THEN "recovered" ELSE "steady"
  ELSE IF previous # status THEN "alert" ELSE "steady"

\* A file which is no JSON ends the run, the operator removes it.
SaveApp(p) ==
  /\ subject = "app" /\ pc[p] = "compare"
  /\ IF appState = "invalid" THEN End(p) /\ UNCHANGED appVars
     ELSE /\ appState' = loc[p].status
          /\ told' = (told /\ appState = loc[p].status)
          /\ Unlock(p, "emit", [status |-> loc[p].status, transition |-> Transition(appState, loc[p].status)])
          /\ UNCHANGED <<health, lostNews>>

\* The events follow when the lock is free again.
EmitApp(p) ==
  /\ subject = "app" /\ pc[p] = "emit"
  /\ told' = (told \/ (loc[p].transition = "alert" /\ loc[p].status = appState))
  /\ End(p)
  /\ UNCHANGED <<health, appState, lostNews>>

KillApp(p) ==
  /\ subject = "app" /\ pc[p] # "idle"
  /\ Break(p)
  /\ \/ UNCHANGED appState
     \/ pc[p] = "compare" /\ appState' = "invalid"
  /\ lostNews' = (lostNews \/ pc[p] = "emit")
  /\ UNCHANGED <<health, told>>

RemoveBadApp ==
  /\ subject = "app" /\ appState = "invalid"
  /\ appState' = "none"
  /\ UNCHANGED <<hostVars, health, told, lostNews>>

AppInit == health \in Status /\ appState = "none" /\ told = FALSE /\ lostNews = FALSE

AppNext ==
  \/ HealthChanges \/ RemoveBadApp
  \/ \E p \in Processes : LockApp(p) \/ CheckApp(p) \/ SaveApp(p) \/ EmitApp(p) \/ KillApp(p)

-----------------------------------------------------------------------------
(* Properties *)

AppTypeOK ==
  /\ health \in Status
  /\ appState \in Status \cup {"none", "invalid"}
  /\ {told, lostNews} \subseteq BOOLEAN

\* A warning or an error that the state file has, so that no later run alerts again, has been
\* told or is about to be, unless a run was killed between its state file and its event.
AlertTold ==
  subject = "app" /\ appState \in {"warn", "error"} =>
    \/ told \/ lostNews
    \/ \E p \in Processes : pc[p] = "emit" /\ loc[p].transition = "alert" /\ loc[p].status = appState

=============================================================================
