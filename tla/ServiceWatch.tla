---------------------------- MODULE ServiceWatch -----------------------------
(***************************************************************************)
(* `larops monitor service run`: the watchdog of one system service.  It   *)
(* restarts a service that is down, not again before the cooldown is over, *)
(* and tells of every change.  The state file is written once, at the end. *)
(***************************************************************************)
EXTENDS MonitorHost

CONSTANTS
  RestartCooldown,    \* --restart-cooldown
  RestartDown         \* the values of --restart-down-services in use

ASSUME WatchAssumption == RestartCooldown \in Nat /\ RestartDown \subseteq BOOLEAN

VARIABLES
  unit,          \* what systemctl is-active says
  watch,         \* the state file
  lastAttempt,   \* history: the time of the last restart
  tooSoon,       \* history: a restart came before the cooldown was over
  forgotten,     \* history: a run restarted the service and could not save that
  toldDown,      \* history: an event said down or restart_failed since the service was last seen up
  lostDown,      \* history: a run was killed between a file that says down and its event
  overlooked     \* history: a run saved that the service is down and owed no event for it

watchVars == <<unit, watch, lastAttempt, tooSoon, forgotten, toldDown, lostDown, overlooked>>

Healthy == {"active", "activating", "reloading"}
Units == {"active", "activating", "failed"}

\* A service that the file does not have yet, and a file that a kill has cut.
NoWatch == [active |-> "none", attempt |-> 0]
BadWatch == [active |-> "invalid", attempt |-> 0]

-----------------------------------------------------------------------------
(* The service *)

ServiceChanges ==
  /\ subject = "service"
  /\ unit' \in Units \ {unit}
  /\ UNCHANGED <<hostVars, watch, lastAttempt, tooSoon, forgotten, toldDown, lostDown, overlooked>>

-----------------------------------------------------------------------------
(* The run *)

\* `now` is read once, with the state file; a file which is no JSON ends the run.
LoadWatch(p, restart) ==
  /\ watch # BadWatch
  /\ Take(p, "service", "run", "probe", [now |-> clock, restart |-> restart, previous |-> watch])
  /\ UNCHANGED watchVars

\* Mutant of CoolingDown: the cooldown ends a second early.
CoolingDownLess(r) == r.previous.attempt # 0 /\ r.now - r.previous.attempt < RestartCooldown - 1

CoolingDown(r) == r.previous.attempt # 0 /\ r.now - r.previous.attempt < RestartCooldown

ProbeService(p) ==
  /\ subject = "service" /\ pc[p] = "probe"
  /\ LET r == loc[p]
         change == IF unit \in Healthy
                   THEN IF r.previous.active \notin Healthy \cup {"none"} THEN "recovered" ELSE "steady"
                   ELSE IF r.previous.active = "active" THEN "down" ELSE "steady"
     IN  IF unit \notin Healthy /\ r.restart /\ ~CoolingDown(r)
         THEN Continue(p, "restart", r)
         ELSE Continue(p, "save", [previous |-> r.previous, after |-> unit, transition |-> change,
                                   attempt |-> r.previous.attempt])
  /\ UNCHANGED watchVars

\* systemctl restart; whether it worked is asked of is-active.
RestartService(p) ==
  /\ subject = "service" /\ pc[p] = "restart"
  /\ unit' \in Units
  /\ lastAttempt' = loc[p].now
  /\ tooSoon' = (tooSoon \/ (lastAttempt # 0 /\ loc[p].now - lastAttempt < RestartCooldown))
  /\ Continue(p, "probe again", loc[p])
  /\ UNCHANGED <<watch, forgotten, toldDown, lostDown, overlooked>>

\* Mutant of ProbeAgain: a service that is still down is no news.
ProbeAgainQuietly(p) ==
  /\ subject = "service" /\ pc[p] = "probe again"
  /\ Continue(p, "save", [previous |-> loc[p].previous, after |-> unit, attempt |-> loc[p].now,
                          transition |-> IF unit \in Healthy THEN "restarted" ELSE "steady"])
  /\ UNCHANGED watchVars

ProbeAgain(p) ==
  /\ subject = "service" /\ pc[p] = "probe again"
  /\ Continue(p, "save", [previous |-> loc[p].previous, after |-> unit, attempt |-> loc[p].now,
                          transition |-> IF unit \in Healthy THEN "restarted" ELSE "restart_failed"])
  /\ UNCHANGED watchVars

\* The run sees the service down for the first time and owes no event for it: the file did
\* not have the service, or had it activating, and it is not restarted.
Overlooks(r) ==
  r.after \notin Healthy /\ r.transition = "steady" /\ r.previous.active \in {"none", "activating"}

SaveWatch(p) ==
  /\ subject = "service" /\ pc[p] = "save"
  /\ watch' = [active |-> loc[p].after, attempt |-> loc[p].attempt]
  /\ toldDown' = (toldDown /\ loc[p].after \notin Healthy)
  /\ lostDown' = (lostDown /\ loc[p].after \notin Healthy)
  /\ overlooked' = (loc[p].after \notin Healthy /\ (overlooked \/ Overlooks(loc[p])))
  /\ Unlock(p, "emit", loc[p])
  /\ UNCHANGED <<unit, lastAttempt, tooSoon, forgotten>>

\* The events follow when the lock is free again.
EmitWatch(p) ==
  /\ subject = "service" /\ pc[p] = "emit"
  /\ toldDown' = (toldDown \/ loc[p].transition \in {"down", "restart_failed"})
  /\ End(p)
  /\ UNCHANGED <<unit, watch, lastAttempt, tooSoon, forgotten, lostDown, overlooked>>

\* A kill: before the file is written, while it is (it is emptied first), or after.
KillWatch(p) ==
  /\ subject = "service" /\ pc[p] # "idle"
  /\ Break(p)
  /\ \/ UNCHANGED watch
     \/ pc[p] = "save" /\ watch' = BadWatch
  /\ forgotten' = (forgotten \/ pc[p] = "probe again" \/ watch' # watch
                   \/ (pc[p] = "save" /\ loc[p].attempt # loc[p].previous.attempt))
  /\ lostDown' = (lostDown \/ (pc[p] = "emit" /\ loc[p].transition \in {"down", "restart_failed"}))
  /\ UNCHANGED <<unit, lastAttempt, tooSoon, toldDown, overlooked>>

\* The operator removes a file that is no JSON, and with it what it said of the cooldown.
RemoveBadWatch ==
  /\ subject = "service" /\ watch = BadWatch
  /\ watch' = NoWatch
  /\ UNCHANGED <<hostVars, unit, lastAttempt, tooSoon, forgotten, toldDown, lostDown, overlooked>>

WatchInit ==
  /\ unit \in Units
  /\ watch = NoWatch
  /\ lastAttempt = 0
  /\ tooSoon = FALSE /\ forgotten = FALSE /\ toldDown = FALSE
  /\ lostDown = FALSE /\ overlooked = FALSE

WatchStep(p) ==
  \/ \E restart \in RestartDown : LoadWatch(p, restart)
  \/ ProbeService(p) \/ RestartService(p) \/ ProbeAgain(p) \/ SaveWatch(p) \/ EmitWatch(p) \/ KillWatch(p)

WatchNext == ServiceChanges \/ RemoveBadWatch \/ \E p \in Processes : WatchStep(p)

-----------------------------------------------------------------------------
(* Properties *)

WatchTypeOK ==
  /\ unit \in Units
  /\ watch \in [active : Units \cup {"none", "invalid"}, attempt : 0..(MaxClock + 1)]
  /\ lastAttempt \in 0..(MaxClock + 1)
  /\ {tooSoon, forgotten, toldDown, lostDown, overlooked} \subseteq BOOLEAN

\* Runs which began less than the cooldown apart do not both restart the service, whoever
\* started them, unless one of them was killed before it could save that it had.
RestartsApart == tooSoon => forgotten

\* Whether an event that the service is down is still on its way.
DownPending ==
  \E p \in Processes : pc[p] = "emit" /\ loc[p].transition \in {"down", "restart_failed"}

\* What the state file says is down has been told, or is about to be, although the event comes
\* after the file and a later run says "steady".  Two cases are exempt until the service is seen
\* up again: a run that owed the event was killed between the two, and a run overlooked the
\* failure.  It does so whenever the service is down when it is first seen, or failed after it
\* was seen activating, and is not restarted then; no later run tells of it either.
DownTold ==
  subject = "service" /\ watch.active = "failed" =>
    toldDown \/ DownPending \/ lostDown \/ overlooked

=============================================================================
