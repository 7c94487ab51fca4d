\* Two processes run the monitors or the commands for the timers, with a kill or a failing call.
SPECIFICATION Spec
CONSTANTS
  Processes = {p1, p2}
  NoProcess = np
  Subjects = {"service", "app", "scan", "fim", "timer", "nginx"}
  MaxClock = 3
  MaxMishaps = 1
  RestartCooldown = 2
  RestartDown = {TRUE, FALSE}
  MaxLines = 3
  MaxFiles = 2
  BatchLines = 2
  Window = 1
  Threshold = 2
  Files = {1, 2}
  Contents = {"c1"}
  Updates = {TRUE, FALSE}
  Options = {"a", "b"}
SYMMETRY ProcessSymmetry
INVARIANTS MonitorsTypeOK RestartsApart SavedTold HitsExact BaselineKnown TimerSettled ConfigLoads
\* A host where time, the faults and what may be written are spent stands still.
CHECK_DEADLOCK FALSE
