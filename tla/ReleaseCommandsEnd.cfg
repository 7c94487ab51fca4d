SPECIFICATION FairSpec
CONSTANTS
  p1 = p1
  p2 = p2
  Procs = {p1, p2}
  NoProc = NoProc
  MaxRelease = 2
  Keep = 1
  RestoreOnHealth = TRUE
  RestoreOnVerify = TRUE
  Strategy = "queue-restart"
  Commands = {"create", "refresh", "worker"}
  RollbackTo = {}
PROPERTIES CommandsEnd WorkersCatchUp
