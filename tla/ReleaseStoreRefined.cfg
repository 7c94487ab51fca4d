SPECIFICATION Spec
CONSTANTS
  p1 = p1
  p2 = p2
  Procs = {p1, p2}
  NoProc = NoProc
  MaxRelease = 2
  Keep = 1
  RestoreOnHealth = TRUE
  RestoreOnVerify = TRUE
  Strategy = "restart-enabled"
  Commands = {"create", "force", "deploy", "refresh", "rollback", "bootstrap", "worker"}
  RollbackTo = {"previous", "explicit"}
SYMMETRY ProcSymmetry
INVARIANTS WorkersRestarted
PROPERTIES SavesLoseNothing StoreSpec
