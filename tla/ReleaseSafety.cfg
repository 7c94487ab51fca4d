SPECIFICATION Spec
CONSTANTS
  p1 = p1
  p2 = p2
  Procs = {p1, p2}
  NoProc = NoProc
  MaxRelease = 3
  Keep = 2
  RestoreOnHealth = TRUE
  RestoreOnVerify = TRUE
  Strategy = "none"
  Commands = {"create", "deploy", "rollback"}
  RollbackTo = {"previous", "explicit"}
SYMMETRY ProcSymmetry
INVARIANTS TypeOK NoDangling ServesOwnRelease DeployRestoresLive NoFailedRecorded DeployPrunes
