\* The commands are bounded: the host stops when they are used up.
CHECK_DEADLOCK FALSE
SPECIFICATION OffsiteSpec
CONSTANTS
  p1 = p1
  p2 = p2
  Processes = {p1, p2}
  NoProcess = NoProcess
  v1 = v1
  v2 = v2
  Versions = {v1, v2}
  MaxClock = 1
  RetainCount = 1
  MaxMishaps = 0
  Plans <- MysqlPlan
  RetentionDays = 1
  MaxEncryptions = 0
SYMMETRY Symmetry
PROPERTIES VerifyLeavesLive
