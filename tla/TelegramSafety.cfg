SPECIFICATION Spec
CONSTANTS
  e1 = e1
  e2 = e2
  e3 = e3
  e4 = e4
  d1 = d1
  d2 = d2
  Events = {e1, e2, e4}
  Alerts = {e1, e2}
  Dispatchers = {d1, d2}
  BatchSize = 2
  MaxSent = 1
  MaxRotations = 1
  MaxAborts = 1
  Faults = {"rename", "truncate", "refuse", "kill"}
SYMMETRY PairSymmetry
INVARIANTS TypeOK UnreadAhead
