SPECIFICATION FairSpec
CONSTANTS
  e1 = e1
  e2 = e2
  e3 = e3
  e4 = e4
  d1 = d1
  d2 = d2
  Events = {e1, e2, e3, e4}
  Alerts = {e1, e2, e3}
  Dispatchers = {d1}
  BatchSize = 2
  MaxSent = 4
  MaxRotations = 0
  MaxAborts = 2
  Faults = {"refuse"}
INVARIANTS RepeatsBounded
PROPERTIES DeliverySpec
