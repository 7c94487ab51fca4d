SPECIFICATION Spec
CONSTANTS
  o1 = o1
  o2 = o2
  Operators = {o1, o2}
  NoOperator = NoOperator
  v1 = v1
  v2 = v2
  Versions = {v1, v2}
  Absent = absent
  Torn = torn
  MaxArchives = 2
  MaxMishaps = 2
SYMMETRY Symmetry
INVARIANTS TypeOK Recoverable DeletedWholly RestoresWhole
