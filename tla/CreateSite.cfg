SPECIFICATION Spec
CONSTANTS
  c1 = c1
  c2 = c2
  Creators = {c1, c2}
  NoCreator = NoCreator
  MaxRelease = 2
  Keep = 1
  Forces = {TRUE, FALSE}
  Atomics = {TRUE, FALSE}
  Deploys = {TRUE, FALSE}
  WithDb = {TRUE}
  WithTls = {TRUE, FALSE}
  RuntimePlans = {{}, {"worker", "scheduler"}}
  Overlap = {"plain"}
SYMMETRY CreatorSymmetry
INVARIANTS TypeOK CompletedServes LastDeployKept UndoRestores
