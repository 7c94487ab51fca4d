SPECIFICATION Spec
CONSTANTS
  Kinds = {"worker", "scheduler", "horizon"}
  MaxReplicas = 2
  MaxRestarts = 2
  Window = 1
  Cooldown = 2
  Locks = {"own", "site"}
  Faults = {}
  MaxMishaps = 0
INVARIANTS RestartsLimited
