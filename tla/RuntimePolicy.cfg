SPECIFICATION FairSpec
CONSTANTS
  Kinds = {"worker", "scheduler", "horizon"}
  MaxReplicas = 2
  MaxRestarts = 2
  Window = 1
  Cooldown = 2
  Locks = {"own", "app"}
  Faults = {"systemctl", "kill"}
  MaxMishaps = 1
INVARIANTS TypeOK RestartsLimited  EnabledStarted
PROPERTIES Heals
