SPECIFICATION Spec
CONSTANTS
  MAX_THREADS = 3
  MAX_PRIORITY = 3
  Profiles <- ThreePriorities
  Durations = {1}
  MaxTick = 2
  Api = {"resume", "suspend"}
  KeepIdle = TRUE
INVARIANTS
  OneRunning
