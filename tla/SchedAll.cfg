\* The panic handler stops the system.
SPECIFICATION Spec
CONSTANTS
  MAX_THREADS = 3
  MAX_PRIORITY = 2
  Profiles <- TwoPriorities
  Durations = {1}
  MaxTick = 2
  Api = {"create", "yield", "sleep", "delete", "suspend", "resume", "exit", "ipc", "early_tick"}
  KeepIdle = FALSE
CHECK_DEADLOCK FALSE
INVARIANTS
  NoOversleep
  IpcWaitIsBlocked
