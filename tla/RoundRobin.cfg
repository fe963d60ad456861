SPECIFICATION RRSpec
CONSTANTS
  MAX_THREADS = 4
  MAX_PRIORITY = 2
  Profiles <- Peers
  Durations = {1}
  MaxTick = 2
  Api = {"create", "delete", "suspend", "resume", "sleep", "ipc"}
  KeepIdle = TRUE
INVARIANTS
  NothingHidden
PROPERTIES
  SwitchToBest
  BoundedBypass
