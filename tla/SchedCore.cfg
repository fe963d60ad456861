SPECIFICATION FairSpec
CONSTANTS
  MAX_THREADS = 3
  MAX_PRIORITY = 3
  Profiles <- ThreePriorities
  Durations = {0, 1, 2}
  MaxTick = 4
  Api = {"create", "yield", "sleep", "ipc"}
  KeepIdle = TRUE
INVARIANTS
  TypeOK
  ReadyHasBit
  OneRunning
  BitIsServed
  NoPanic
  IrqsComeBack
PROPERTIES
  SwitchToBest
  TickPreempts
  WaitEndsForAReason
  ReadyRuns
  TimedWaitEnds
