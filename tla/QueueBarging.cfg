SPECIFICATION IpcSpec
CONSTANTS
  MAX_THREADS = 4
  MAX_PRIORITY = 3
  Profiles <- AllProfiles
  ThreadProfile <- Slots
  Durations = {1}
  MaxTick = 2
  Api = {"create", "delete", "yield", "sleep"}
  KeepIdle = TRUE
  Applications <- TwoReaders
  Initial = 1
  MaxTokens = 2
  MaxNest = 2
  Messages = {m1, m2}
  NoMessage = NoMessage
  Capacity = 2
  UsizeModulus = 8
  Senders = {1}
  Receivers = {2, 3}
  Bits = {b1, b2}
  Waits <- AllWaits
  MAX_SIGNALS = 2
  WaitMasks <- AnyOr1
INVARIANTS
  CountInRange
