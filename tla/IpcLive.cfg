SPECIFICATION IpcFairSpec
CONSTANTS
  MAX_THREADS = 3
  MAX_PRIORITY = 3
  Profiles <- AllProfiles
  ThreadProfile <- FirstThree
  Durations = {1}
  MaxTick = 2
  Api = {"create", "delete", "yield", "sleep"}
  KeepIdle = TRUE
  Applications <- LiveApplications
  Initial = 1
  MaxTokens = 2
  MaxNest = 1
  Messages = {m1}
  NoMessage = NoMessage
  Capacity = 1
  UsizeModulus = 8
  Senders = {1}
  Receivers = {2}
  Bits = {b1, b2}
  Waits <- AllWaits
  MAX_SIGNALS = 2
  WaitMasks <- AnyOr1
PROPERTIES
  WokenReturns
  WaitersProgress
  SendersProgress
