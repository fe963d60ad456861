SPECIFICATION DevicesSpec
CONSTANTS
  Threads = {1, 2, 3}
  Main = 0
  MaxGuards = 2
  Manners <- Manner
  HeapStart = 8
  HeapWords = 32
  Sizes = {1, 3, 6}
  Channels = {0}
  Intervals = {1, 2}
  CurvModulus = 8
  MaxShots = 2
  Delayers = {1, 2}
  MaxUs = 3
  CntModulus = 6
  MaxLate = 4
  FifoSize = 2
  MaxLen = 3
  MaxLateCalls = 1
  PageSize = 2
  Pages = 2
  MaxFaults = 1
  Buffers = {9, 10}
  LowModulus = 8
  TIMEOUT_TICKS = 2
  MaxWatch = 3
  Pollers = {1, 2}
  Ratios <- AllRatios
  Width = 2
  MaxBytes = 2
  LineSize = 2
  CacheLines = 2
  MaxSize = 3
  SectionSize = 2
  Sections = 3
  MaxDescs = 2
  RangeX = 2
  RangeY = 1
  MAX_TOUCHES = 2
  MaxFingers = 3
  UartUsers = {1, 2}
  TxDepth = 2
  MaxWrite = 2
  Divisors = {0, 1, 2, 3, 5}
  Radix = 2
  MaxCount = 8
  PwmPeriods <- SomePeriods
  AhbRates = {24000000, 200000000}
  SpiLimits <- SomeLimits
  Callers = {1, 2}
  Boot = 1
  Isr = 0
  Pins = {6, 7, 8}
  Vectors = {13, 14, 39}
  Configs <- TwoConfigs
  MaxCalls = 2
  MaxEdges = 1
INVARIANTS
  DevicesTypeOK
  ThreadsIntact
  MemoryKept
  RegistersKept
  TimingKept
  BusesKept
  PanelKept
PROPERTIES
  AccessesKept
  StepsKept
CHECK_DEADLOCK FALSE
