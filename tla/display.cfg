SPECIFICATION DisplaySpec
CONSTANTS
  U32 = 64
  U16 = 4
  BootQuantity = 2
  FlowPeriod = 1
  SleepLoops = 2
  StationLoops = 1
  MaxSleep = 3
  Litres = {0, 3}
  Stations = {FALSE}
  InitPort <- MCInitPort
  PostIntervals = {}
  PostQuantities = {}
  SyncTimes = {4}
  ClockStepsBack = FALSE
  FlashErrors = FALSE
  MaxNow = 6
  MaxResets = 1
  MaxSyncs = 1
  MaxPosts = 0
  Minute = 2
  Day = 4
  EnvLoops = 3
  Readings = {4, 12}
INVARIANTS
  DisplayTypeOK
  IconIsThePort
  TimeIsTheNextSlot
  LitresAreCurrent
  NoOverprint
  EnvIsTheReading
