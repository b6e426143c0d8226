SPECIFICATION VaultFairSpec
CONSTANTS
  U32 = 64
  U16 = 16
  BootQuantity = 2
  FlowPeriod = 1
  SleepLoops = 1
  StationLoops = 1
  MaxSleep = 3
  Litres = {0, 2}
  Stations = {FALSE}
  InitPort <- MCInitPort
  PostIntervals = {4}
  PostQuantities = {2}
  SyncTimes = {3}
  ClockStepsBack = TRUE
  FlashErrors = TRUE
  MaxNow = 5
  MaxResets = 1
  MaxSyncs = 1
  MaxPosts = 1
  MaxReadErrors = 1
  MaxErasures = 1
INVARIANTS
  VaultTypeOK
  StateMirrorsValve
PROPERTIES
  ClosesUnlessErased
  SlotServedOnce
