SPECIFICATION FairSpec
CONSTANTS
  RetryCount = 10
  MaxFailures = 4
  MaxRefusals = 2
INVARIANTS
  TypeOK
  StateIsTheRadios
  WaitingIsAnswered
PROPERTIES
  EventuallyOnline
  LoopGoesOn
