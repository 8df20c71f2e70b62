SPECIFICATION FairSpec
CONSTANTS
  N = 1
  MaxPlace = 1
  MaxEpoch = 2
  MaxCommands = 2
  MaxQueue = 2
  MaxMishaps = 1
INVARIANTS
  TypeOK
  OnlyCommanded
  HoldIsStill
  FeedbackIsOfNow
PROPERTIES
  FaultNoticed
CHECK_DEADLOCK FALSE
