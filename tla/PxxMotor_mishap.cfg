SPECIFICATION FairSpec
CONSTANTS
  N = 2
  MaxEpoch = 1
  MaxMishaps = 1
  MaxBacklog = 1
INVARIANTS
  TypeOK
  Disarmed
  OneInFlight
  AnswerIsOwn
PROPERTIES
  ActivationEnds
CHECK_DEADLOCK FALSE
