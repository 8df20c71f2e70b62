SPECIFICATION Spec
CONSTANTS
  N = 1
  MaxEpoch = 2
  MaxMishaps = 2
  MaxBacklog = 2
INVARIANTS
  ActiveIsReady
  NeverIllegal
  StaleOnlyEarly
PROPERTIES
  EnabledAtRest
CHECK_DEADLOCK FALSE
