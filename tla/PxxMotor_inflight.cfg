SPECIFICATION Spec
CONSTANTS
  N = 2
  MaxEpoch = 2
  MaxMishaps = 0
  MaxBacklog = 2
INVARIANTS
  OneInFlight
CHECK_DEADLOCK FALSE
