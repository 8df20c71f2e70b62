SPECIFICATION Spec
CONSTANTS
  N = 2
  MaxPlace = 1
  MaxEpoch = 1
  MaxCommands = 2
  MaxQueue = 2
  MaxMishaps = 0
INVARIANTS
  ArmAgrees
CHECK_DEADLOCK FALSE
