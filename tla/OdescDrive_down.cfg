SPECIFICATION Spec
CONSTANTS
  N = 1
  MaxEpoch = 1
  MaxCommands = 1
  MaxTurns = 1
  MaxQueue = 2
  MaxMishaps = 0
  Links = {"up", "down"}
INVARIANTS ActiveOnlyWithBus
CHECK_DEADLOCK FALSE
