SPECIFICATION Spec
CONSTANTS
  N = 2
  MaxEpoch = 1
  MaxCommands = 2
  MaxTurns = 0
  MaxQueue = 2
  MaxMishaps = 1
  Links = {"up"}
INVARIANTS
  TypeOK
  IdleWhenStopped
  WheelsAgree
PROPERTIES
  ImplementsBackend
CHECK_DEADLOCK FALSE
