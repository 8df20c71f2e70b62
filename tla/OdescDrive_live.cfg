SPECIFICATION FairSpec
CONSTANTS
  N = 1
  MaxEpoch = 2
  MaxCommands = 0
  MaxTurns = 2
  MaxQueue = 2
  MaxMishaps = 1
  Links = {"up", "down"}
INVARIANTS
  Untorn
  OfThisActivation
PROPERTIES StopEnds DeadBusNoticed
CHECK_DEADLOCK FALSE
