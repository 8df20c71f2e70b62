SPECIFICATION FairSpec
CONSTANTS
  Deflection = 1
  MaxVel = 2
  TrackWidth = 1
  WheelSeparation = 1
  Timeout = 1
  MaxMishaps = 1
INVARIANTS
  TypeOK
  TankTracks
PROPERTIES
  DeadmanStops
  ImplementsBackend
CHECK_DEADLOCK FALSE
