SPECIFICATION FairSpec
CONSTANTS
  MaxLatency = 1
  Rates = {0, 50, 101}
  PauseTime = 2
  MaxTime = 3
  MaxTruths = 3
  MaxResets = 1
  Depth = 2
INVARIANTS
  TypeOK
  ElapsedIsSpan
  OnlyConfigured
  NothingDueIsLeft
PROPERTIES
  LatencyKept
  AllComeOut
CHECK_DEADLOCK FALSE
