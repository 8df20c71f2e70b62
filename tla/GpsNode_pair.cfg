SPECIFICATION Spec
CONSTANTS
  Tolerance = {0, 1, 2}
  MaxEpoch = 2
  MaxNow = 1
  BufLen = 12
INVARIANTS
  PairIsPublished
CHECK_DEADLOCK FALSE
