SPECIFICATION Spec
CONSTANTS
  MaxSent = 2
  MaxTurns = 2
  MaxCalls = 2
  Threshold = 3
  MaxFails = 1
  Long = TRUE
INVARIANT PairsAreKept
CHECK_DEADLOCK FALSE
