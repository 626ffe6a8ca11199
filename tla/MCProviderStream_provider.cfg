SPECIFICATION FairSpec
CONSTANTS
  MaxAttempts = 2
  MaxCalls = 2
  MaxSays = 1
  MaxCounts = 2
  MaxBroken = 4
INVARIANT OneResponse
INVARIANT ArgumentsAreOwn
INVARIANT NothingMissing
PROPERTY StreamEnds
CHECK_DEADLOCK FALSE
