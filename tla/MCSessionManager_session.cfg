SPECIFICATION FairSpec
CONSTANTS
  r1 = r1
  r2 = r2
  NoText = NoText
  Request = {r1, r2}
  Kind = {"plain", "new", "tell", "main", "steer"}
  MaxTask = 3
  MaxTurns = 2
  StorageFails = TRUE
INVARIANT OneTaskPerAgent
INVARIANT RunningIsReachable
PROPERTY StatusIsCurrent
PROPERTY CallReturns
PROPERTY DeadEntryLeaves
PROPERTY WorkEnds
CHECK_DEADLOCK FALSE
