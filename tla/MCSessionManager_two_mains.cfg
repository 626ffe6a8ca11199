SPECIFICATION Spec
CONSTANTS
  r1 = r1
  r2 = r2
  NoText = NoText
  Request = {r1, r2}
  Kind = {"plain"}
  MaxTask = 3
  MaxTurns = 2
  StorageFails = FALSE
INVARIANT OneMainAgent
CHECK_DEADLOCK FALSE
