SPECIFICATION LockSpec
CONSTANTS
  p1 = p1
  p2 = p2
  p3 = p3
  k1 = k1
  None = None
  Proc = {p1, p2, p3}
  Command = {k1}
INVARIANT OneDaemon
CHECK_DEADLOCK FALSE
