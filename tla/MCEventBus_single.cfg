SPECIFICATION Spec
CONSTANTS
  f1 = f1
  s1 = s1
  s2 = s2
  Forwarder = {f1}
  Subscriber = {s1, s2}
  BufferSize = 1
  MaxEvents = 3
  StorageFails = TRUE
INVARIANT NoEventLost
PROPERTY ImplementsFeed
CHECK_DEADLOCK FALSE
