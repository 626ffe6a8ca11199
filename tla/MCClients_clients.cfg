SPECIFICATION MCSpec
CONSTANTS
  f1 = f1
  f2 = f2
  s1 = s1
  Forwarder = {f1, f2}
  Subscriber = {s1}
  BufferSize = 2
  MaxEvents = 2
  StorageFails = FALSE
  c1 = c1
  c2 = c2
  q1 = q1
  k1 = k1
  k2 = k2
  None = None
  Permission = {c1, c2}
  Question = {q1}
  Id <- UniqueIds
  Client = {k1, k2}
  MaxAsked = 2
INVARIANT DeliveredInOrder
INVARIANT MissedOnlyIfOvertaken
INVARIANT DecisionIsTheUsers
INVARIANT FirstAnswerWins
INVARIANT UnansweredIsShown
PROPERTY EventuallyCaughtUp
PROPERTY WaitEnds
CHECK_DEADLOCK FALSE
