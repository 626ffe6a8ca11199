SPECIFICATION MCSpec
CONSTANTS
  Agents = {main, sub}
  Inside = {inner}
  Outside = {outer}
  Calls <- TheCalls
  FirstDisks <- TheFirstDisks
  StrayTexts <- TheStrayTexts
  ListedTodos <- TheListedTodos
  MaxCalls = 3
  MaxStrays = 1
  MaxFails = 1
  NoFile = NoFile
  NoCall = NoCall
  MaxSubs = 3
  MaxDepth = 2
  MaxStops = 1
  MaxSqlErrors = 1
  NoRow = NoRow
SYMMETRY AgentsAlike
INVARIANT EditsAreAsAsked
INVARIANT OneInProgress
INVARIANT DepthLimited
INVARIANT RunningIsReachable
 
PROPERTY UndisturbedIsExact
CHECK_DEADLOCK FALSE
