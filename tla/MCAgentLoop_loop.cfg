SPECIFICATION FairSpec
CONSTANTS
  MaxSent = 2
  MaxTurns = 2
  MaxCalls = 2
  Threshold = 3
  MaxFails = 1
  Long = TRUE
INVARIANT RequestIsAnswerable
INVARIANT ExecutedIsRecorded
INVARIANT RequestCarriesDialogue
INVARIANT MessagesAreTaken
PROPERTY EndIsTold
CHECK_DEADLOCK FALSE
