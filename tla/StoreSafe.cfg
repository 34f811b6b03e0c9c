CONSTANTS
  NumWords = 2
  QueueDepth = 1
  TornErase = TRUE
  MaxRequests = 4
  MaxVersion = 3
  MaxFails = 1
  MaxResets = 1
SPECIFICATION FairSpec
INVARIANTS LoadsWhole AckedSurvives
PROPERTY StoredIsApplied
CHECK_DEADLOCK FALSE
