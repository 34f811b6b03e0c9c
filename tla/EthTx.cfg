SPECIFICATION FairSpec
CONSTANTS
  NumDesc = 4
  MaxBuffers = 3
  MaxFrames = 4
  MaxDrops = 1
INVARIANTS
  NoUseAfterFree
  ReferencesBalance
  SentInOrder
  OkMeansSent
PROPERTY CallReturnsLinked
CHECK_DEADLOCK FALSE
