SPECIFICATION FairSpec
CONSTANTS
  NumDesc = 3
  MaxBuffers = 1
  MaxFrames = 5
  MaxDrops = 1
PROPERTIES
  CallReturns
CHECK_DEADLOCK FALSE
