SPECIFICATION FairSpec
CONSTANTS
  NumDesc = 3
  MaxBuffers = 1
  MaxFrames = 2
  MaxDrops = 0
PROPERTIES
  SentIsReleased
CHECK_DEADLOCK FALSE
