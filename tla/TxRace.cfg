SPECIFICATION Spec
CONSTANTS
  NumDesc = 3
  MaxBuffers = 1
  MaxFrames = 4
  MaxDrops = 1
INVARIANTS
  OkIsGoing
CHECK_DEADLOCK FALSE
