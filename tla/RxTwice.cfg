SPECIFICATION Spec
CONSTANTS
  NumDesc = 2
  Buffers = {b1, b2, b3}
  NoBuffer = NoBuffer
  Threads = {tcpip}
  MaxFrames = 7
  MaxDrops = 1
INVARIANTS
  EachHasOneOwner
CHECK_DEADLOCK FALSE
