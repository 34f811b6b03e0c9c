SPECIFICATION FairSpec
CONSTANTS
  NumDesc = 2
  Buffers = {b1, b2, b3}
  NoBuffer = NoBuffer
  Threads = {tcpip, Modbus}
  MaxFrames = 4
  MaxDrops = 1
INVARIANTS
  NoLeak
  OneOwner
  DeliveredInOrder
PROPERTIES
  HeldIsStable
  ExhaustionEndsUnrushed
  StoredIsReadLinked
CHECK_DEADLOCK FALSE
