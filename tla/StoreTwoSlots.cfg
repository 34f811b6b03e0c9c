\* One configuration stored, a reset, and the write of the next one.
CONSTANTS
  NumWords = 1
  QueueDepth = 1
  TornErase = FALSE
  MaxRequests = 2
  MaxVersion = 2
  MaxFails = 0
  MaxResets = 1
SPECIFICATION Spec
PROPERTY TwoSlots
CHECK_DEADLOCK FALSE
