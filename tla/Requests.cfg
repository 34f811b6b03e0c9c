SPECIFICATION ChecksSpec
CONSTANTS
  RegSize = 1280
  Addresses = {0, 1, 1156, 1157, 1279, 1280, 1281, 40999, 41000, 41001, 42156, 42157, 42279, 42280, 65410, 65535}
  Quantities = {0, 1, 2, 122, 123, 124, 125, 126, 127, 128, 255, 256, 257, 1280, 32765, 32766, 32767, 32768, 65534, 65535}
INVARIANTS
  StaysInMap
  AnswerIsWhole
  SameAddresses
CHECK_DEADLOCK FALSE
