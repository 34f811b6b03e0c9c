SPECIFICATION Spec
CONSTANTS
  NumSlaves = 3
  Watched = 2
  Absent = {1}
  Answering = {1, 2}
  Slow = 2
  NumWrites = 2
  MaxPending = 1
  Period = 14
  Second = 3
  Top = 9
  Width = 40
INVARIANTS
  HeardInTime
  BeatInTime
  OnlineIsRecent
  AgeIsClose
