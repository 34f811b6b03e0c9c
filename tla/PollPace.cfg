SPECIFICATION Spec
CONSTANTS
  NumSlaves = 20
  Watched = 1
  Absent = {2, 3, 4, 5, 6, 7, 8, 9, 10}
  Answering = {20}
  Slow = 306
  NumWrites = 6
  MaxPending = 0
  Period = 5000
  Second = 10
  Top = 1
  Width = 12
INVARIANT PeriodKept
