SPECIFICATION FairSpec
CONSTANTS
  MinGap <- FirmwareMinGap
  MaxGap <- FirmwareMaxGap
  Grace = 1
  MissLimit = 3
  Fragile = {"control", "modbus"}
  Width = 2
  MaxSilence = 6
INVARIANTS DeadTaskReported StandingErrorStays CountIsExact
PROPERTY AlarmEnds
