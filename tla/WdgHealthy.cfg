SPECIFICATION FairSpec
CONSTANTS
  MinGap <- FirmwareMinGap
  MaxGap <- FirmwareMaxGap
  Grace = 5
  MissLimit = 3
  Fragile = {}
  Width = 2
  MaxSilence = 6
PROPERTIES
  HealthyIsQuiet
