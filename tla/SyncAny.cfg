CONSTANTS
  NumSlaves = 2
  NumSensors = 1
  NumSetpoints = 2
  Dead <- FirstDead
  MaxFaults = 2
  MaxVersion = 1
  MaxRestarts = 1
  Patient = FALSE
  MaxVectors = 2
  MaxReboots = 1
  Reads = FALSE
SPECIFICATION FairSpec
INVARIANTS TypeOK AppliedMeansInSync
PROPERTIES AckIsTrue ImplementsHandshake RequestIsAcknowledged
