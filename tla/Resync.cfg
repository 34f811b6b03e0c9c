\* A slave that restarts and comes back to the bus.
CONSTANTS
  NumSlaves = 1
  NumSensors = 1
  NumSetpoints = 1
  Dead <- NoneDead
  MaxFaults = 0
  MaxVersion = 1
  MaxRestarts = 1
  Patient = FALSE
  MaxVectors = 1
  MaxReboots = 0
  Reads = FALSE
SPECIFICATION FairSpec
PROPERTY ResyncAfterRecovery
