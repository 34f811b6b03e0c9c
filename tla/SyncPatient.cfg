\* A client that waits for the acknowledgement it reads in FC3 replies.
CONSTANTS
  NumSlaves = 1
  NumSensors = 2
  NumSetpoints = 2
  Dead <- NoneDead
  MaxFaults = 1
  MaxVersion = 2
  MaxRestarts = 1
  Patient = TRUE
  MaxVectors = 2
  MaxReboots = 1
  Reads = TRUE
SPECIFICATION Spec
INVARIANT VersionPromise
PROPERTY ActivatesWholeVectors
