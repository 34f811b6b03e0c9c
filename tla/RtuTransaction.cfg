SPECIFICATION FairSpec
CONSTANTS
  NumSlaves = 2
  NumWrites = 1
  MaxRequests = 9
  MaxBehind = 3
  MaxFaults = 3
INVARIANTS
  AnswerIsOwn
PROPERTIES
  FaultsStayInCycle
  ExchangesReturn
CHECK_DEADLOCK FALSE
