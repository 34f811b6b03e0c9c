SPECIFICATION FairSpec
CONSTANTS
  MaxConns = 3
  MaxRequests = 3
  Broadcasts = {2}
  MaxWaiting = 2
  RecvTimeout = 2
  IdleTimeout = 3
  MaxResets = 1
INVARIANTS
  ExecutedInOrder
  AnswersFit
  OnlyIdleDropped
PROPERTIES
  WaitingAccepted
  LoneRequestAnswered
