CONSTANTS
  Requests <- MCRequests
  MaxHead = 2
  Window = 1
  MaxConns = 2
  MaxFrames = 2
SPECIFICATION FairSpec
INVARIANTS HttpInv AnswersArePromised
PROPERTIES EveryoneAnswered
CHECK_DEADLOCK FALSE
