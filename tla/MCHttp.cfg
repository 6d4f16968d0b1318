CONSTANTS
  Requests <- AllRequests
  MaxRequests = 2
SPECIFICATION FairSpec
INVARIANTS TypeOK HandledIsPrefix AnswersInOrder BadRequestIfHeadsWhole
PROPERTY AnsweredIfAwaited
CHECK_DEADLOCK FALSE
