SPECIFICATION FairSpec
CONSTANTS
  Kinds = {"net", "start", "other"}
  TRY_RESEND_TIMES = 1
  MaxRequests = 2
  MaxCommands = 1
  MaxFaults = 2
INVARIANTS TypeOK AnswersInOrder
PROPERTIES  ServiceSpec CommandReturns AckedIsHandled
CHECK_DEADLOCK FALSE
