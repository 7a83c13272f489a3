\* Every fault, with a client that follows the protocol.
CONSTANTS
  Start <- CommentStart
  TmpMax = 3
  DWL_RETRIES = 2
  Chunks = {1, 3, 6}
  LastErrors <- RealErrors
  HttpErrors <- HttpKinds
  Faults <- FaultKinds
  MaxSessions = 2
SPECIFICATION ClientSpec
PROPERTIES
  HandleReturns
  SessionSettles
CHECK_DEADLOCK FALSE
