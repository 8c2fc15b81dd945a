CONSTANTS
  Routines = {g1, g2, g3}
  OneWay = {g3}
  Worker = worker
  Callers = {worker}
  None = None
  RequestCap = 1
  MaxRequests = 4
  PeerMayClose = TRUE
SPECIFICATION FairSpec
INVARIANTS
  NeverSendsOnClosedChan
  RespondersUnanswered
  WaitsForResponses
PROPERTIES
  StoppedWorkerAnswers
CHECK_DEADLOCK FALSE
