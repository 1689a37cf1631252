SPECIFICATION FairSpec
CONSTANTS
  MAX_REQUEST = 6
  MAX_BODY = 3
  SIZE_MAX = 7
  Request <- Requests
  AllocMayFail = TRUE
INVARIANTS
  WithinBuffers
  BodyIsExact
  FaultlessAnswer
  InsertAnswerTrue
PROPERTIES
  HandlerReturns
