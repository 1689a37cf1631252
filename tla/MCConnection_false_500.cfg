SPECIFICATION Spec
CONSTANTS
  MAX_REQUEST = 6
  MAX_BODY = 3
  SIZE_MAX = 7
  Request <- InsertRequests
  AllocMayFail = TRUE
INVARIANTS
  InternalErrorMeansNotStored
