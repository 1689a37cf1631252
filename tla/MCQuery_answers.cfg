SPECIFICATION Spec
CONSTANTS
  Literal <- Literals
  Name <- Names
  FirstRows <- Rows
  RECORD_NAME_SIZE = 3
  NEAR_SIZE = 3
  INT_BITS = 3
  LONG_BITS = 5
  MAX_BLANKS = 1
  INITIAL_CAP = 4
  AllocMayFail = TRUE
  MAX_ROWS = 2
  BUCKET_COUNT = 2
INVARIANTS
  TypeOK
  AcceptsTheLanguage
  ExecutesWhatIsWritten
  AnswerIsReadable
  RoomForTerminator
  EveryBlockFreedOnce
