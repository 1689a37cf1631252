SPECIFICATION FairSpec
CONSTANTS
  Client = {c1, c2, c3}
  NoClient = NoClient
  Payload <- OnePayload
  Query <- ScanQueries
  ORDER = 2
  BUCKET_COUNT = 2
  INT_BITS = 2
  MAX_INSERTS = 2
  AllocMayFail = TRUE
PROPERTIES
  ImplementsUsersTable
  OnlyReadersDelayWriters
