SPECIFICATION Spec
CONSTANTS
  Client = {c1, c2}
  NoClient = NoClient
  Payload <- TwoPayloads
  Query <- LookupQueries
  ORDER = 2
  BUCKET_COUNT = 3
  INT_BITS = 2
  MAX_INSERTS = 5
  AllocMayFail = TRUE
SYMMETRY ClientSymmetry
INVARIANTS
  TypeOK
  IndexMatchesRows
  UniqueIds
PROPERTIES
  RowsOnlyGrow
  ImplementsUsersTable
