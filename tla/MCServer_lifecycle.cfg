SPECIFICATION FairServerSpec
CONSTANTS
  WORKER_COUNT = 2
  QUEUE_CAPACITY = 1
  Fds = {f1, f2, f3}
  NoFd = NoFd
  NoThread = NoThread
  CreateMayFail = TRUE
INVARIANTS
  ServerTypeOK
  TableOutlivesHandlers
  NothingLeftAtExit
  AtMostOneLateConnection
PROPERTIES
  TeardownCompletes
  ConnectionsClosed
  SignalHeldUpOnlyByAccept
