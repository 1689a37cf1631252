SPECIFICATION FairSpec
CONSTANTS
  WORKER_COUNT = 2
  QUEUE_CAPACITY = 1
  Fds = {f1}
  NoFd = NoFd
  NoThread = NoThread
  CreateMayFail = TRUE
PROPERTIES
  InitFailureReturns
