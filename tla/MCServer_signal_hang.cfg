SPECIFICATION FairServerSpec
CONSTANTS
  WORKER_COUNT = 2
  QUEUE_CAPACITY = 1
  Fds = {f1, f2}
  NoFd = NoFd
  NoThread = NoThread
  CreateMayFail = FALSE
PROPERTIES
  SignalStopsServer
