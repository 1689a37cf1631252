SPECIFICATION FairSpec
CONSTANTS
  WORKER_COUNT = 3
  QUEUE_CAPACITY = 2
  Fds = {f1, f2, f3}
  NoFd = NoFd
  NoThread = NoThread
  CreateMayFail = TRUE
INVARIANTS
  TypeOK
  RingConsistent
  DescriptorOwnership
  NoLostWakeup
  NoSleepAfterStop
  DrainedBeforeExit
PROPERTIES
  ImplementsJobQueue
  KeepsQueueProgress
  EveryConnectionClosed
  DestroyReturnsEventually
