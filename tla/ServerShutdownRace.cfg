SPECIFICATION Spec

CONSTANTS
  Threads = {t1, t2, t3}
  NoThread = NoThread
  Kinds = {"shutdown"}
  MayPanic = {}
  MaxThreads = 2
  Reserve = 1
  RetireAfter = 2
  HowMany = 0
  MaxJobs = 1

PROPERTIES
  ShutdownTerminates

CHECK_DEADLOCK FALSE
