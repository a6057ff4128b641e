SPECIFICATION Spec

CONSTANTS
  Threads = {t1, t2, t3}
  NoThread = NoThread
  Kinds = {"cgi", "start", "shutdown"}
  MayPanic = {"start", "perform"}
  MaxThreads = 2
  Reserve = 1
  RetireAfter = 1
  HowMany = 1
  MaxJobs = 2

INVARIANTS
  AvailCountsIdle
  ThreadBound

PROPERTIES
  ShutdownDrains

CHECK_DEADLOCK FALSE
