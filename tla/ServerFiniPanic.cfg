SPECIFICATION Spec

CONSTANTS
  Threads = {t1, t2, t3}
  NoThread = NoThread
  Kinds = {"reply", "start"}
  MayPanic = {"start"}
  MaxThreads = 2
  Reserve = 1
  RetireAfter = 2
  HowMany = 0
  MaxJobs = 2

INVARIANTS
  FiniAssertion

CHECK_DEADLOCK FALSE
