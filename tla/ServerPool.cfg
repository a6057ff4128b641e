SPECIFICATION Spec

CONSTANTS
  Threads = {t1, t2, t3}
  NoThread = NoThread
  Kinds = {"reply", "cgi"}
  MayPanic = {}
  MaxThreads = 2
  Reserve = 1
  RetireAfter = 3
  HowMany = 0
  MaxJobs = 3

INVARIANTS
  TypeOK
  SpareOrFull

PROPERTIES
  JobsServed
