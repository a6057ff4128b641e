SPECIFICATION SafeSpec

SYMMETRY Symmetry

CONSTANTS
  Threads = {t1, t2, t3, t4}
  NoThread = NoThread
  Kinds = {"reply", "cgi"}
  MayPanic = {}
  MaxThreads = 3
  Reserve = 1
  RetireAfter = 0
  HowMany = 0
  MaxJobs = 4

INVARIANTS
  PoolSurvives
  FiniAssertion
