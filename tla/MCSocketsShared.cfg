SPECIFICATION SafeSpec

SYMMETRY Symmetry

CONSTANTS
  Workers = {w1, w2}
  Hello = {h1}
  Control = {c1, c2}
  Pipe = {p1}
  None = None
  MaxClients = 2
  MaxAsked = 1
  Commands = {"status", "shutdown", "start"}
  MayTick = TRUE
  MayRetire = TRUE
  MayPanic = TRUE

INVARIANTS
  TypeOK
  SingleOwner
  EventsMatched
  Watched

PROPERTIES
  ClosedWhenDone

CHECK_DEADLOCK FALSE
