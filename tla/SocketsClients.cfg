SPECIFICATION Spec

CONSTANTS
  Workers = {w1, w2}
  Hello = {h1}
  Control = {c1}
  Pipe = {p1}
  None = None
  MaxClients = 1
  MaxAsked = 2
  Commands = {"status", "shutdown", "start"}
  MayTick = TRUE
  MayRetire = TRUE
  MayPanic = TRUE

PROPERTIES
  Answered
  Freed

CHECK_DEADLOCK FALSE
