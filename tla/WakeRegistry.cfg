SPECIFICATION Spec

CONSTANTS
  Workers = {w1, w2}
  First = w1
  Main = main
  Conns = {c1, c2}
  Pipe = {c2}
  Listener = hello
  PipeListener = pipe
  MaxEvents = 2

INVARIANTS
  RegistryCurrent
  NoSleepOver
  ExitNoticed

PROPERTIES
  JobsTaken
  Heard

CHECK_DEADLOCK FALSE
