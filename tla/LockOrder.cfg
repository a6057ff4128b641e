SPECIFICATION Spec

CONSTANTS
  Workers = {w1, w2}
  Main = Main

INVARIANTS
  NoCircle
  NothingLeaks

PROPERTIES
  Released
  LocksUsed
