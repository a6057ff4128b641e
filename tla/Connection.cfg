SPECIFICATION Spec

CONSTANTS
  Workers = {w1, w2}
  MaxSegments = 3
  MaxTurns = 2

INVARIANTS
  EventAwaited
  DoubledOnlyWhileReading
  PerformedOnce

PROPERTIES
  ImplementsExchange
  ClosedAfterAnswer

CHECK_DEADLOCK FALSE
