CONSTANTS
  w1 = w1
  w2 = w2
  p1 = p1
  p2 = p2
  NoWindow = NoWindow
  Window = {w1, w2}
  Process = {p1, p2}
  Owner <- MCOwner
  Capacity = 3
  Samples = 2
  MaxEvents = 4
  MaxMoves = 1
  MaxUpdates = 2
  MaxAgings = 1
SYMMETRY Symmetry
SPECIFICATION Spec
INVARIANT InjectsWhereAsked
INVARIANT NoStaleMomentum
INVARIANT DisabledIsStill
INVARIANT NoLostWakeup
INVARIANT TimerRuns
INVARIANT EventsAccountedFor
CHECK_DEADLOCK FALSE
