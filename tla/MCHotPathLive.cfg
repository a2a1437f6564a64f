CONSTANTS
  w1 = w1
  w2 = w2
  p1 = p1
  p2 = p2
  NoWindow = NoWindow
  Window = {w1, w2}
  Process = {p1, p2}
  Owner <- MCOwner
  Capacity = 3
  Samples = 2
  MaxEvents = 3
  MaxMoves = 1
  MaxUpdates = 1
  MaxAgings = 1
SPECIFICATION FairSpec
PROPERTY QueueDrains
PROPERTY GestureEnds
PROPERTY GenerationNoted
CHECK_DEADLOCK FALSE
