CONSTANTS
  Event = {e1, e2}
  Capacity = 4
SYMMETRY Symmetry
SPECIFICATION Spec
INVARIANT TypeOK
INVARIANT ViewsOrdered
INVARIANT NoSlotRace
PROPERTY FifoSpec
