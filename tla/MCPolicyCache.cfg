CONSTANTS
  p1 = p1
  p2 = p2
  p3 = p3
  Process = {p1, p2, p3}
  MaxCached = 2
  Lifetime = 0
  MaxVersion = 3
  MaxTime = 1
  Smooths <- MCSmooths
SPECIFICATION Spec
INVARIANT TypeOK
INVARIANT HitIsCurrent
INVARIANT NoRetiredEntries
INVARIANT BoundedCache
