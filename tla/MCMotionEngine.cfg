CONSTANTS
  Unit = 8
  Axis = {vertical, horizontal}
  Tuning <- MCTuning
  Delta <- MCDelta
  MaxTime = 2
  MaxPushes = 3
SYMMETRY Symmetry
SPECIFICATION Spec
INVARIANT TypeOK
INVARIANT Conserved
INVARIANT IdleSettled
INVARIANT OneDirection
PROPERTY SettlesOnTime
PROPERTY NoBacklash
