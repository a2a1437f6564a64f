CONSTANTS
  Op <- MCOp
  NoOp = NoOp
  MaxParts = 1
  MaxVisits = 1
  Slow <- MCSlow
  MaxRestarts = 1
SPECIFICATION FairSpec
INVARIANT HandlesOpen
INVARIANT NothingLeft
INVARIANT TrayKnown
PROPERTY AnswersDelivered
PROPERTY CloseEnds
PROPERTY ServerReturns
