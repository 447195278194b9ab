SPECIFICATION Spec
CONSTANTS
  Universe <- TwoCoins
  Prices = {0, 2, 3}
  Limits = {2}
  Notionals = {5}
  Fallback = 9
  Rooms = {0, 2, 3, 4}
  Body = 3
  Gap = 2
  IntMax = 3
  MaxOrders = 2
  MaxMoves = 1
  MaxCalls = 2
  None = None
CHECK_DEADLOCK FALSE
INVARIANTS OneOrderAtMost ReportedIsOwn  CancelSettles HandedWhole
PROPERTIES ImplementsDesk
