SPECIFICATION Spec
CONSTANTS
  Threads = {t1}
  Symbols = {SOL}
  Sol = SOL
  AssetIds <- OneId
  IntLimit <- SmallInt
  MaxPosts = 3
  MaxClock = 2
  MaxAsked = 2
  Intruded = FALSE
  None = None
CHECK_DEADLOCK FALSE
INVARIANTS EditReplaces
