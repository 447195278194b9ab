SPECIFICATION FairSpec
CONSTANTS
  Threads = {t1, t2}
  Symbols = {SOL, BTC}
  Sol = SOL
  AssetIds <- TwoIds
  IntLimit <- TinyInt
  MaxPosts = 3
  MaxClock = 1
  MaxAsked = 2
  Intruded = TRUE
  None = None
CHECK_DEADLOCK FALSE
INVARIANTS ReportedOrderExists BatchSettles RequestsRight
PROPERTIES ImplementsDesk MutexFreed
