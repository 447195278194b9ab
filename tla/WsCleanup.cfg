SPECIFICATION SubsSpec
CONSTANTS
  Callers = {t1}
  Workers = {w1}
  Contexts = {client}
  None = None
  Polite = FALSE
  Calls <- LibraryCalls
  Channels = {ticker}
  UserChannels = {}
  FirstCapacity = 1
  MaxWatches = 1
INVARIANT NoStaleAccess
