SPECIFICATION SubsFairSpec
CONSTANTS
  Callers = {t1}
  Workers = {w1, w2}
  Contexts = {client}
  None = None
  Polite = FALSE
  Calls <- LibraryCalls
  Channels = {ticker, fills}
  UserChannels = {fills}
  FirstCapacity = 2
  MaxWatches = 3
INVARIANTS IdFindsOwn ActiveMeansConnected
PROPERTIES CallsReturn
