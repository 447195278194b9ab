SPECIFICATION Spec
CONSTANTS
  Threads = {t1, t2}
  Calls <- LibraryCalls
  MaxRequests = 2
  MaxChunks = 1
  None = None
CHECK_DEADLOCK FALSE
INVARIANT EveryRequestOwn
