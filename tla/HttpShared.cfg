SPECIFICATION Spec
CONSTANTS
  Threads = {t1, t2}
  Calls <- EveryCall
  MaxRequests = 3
  MaxChunks = 2
  None = None
CHECK_DEADLOCK FALSE
SYMMETRY Symmetry
INVARIANTS OwnRequest OwnResponse NoFreedList
