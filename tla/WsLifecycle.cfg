SPECIFICATION FairSpec
CONSTANTS
  Callers = {t1, t2}
  Workers = {w1, w2}
  Contexts = {client}
  None = None
  Polite = FALSE
  Calls <- EveryCall
INVARIANTS TypeOK FlagsAgree RunningHasWorker JoinBeforeFree
PROPERTIES DestroyReturns StoppedWorkersExit
