SPECIFICATION FairSpec
CONSTANTS
  w1 = w1
  w2 = w2
  None = None
  N = 2
  Workers <- MCWorkers
  Programs <- MCPrograms
  MayStop = TRUE
CHECK_DEADLOCK FALSE
INVARIANTS
  RunOnce
  Propagation
PROPERTIES
  Completes
