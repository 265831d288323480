SPECIFICATION FairSpec
CONSTANTS
  f1 = f1
  f2 = f2
  f3 = f3
  w1 = w1
  w2 = w2
  None = None
  Fiber <- MCFiber
  Workers <- MCWorkers
  MaxLocks = 5
  MaxYields = 1
  MayStop = TRUE
  Permits = 1
INVARIANTS
  OneWorkerPerFiber
  MutualExclusion
  NoLostLocker
  NoLostWakeup
PROPERTIES
  LockGranted
  AcquireReturns
