SPECIFICATION FairSpec
CONSTANTS
  w1 = w1
  w2 = w2
  c1 = c1
  c2 = c2
  t1 = t1
  t2 = t2
  None = None
  Tasks <- MCTasks
  Workers <- MCWorkers
  Clients <- MCClients
  Owner = c1
  Roots <- MCTasks
  Spawn <- MCSpawn
  MaxWaitIdle = 1
  MaxSpurious = 1
INVARIANTS
  StoppedIsDrained
PROPERTIES
  WaitIdleCovers
  ImplementsExecutor
  WaitIdleReturns
  StopReturns
  ImplementsLiveExecutor
