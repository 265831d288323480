SPECIFICATION FairSpec
CONSTANTS
  p1 = p1
  p2 = p2
  w1 = w1
  w2 = w2
  t1 = t1
  t2 = t2
  t3 = t3
  None = None
  Tasks <- MCTasks
  Producers <- MCProducers
  Workers <- MCWorkers
  Roots <- MCTasks
  Spawn <- MCSpawn
  CounterMod = 8
  MayStop = TRUE
CHECK_DEADLOCK FALSE
INVARIANTS
  MutualExclusion
  NoEmptyBatch
  NoUseAfterFree
  NoLeak
PROPERTIES
  ImplementsSerialExecutor
  TasksRun
