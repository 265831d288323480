SPECIFICATION FairSpec
CONSTANTS
  c1 = c1
  c2 = c2
  c3 = c3
  v1 = v1
  v2 = v2
  w1 = w1
  w2 = w2
  Main = Main
  None = None
  Coroutine <- TwoYielders
  Workers <- MCWorkers
  Contenders <- TwoYielders
  Yielders <- TwoYielders
  MayStop = TRUE
CHECK_DEADLOCK FALSE
PROPERTY
  StopReturns
