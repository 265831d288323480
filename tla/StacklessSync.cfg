SPECIFICATION FairSpec
CONSTANTS
  c1 = c1
  c2 = c2
  c3 = c3
  v1 = v1
  v2 = v2
  w1 = w1
  w2 = w2
  Main = Main
  None = None
  Coroutine <- MCCoroutine
  Workers <- MCWorkers
  Contenders <- MCContenders
  Yielders <- OneYielder
  MayStop = TRUE
INVARIANTS
  MutualExclusion
  NoLostWaiter
  WaitCovers
  NoStrandedLocker
PROPERTIES
  Completes
