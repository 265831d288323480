SPECIFICATION FairSpec
CONSTANTS
  main = main
  p = p
  k1 = k1
  k2 = k2
  o1 = o1
  o2 = o2
  b1 = b1
  b2 = b2
  d1 = d1
  d2 = d2
  f1 = f1
  f2 = f2
  w1 = w1
  w2 = w2
  w3 = w3
  None = None
  Parent = main
  Producer = p
  Consumer <- MCConsumer
  Participant <- MCParticipant
  Object <- MCObject
  Block <- MCBlock
  RefSlot <- MCRefSlot
  Slot <- MCSlot
  MaxPuts = 3
  Fiber <- MCFiber
  Doers <- MCDoers
  Workers <- MCWorkers
  AddFirst = TRUE
INVARIANTS
  PointersExact
  BarrierSeparates
  NoLostWaiter
  WaitCovers
PROPERTIES
  HandoffEnds
  WaitReturns
