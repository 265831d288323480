SPECIFICATION Spec
CONSTANTS
  t1 = t1
  t2 = t2
  t3 = t3
  n1 = n1
  n2 = n2
  c1 = c1
  Null = Null
  Empty = Empty
  Nullopt = Nullopt
  Thread <- MCThread
  Node <- MCNode
  StampMod = 4
  MaySpurious = TRUE
  MaxPushes = 2
  MaxPops = 3
  MaxConsumes = 1
  MaxAcquires = 4
  Consumer <- OneConsumer
  MaxPuts = 5
  MaxTakes = 7
SYMMETRY StackSymmetry
INVARIANTS
  NoUseAfterFree
  NoLeak
PROPERTIES
  ImplementsStack
  ImplementsFifo
