SPECIFICATION CondVarSpec
CONSTANTS
  f1 = f1
  f2 = f2
  f3 = f3
  f4 = f4
  w1 = w1
  w2 = w2
  w3 = w3
  None = None
  Fiber <- MCFiber
  Workers <- MCWorkers
  Permits = 1
SYMMETRY Symmetry
INVARIANTS
  EveryAccess
