SPECIFICATION Spec
CONSTANTS
  None = None
  Slot = {s1, s2}
  Block = {b1, b2}
  MaxStores = 2
  MaxLoads = 2
CHECK_DEADLOCK FALSE
INVARIANT
  PointersValid
