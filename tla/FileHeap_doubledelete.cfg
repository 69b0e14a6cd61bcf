\* The code is expected to violate this one.
CONSTANTS
  o1 = o1
  o2 = o2
  b1 = b1
  b2 = b2
  b3 = b3
  Null = Null
  Objs <- MCObjs
  Blocks <- MCBlocks
SPECIFICATION Spec
CHECK_DEADLOCK FALSE
INVARIANTS
  NoDoubleDelete
