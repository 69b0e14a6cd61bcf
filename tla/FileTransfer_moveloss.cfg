\* The code is expected to violate this one.
CONSTANTS
  Files = {f1}
  Paths = {p1, p2}
  Inodes = {i1, i2, i3}
  Bytes = {0, 1}
  MaxLen = 1
  Calls = {"alloc_and_read", "move_to"}
  AnySize = FALSE
  Faults = {}
  NoFile = NoFile
  Special = Special
  Null = Null
SPECIFICATION Spec
CHECK_DEADLOCK FALSE
SYMMETRY MCSymmetry
INVARIANTS
  MoveNeverLoses
