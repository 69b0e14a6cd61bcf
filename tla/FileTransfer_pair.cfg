\* Two objects that interleave; a run stops when a read leaves the block.
CONSTANTS
  Files = {f1, f2}
  Paths = {p1, p2}
  Inodes = {i1, i2, i3}
  Bytes = {0, 1}
  MaxLen = 1
  Calls = {"alloc_and_read", "copy_to", "move_to"}
  AnySize = FALSE
  Faults = {}
  NoFile = NoFile
  Special = Special
  Null = Null
SPECIFICATION Spec
CHECK_DEADLOCK FALSE
SYMMETRY MCSymmetry
INVARIANTS
  SuccessMeansInSync
  KeepsAPlace
  OverrunOnlyIfUnfit
  ComparedAsFiles
  OneAnswer
