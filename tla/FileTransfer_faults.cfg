\* One object, every failure; a run stops when a read leaves the block.
CONSTANTS
  Files = {f1}
  Paths = {p1, p2}
  Inodes = {i1, i2}
  Bytes = {0, 1}
  MaxLen = 2
  Calls = {"alloc", "fill", "alloc_and_read", "read", "write", "copy_to", "move_to"}
  AnySize = TRUE
  Faults = {"bad_alloc", "status", "open", "io", "remove", "log"}
  NoFile = NoFile
  Special = Special
  Null = Null
SPECIFICATION Spec
CHECK_DEADLOCK FALSE
SYMMETRY MCSymmetry
INVARIANTS
  TypeOK
  SuccessMeansInSync
  SourceKeptUntilRemove
  MoveRemovesSource
PROPERTIES
  KeepsPromise
