SPECIFICATION Spec

CONSTANTS
  Proc = {p1, p2}
  Block = {b1, b2, b3, b4}
  Val = {v0, v1}
  NBUF = 3
  MAXPINS = 2
  None = None

SYMMETRY Symmetric

INVARIANTS
  RefsExact
  OneBuffer
  SleeperHasHolder
  PanicOnlyWhenFull
PROPERTIES
  ImplementsBlockStore
CHECK_DEADLOCK FALSE
