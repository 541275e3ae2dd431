SPECIFICATION Spec

CONSTANTS
  Proc = {p1, p2}
  Block = {b1, b2}
  Val = {0, 1}
  NoBuf = NoBuf
  LOGSIZE = 7
  MAXOPBLOCKS = 3
  NLOG = 7
  OPMAX = 2

INVARIANTS
  PinnedUntilHome
PROPERTIES
  ImplementsAtomicDisk
