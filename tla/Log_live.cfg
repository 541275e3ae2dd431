SPECIFICATION FairSpec

CONSTANTS
  Proc = {p1, p2, p3}
  Block = {b1, b2, b3}
  Val = {0}
  NoBuf = NoBuf
  LOGSIZE = 4
  MAXOPBLOCKS = 2
  NLOG = 4
  OPMAX = 1

INVARIANTS
  NoPanic
  PinsMatch
PROPERTIES
  SleeperWakes
