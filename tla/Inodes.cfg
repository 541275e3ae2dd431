SPECIFICATION Spec

CONSTANTS
  Proc = {p1, p2}
  NINODES = 3
  Name = {"a", "b"}
  Calls <- MCCalls
  MAXLINK = 2
  None = None

SYMMETRY Symmetric

INVARIANTS
  RefsExact
  IputNeverBlocks
  HeldStays
  LinksCover
  NoPanic
PROPERTIES
  NoOrphans

CHECK_DEADLOCK FALSE
