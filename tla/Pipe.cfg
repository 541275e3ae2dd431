SPECIFICATION Spec

CONSTANTS
  Proc = {p1, p2}
  Root = p1
  NFILE = 3
  NOFILE = 2
  Page = {pg}
  PIPESIZE = 2
  MOD = 4
  Byte = {b0, b1}
  Count = {2}
  None = None

SYMMETRY Symmetric

INVARIANTS
  RefsExact
  EndsHeld
  SleepersHaveWakers
PROPERTIES
  ImplementsByteQueue

CHECK_DEADLOCK FALSE
