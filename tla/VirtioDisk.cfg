SPECIFICATION FairSpec

CONSTANTS
  Proc = {"p1", "p2", "p3"}
  Block = {"p1", "p2", "p3"}
  Transfer <- MCTransfer
  NUM = 7
  MOD = 14
  None = None

INVARIANTS
  DescriptorsExact
  Underway
PROPERTIES
  ImplementsDiskRequests
  RequestEnds
