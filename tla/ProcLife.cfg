SPECIFICATION FairSpec

CONSTANTS
  NPROC = 3
  MAXPID = 5

INVARIANTS
  WaiterHasNoZombie
  ParentAlive
PROPERTIES
  OrphansReaped
  KilledExits
