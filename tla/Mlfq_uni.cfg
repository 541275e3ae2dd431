SPECIFICATION Spec

CONSTANTS
  NPROC = 3
  NCPU = 1
  MAXPID = 3
  BOOST = 2
  MAXPRIO = 0
  QSTEP = 0
  InitModes = {"FCFS"}
  Ops = {"yield", "sleep", "fork", "tick", "mlfqmode", "fcfsmode", "setpriority"}

INVARIANTS
  ListsSound
  OldestFirst
  GetlevInRange

CHECK_DEADLOCK FALSE
