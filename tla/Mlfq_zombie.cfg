SPECIFICATION Spec

CONSTANTS
  NPROC = 2
  NCPU = 2
  MAXPID = 2
  BOOST = 1
  MAXPRIO = 0
  QSTEP = 0
  InitModes = {"MLFQ"}
  Ops = {"yield", "fork", "fcfsmode", "exit"}

INVARIANTS
  NoZombieResume

CHECK_DEADLOCK FALSE
