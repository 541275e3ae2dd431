SPECIFICATION Spec

CONSTANTS
  NPROC = 2
  NCPU = 2
  MAXPID = 3
  BOOST = 1
  MAXPRIO = 1
  QSTEP = 0
  InitModes = {"FCFS", "MLFQ"}
  Ops = {"yield", "fork", "exit", "sleep", "wakeup", "wait", "kill"}

INVARIANTS
  NoDoubleRun
  NoZombieResume
  RunnableOnce
  PlacedByLevel
  NoPanic
PROPERTIES
  ImplementsRunQueue
