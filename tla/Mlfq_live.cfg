SPECIFICATION FairSpec

CONSTANTS
  NPROC = 2
  NCPU = 1
  MAXPID = 2
  BOOST = 2
  MAXPRIO = 1
  QSTEP = 1
  InitModes = {"MLFQ"}
  Ops = {"tick", "fork", "sleep", "yield"}

PROPERTIES
  BoostEnds
  NoStarvation
