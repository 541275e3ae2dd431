SPECIFICATION Spec

CONSTANTS
  W = 5
  IMM = 3
  JUMP = 4
  REGSIZE = 4
  TEXTEND = 4
  DATASTART = 4
  DATAEND = 7
  Inst <- MCInst
  InitReg <- MCInitReg
  Programs <- MCPrograms
  Garbage = {0, 31}

PROPERTIES
  SimulatesHW3

CHECK_DEADLOCK FALSE
