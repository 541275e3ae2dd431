---------------------------- MODULE MultiCycleMC ----------------------------
(***************************************************************************)
(* A machine of 5-bit words, four registers and seven words of memory, in  *)
(* which each of the 31 words other than 0 is an instruction: every opcode *)
(* and every function once, and encodings nobody decodes.                  *)
(***************************************************************************)
EXTENDS MultiCycleProofs

R(funct, rs, rt, rd) == [op |-> "RTYPE", funct |-> funct, rs |-> rs, rt |-> rt,
                         rd |-> rd, shamt |-> 1, immi |-> 0, immj |-> 0]
M(op, rs, rt, immi) == [op |-> op, funct |-> "none", rs |-> rs, rt |-> rt,
                        rd |-> 0, shamt |-> 0, immi |-> immi, immj |-> 2]

MCInst ==
  [w \in Word |->
    IF w = 0 THEN R("SLL", 0, 0, 0) ELSE
    <<R("SLL", 0, 2, 2), R("SRL", 0, 1, 0), R("SRA", 0, 1, 2), R("JR", 3, 0, 0),
      R("ADDU", 0, 1, 0), R("SUBU", 0, 1, 0), R("AND", 1, 2, 0), R("OR", 0, 2, 0),
      R("XOR", 1, 2, 1), R("NOR", 0, 2, 2), R("SLT", 2, 0, 0), R("SLTU", 0, 2, 0),
      R("other", 1, 2, 1),
      M("J", 0, 0, 0), M("JAL", 0, 0, 0), M("BEQ", 0, 2, 6), M("BNE", 0, 1, 1),
      M("ADDIU", 0, 0, 1), M("ADDIU", 1, 1, 4), M("SLTI", 2, 0, 5), M("SLTIU", 1, 0, 7),
      M("ANDI", 1, 0, 7), M("ORI", 0, 2, 5), M("XORI", 1, 1, 6), M("LUI", 0, 2, 3),
      M("LW", 1, 0, 4), M("LW", 0, 2, 0), M("SW", 1, 2, 0), M("SW", 2, 1, 4),
      M("SW", 0, 1, 0), M("other", 1, 2, 7)>>[w]]

MCReg == <<0, 20, 24, 0>>
MCInitReg == [r \in Reg |-> MCReg[r + 1]]   \* $gp and $sp point into the data

\* Every program of two instructions and one more: 0, JR, J, BEQ, LW, SW.
MCPrograms ==
  {[a \in 0..(DATAEND - 1) |-> IF a < 3 THEN text[a] ELSE 0] :
     text \in {t \in [0..2 -> Word] : t[2] \in {0, 4, 14, 16, 26, 28}}}
=============================================================================
