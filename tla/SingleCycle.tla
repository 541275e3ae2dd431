----------------------------- MODULE SingleCycle -----------------------------
(***************************************************************************)
(* The single-cycle CPU of HW3: one tick fetches, executes and completes   *)
(* one instruction.  It is also the specification of MultiCycle (HW4).     *)
(***************************************************************************)
EXTENDS Mips

VARIABLES PC, reg, memory, status

vars == <<PC, reg, memory, status>>

Init ==
  /\ PC = 0
  /\ reg = InitReg
  /\ memory \in Programs
  /\ status = "CONTINUE"
-----------------------------------------------------------------------------
\* MEM::imemAccess(): an instruction 0 ends the program.
Fetched ==
  LET s == Access(PC, PC \div 4 >= TEXTEND, "IMEM_OVERFLOW") IN
  IF s = "CONTINUE" /\ memory[PC \div 4] = 0 THEN "TERMINATE" ELSE s

I == Inst[memory[PC \div 4]]

\* CTRL::controlSignal(): the signals of this instruction.
RegDst == I.op = "RTYPE"
Jump == I.op \in {"J", "JAL"}
Branch == I.op \in Branches
JR == IsJR(I)
MemRead == I.op = "LW"
MemtoReg == I.op = "LW"
MemWrite == I.op = "SW"
ALUSrc == I.op \in Immediate \cup Transfers
Signed16 == I.op \in Branches \cup SignedImmediate \cup Transfers   \* SignExtend
RegWrite == (I.op = "RTYPE" /\ ~JR) \/ I.op \in Immediate \cup {"JAL", "LW"}
ALUOp == AluOp(I)
SavePC == I.op = "JAL"

\* The wires of CPU::tick().
ext_imm == SignExtend(I.immi, Signed16)
alu_result == Compute(ALUOp, reg[I.rs], IF ALUSrc THEN ext_imm ELSE reg[I.rt], I.shamt)
PC_plus_4 == Wrap(PC + 4)

\* MEM::dmemAccess() of this instruction: text may not be read or written.
Accessed ==
  IF MemRead \/ MemWrite
  THEN Access(alu_result, alu_result \div 4 < DATASTART \/ alu_result \div 4 >= DATAEND,
              "DMEM_OVERFLOW")
  ELSE "CONTINUE"

PC_next ==
  IF JR THEN reg[I.rs]
  ELSE IF Branch /\ alu_result # 0 THEN Wrap(PC_plus_4 + Wrap(ext_imm * 4))
  ELSE IF Jump THEN JumpTarget(PC_plus_4, I.immj)
  ELSE PC_plus_4

wr_addr == IF RegDst THEN I.rd ELSE IF SavePC THEN REGSIZE - 1 ELSE I.rt

wr_data == IF MemtoReg THEN memory[alu_result \div 4]
           ELSE IF SavePC THEN PC_plus_4 ELSE alu_result
-----------------------------------------------------------------------------
\* CPU::tick() that stops the simulation: nothing but the status changes.
Stop(s) ==
  /\ s # "CONTINUE"
  /\ status' = s
  /\ UNCHANGED <<PC, reg, memory>>

\* CPU::tick() that completes an instruction.
Complete ==
  /\ Fetched = "CONTINUE"
  /\ Accessed = "CONTINUE"
  /\ memory' = IF MemWrite
               THEN [memory EXCEPT ![alu_result \div 4] = reg[I.rt]] ELSE memory
  /\ reg' = RegAfter(reg, wr_addr, wr_data, RegWrite)
  /\ PC' = PC_next
  /\ UNCHANGED status

Tick ==
  /\ status = "CONTINUE"
  /\ \/ Stop(Fetched)
     \/ Fetched = "CONTINUE" /\ Stop(Accessed)
     \/ Complete

Spec == Init /\ [][Tick]_vars

\* What the next instruction has to be for a machine with one memory for text
\* and data to treat it alike: fetched from the text, decoded, off the text.
Agreed ==
  PC % 4 = 0 =>
    /\ PC \div 4 \in 0..(TEXTEND - 1)
    /\ I.op \in Opcodes
    /\ I.op \in Transfers => ~(alu_result % 4 = 0 /\ alu_result \div 4 < DATASTART)
=============================================================================
