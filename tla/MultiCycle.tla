----------------------------- MODULE MultiCycle -----------------------------
(***************************************************************************)
(* The multi-cycle CPU of HW4: an instruction takes two to five ticks, and *)
(* what one tick computes reaches the next in the registers IR, A, B,      *)
(* ALUOut and MDR.  One action is one CPU::tick().                         *)
(***************************************************************************)
EXTENDS Mips

CONSTANT Garbage   \* what the uninitialised local mem_data may hold

VARIABLES
  PC, reg, memory, status,
  IR,      \* the instruction register, a word
  A, B,    \* what the registers rs and rt held one tick ago
  ALUOut,  \* what the ALU computed one tick ago
  MDR,     \* what the memory delivered one tick ago
  SR,      \* the state of the control: IF, ID, EX, MEM or WB
  ipc      \* history: the address of the instruction under way

vars == <<PC, reg, memory, status, IR, A, B, ALUOut, MDR, SR, ipc>>

Init ==
  /\ PC = 0
  /\ reg = InitReg
  /\ memory \in Programs
  /\ status = "CONTINUE"
  /\ IR = 0 /\ A = 0 /\ B = 0 /\ ALUOut = 0 /\ MDR = 0
  /\ SR = "IF"
  /\ ipc = 0
-----------------------------------------------------------------------------
I == Inst[IR]
In(stage, ops) == SR = stage /\ I.op \in ops

\* CTRL::controlSignal(): the signals of this state and instruction.
RegDst == IF In("WB", {"RTYPE"}) THEN 1 ELSE IF In("WB", {"JAL"}) THEN 2 ELSE 0
MemRead == SR = "IF" \/ In("MEM", {"LW"})
MemtoReg == IF In("WB", {"LW"}) THEN 1 ELSE IF In("WB", {"JAL"}) THEN 2 ELSE 0
MemWrite == In("MEM", {"SW"})
Signed16 == In("ID", Branches) \/ In("EX", SignedImmediate \cup Transfers)   \* SignExtend
RegWrite == SR = "WB"
ALUOp == IF SR = "EX" THEN AluOp(I) ELSE "ADDU"
ALUSrcA == SR = "EX"
ALUSrcBUnshifted == IF SR = "IF" THEN 1 ELSE IF In("ID", Branches) THEN 2
                    ELSE IF SR = "EX" /\ I.op \notin Branches \cup {"RTYPE"} THEN 2 ELSE 0
ALUSrcB == CASE SR = "IF" -> 1
             [] In("ID", Branches) -> 3
             [] SR = "EX" /\ I.op \notin Branches \cup {"RTYPE"} -> 2
             [] OTHER -> 0
IorD == SR = "MEM"
IRWrite == SR = "IF"
PCWrite == SR = "IF" \/ (SR = "ID" /\ IsJR(I)) \/ In("ID", {"J"}) \/ In("WB", {"JAL"})
PCWriteCond == In("EX", Branches)
PCSource == CASE In("EX", Branches) -> 1
              [] In("ID", {"J"}) \/ In("WB", {"JAL"}) -> 2
              [] SR = "ID" /\ IsJR(I) -> 3
              [] OTHER -> 0
State == CASE SR = "IF" -> "ID"
           [] In("ID", {"JAL"}) -> "WB"
           [] SR = "ID" /\ ~IsJR(I) /\ I.op \notin {"J", "JAL"} -> "EX"
           [] In("EX", Transfers) -> "MEM"
           [] SR = "EX" /\ I.op \notin Transfers \cup Branches -> "WB"
           [] In("MEM", {"LW"}) -> "WB"
           [] OTHER -> "IF"

\* The wires of CPU::tick().
ext_imm == SignExtend(I.immi, Signed16)
operand1 == IF ALUSrcA THEN A ELSE PC
operand2 == CASE ALUSrcB = 0 -> B
              [] ALUSrcB = 1 -> 4
              [] ALUSrcB = 2 -> ext_imm
              [] ALUSrcB = 3 -> Wrap(ext_imm * 4)
alu_result == Compute(ALUOp, operand1, operand2, I.shamt)
address == IF IorD THEN ALUOut ELSE PC
PC_next == CASE PCSource = 0 -> alu_result
             [] PCSource = 1 -> ALUOut
             [] PCSource = 2 -> JumpTarget(PC, I.immj)
             [] PCSource = 3 -> reg[I.rs]
wr_addr == CASE RegDst = 0 -> I.rt [] RegDst = 1 -> I.rd [] RegDst = 2 -> REGSIZE - 1
wr_data == CASE MemtoReg = 0 -> ALUOut [] MemtoReg = 1 -> MDR [] MemtoReg = 2 -> PC

\* MEM::memAccess(): one memory for text and data.
memAccess(addr) == Access(addr, addr \div 4 >= DATAEND, "DMEM_OVERFLOW")
Accessed == IF MemRead \/ MemWrite THEN memAccess(address) ELSE "CONTINUE"
-----------------------------------------------------------------------------
\* CPU::tick() whose access to the memory is refused.
Fault ==
  /\ status = "CONTINUE"
  /\ Accessed # "CONTINUE"
  /\ status' = Accessed
  /\ UNCHANGED <<PC, reg, memory, IR, A, B, ALUOut, MDR, SR, ipc>>

\* CPU::tick() otherwise.  Nothing sets mem_data in a tick that does not read.
Tick ==
  /\ status = "CONTINUE"
  /\ Accessed = "CONTINUE"
  /\ memory' = IF MemWrite THEN [memory EXCEPT ![address \div 4] = B] ELSE memory
  /\ MDR' \in IF MemRead THEN {memory[address \div 4]} ELSE Garbage
  /\ reg' = RegAfter(reg, wr_addr, wr_data, RegWrite)
  /\ PC' = IF PCWrite \/ (PCWriteCond /\ alu_result # 0) THEN PC_next ELSE PC
  /\ IR' = IF IRWrite THEN MDR' ELSE IR
  /\ A' = reg[I.rs]
  /\ B' = reg[I.rt]
  /\ ALUOut' = alu_result
  /\ SR' = State
  /\ status' = IF IR' = 0 THEN "TERMINATE" ELSE "CONTINUE"
  /\ ipc' = IF SR = "IF" THEN PC ELSE ipc

Next == Fault \/ Tick
Spec == Init /\ [][Next]_vars
-----------------------------------------------------------------------------
\* An instruction takes effect in its last tick, which leads back to IF: until
\* then the machine of HW3 is still at its address.
ArchPC == IF SR = "IF" THEN PC ELSE ipc
HW3 == INSTANCE SingleCycle WITH PC <- ArchPC

\* HW4 has the effect of HW3: every tick (CPU.cpp:34-109) is a tick of HW3's
\* CPU.cpp:26-93 or changes nothing that HW3 has, for every instruction that
\* both decode and that keeps to its segment of the memory.
SimulatesHW3 == [][HW3!Agreed => HW3!Tick]_(HW3!vars)
=============================================================================
