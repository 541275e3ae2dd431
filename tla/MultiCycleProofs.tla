-------------------------- MODULE MultiCycleProofs --------------------------
(***************************************************************************)
(* HW4 simulates HW3, for every width of words, every size of the register *)
(* file and the memory, every instruction set and every program.           *)
(***************************************************************************)
EXTENDS MultiCycle, TLAPS

Stages == {"IF", "ID", "EX", "MEM", "WB"}

\* While an instruction is under way, the PC has been advanced, IR is what is
\* in memory at ipc, and the fetch was a legal access.
UnderWay ==
  SR # "IF" =>
    /\ memAccess(ipc) = "CONTINUE"
    /\ IR = memory[ipc \div 4]
    /\ status = "CONTINUE" => IR # 0
    /\ PC = Wrap(ipc + 4)

\* What the registers between the states hold, in each state that uses them.
OperandsOK ==
  /\ SR = "EX" => A = reg[I.rs]
  /\ SR \in {"EX", "MEM"} => B = reg[I.rt]
  /\ SR = "EX" => ~IsJR(I) /\ I.op \notin {"J", "JAL"}
  /\ In("EX", Branches) => ALUOut = Wrap(PC + Wrap(SignExtend(I.immi, TRUE) * 4))
  /\ SR = "MEM" => I.op \in Transfers /\ ALUOut = HW3!alu_result

ResultOK ==
  SR = "WB" =>
    /\ I.op \notin Branches \cup {"J", "SW"} /\ ~IsJR(I)
    /\ I.op \in Opcodes \ {"JAL", "LW"} => ALUOut = HW3!alu_result
    /\ I.op = "LW" => /\ memAccess(HW3!alu_result) = "CONTINUE"
                      /\ MDR = memory[HW3!alu_result \div 4]

\* The invariant: the registers between the states carry, tick after tick,
\* what HW3 computes at once (CPU.cpp:96-106).
IInv == SR \in Stages /\ UnderWay /\ OperandsOK /\ ResultOK
-----------------------------------------------------------------------------
\* Addition is what the ALU does for the PC and for branch targets.
LEMMA AddU == ASSUME NEW a, NEW b, NEW s PROVE Compute("ADDU", a, b, s) = Wrap(a + b)
BY DEF Compute

LEMMA ImmediateOps ==
  Immediate = {"ADDIU", "SLTI", "SLTIU", "ANDI", "ORI", "XORI", "LUI"}
BY DEF Immediate, ImmOp

\* The operators both machines are built from are the same.
LEMMA SameOps ==
  /\ HW3!Branches = Branches /\ HW3!Immediate = Immediate /\ HW3!Transfers = Transfers
  /\ HW3!SignedImmediate = SignedImmediate /\ HW3!Opcodes = Opcodes
<1>1. HW3!Branches = Branches /\ HW3!Transfers = Transfers
  BY DEF HW3!Branches, Branches, HW3!Transfers, Transfers
<1>2. HW3!Immediate = Immediate /\ HW3!SignedImmediate = SignedImmediate
  BY DEF HW3!Immediate, Immediate, HW3!ImmOp, ImmOp, HW3!SignedImmediate, SignedImmediate
<1> QED BY <1>1, <1>2 DEF HW3!Opcodes, Opcodes

LEMMA SameDecoding ==
  ASSUME NEW i PROVE (HW3!IsJR(i) <=> IsJR(i)) /\ HW3!AluOp(i) = AluOp(i)
<1>1. HW3!IsJR(i) <=> IsJR(i)
  BY DEF HW3!IsJR, IsJR
<1>2. HW3!AluFuncts = AluFuncts /\ HW3!ImmOp = ImmOp
  BY DEF HW3!AluFuncts, AluFuncts, HW3!ImmOp, ImmOp
<1> QED BY <1>1, <1>2, SameOps DEF HW3!AluOp, AluOp

LEMMA SameArithmetic ==
  ASSUME NEW a, NEW b, NEW op, NEW s
  PROVE  /\ HW3!Wrap(a) = Wrap(a) /\ HW3!Compute(op, a, b, s) = Compute(op, a, b, s)
         /\ HW3!SignExtend(a, b) = SignExtend(a, b) /\ HW3!JumpTarget(a, b) = JumpTarget(a, b)
         /\ HW3!Access(a, b, op) = Access(a, b, op)
<1>1. HW3!Wrap(a) = Wrap(a) /\ HW3!SignExtend(a, b) = SignExtend(a, b)
  BY DEF HW3!Wrap, Wrap, HW3!SignExtend, SignExtend
<1>2. HW3!JumpTarget(a, b) = JumpTarget(a, b)
  BY DEF HW3!JumpTarget, JumpTarget
<1>3. HW3!Access(a, b, op) = Access(a, b, op)
  BY DEF HW3!Access, Access
<1>4. HW3!Compute(op, a, b, s) = Compute(op, a, b, s)
  BY DEF HW3!Compute, Compute, HW3!Wrap, Wrap, HW3!Signed, Signed, HW3!Flag, Flag, HW3!Bits, Bits,
         HW3!Num, Num, HW3!Word, Word
<1> QED BY <1>1, <1>2, <1>3, <1>4

LEMMA InitInv == Init => IInv
BY DEF Init, IInv, Stages, UnderWay, OperandsOK, ResultOK, In

\* What a tick in each state does to the registers (CTRL.cpp:26-194 read
\* through the multiplexers of CPU.cpp:76-106).
LEMMA TickIF ==
  ASSUME Tick, SR = "IF"
  PROVE  /\ UNCHANGED <<reg, memory>> /\ ipc' = PC /\ SR' = "ID"
         /\ memAccess(PC) = "CONTINUE"
         /\ IR' = memory[PC \div 4] /\ PC' = Wrap(PC + 4)
         /\ status' = IF IR' = 0 THEN "TERMINATE" ELSE "CONTINUE"
<1>1. /\ MemRead /\ ~MemWrite /\ ~RegWrite /\ PCWrite /\ IRWrite /\ ~IorD
      /\ PCSource = 0 /\ ALUSrcB = 1 /\ ~ALUSrcA /\ ALUOp = "ADDU" /\ State = "ID"
  BY DEF MemRead, MemWrite, RegWrite, PCWrite, IRWrite, IorD, PCSource, ALUSrcB, ALUSrcA,
         ALUOp, State, In
<1>2. alu_result = Wrap(PC + 4)
  BY <1>1, AddU DEF alu_result, operand1, operand2
<1> QED
  BY <1>1, <1>2 DEF Tick, Accessed, address, PC_next, RegAfter

LEMMA TickID ==
  ASSUME Tick, SR = "ID"
  PROVE  /\ UNCHANGED <<reg, memory, IR, ipc>>
         /\ A' = reg[I.rs] /\ B' = reg[I.rt]
         /\ status' = IF IR = 0 THEN "TERMINATE" ELSE "CONTINUE"
         /\ SR' = IF I.op = "JAL" THEN "WB" ELSE IF IsJR(I) \/ I.op = "J" THEN "IF" ELSE "EX"
         /\ PC' = IF IsJR(I) THEN reg[I.rs] ELSE IF I.op = "J" THEN JumpTarget(PC, I.immj) ELSE PC
         /\ I.op \in Branches => ALUOut' = Wrap(PC + Wrap(SignExtend(I.immi, TRUE) * 4))
<1>1. /\ ~MemRead /\ ~MemWrite /\ ~RegWrite /\ ~IRWrite /\ ~PCWriteCond
      /\ ~ALUSrcA /\ ALUOp = "ADDU"
  BY DEF MemRead, MemWrite, RegWrite, IRWrite, PCWriteCond, ALUSrcA, ALUOp, In
<1>2. PCWrite <=> IsJR(I) \/ I.op = "J"
  BY DEF PCWrite, In
<1>3. PCWrite => PC_next = IF IsJR(I) THEN reg[I.rs] ELSE JumpTarget(PC, I.immj)
  BY <1>2 DEF PC_next, PCSource, In, IsJR
<1>4. State = IF I.op = "JAL" THEN "WB" ELSE IF IsJR(I) \/ I.op = "J" THEN "IF" ELSE "EX"
  BY DEF State, In, IsJR
<1>5. I.op \in Branches => alu_result = Wrap(PC + Wrap(SignExtend(I.immi, TRUE) * 4))
  <2>1. I.op \in Branches => ALUSrcB = 3 /\ Signed16
    BY DEF ALUSrcB, Signed16, In
  <2> QED BY <1>1, <2>1, AddU DEF alu_result, operand1, operand2, ext_imm, SignExtend
<1> QED
  BY <1>1, <1>2, <1>3, <1>4, <1>5 DEF Tick, RegAfter

LEMMA TickEX ==
  ASSUME Tick, SR = "EX", A = reg[I.rs], B = reg[I.rt], ~IsJR(I), I.op \notin {"J", "JAL"},
         I = HW3!I
  PROVE  /\ UNCHANGED <<reg, memory, IR, ipc>>
         /\ B' = reg[I.rt]
         /\ status' = IF IR = 0 THEN "TERMINATE" ELSE "CONTINUE"
         /\ SR' = IF I.op \in Branches THEN "IF" ELSE IF I.op \in Transfers THEN "MEM" ELSE "WB"
         /\ PC' = IF I.op \in Branches /\ HW3!alu_result # 0 THEN ALUOut ELSE PC
         /\ I.op \in Opcodes => ALUOut' = HW3!alu_result
<1>1. /\ ~MemRead /\ ~MemWrite /\ ~RegWrite /\ ~IRWrite /\ ~PCWrite /\ ALUSrcA
      /\ (PCWriteCond <=> I.op \in Branches)
  BY DEF MemRead, MemWrite, RegWrite, IRWrite, PCWriteCond, PCWrite, ALUSrcA, In
<1>2. I.op \in Branches => PC_next = ALUOut
  BY DEF PC_next, PCSource, In
<1>3. I.op \in Opcodes => alu_result = HW3!alu_result
  <2>1. ALUOp = HW3!ALUOp
    BY SameDecoding DEF ALUOp, HW3!ALUOp
  <2>2. I.op \in {"RTYPE"} \cup Branches => operand2 = reg[I.rt] /\ ~HW3!ALUSrc
    <3>1. I.op \in {"RTYPE"} \cup Branches => ALUSrcB = 0
      BY DEF ALUSrcB, In
    <3>2. I.op \in {"RTYPE"} \cup Branches => HW3!I.op \notin Immediate \cup Transfers
      BY ImmediateOps DEF Branches, Transfers
    <3> QED BY <3>1, <3>2, SameOps DEF operand2, HW3!ALUSrc
  <2>3. I.op \in Immediate \cup Transfers => operand2 = HW3!ext_imm /\ HW3!ALUSrc
    <3>1. I.op \in Immediate \cup Transfers => ALUSrcB = 2
      BY ImmediateOps DEF ALUSrcB, In, Branches, Transfers
    <3>2. I.op \in Immediate \cup Transfers => (Signed16 <=> HW3!Signed16)
      BY ImmediateOps, SameOps DEF Signed16, HW3!Signed16, In, Branches, Transfers
    <3>3. I.op \in Immediate \cup Transfers => HW3!ALUSrc
      BY SameOps DEF HW3!ALUSrc
    <3>4. I.op \in Immediate \cup Transfers => ext_imm = HW3!ext_imm
      BY <3>2 DEF ext_imm, HW3!ext_imm, SignExtend, HW3!SignExtend
    <3> QED BY <3>1, <3>3, <3>4 DEF operand2
  <2>4. operand1 = reg[I.rs]
    BY <1>1 DEF operand1
  <2>5. HW3!alu_result = Compute(ALUOp, reg[I.rs], IF HW3!ALUSrc THEN HW3!ext_imm ELSE reg[I.rt],
                                 I.shamt)
    BY <2>1, SameArithmetic DEF HW3!alu_result
  <2>6. I.op \in Opcodes =>
          I.op \in {"RTYPE"} \cup Branches \/ I.op \in Immediate \cup Transfers
    BY DEF Opcodes
  <2> QED BY <2>2, <2>3, <2>4, <2>5, <2>6 DEF alu_result
<1>4. State = IF I.op \in Branches THEN "IF" ELSE IF I.op \in Transfers THEN "MEM" ELSE "WB"
  BY DEF State, In, Branches, Transfers
<1>5. Branches \subseteq Opcodes
  BY DEF Opcodes
<1>6. /\ UNCHANGED <<reg, memory, IR, ipc>>
      /\ B' = reg[I.rt] /\ SR' = State /\ ALUOut' = alu_result
      /\ status' = IF IR = 0 THEN "TERMINATE" ELSE "CONTINUE"
  BY <1>1 DEF Tick, RegAfter
<1>7. PC' = IF I.op \in Branches /\ alu_result # 0 THEN ALUOut ELSE PC
  BY <1>1, <1>2 DEF Tick
<1> QED
  BY <1>3, <1>4, <1>5, <1>6, <1>7

LEMMA TickMEM ==
  ASSUME Tick, SR = "MEM", I.op \in Transfers
  PROVE  /\ UNCHANGED <<reg, PC, IR, ipc>>
         /\ memAccess(ALUOut) = "CONTINUE"
         /\ status' = IF IR = 0 THEN "TERMINATE" ELSE "CONTINUE"
         /\ SR' = IF I.op = "LW" THEN "WB" ELSE "IF"
         /\ I.op = "LW" => MDR' = memory[ALUOut \div 4]
         /\ memory' = IF I.op = "SW" THEN [memory EXCEPT ![ALUOut \div 4] = B] ELSE memory
<1>1. /\ (MemRead <=> I.op = "LW") /\ (MemWrite <=> I.op = "SW") /\ ~RegWrite /\ ~IRWrite
      /\ ~PCWrite /\ ~PCWriteCond /\ IorD /\ State = (IF I.op = "LW" THEN "WB" ELSE "IF")
  BY DEF MemRead, MemWrite, RegWrite, IRWrite, PCWrite, PCWriteCond, IorD, State, In
<1> QED
  BY <1>1 DEF Tick, Accessed, address, RegAfter, Transfers

LEMMA TickWB ==
  ASSUME Tick, SR = "WB"
  PROVE  /\ UNCHANGED <<memory, IR, ipc>>
         /\ status' = IF IR = 0 THEN "TERMINATE" ELSE "CONTINUE"
         /\ SR' = "IF"
         /\ PC' = IF I.op = "JAL" THEN JumpTarget(PC, I.immj) ELSE PC
         /\ reg' = [reg EXCEPT ![IF I.op = "RTYPE" THEN I.rd
                                 ELSE IF I.op = "JAL" THEN REGSIZE - 1 ELSE I.rt] =
                      IF I.op = "LW" THEN MDR ELSE IF I.op = "JAL" THEN PC ELSE ALUOut]
<1>1. /\ ~MemRead /\ ~MemWrite /\ RegWrite /\ ~IRWrite /\ ~PCWriteCond
      /\ (PCWrite <=> I.op = "JAL") /\ (I.op = "JAL" => PCSource = 2) /\ State = "IF"
  BY DEF MemRead, MemWrite, RegWrite, IRWrite, PCWrite, PCWriteCond, PCSource, State, In
<1>2. /\ wr_addr = IF I.op = "RTYPE" THEN I.rd ELSE IF I.op = "JAL" THEN REGSIZE - 1 ELSE I.rt
      /\ wr_data = IF I.op = "LW" THEN MDR ELSE IF I.op = "JAL" THEN PC ELSE ALUOut
  BY DEF wr_addr, wr_data, RegDst, MemtoReg, In
<1> QED
  BY <1>1, <1>2 DEF Tick, RegAfter, PC_next
-----------------------------------------------------------------------------
LEMMA SameInst == ASSUME UnderWay, SR # "IF" PROVE I = HW3!I
BY DEF UnderWay, I, HW3!I, ArchPC

\* What HW3 computes changes only with what HW3 has.
LEMMA SameResult ==
  ASSUME UNCHANGED <<ArchPC, reg, memory>>
  PROVE  HW3!I' = HW3!I /\ HW3!alu_result' = HW3!alu_result
<1>1. HW3!I' = HW3!I
  BY DEF HW3!I
<1>2. HW3!ALUOp' = HW3!ALUOp /\ HW3!ext_imm' = HW3!ext_imm /\ (HW3!ALUSrc' <=> HW3!ALUSrc)
  BY <1>1 DEF HW3!ALUOp, HW3!ext_imm, HW3!ALUSrc, HW3!Signed16
<1> QED BY <1>1, <1>2 DEF HW3!alu_result

\* Between two states of an instruction nothing that HW3 has changes, and the
\* instruction under way stays.
LEMMA Stays ==
  ASSUME UnderWay, SR # "IF", SR' # "IF", UNCHANGED <<PC, reg, memory, IR, ipc>>,
         status' = IF IR = 0 THEN "TERMINATE" ELSE "CONTINUE"
  PROVE  UnderWay' /\ I' = I /\ HW3!alu_result' = HW3!alu_result
<1>1. UNCHANGED ArchPC
  BY DEF ArchPC
<1>2. UnderWay'
  BY DEF UnderWay
<1> QED BY <1>1, <1>2, SameResult DEF I

LEMMA FaultInv == ASSUME IInv, Fault PROVE IInv'
<1>1. UNCHANGED <<PC, reg, memory, IR, A, B, ALUOut, MDR, SR, ipc>> /\ status' # "CONTINUE"
  BY DEF Fault
<1>2. HW3!alu_result' = HW3!alu_result /\ I' = I
  BY <1>1, SameResult DEF ArchPC, I
<1> QED BY <1>1, <1>2 DEF IInv, UnderWay, OperandsOK, ResultOK, In

LEMMA TickInv == ASSUME IInv, Tick PROVE IInv'
<1>1. CASE SR = "IF"
  BY <1>1, TickIF DEF IInv, Stages, UnderWay, OperandsOK, ResultOK, In, Tick
<1>2. CASE SR = "ID"
  <2>1. CASE SR' = "IF"
    BY <2>1 DEF IInv, Stages, UnderWay, OperandsOK, ResultOK, In
  <2>2. CASE SR' # "IF"
    <3>1. PC' = PC /\ (SR' = "WB" => I.op = "JAL") /\ SR' \in {"EX", "WB"}
          /\ (SR' = "EX" => ~IsJR(I) /\ I.op \notin {"J", "JAL"})
      BY <1>2, <2>2, TickID DEF IsJR
    <3>2. UnderWay' /\ I' = I /\ HW3!alu_result' = HW3!alu_result
      BY <1>2, <2>2, <3>1, TickID, Stays DEF IInv
    <3> QED BY <1>2, <3>1, <3>2, TickID DEF IInv, Stages, OperandsOK, ResultOK, In, Branches, IsJR
  <2> QED BY <2>1, <2>2
<1>3. CASE SR = "EX"
  <2>1. CASE SR' = "IF"
    BY <2>1 DEF IInv, Stages, UnderWay, OperandsOK, ResultOK, In
  <2>2. CASE SR' # "IF"
    <3>1. PC' = PC /\ I.op \notin Branches /\ ~IsJR(I) /\ I.op \notin {"J", "JAL"}
          /\ SR' = (IF I.op \in Transfers THEN "MEM" ELSE "WB")
      BY <1>3, <2>2, TickEX, SameInst DEF IInv, OperandsOK
    <3>2. UnderWay' /\ I' = I /\ HW3!alu_result' = HW3!alu_result
      BY <1>3, <2>2, <3>1, TickEX, SameInst, Stays DEF IInv, OperandsOK
    <3>3. B' = reg'[I.rt] /\ (I.op \in Opcodes => ALUOut' = HW3!alu_result)
      BY <1>3, TickEX, SameInst DEF IInv, OperandsOK
    <3> QED BY <3>1, <3>2, <3>3 DEF IInv, Stages, OperandsOK, ResultOK, In, Transfers, Opcodes
  <2> QED BY <2>1, <2>2
<1>4. CASE SR = "MEM"
  <2>1. CASE SR' = "IF"
    BY <2>1 DEF IInv, Stages, UnderWay, OperandsOK, ResultOK, In
  <2>2. CASE SR' # "IF"
    <3>1. SR' = "WB" /\ I.op = "LW" /\ memory' = memory
      BY <1>4, <2>2, TickMEM DEF IInv, OperandsOK, Transfers
    <3>2. UnderWay' /\ I' = I /\ HW3!alu_result' = HW3!alu_result
      BY <1>4, <2>2, <3>1, TickMEM, Stays DEF IInv, OperandsOK
    <3>3. /\ memAccess(ALUOut) = "CONTINUE"
          /\ MDR' = memory[ALUOut \div 4] /\ ALUOut = HW3!alu_result
      BY <1>4, <3>1, TickMEM DEF IInv, OperandsOK
    <3> QED BY <3>1, <3>2, <3>3 DEF IInv, Stages, OperandsOK, ResultOK, In, Branches, IsJR
  <2> QED BY <2>1, <2>2
<1>5. CASE SR = "WB"
  BY <1>5, TickWB DEF IInv, Stages, UnderWay, OperandsOK, ResultOK, In
<1> QED BY <1>1, <1>2, <1>3, <1>4, <1>5 DEF IInv, Stages

\* In every state of every execution the registers between the states of
\* CPU.cpp hold what the instruction under way needs.
THEOREM StagesCarry == Spec => []IInv
<1>1. IInv /\ [Next]_vars => IInv'
  <2> SUFFICES ASSUME IInv, [Next]_vars PROVE IInv'
    OBVIOUS
  <2>1. CASE UNCHANGED vars
    <3>1. UNCHANGED <<PC, reg, memory, IR, A, B, ALUOut, MDR, SR, ipc, status>>
      BY <2>1 DEF vars
    <3>2. HW3!alu_result' = HW3!alu_result /\ I' = I
      BY <3>1, SameResult DEF ArchPC, I
    <3> QED BY <3>1, <3>2 DEF IInv, UnderWay, OperandsOK, ResultOK, In
  <2> QED BY <2>1, FaultInv, TickInv DEF Next
<1> QED BY <1>1, InitInv, PTL DEF Spec
-----------------------------------------------------------------------------
\* Where HW3 agrees, it fetches the instruction HW4 has fetched.
LEMMA FetchAgrees ==
  ASSUME HW3!Agreed, memAccess(ArchPC) = "CONTINUE"
  PROVE  /\ HW3!Fetched = IF memory[ArchPC \div 4] = 0 THEN "TERMINATE" ELSE "CONTINUE"
         /\ HW3!I.op \in Opcodes
         /\ HW3!I.op \in Transfers =>
              ~(HW3!alu_result % 4 = 0 /\ HW3!alu_result \div 4 < DATASTART)
<1>1. ArchPC % 4 = 0
  BY DEF memAccess, Access
<1>2. /\ ArchPC \div 4 \in 0..(TEXTEND - 1)
      /\ HW3!I.op \in Opcodes
      /\ HW3!I.op \in Transfers =>
           ~(HW3!alu_result % 4 = 0 /\ HW3!alu_result \div 4 < DATASTART)
  BY <1>1, SameOps DEF HW3!Agreed
<1>3. ~(ArchPC \div 4 >= TEXTEND)
  BY <1>2, TextInMemory
<1>4. HW3!Access(ArchPC, ArchPC \div 4 >= TEXTEND, "IMEM_OVERFLOW") = "CONTINUE"
  BY <1>1, <1>3 DEF HW3!Access
<1> QED BY <1>2, <1>4 DEF HW3!Fetched

\* Where HW3 agrees, it refuses the accesses to data that HW4 refuses.
LEMMA AccessAgrees ==
  ASSUME ~(HW3!alu_result % 4 = 0 /\ HW3!alu_result \div 4 < DATASTART),
         HW3!I.op \in Transfers
  PROVE  HW3!Accessed = memAccess(HW3!alu_result)
<1>1. HW3!MemRead \/ HW3!MemWrite
  BY DEF HW3!MemRead, HW3!MemWrite, Transfers
<1> QED BY <1>1 DEF HW3!Accessed, memAccess, Access, HW3!Access

LEMMA NoAccess == ASSUME HW3!I.op \notin Transfers PROVE HW3!Accessed = "CONTINUE"
BY DEF HW3!Accessed, HW3!MemRead, HW3!MemWrite, Transfers

LEMMA SimulateFault ==
  ASSUME IInv, Fault, HW3!Agreed PROVE HW3!Tick
<1>1. UNCHANGED <<ArchPC, reg, memory>> /\ status = "CONTINUE" /\ status' = Accessed
      /\ Accessed # "CONTINUE"
  BY DEF Fault, ArchPC
<1>2. CASE SR = "IF"
  <2>1. status' = memAccess(ArchPC)
    BY <1>1, <1>2 DEF Accessed, MemRead, address, IorD, ArchPC
  <2>2. status' = "MEM_UNALIGNED" /\ ArchPC % 4 # 0
    <3>1. ArchPC % 4 = 0 => ArchPC \div 4 \in 0..(TEXTEND - 1)
      BY DEF HW3!Agreed
    <3>2. ArchPC % 4 = 0 => ~(ArchPC \div 4 >= DATAEND)
      BY <3>1, TextInMemory
    <3> QED BY <1>1, <2>1, <3>2 DEF memAccess, Access
  <2>3. HW3!Fetched = status'
    BY <2>2 DEF HW3!Fetched, HW3!Access
  <2> QED BY <1>1, <2>2, <2>3 DEF HW3!Tick, HW3!Stop
<1>3. CASE SR # "IF"
  <2>1. SR = "MEM" /\ status' = memAccess(ALUOut)
    BY <1>1, <1>3 DEF Accessed, MemRead, MemWrite, In, address, IorD
  <2>2. I = HW3!I /\ I.op \in Transfers /\ ALUOut = HW3!alu_result
    BY <1>3, <2>1, SameInst DEF IInv, OperandsOK
  <2>3. memAccess(ArchPC) = "CONTINUE" /\ memory[ArchPC \div 4] # 0
    BY <1>1, <1>3 DEF IInv, UnderWay, ArchPC
  <2>4. HW3!Fetched = "CONTINUE" /\ HW3!Accessed = status'
    BY <2>1, <2>2, <2>3, FetchAgrees, AccessAgrees
  <2> QED BY <1>1, <2>4 DEF HW3!Tick, HW3!Stop
<1> QED BY <1>2, <1>3

LEMMA SimulateTick ==
  ASSUME IInv, Tick, HW3!Agreed PROVE HW3!Tick \/ UNCHANGED HW3!vars
<1>0. status = "CONTINUE"
  BY DEF Tick
<1>1. CASE SR = "IF"
  <2>1. UNCHANGED <<ArchPC, reg, memory>> /\ memAccess(ArchPC) = "CONTINUE"
        /\ status' = IF memory[ArchPC \div 4] = 0 THEN "TERMINATE" ELSE "CONTINUE"
    BY <1>1, TickIF DEF ArchPC
  <2> QED BY <1>0, <2>1, FetchAgrees DEF HW3!Tick, HW3!Stop, HW3!vars
<1>2. CASE SR # "IF"
  <2>1. /\ I = HW3!I /\ IR # 0 /\ PC = Wrap(ArchPC + 4) /\ ArchPC = ipc
        /\ HW3!Fetched = "CONTINUE" /\ I.op \in Opcodes
        /\ I.op \in Transfers => HW3!Accessed = memAccess(HW3!alu_result)
        /\ I.op \notin Transfers => HW3!Accessed = "CONTINUE"
    <3>1. memAccess(ArchPC) = "CONTINUE" /\ memory[ArchPC \div 4] # 0
      BY <1>0, <1>2 DEF IInv, UnderWay, ArchPC
    <3>2. I = HW3!I /\ IR # 0 /\ PC = Wrap(ArchPC + 4) /\ ArchPC = ipc
      BY <1>0, <1>2, SameInst DEF IInv, UnderWay, ArchPC
    <3> QED BY <3>1, <3>2, FetchAgrees, AccessAgrees, NoAccess
  <2>2. HW3!PC_plus_4 = PC
    BY <2>1, SameArithmetic DEF HW3!PC_plus_4
  <2>3. status' = status
    BY <1>0, <1>2, <2>1, TickID, TickEX, TickMEM, TickWB DEF IInv, Stages, OperandsOK
  <2>4. SR' # "IF" => UNCHANGED HW3!vars
    <3>1. SR' # "IF" => UNCHANGED <<reg, memory, ipc>>
      BY <1>2, <2>1, TickID, TickEX, TickMEM, TickWB DEF IInv, Stages, OperandsOK, Transfers
    <3> QED BY <1>2, <2>3, <3>1 DEF HW3!vars, ArchPC
  <2>5. ASSUME SR' = "IF" PROVE HW3!Complete
    <3> USE <2>5
    <3>0. ArchPC' = PC'
      BY DEF ArchPC
    <3>1. CASE SR = "ID"
      <4>1. IsJR(I) \/ I.op = "J"
        BY <3>1, TickID
      <4>2. UNCHANGED <<reg, memory>> /\ PC' = IF IsJR(I) THEN reg[I.rs] ELSE JumpTarget(PC, I.immj)
        BY <3>1, <4>1, TickID
      <4>3. I.op \notin Transfers \cup Branches /\ (IsJR(I) => I.op = "RTYPE")
        BY <4>1 DEF Transfers, Branches, IsJR
      <4>4. ~HW3!MemWrite /\ ~HW3!RegWrite
        BY <2>1, <4>1, <4>3, SameOps, SameDecoding, ImmediateOps
        DEF HW3!MemWrite, HW3!RegWrite, HW3!JR, Transfers
      <4>5. PC' = HW3!PC_next
        BY <2>1, <2>2, <4>1, <4>2, <4>3, SameOps, SameDecoding, SameArithmetic
        DEF HW3!PC_next, HW3!JR, HW3!Branch, HW3!Jump
      <4> QED BY <2>1, <2>3, <3>0, <4>2, <4>3, <4>4, <4>5 DEF HW3!Complete, HW3!RegAfter
    <3>2. CASE SR = "EX"
      <4>1. /\ I.op \in Branches /\ UNCHANGED <<reg, memory>>
            /\ PC' = IF HW3!alu_result # 0 THEN ALUOut ELSE PC
        BY <2>1, <3>2, TickEX DEF IInv, OperandsOK
      <4>2. ALUOut = Wrap(PC + Wrap(HW3!ext_imm * 4))
        <5>1. HW3!Signed16
          BY <2>1, <4>1, SameOps DEF HW3!Signed16
        <5>2. HW3!ext_imm = SignExtend(I.immi, TRUE)
          BY <2>1, <5>1 DEF HW3!ext_imm, HW3!SignExtend, SignExtend
        <5> QED BY <3>2, <4>1, <5>2 DEF IInv, OperandsOK, In
      <4>3. I.op \notin Transfers \cup Immediate \cup {"RTYPE", "JAL", "J"}
        BY <4>1, ImmediateOps DEF Transfers, Branches
      <4>4. ~HW3!MemWrite /\ ~HW3!RegWrite /\ HW3!Branch /\ ~HW3!JR /\ ~HW3!Jump
        BY <2>1, <4>1, <4>3, SameOps, SameDecoding
        DEF HW3!MemWrite, HW3!RegWrite, HW3!JR, HW3!Jump, HW3!Branch, Transfers, IsJR
      <4>5. PC' = HW3!PC_next
        BY <2>2, <4>1, <4>2, <4>4, SameArithmetic DEF HW3!PC_next
      <4> QED BY <2>1, <2>3, <3>0, <4>1, <4>3, <4>4, <4>5 DEF HW3!Complete, HW3!RegAfter
    <3>3. CASE SR = "MEM"
      <4>1. I.op = "SW" /\ I.op \in Transfers /\ ALUOut = HW3!alu_result /\ B = reg[I.rt]
        BY <3>3, TickMEM DEF IInv, OperandsOK, Transfers
      <4>2. /\ UNCHANGED <<reg, PC>> /\ memAccess(ALUOut) = "CONTINUE"
            /\ memory' = [memory EXCEPT ![HW3!alu_result \div 4] = reg[I.rt]]
        BY <3>3, <4>1, TickMEM
      <4>3. /\ HW3!MemWrite /\ ~HW3!RegWrite /\ ~HW3!Branch /\ ~HW3!JR /\ ~HW3!Jump
        BY <2>1, <4>1, SameOps, SameDecoding, ImmediateOps
        DEF HW3!MemWrite, HW3!RegWrite, HW3!JR, HW3!Jump, HW3!Branch, Branches, IsJR
      <4>4. PC' = HW3!PC_next
        BY <2>2, <4>2, <4>3 DEF HW3!PC_next
      <4> QED BY <2>1, <2>3, <3>0, <4>1, <4>2, <4>3, <4>4 DEF HW3!Complete, HW3!RegAfter
    <3>4. CASE SR = "WB"
      <4>1. I.op \in {"RTYPE", "JAL", "LW"} \cup Immediate /\ ~IsJR(I)
        BY <2>1, <3>4 DEF IInv, ResultOK, Opcodes, Transfers
      <4>2. /\ ~HW3!MemWrite /\ HW3!RegWrite /\ ~HW3!Branch /\ ~HW3!JR
            /\ (HW3!Jump <=> I.op = "JAL") /\ (HW3!SavePC <=> I.op = "JAL")
            /\ (HW3!RegDst <=> I.op = "RTYPE") /\ (HW3!MemtoReg <=> I.op = "LW")
        BY <2>1, <4>1, SameOps, SameDecoding, ImmediateOps
        DEF HW3!MemWrite, HW3!RegWrite, HW3!JR, HW3!Jump, HW3!Branch, HW3!SavePC, HW3!RegDst,
            HW3!MemtoReg, Branches
      <4>3. PC' = HW3!PC_next
        BY <2>1, <2>2, <3>4, <4>2, TickWB, SameArithmetic DEF HW3!PC_next
      <4>4. /\ I.op \notin {"JAL", "LW"} => ALUOut = HW3!alu_result
            /\ I.op = "LW" => /\ memAccess(HW3!alu_result) = "CONTINUE"
                              /\ MDR = memory[HW3!alu_result \div 4]
        BY <2>1, <3>4 DEF IInv, ResultOK
      <4>5. reg' = [reg EXCEPT ![HW3!wr_addr] = HW3!wr_data] /\ memory' = memory
        BY <2>1, <2>2, <3>4, <4>1, <4>2, <4>4, TickWB DEF HW3!wr_addr, HW3!wr_data
      <4>6. HW3!Accessed = "CONTINUE"
        BY <2>1, <4>4, <4>1, ImmediateOps DEF Transfers
      <4> QED BY <2>1, <2>3, <3>0, <4>2, <4>3, <4>5, <4>6 DEF HW3!Complete, HW3!RegAfter
    <3> QED BY <1>2, <3>1, <3>2, <3>3, <3>4 DEF IInv, Stages
  <2> QED BY <1>0, <2>4, <2>5 DEF HW3!Tick
<1> QED BY <1>1, <1>2

\* HW4 has the effect of HW3, one instruction after the other.
THEOREM Simulation == Spec => HW3!Init /\ SimulatesHW3
<1>1. Init => HW3!Init
  BY DEF Init, HW3!Init, ArchPC
<1>2. IInv /\ [Next]_vars => [HW3!Agreed => HW3!Tick]_(HW3!vars)
  <2> SUFFICES ASSUME IInv, [Next]_vars, HW3!Agreed PROVE HW3!Tick \/ UNCHANGED HW3!vars
    OBVIOUS
  <2>1. CASE UNCHANGED vars
    BY <2>1 DEF vars, HW3!vars, ArchPC
  <2> QED BY <2>1, SimulateFault, SimulateTick DEF Next
<1> QED BY <1>1, <1>2, StagesCarry, PTL DEF Spec, SimulatesHW3
=============================================================================
