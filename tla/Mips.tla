-------------------------------- MODULE Mips --------------------------------
(***************************************************************************)
(* What the MIPS simulators of Computer_Architecture share: words, the     *)
(* ALU, the fields of an instruction, the register file and the checks of  *)
(* the memory.  Widths are parameters, so that a small machine can be      *)
(* searched; the code has W = 32, IMM = 16, JUMP = 28.  Which word means   *)
(* which instruction is the constant Inst: the properties do not depend on *)
(* the positions of the fields.                                            *)
(***************************************************************************)
EXTENDS Integers

CONSTANTS
  W,          \* bits of a word
  IMM,        \* bits of an immediate, and the shift of LUI
  JUMP,       \* bits of the PC that a jump replaces
  REGSIZE,    \* registers; the last one takes the return address
  TEXTEND,    \* end of the text, in words
  DATASTART,  \* start of the data, in words
  DATAEND,    \* end of the data and of the memory, in words
  Inst,       \* the fields of each word, as an instruction
  InitReg,    \* the registers at the start ($gp and $sp are set)
  Programs    \* the memory images to run

ASSUME TextInMemory == TEXTEND \in Nat /\ DATAEND \in Nat /\ TEXTEND <= DATAEND

Word == 0 .. (2^W - 1)
Reg == 0 .. (REGSIZE - 1)

\* The functions of an R-type instruction that select an operation of the ALU,
\* under the operation's name, and the immediate instructions with theirs.
AluFuncts == {"SLL", "SRL", "SRA", "ADDU", "SUBU", "AND", "OR", "XOR", "NOR",
              "SLT", "SLTU"}
ImmOp == [ADDIU |-> "ADDU", SLTI |-> "SLT", SLTIU |-> "SLTU", ANDI |-> "AND",
          ORI |-> "OR", XORI |-> "XOR", LUI |-> "LUI"]
Immediate == DOMAIN ImmOp
SignedImmediate == {"ADDIU", "SLTI", "SLTIU"}
Branches == {"BEQ", "BNE"}
Transfers == {"LW", "SW"}
Opcodes == {"RTYPE", "J", "JAL"} \cup Branches \cup Immediate \cup Transfers

\* The operation the ALU has to perform for instruction i.
AluOp(i) ==
  CASE i.op = "RTYPE" /\ i.funct \in AluFuncts -> i.funct
    [] i.op \in Immediate -> ImmOp[i.op]
    [] i.op = "BEQ" -> "EQ"
    [] i.op = "BNE" -> "NEQ"
    [] OTHER -> "ADDU"

IsJR(i) == i.op = "RTYPE" /\ i.funct = "JR"
-----------------------------------------------------------------------------
Wrap(n) == n % 2^W
Signed(a) == IF a < 2^(W-1) THEN a ELSE a - 2^W
Flag(b) == IF b THEN 1 ELSE 0
Bits(a) == {n \in 0..(W-1) : (a \div 2^n) % 2 = 1}
Num(S) == CHOOSE a \in Word : Bits(a) = S

\* ALU::compute().
Compute(op, a, b, shamt) ==
  CASE op = "ADDU" -> Wrap(a + b)
    [] op = "SUBU" -> Wrap(a - b)
    [] op = "AND"  -> Num(Bits(a) \cap Bits(b))
    [] op = "OR"   -> Num(Bits(a) \cup Bits(b))
    [] op = "XOR"  -> Num((Bits(a) \cup Bits(b)) \ (Bits(a) \cap Bits(b)))
    [] op = "NOR"  -> Num((0..(W-1)) \ (Bits(a) \cup Bits(b)))
    [] op = "SLL"  -> Wrap(b * 2^shamt)
    [] op = "SRL"  -> b \div 2^shamt
    [] op = "SRA"  -> Wrap(Signed(b) \div 2^shamt)
    [] op = "SLT"  -> Flag(Signed(a) < Signed(b))
    [] op = "SLTU" -> Flag(a < b)
    [] op = "EQ"   -> Flag(a = b)
    [] op = "NEQ"  -> Flag(a # b)
    [] op = "LUI"  -> Wrap(b * 2^IMM)

\* CTRL::signExtend() of an immediate.
SignExtend(immi, signed) ==
  IF signed /\ immi >= 2^(IMM-1) THEN immi + 2^W - 2^IMM ELSE immi

\* The target of J and JAL: the high bits of the PC and the field immj.
JumpTarget(pc, immj) == (pc \div 2^JUMP) * 2^JUMP + 4 * immj

\* RF::write(): any register, register 0 too.
RegAfter(reg, addr, data, RegWrite) ==
  IF RegWrite THEN [reg EXCEPT ![addr] = data] ELSE reg

\* The status an access of the memory leaves: alignment first, then range.
Access(addr, outside, overflow) ==
  IF addr % 4 # 0 THEN "MEM_UNALIGNED" ELSE IF outside THEN overflow ELSE "CONTINUE"
=============================================================================
