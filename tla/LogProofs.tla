------------------------------ MODULE LogProofs ------------------------------
(***************************************************************************)
(* The log never overflows, pins what is not yet home, wakes whoever waits *)
(* for space and implements AtomicDisk across crashes, for any number of   *)
(* processes, blocks and contents, and any geometry with LogFits.          *)
(***************************************************************************)
EXTENDS Log, FiniteSetTheorems, FunctionTheorems, TLAPS

\* The most blocks a transaction ever has: one operation alone, or as many as
\* begin_op() lets through when others are running, each of which may write
\* less than what is reserved for it.
Most ==
  IF OPMAX > LOGSIZE - 2 * (MAXOPBLOCKS - OPMAX)
  THEN OPMAX ELSE LOGSIZE - 2 * (MAXOPBLOCKS - OPMAX)

\* What log_write() asks of the geometry (log.c:220-221).  With the constants
\* of param.h and mkfs.c it says OPMAX < MAXOPBLOCKS.
LogFits == Most < LOGSIZE /\ Most < NLOG - 1

Commits == {"commit", "writelog", "install", "finish"}
Recovering == \A p \in Proc : pc[p] = "recover"
Ops == {p \in Proc : pc[p] = "op"}

\* Booting concerns all processes; one at most commits, with committing set
\* and no operation running (log.c:151-152, 125).
PhaseOK ==
  /\ Down \/ Recovering \/ ~Booting
  /\ \A p, q \in Proc : pc[p] \in Commits /\ pc[q] \in Commits => p = q
  /\ committing <=> \E p \in Proc : pc[p] \in Commits
  /\ committing => Ops = {}

CountOK == outstanding = Cardinality(Ops)

\* What an operation has written is logged; OPMAX bounds it.
WroteOK ==
  \A p \in Ops : /\ IsFiniteSet(wrote[p]) /\ Cardinality(wrote[p]) <= OPMAX
                 /\ \A b \in wrote[p] : \E i \in DOMAIN lh : lh[i] = b

\* The header in memory and the one on disk.
HeadOK ==
  /\ Len(lh) <= NLOG - 1 /\ Len(dhead) <= NLOG - 1
  /\ \A i, j \in DOMAIN lh : lh[i] = lh[j] => i = j
  /\ \A i, j \in DOMAIN dhead : dhead[i] = dhead[j] => i = j
  /\ lh # <<>> => \E p \in Proc : pc[p] \in {"op", "commit", "writelog", "install", "recover"}
  /\ dhead # <<>> => \E p \in Proc : pc[p] \in {"install", "recover", "down"}
  /\ \A p \in Proc : pc[p] \in {"install", "recover"} => dhead = lh
  /\ \A p \in Proc : pc[p] \in {"writelog", "install", "recover"} => tail <= Len(lh)

\* How far write_log() and install_trans() have come.
TailOK ==
  \A p \in Proc, i \in DOMAIN lh :
    /\ pc[p] = "writelog" /\ i <= tail => dlog[i - 1] = Bread(lh[i])
    /\ pc[p] \in {"install", "recover"} /\ i <= tail => home[lh[i]] = dlog[i - 1]
    /\ pc[p] = "install" /\ i > tail => cache[lh[i]] = dlog[i - 1]

\* The blocks that are logged and not yet home.
Unsaved(b) ==
  \E i \in DOMAIN lh : lh[i] = b /\ (\A p \in Proc : pc[p] = "install" => i > tail)

\* A pinned block is cached, any other is cached as it is at home.
PinOK ==
  \A b \in Block : /\ pin[b] = IF ~Booting /\ Unsaved(b) THEN 1 ELSE 0
                   /\ pin[b] = 0 => cache[b] \in {NoBuf, home[b]}
                   /\ pin[b] # 0 => cache[b] # NoBuf

\* The blocks logged and those the running operations may still log.
Written == {x \in Proc \X Block : x[1] \in Ops /\ x[2] \in wrote[x[1]]}
SpaceOK ==
  ~Booting => Len(lh) + outstanding * OPMAX - Cardinality(Written) <= Most

\* The inductive invariant.
IInv ==
  /\ TypeOK /\ NoPanic /\ PhaseOK /\ CountOK /\ WroteOK /\ HeadOK /\ TailOK /\ PinOK
  /\ SpaceOK /\ SleeperHasWaker
-----------------------------------------------------------------------------
(* Counting *)

\* The assumption about the constants, as arithmetic needs it.
LEMMA Sizes ==
  /\ LOGSIZE \in Nat /\ MAXOPBLOCKS \in Nat /\ OPMAX \in Nat /\ NLOG \in Nat
  /\ 1 <= MAXOPBLOCKS /\ MAXOPBLOCKS <= LOGSIZE /\ OPMAX <= MAXOPBLOCKS /\ 1 <= NLOG
  /\ Most \in Int /\ OPMAX <= Most /\ LOGSIZE - 2 * (MAXOPBLOCKS - OPMAX) <= Most
BY LogAssumption DEF Most

\* Finitely many operations run.
LEMMA OpsFinite == IsFiniteSet(Ops) /\ Cardinality(Ops) \in Nat
<1>1. IsFiniteSet(Ops)
  BY LogAssumption, FS_Subset, Ops \in SUBSET Proc DEF Ops
<1>. QED  BY <1>1, FS_CardinalityType

\* A set of at most n elements can be numbered from 1 to n.
LEMMA Numbering ==
  ASSUME NEW S, IsFiniteSet(S), NEW n \in Nat, Cardinality(S) <= n
  PROVE  \E f \in [S -> 1..n] : \A x, y \in S : f[x] = f[y] => x = y
<1>. DEFINE k == Cardinality(S)
<1>1. k \in Nat /\ ExistsBijection(1..k, S)
  BY FS_CardinalityType
<1>2. PICK g : g \in Bijection(1..k, S)
  BY <1>1, Fun_ExistsBij
<1>3. \A x \in S : \E i \in 1..k : g[i] = x
  BY <1>2 DEF Bijection, Surjection
<1>. DEFINE f == [x \in S |-> CHOOSE i \in 1..k : g[i] = x]
<1>4. \A x \in S : f[x] \in 1..k /\ g[f[x]] = x
  BY <1>3
<1>5. f \in [S -> 1..n]
  BY <1>1, <1>4
<1>6. \A x, y \in S : f[x] = f[y] => x = y
  BY <1>4
<1>. QED  BY <1>5, <1>6

\* The running operations have written at most OPMAX blocks each.
LEMMA WrittenBound ==
  ASSUME TypeOK, CountOK, WroteOK
  PROVE  IsFiniteSet(Written) /\ Cardinality(Written) \in Nat
         /\ Cardinality(Written) <= outstanding * OPMAX
<1>. DEFINE Num(p) == CHOOSE f \in [wrote[p] -> 1..OPMAX] :
                        \A x, y \in wrote[p] : f[x] = f[y] => x = y
            Room == Ops \X (1..OPMAX)
            F == [x \in Written |-> <<x[1], Num(x[1])[x[2]]>>]
<1>1. \A p \in Ops : /\ Num(p) \in [wrote[p] -> 1..OPMAX]
                     /\ \A x, y \in wrote[p] : Num(p)[x] = Num(p)[y] => x = y
  <2>. SUFFICES ASSUME NEW p \in Ops
                PROVE \E f \in [wrote[p] -> 1..OPMAX] :
                        \A x, y \in wrote[p] : f[x] = f[y] => x = y
    OBVIOUS
  <2>. QED  BY Numbering, Sizes DEF WroteOK
<1>. HIDE DEF Num
<1>2. \A x \in Written : /\ x[1] \in Ops /\ x[2] \in wrote[x[1]] /\ x = <<x[1], x[2]>>
                         /\ F[x] = <<x[1], Num(x[1])[x[2]]>> /\ Num(x[1])[x[2]] \in 1..OPMAX
  <2>. SUFFICES ASSUME NEW x \in Written
                PROVE  /\ x[1] \in Ops /\ x[2] \in wrote[x[1]] /\ x = <<x[1], x[2]>>
                       /\ Num(x[1])[x[2]] \in 1..OPMAX
    OBVIOUS
  <2>1. x[1] \in Ops /\ x[2] \in wrote[x[1]] /\ x = <<x[1], x[2]>>
    BY DEF Written
  <2>. QED  BY <1>1, <2>1
<1>3. F \in [Written -> Room]
  BY <1>2
<1>4. ASSUME NEW x \in Written, NEW y \in Written, F[x] = F[y] PROVE x = y
  <2>1. x[1] = y[1] /\ Num(x[1])[x[2]] = Num(y[1])[y[2]]
    BY <1>2, <1>4
  <2>2. /\ x[1] \in Ops /\ x[2] \in wrote[x[1]] /\ y[2] \in wrote[x[1]]
        /\ Num(x[1])[x[2]] = Num(x[1])[y[2]]
    BY <1>2, <2>1
  <2>3. x[2] = y[2]
    BY <1>1, <2>2
  <2>. QED  BY <1>2, <2>1, <2>3
<1>5. F \in Injection(Written, Room)
  BY <1>3, <1>4, Fun_IsInj
<1>6. IsFiniteSet(1..OPMAX) /\ Cardinality(1..OPMAX) = OPMAX
  BY Sizes, FS_Interval
<1>7. IsFiniteSet(Room) /\ Cardinality(Room) = Cardinality(Ops) * OPMAX
  BY <1>6, OpsFinite, FS_Product
<1>8. IsFiniteSet(Written) /\ Cardinality(Written) <= Cardinality(Room)
  BY <1>5, <1>7, FS_Injection
<1>. QED  BY <1>7, <1>8, FS_CardinalityType DEF CountOK

\* An operation that runs is counted.
LEMMA OneCounts ==
  ASSUME CountOK, NEW p \in Ops
  PROVE  outstanding \in Nat /\ outstanding >= 1 /\ (outstanding = 1 <=> Ops = {p})
<1>1. outstanding \in Nat /\ outstanding # 0
  BY OpsFinite, FS_EmptySet DEF CountOK
<1>2. outstanding = 1 => Ops = {p}
  <2>1. ASSUME outstanding = 1 PROVE \E x : Ops = {x}
    BY <2>1, OpsFinite, FS_Singleton DEF CountOK
  <2>. QED  BY <2>1
<1>3. Ops = {p} => outstanding = 1
  BY FS_Singleton DEF CountOK
<1>. QED  BY <1>1, <1>2, <1>3

\* log_write() never panics: there is room in the log (log.c:220-223).
LEMMA WriteFits ==
  ASSUME LogFits, IInv, NEW p \in Proc, NEW b \in Block, NEW v \in Val, LogWrite(p, b, v)
  PROVE  /\ Len(lh) < NLOG - 1 /\ LogBlock(b) /\ UNCHANGED pc
         /\ Cardinality(wrote[p] \cup {b}) <= OPMAX /\ IsFiniteSet(wrote[p] \cup {b})
<1>1. p \in Ops
  BY DEF LogWrite, Ops
<1>2. ~committing /\ ~Booting
  BY <1>1 DEF IInv, PhaseOK, Booting, Down, Recovering, Ops
<1>3. Cardinality(Written) \in Nat /\ Cardinality(Written) <= outstanding * OPMAX
  BY WrittenBound DEF IInv
<1>4. outstanding \in Nat /\ outstanding >= 1 /\ outstanding * OPMAX \in Nat
  BY <1>1, OneCounts, Sizes DEF IInv
<1>5. Len(lh) \in Nat
  BY DEF IInv, TypeOK
<1>6. Len(lh) + outstanding * OPMAX - Cardinality(Written) <= Most
  BY <1>2 DEF IInv, SpaceOK
<1>7. Len(lh) <= Most
  <2>. DEFINE w == outstanding * OPMAX
  <2>1. w \in Nat /\ Cardinality(Written) <= w /\ Len(lh) + w - Cardinality(Written) <= Most
    BY <1>3, <1>4, <1>6
  <2>. HIDE DEF w
  <2>. QED  BY <1>3, <1>5, <2>1, Sizes
<1>8. Len(lh) < LOGSIZE /\ Len(lh) < NLOG - 1
  BY <1>5, <1>7, Sizes DEF LogFits
<1>9. LogBlock(b) /\ UNCHANGED pc
  BY <1>4, <1>5, <1>8, Sizes DEF LogWrite
<1>10. /\ IsFiniteSet(wrote[p]) /\ Cardinality(wrote[p]) \in Nat
       /\ Cardinality(wrote[p]) <= OPMAX
  BY <1>1, FS_CardinalityType DEF IInv, WroteOK
<1>11. Cardinality(wrote[p] \cup {b}) <= OPMAX /\ IsFiniteSet(wrote[p] \cup {b})
  <2>1. /\ IsFiniteSet(wrote[p] \cup {b})
        /\ Cardinality(wrote[p] \cup {b}) =
             IF b \in wrote[p] THEN Cardinality(wrote[p]) ELSE Cardinality(wrote[p]) + 1
    BY <1>10, FS_AddElement
  <2>2. b \in wrote[p] \/ Cardinality(wrote[p]) < OPMAX
    BY DEF LogWrite
  <2>. QED  BY <1>10, <2>1, <2>2, Sizes
<1>. QED  BY <1>8, <1>9, <1>11

\* end_op() never panics (log.c:153), and what it does then.
LEMMA EndFits ==
  ASSUME IInv, NEW p \in Proc, EndOp(p)
  PROVE  /\ ~committing
         /\ \/ /\ outstanding = 1 /\ committing' = TRUE /\ Goto(p, "commit") /\ Ops = {p}
            \/ /\ outstanding # 1 /\ committing' = FALSE /\ WakeAndGoto(p, "idle")
               /\ Ops # {p}
<1>1. p \in Ops
  BY DEF EndOp, Ops
<1>2. ~committing
  BY <1>1 DEF IInv, PhaseOK
<1>. QED  BY <1>1, <1>2, OneCounts DEF EndOp, IInv
-----------------------------------------------------------------------------
(* Types and control *)

\* What wakeup(&log) and goto do to control points.
LEMMA PcSteps ==
  ASSUME IInv, NEW p \in Proc, NEW l
  PROVE  /\ Goto(p, l) => \A q \in Proc : pc'[q] = IF q = p THEN l ELSE pc[q]
         /\ WakeAndGoto(p, l) => \A q \in Proc :
              pc'[q] = IF q = p THEN l ELSE IF pc[q] = "asleep" THEN "begin" ELSE pc[q]
BY DEF IInv, TypeOK, Goto, WakeAndGoto

\* outstanding counts the operations that run (log.c:132-134, 151).
LEMMA CountStep == ASSUME LogFits, IInv, [Next]_vars PROVE CountOK'
<1>1. ASSUME NEW p \in Proc, BeginOp(p) PROVE CountOK'
  <2>1. Ops' = Ops \cup {p} /\ p \notin Ops
    BY <1>1, PcSteps DEF BeginOp, Ops
  <2>. QED  BY <1>1, <2>1, OpsFinite, FS_AddElement DEF BeginOp, IInv, CountOK
<1>2. ASSUME NEW p \in Proc, EndOp(p) PROVE CountOK'
  <2>1. Ops' = Ops \ {p} /\ p \in Ops
    <3>1. \A q \in Proc : pc'[q] = "op" <=> pc[q] = "op" /\ q # p
      BY <1>2, EndFits, PcSteps DEF EndOp
    <3>. QED  BY <1>2, <3>1 DEF Ops, EndOp
  <2>. QED  BY <1>2, <2>1, OpsFinite, FS_RemoveElement DEF EndOp, IInv, CountOK
<1>3. CASE Crash
  <2>1. Ops' = {}
    BY <1>3 DEF Crash, Ops
  <2>. QED  BY <1>3, <2>1, FS_EmptySet DEF Crash, CountOK
<1>4. ASSUME Ops' = Ops, outstanding' = outstanding PROVE CountOK'
  BY <1>4 DEF CountOK, IInv
<1>5. ASSUME NEW p \in Proc, BeginWait(p) \/ Commit(p) \/ WriteLog(p) \/ WriteHead(p)
                             \/ Install(p) \/ EraseHead(p) \/ FinishCommit(p)
      PROVE  CountOK'
  <2>1. \A q \in Proc : pc'[q] = "op" <=> pc[q] = "op"
    BY <1>5, PcSteps DEF BeginWait, Commit, WriteLog, WriteHead, Install, EraseHead, FinishCommit
  <2>2. Ops' = Ops
    BY <2>1 DEF Ops
  <2>3. outstanding' = outstanding
    BY <1>5 DEF BeginWait, Commit, WriteLog, WriteHead, Install, EraseHead, FinishCommit, logVars
  <2>. QED  BY <1>4, <2>2, <2>3
<1>6. ASSUME NEW p \in Proc, NEW b \in Block, NEW v \in Val, LogWrite(p, b, v) PROVE CountOK'
  BY <1>4, <1>6, WriteFits DEF Ops, LogWrite
<1>7. ASSUME NEW b \in Block, Recycle(b) PROVE CountOK'
  BY <1>4, <1>7 DEF Recycle, Ops, logVars, procVars
<1>8. CASE ReadHead \/ Recovered
  <2>1. Ops' = Ops
    BY <1>8 DEF ReadHead, Recovered, Ops, Down
  <2>. QED  BY <1>4, <1>8, <2>1 DEF ReadHead, Recovered
<1>9. CASE Recover
  BY <1>4, <1>9 DEF Recover, Ops, logVars
<1>10. CASE UNCHANGED vars
  BY <1>4, <1>10 DEF vars, logVars, procVars, Ops
<1>. QED
  BY <1>1, <1>2, <1>3, <1>5, <1>6, <1>7, <1>8, <1>9, <1>10 DEF Next, Step, Request, Boot

\* A block that is written home is where the log says, in the log.
LEMMA TailInLog ==
  ASSUME IInv, tail < Len(lh)
  PROVE  tail + 1 \in DOMAIN lh /\ lh[tail + 1] \in Block /\ tail \in Slot /\ dlog[tail] \in Val
<1>1. Len(lh) \in Nat /\ tail \in Nat /\ DOMAIN lh = 1..Len(lh) /\ Len(lh) <= NLOG - 1
  BY DEF IInv, TypeOK, HeadOK
<1>2. tail + 1 \in DOMAIN lh /\ lh[tail + 1] \in Block
  BY <1>1 DEF IInv, TypeOK
<1>3. tail \in Slot
  BY <1>1, Sizes DEF Slot
<1>. QED  BY <1>2, <1>3 DEF IInv, TypeOK

\* While install_trans() runs, the block it comes to is pinned.
LEMMA InstallPinned ==
  ASSUME IInv, NEW p \in Proc, pc[p] = "install", tail < Len(lh)
  PROVE  pin[lh[tail + 1]] = 1
<1>1. ~Booting /\ Unsaved(lh[tail + 1])
  BY TailInLog DEF IInv, TypeOK, PhaseOK, Booting, Down, Recovering, Unsaved
<1>. QED  BY <1>1, TailInLog DEF IInv, PinOK

\* The log grows by one block, or not at all.
LEMMA Appended ==
  ASSUME TypeOK, NEW b \in Block, LogBlock(b)
  PROVE  \/ (\E i \in DOMAIN lh : lh[i] = b) /\ UNCHANGED <<lh, pin>>
         \/ /\ ~ \E i \in DOMAIN lh : lh[i] = b
            /\ lh' \in Seq(Block) /\ Len(lh') = Len(lh) + 1
            /\ DOMAIN lh = 1..Len(lh) /\ DOMAIN lh' = 1..(Len(lh) + 1) /\ Len(lh) \in Nat
            /\ \A i \in DOMAIN lh : lh'[i] = lh[i]
            /\ lh'[Len(lh) + 1] = b
            /\ pin' = [pin EXCEPT ![b] = @ + 1]
<1>1. CASE \E i \in DOMAIN lh : lh[i] = b
  BY <1>1 DEF LogBlock
<1>2. CASE ~ \E i \in DOMAIN lh : lh[i] = b
  <2>1. lh' = Append(lh, b) /\ pin' = [pin EXCEPT ![b] = @ + 1] /\ lh \in Seq(Block)
    BY <1>2 DEF LogBlock, TypeOK
  <2>2. Len(lh) \in Nat /\ DOMAIN lh = 1..Len(lh)
    BY <2>1
  <2>3. lh' \in Seq(Block) /\ Len(lh') = Len(lh) + 1 /\ DOMAIN lh' = 1..(Len(lh) + 1)
    BY <2>1
  <2>4. (\A i \in DOMAIN lh : lh'[i] = lh[i]) /\ lh'[Len(lh) + 1] = b
    BY <2>1
  <2>. QED  BY <1>2, <2>1, <2>2, <2>3, <2>4
<1>. QED  BY <1>1, <1>2

\* Types are kept.
LEMMA TypeStep == ASSUME LogFits, IInv, [Next]_vars PROVE TypeOK'
<1>0. outstanding' \in 0..Cardinality(Proc)
  <2>1. IsFiniteSet(Proc) /\ Ops' \in SUBSET Proc
    BY LogAssumption DEF Ops
  <2>2. Cardinality(Ops') <= Cardinality(Proc) /\ Cardinality(Ops') \in Nat
        /\ Cardinality(Proc) \in Nat
    BY <2>1, FS_Subset, FS_CardinalityType
  <2>. QED  BY <2>2, CountStep DEF CountOK
<1>. USE <1>0 DEF TypeOK
<1>1. ASSUME NEW p \in Proc, BeginOp(p) \/ BeginWait(p) PROVE TypeOK'
  BY <1>1 DEF IInv, BeginOp, BeginWait, Goto, diskVars, cacheVars, logVars
<1>2. ASSUME NEW p \in Proc, NEW b \in Block, NEW v \in Val, LogWrite(p, b, v) PROVE TypeOK'
  <2>1. LogBlock(b) /\ UNCHANGED pc
    BY <1>2, WriteFits
  <2>2. lh' \in Seq(Block) /\ pin' \in [Block -> 0..1]
    <3>1. ASSUME ~ \E i \in DOMAIN lh : lh[i] = b PROVE pin[b] = 0
      BY <3>1 DEF IInv, PinOK, Unsaved
    <3>. QED  BY <2>1, <3>1, Appended DEF IInv
  <2>. QED  BY <1>2, <2>1, <2>2 DEF IInv, LogWrite, diskVars
<1>3. ASSUME NEW p \in Proc, EndOp(p) PROVE TypeOK'
  <2>1. pc' \in [Proc -> {"idle", "begin", "asleep", "op", "commit", "writelog",
                          "install", "finish", "down", "recover", "panic"}]
    BY <1>3, EndFits DEF IInv, Goto, WakeAndGoto
  <2>. QED  BY <1>3, <2>1, EndFits DEF IInv, EndOp, diskVars, cacheVars
<1>4. ASSUME NEW p \in Proc, Commit(p) PROVE TypeOK'
  BY <1>4 DEF IInv, Commit, Goto, diskVars, cacheVars, logVars
<1>12. ASSUME NEW p \in Proc, WriteHead(p) PROVE TypeOK'
  BY <1>12 DEF IInv, WriteHead, Goto, cacheVars, logVars
<1>5. ASSUME NEW p \in Proc, WriteLog(p) PROVE TypeOK'
  <2>1. Bread(lh[tail + 1]) \in Val
    BY <1>5, TailInLog DEF IInv, WriteLog, Bread
  <2>2. dlog' \in [Slot -> Val]
    BY <1>5, <2>1, TailInLog DEF IInv, WriteLog
  <2>3. tail' \in Nat
    BY <1>5 DEF IInv, WriteLog
  <2>. QED  BY <1>5, <2>2, <2>3 DEF IInv, WriteLog, cacheVars, logVars
<1>6. ASSUME NEW p \in Proc, Install(p) PROVE TypeOK'
  BY <1>6, TailInLog, InstallPinned DEF IInv, Install, logVars
<1>7. ASSUME NEW p \in Proc, EraseHead(p) PROVE TypeOK'
  BY <1>7 DEF IInv, EraseHead, Goto, cacheVars
<1>13. ASSUME NEW p \in Proc, FinishCommit(p) PROVE TypeOK'
  BY <1>13 DEF IInv, FinishCommit, WakeAndGoto, diskVars, cacheVars
<1>8. ASSUME NEW b \in Block, Recycle(b) PROVE TypeOK'
  BY <1>8 DEF IInv, Recycle, diskVars, logVars, procVars
<1>9. CASE Crash
  <2>1. lh' \in Seq(Block) /\ pin' \in [Block -> 0..1] /\ cache' \in [Block -> Val \cup {NoBuf}]
    BY <1>9 DEF Crash
  <2>2. /\ wrote' \in [Proc -> SUBSET Block] /\ tail' \in Nat
        /\ pc' \in [Proc -> {"idle", "begin", "asleep", "op", "commit", "writelog",
                             "install", "finish", "down", "recover", "panic"}]
    BY <1>9 DEF Crash
  <2>. QED  BY <1>9, <2>1, <2>2 DEF IInv, Crash, diskVars
<1>14. CASE ReadHead
  BY <1>14 DEF IInv, ReadHead, diskVars, cacheVars
<1>15. CASE Recovered
  BY <1>15 DEF IInv, Recovered, cacheVars
<1>10. CASE Recover
  BY <1>10, TailInLog DEF IInv, Recover, logVars
<1>11. CASE UNCHANGED vars
  BY <1>11 DEF IInv, vars, diskVars, cacheVars, logVars, procVars
<1>. QED
  BY <1>1, <1>2, <1>3, <1>4, <1>5, <1>6, <1>7, <1>8, <1>9, <1>10, <1>11, <1>12,
     <1>13, <1>14, <1>15
  DEF Next, Step, Request, Boot

\* Nobody panics.
LEMMA PanicStep == ASSUME LogFits, IInv, [Next]_vars PROVE NoPanic'
<1>0. NoPanic
  BY DEF IInv
<1>. USE <1>0 DEF NoPanic
<1>1. ASSUME NEW p \in Proc, BeginOp(p) \/ BeginWait(p) \/ Commit(p) \/ WriteHead(p)
                             \/ EraseHead(p) \/ FinishCommit(p)
      PROVE  NoPanic'
  BY <1>1, PcSteps DEF BeginOp, BeginWait, Commit, WriteHead, EraseHead, FinishCommit
<1>2. ASSUME NEW p \in Proc, NEW b \in Block, NEW v \in Val, LogWrite(p, b, v) PROVE NoPanic'
  BY <1>2, WriteFits
<1>3. ASSUME NEW p \in Proc, EndOp(p) PROVE NoPanic'
  <2>1. Goto(p, "commit") \/ WakeAndGoto(p, "idle")
    BY <1>3, EndFits
  <2>. QED  BY <2>1, PcSteps
<1>4. ASSUME UNCHANGED pc PROVE NoPanic'
  BY <1>4
<1>5. CASE Crash \/ ReadHead \/ Recovered
  BY <1>5 DEF Crash, ReadHead, Recovered
<1>. QED
  BY <1>1, <1>2, <1>3, <1>4, <1>5
  DEF Next, Step, Request, Boot, WriteLog, Install, Recycle, Recover, procVars, vars

\* Who calls the file system finds it up; who commits is alone.
LEMMA Alone ==
  ASSUME IInv, NEW p \in Proc
  PROVE  /\ pc[p] \in Commits => committing /\ Ops = {} /\ \A q \in Proc : pc[q] \in Commits => q = p
         /\ pc[p] = "op" => ~committing
         /\ pc[p] \notin {"down", "recover"} => ~Booting
         /\ ~committing => \A q \in Proc : pc[q] \notin Commits
         /\ \A q \in Proc : q \in Ops <=> pc[q] = "op"
BY DEF IInv, PhaseOK, Booting, Down, Recovering, Ops

\* Booting and committing stay matters of all and of one.
LEMMA PhaseStep == ASSUME LogFits, IInv, [Next]_vars PROVE PhaseOK'
<1>0. PhaseOK
  BY DEF IInv
<1>. USE DEF PhaseOK, Down, Recovering, Booting, Ops, Commits
<1>1. ASSUME NEW p \in Proc, BeginOp(p) PROVE PhaseOK'
  <2>1. /\ \A q \in Proc : pc'[q] = IF q = p THEN "op" ELSE pc[q]
        /\ pc[p] \in {"idle", "begin"} /\ ~committing /\ committing' = committing
    BY <1>1, PcSteps DEF BeginOp, MustWait
  <2>. QED  BY <1>0, <2>1
<1>2. ASSUME NEW p \in Proc, BeginWait(p) PROVE PhaseOK'
  <2>1. /\ \A q \in Proc : pc'[q] = IF q = p THEN "asleep" ELSE pc[q]
        /\ pc[p] \in {"idle", "begin"} /\ committing' = committing
    BY <1>2, PcSteps DEF BeginWait, logVars
  <2>. QED  BY <1>0, <2>1
<1>3. ASSUME NEW p \in Proc, EndOp(p) PROVE PhaseOK'
  <2>1. pc[p] = "op" /\ ~committing
    BY <1>3, EndFits DEF EndOp
  <2>2. CASE committing' = TRUE /\ Goto(p, "commit") /\ {q \in Proc : pc[q] = "op"} = {p}
    <3>1. \A q \in Proc : pc'[q] = IF q = p THEN "commit" ELSE pc[q]
      BY <2>2, PcSteps
    <3>. QED  BY <1>0, <2>1, <2>2, <3>1
  <2>3. CASE committing' = FALSE /\ WakeAndGoto(p, "idle")
    <3>1. \A q \in Proc : pc'[q] = IF q = p THEN "idle"
                                   ELSE IF pc[q] = "asleep" THEN "begin" ELSE pc[q]
      BY <2>3, PcSteps
    <3>. QED  BY <1>0, <2>1, <2>3, <3>1
  <2>. QED  BY <1>3, <2>2, <2>3, EndFits
<1>4. ASSUME NEW p \in Proc, Commit(p) \/ WriteHead(p) \/ EraseHead(p) PROVE PhaseOK'
  <2>1. PICK l \in Commits : Goto(p, l)
    BY <1>4 DEF Commit, WriteHead, EraseHead
  <2>2. \A q \in Proc : pc'[q] = IF q = p THEN l ELSE pc[q]
    BY <2>1, PcSteps
  <2>3. pc[p] \in Commits /\ committing' = committing
    BY <1>4 DEF Commit, WriteHead, EraseHead, logVars
  <2>. QED  BY <1>0, <2>1, <2>2, <2>3
<1>5. ASSUME NEW p \in Proc, FinishCommit(p) PROVE PhaseOK'
  <2>1. /\ \A q \in Proc : pc'[q] = IF q = p THEN "idle"
                                    ELSE IF pc[q] = "asleep" THEN "begin" ELSE pc[q]
        /\ pc[p] = "finish" /\ committing' = FALSE
    BY <1>5, PcSteps DEF FinishCommit
  <2>. QED  BY <1>0, <2>1
<1>6. ASSUME UNCHANGED <<pc, committing>> PROVE PhaseOK'
  BY <1>0, <1>6
<1>7. CASE Crash
  BY <1>7 DEF Crash
<1>8. CASE ReadHead
  <2>1. ~committing
    BY <1>0, <1>8 DEF ReadHead
  <2>. QED  BY <1>8, <2>1 DEF ReadHead
<1>9. CASE Recovered
  <2>1. ~committing
    BY <1>0, <1>9 DEF Recovered
  <2>. QED  BY <1>9, <2>1 DEF Recovered
<1>10. ASSUME NEW p \in Proc, NEW b \in Block, NEW v \in Val, LogWrite(p, b, v) PROVE PhaseOK'
  BY <1>6, <1>10, WriteFits DEF LogWrite
<1>11. ASSUME NEW p \in Proc, WriteLog(p) \/ Install(p) PROVE PhaseOK'
  BY <1>6, <1>11 DEF WriteLog, Install, logVars
<1>12. ASSUME NEW b \in Block, Recycle(b) PROVE PhaseOK'
  BY <1>6, <1>12 DEF Recycle, logVars, procVars
<1>13. CASE Recover \/ UNCHANGED vars
  BY <1>6, <1>13 DEF Recover, vars, logVars, procVars
<1>. QED
  BY <1>1, <1>2, <1>3, <1>4, <1>5, <1>7, <1>8, <1>9, <1>10, <1>11, <1>12, <1>13
  DEF Next, Step, Request, Boot

\* What an operation has written is in the log, and not more than OPMAX blocks.
LEMMA WroteStep == ASSUME LogFits, IInv, [Next]_vars PROVE WroteOK'
<1>0. WroteOK /\ TypeOK
  BY DEF IInv
<1>. USE DEF WroteOK
<1>1. ASSUME NEW p \in Proc, BeginOp(p) PROVE WroteOK'
  <2>1. \A q \in Proc : q # p /\ q \in Ops' => q \in Ops /\ wrote'[q] = wrote[q]
    BY <1>0, <1>1, PcSteps DEF BeginOp, Ops, TypeOK
  <2>2. wrote'[p] = {} /\ lh' = lh
    BY <1>0, <1>1 DEF BeginOp, TypeOK
  <2>3. IsFiniteSet(wrote'[p]) /\ Cardinality(wrote'[p]) <= OPMAX
    BY <2>2, FS_EmptySet, Sizes
  <2>. QED  BY <1>0, <2>1, <2>2, <2>3 DEF Ops
<1>2. ASSUME NEW p \in Proc, NEW b \in Block, NEW v \in Val, LogWrite(p, b, v) PROVE WroteOK'
  <2>1. /\ Ops' = Ops /\ wrote' = [wrote EXCEPT ![p] = @ \cup {b}] /\ LogBlock(b)
        /\ IsFiniteSet(wrote[p] \cup {b}) /\ Cardinality(wrote[p] \cup {b}) <= OPMAX
    BY <1>2, WriteFits DEF LogWrite, Ops
  <2>2. /\ \A c : (\E i \in DOMAIN lh : lh[i] = c) => \E i \in DOMAIN lh' : lh'[i] = c
        /\ \E i \in DOMAIN lh' : lh'[i] = b
    <3>1. CASE lh' = lh /\ \E i \in DOMAIN lh : lh[i] = b
      BY <3>1
    <3>2. CASE /\ DOMAIN lh = 1..Len(lh) /\ DOMAIN lh' = 1..(Len(lh) + 1) /\ Len(lh) \in Nat
               /\ \A i \in DOMAIN lh : lh'[i] = lh[i]
               /\ lh'[Len(lh) + 1] = b
      BY <3>2
    <3>. QED  BY <1>0, <2>1, <3>1, <3>2, Appended
  <2>3. \A q \in Proc : wrote'[q] = IF q = p THEN wrote[p] \cup {b} ELSE wrote[q]
    BY <1>0, <2>1 DEF TypeOK
  <2>. QED  BY <1>0, <2>1, <2>2, <2>3 DEF Ops
<1>3. ASSUME NEW p \in Proc, EndOp(p) PROVE WroteOK'
  <2>1. Ops' \subseteq Ops
    <3>1. Goto(p, "commit") \/ WakeAndGoto(p, "idle")
      BY <1>3, EndFits
    <3>. QED  BY <3>1, PcSteps DEF Ops
  <2>. QED  BY <1>0, <1>3, <2>1 DEF EndOp
<1>4. ASSUME UNCHANGED <<lh, wrote>>, Ops' \subseteq Ops PROVE WroteOK'
  BY <1>0, <1>4
<1>5. ASSUME Ops' = {} PROVE WroteOK'
  BY <1>5
<1>6. ASSUME NEW p \in Proc, BeginWait(p) \/ Commit(p) \/ WriteHead(p) \/ FinishCommit(p)
      PROVE  WroteOK'
  <2>1. Ops' \subseteq Ops
    BY <1>6, PcSteps DEF BeginWait, Commit, WriteHead, FinishCommit, Ops
  <2>. QED  BY <1>4, <1>6, <2>1 DEF BeginWait, Commit, WriteHead, FinishCommit, logVars
<1>7. ASSUME NEW p \in Proc, EraseHead(p) PROVE WroteOK'
  <2>1. Ops = {}
    BY <1>7, Alone DEF EraseHead, Commits
  <2>2. Ops' = {}
    BY <1>7, <2>1, PcSteps DEF EraseHead, Ops
  <2>. QED  BY <1>5, <2>2
<1>8. CASE Crash \/ ReadHead \/ Recovered
  <2>1. Ops' = {}
    BY <1>8 DEF Crash, ReadHead, Recovered, Ops
  <2>. QED  BY <1>5, <2>1
<1>9. ASSUME NEW p \in Proc, WriteLog(p) \/ Install(p) PROVE WroteOK'
  BY <1>4, <1>9 DEF WriteLog, Install, logVars, Ops
<1>10. ASSUME NEW b \in Block, Recycle(b) PROVE WroteOK'
  BY <1>4, <1>10 DEF Recycle, logVars, procVars, Ops
<1>11. CASE Recover \/ UNCHANGED vars
  BY <1>4, <1>11 DEF Recover, vars, logVars, procVars, Ops
<1>. QED
  BY <1>1, <1>2, <1>3, <1>6, <1>7, <1>8, <1>9, <1>10, <1>11 DEF Next, Step, Request, Boot

\* The header names a block once, and the disk has one only while a
\* transaction is installed (log.c:75-82, 104-118, 194-203, 226-236).
LEMMA HeadStep == ASSUME LogFits, IInv, [Next]_vars PROVE HeadOK'
<1>0. HeadOK /\ TypeOK
  BY DEF IInv
<1>a. /\ lh \in Seq(Block) /\ Len(lh) \in Nat /\ DOMAIN lh = 1..Len(lh)
      /\ Len(<<>>) = 0 /\ DOMAIN <<>> = 1..0
      /\ \A s \in Seq(Block) : Len(s) = 0 => s = <<>>
  BY <1>0 DEF TypeOK
<1>. USE DEF HeadOK
<1>1. ASSUME NEW p \in Proc, BeginOp(p) \/ BeginWait(p) PROVE HeadOK'
  <2>1. PICK l \in {"op", "asleep"} : Goto(p, l)
    BY <1>1 DEF BeginOp, BeginWait
  <2>2. \A q \in Proc : pc'[q] = IF q = p THEN l ELSE pc[q]
    BY <2>1, PcSteps
  <2>3. pc[p] \in {"idle", "begin"} /\ UNCHANGED <<lh, dhead, tail>>
    BY <1>1 DEF BeginOp, BeginWait, diskVars, logVars
  <2>. QED  BY <1>0, <2>2, <2>3
<1>2. ASSUME NEW p \in Proc, NEW b \in Block, NEW v \in Val, LogWrite(p, b, v) PROVE HeadOK'
  <2>1. /\ pc[p] = "op" /\ UNCHANGED <<pc, dhead, tail>> /\ LogBlock(b) /\ Len(lh) < NLOG - 1
        /\ \A q \in Proc : pc[q] \notin {"writelog", "install", "recover"}
    BY <1>2, WriteFits, Alone DEF LogWrite, diskVars, Commits, Booting
  <2>2. CASE UNCHANGED lh
    BY <1>0, <2>1, <2>2
  <2>3. CASE /\ ~ \E i \in DOMAIN lh : lh[i] = b
             /\ Len(lh') = Len(lh) + 1
             /\ DOMAIN lh = 1..Len(lh) /\ DOMAIN lh' = 1..(Len(lh) + 1) /\ Len(lh) \in Nat
             /\ \A i \in DOMAIN lh : lh'[i] = lh[i]
             /\ lh'[Len(lh) + 1] = b
    <3>1. \A i, j \in DOMAIN lh' : lh'[i] = lh'[j] => i = j
      BY <1>0, <2>3
    <3>2. Len(lh') <= NLOG - 1
      BY <2>1, <2>3, Sizes
    <3>. QED  BY <1>0, <2>1, <3>1, <3>2
  <2>. QED  BY <1>0, <2>1, <2>2, <2>3, Appended
<1>3. ASSUME NEW p \in Proc, EndOp(p) PROVE HeadOK'
  <2>1. pc[p] = "op" /\ UNCHANGED <<lh, dhead, tail>>
    BY <1>3 DEF EndOp, diskVars
  <2>2. CASE Goto(p, "commit")
    <3>1. \A q \in Proc : pc'[q] = IF q = p THEN "commit" ELSE pc[q]
      BY <2>2, PcSteps
    <3>. QED  BY <1>0, <2>1, <3>1
  <2>3. CASE WakeAndGoto(p, "idle") /\ Ops # {p}
    <3>1. \A q \in Proc : pc'[q] = IF q = p THEN "idle"
                                   ELSE IF pc[q] = "asleep" THEN "begin" ELSE pc[q]
      BY <2>3, PcSteps
    <3>2. PICK q \in Proc : q # p /\ pc[q] = "op"
      BY <2>1, <2>3 DEF Ops
    <3>3. pc'[q] = "op"
      BY <3>1, <3>2
    <3>. QED  BY <1>0, <2>1, <3>1, <3>3
  <2>. QED  BY <1>3, <2>2, <2>3, EndFits
<1>4. ASSUME NEW p \in Proc, Commit(p) PROVE HeadOK'
  <2>1. /\ \A q \in Proc : pc'[q] = IF q = p THEN IF lh = <<>> THEN "finish" ELSE "writelog"
                                    ELSE pc[q]
        /\ pc[p] = "commit" /\ tail' = 0 /\ UNCHANGED <<lh, dhead>>
    BY <1>4, PcSteps DEF Commit, diskVars, logVars
  <2>2. \A q \in Proc : pc[q] \notin {"writelog", "install", "recover"}
    BY <1>4, Alone DEF Commit, Commits, Booting
  <2>. QED  BY <1>0, <1>a, <2>1, <2>2
<1>5. ASSUME NEW p \in Proc, WriteLog(p) \/ Install(p) PROVE HeadOK'
  <2>1. pc[p] \in {"writelog", "install"} /\ tail' = tail + 1 /\ tail < Len(lh) /\ tail \in Nat
        /\ UNCHANGED <<pc, lh, dhead>>
    BY <1>0, <1>5 DEF WriteLog, Install, logVars, TypeOK
  <2>. QED  BY <1>0, <1>a, <2>1
<1>6. ASSUME NEW p \in Proc, WriteHead(p) PROVE HeadOK'
  <2>1. /\ \A q \in Proc : pc'[q] = IF q = p THEN "install" ELSE pc[q]
        /\ pc[p] = "writelog" /\ tail' = 0 /\ UNCHANGED lh /\ dhead' = lh
    BY <1>6, PcSteps DEF WriteHead, logVars
  <2>2. \A q \in Proc : q # p => pc[q] \notin {"writelog", "install", "recover"}
    BY <1>6, Alone DEF WriteHead, Commits, Booting
  <2>. QED  BY <1>0, <1>a, <2>1, <2>2
<1>7. ASSUME NEW p \in Proc, EraseHead(p) PROVE HeadOK'
  <2>1. /\ \A q \in Proc : pc'[q] = IF q = p THEN "finish" ELSE pc[q]
        /\ lh' = <<>> /\ dhead' = <<>>
    BY <1>7, PcSteps DEF EraseHead
  <2>2. \A q \in Proc : q # p => pc[q] \notin {"writelog", "install", "recover"}
    BY <1>7, Alone DEF EraseHead, Commits, Booting
  <2>. QED  BY <1>a, <2>1, <2>2, Sizes
<1>8. ASSUME NEW p \in Proc, FinishCommit(p) PROVE HeadOK'
  <2>1. /\ \A q \in Proc : pc'[q] = IF q = p THEN "idle"
                                    ELSE IF pc[q] = "asleep" THEN "begin" ELSE pc[q]
        /\ pc[p] = "finish" /\ UNCHANGED <<lh, dhead, tail>>
    BY <1>8, PcSteps DEF FinishCommit, diskVars
  <2>. QED  BY <1>0, <2>1
<1>9. CASE Crash
  BY <1>0, <1>a, <1>9, LogAssumption DEF Crash, diskVars
<1>10. CASE ReadHead
  BY <1>0, <1>10, LogAssumption DEF ReadHead, diskVars, TypeOK
<1>11. CASE Recover
  <2>1. tail' = tail + 1 /\ tail < Len(lh) /\ tail \in Nat /\ UNCHANGED <<pc, lh, dhead>>
    BY <1>0, <1>11 DEF Recover, logVars, TypeOK
  <2>. QED  BY <1>0, <1>a, <2>1
<1>12. CASE Recovered
  BY <1>a, <1>12, Sizes DEF Recovered
<1>13. ASSUME NEW b \in Block, Recycle(b) PROVE HeadOK'
  BY <1>0, <1>13 DEF Recycle, diskVars, logVars, procVars
<1>14. CASE UNCHANGED vars
  BY <1>0, <1>14 DEF vars, diskVars, logVars, procVars
<1>. QED
  BY <1>1, <1>2, <1>3, <1>4, <1>5, <1>6, <1>7, <1>8, <1>9, <1>10, <1>11, <1>12, <1>13, <1>14
  DEF Next, Step, Request, Boot
-----------------------------------------------------------------------------
(* What is on its way to the disk *)

\* A process in the way of write_log() or install_trans().
Moving(p) == pc[p] \in {"writelog", "install", "recover"}

\* TailOK is not disturbed by who leaves the log and the blocks in it alone.
LEMMA TailKept ==
  ASSUME IInv, UNCHANGED <<home, dlog, lh, tail>>,
         \A p \in Proc : Moving(p)' => pc'[p] = pc[p],
         \A p \in Proc, i \in DOMAIN lh : Moving(p) => cache'[lh[i]] = cache[lh[i]]
  PROVE  TailOK'
BY DEF IInv, TailOK, Moving, Bread

\* A logged block that is not home yet is pinned, and its buffer stays.
LEMMA LoggedPinned ==
  ASSUME IInv, NEW i \in DOMAIN lh, ~Booting, \A p \in Proc : pc[p] = "install" => i > tail
  PROVE  lh[i] \in Block /\ pin[lh[i]] = 1 /\ cache[lh[i]] \in Val
<1>1. lh[i] \in Block /\ Unsaved(lh[i])
  BY DEF IInv, TypeOK, Unsaved
<1>2. pin[lh[i]] = 1 /\ cache[lh[i]] # NoBuf
  BY <1>1 DEF IInv, PinOK
<1>. QED  BY <1>1, <1>2 DEF IInv, TypeOK

\* One block more is in the log, or home (log.c:75-82, 182-189).
LEMMA TailStep == ASSUME LogFits, IInv, [Next]_vars PROVE TailOK'
<1>0. /\ TailOK /\ TypeOK
      /\ lh \in Seq(Block) /\ DOMAIN lh = 1..Len(lh) /\ Len(lh) \in Nat /\ tail \in Nat
      /\ \A i, j \in DOMAIN lh : lh[i] = lh[j] => i = j
      /\ Len(lh) <= NLOG - 1
      /\ \A i \in DOMAIN lh : lh[i] \in Block
      /\ DOMAIN <<>> = {}
  BY DEF IInv, TypeOK, HeadOK
<1>1. ASSUME NEW p \in Proc, BeginOp(p) \/ BeginWait(p) \/ FinishCommit(p) PROVE TailOK'
  <2>1. \A q \in Proc : Moving(q)' => pc'[q] = pc[q]
    BY <1>1, PcSteps DEF BeginOp, BeginWait, FinishCommit, Moving
  <2>. QED  BY <1>1, <2>1, TailKept DEF BeginOp, BeginWait, FinishCommit, diskVars, cacheVars, logVars
<1>2. ASSUME NEW p \in Proc, NEW b \in Block, NEW v \in Val, LogWrite(p, b, v) PROVE TailOK'
  <2>1. \A q \in Proc : pc'[q] = pc[q] /\ pc[q] \notin {"writelog", "install", "recover"}
    BY <1>2, WriteFits, Alone DEF LogWrite, Commits, Booting
  <2>. QED  BY <2>1 DEF TailOK
<1>3. ASSUME NEW p \in Proc, EndOp(p) PROVE TailOK'
  <2>1. Goto(p, "commit") \/ WakeAndGoto(p, "idle")
    BY <1>3, EndFits
  <2>2. \A q \in Proc : Moving(q)' => pc'[q] = pc[q]
    BY <2>1, PcSteps DEF Moving
  <2>. QED  BY <1>3, <2>2, TailKept DEF EndOp, diskVars, cacheVars
<1>4. ASSUME NEW p \in Proc, Commit(p) PROVE TailOK'
  <2>1. /\ \A q \in Proc : pc'[q] = IF q = p THEN IF lh = <<>> THEN "finish" ELSE "writelog"
                                    ELSE pc[q]
        /\ tail' = 0 /\ UNCHANGED lh
    BY <1>4, PcSteps DEF Commit, logVars
  <2>2. \A q \in Proc : pc[q] \notin {"writelog", "install", "recover"}
    BY <1>4, Alone DEF Commit, Commits, Booting
  <2>. QED  BY <1>0, <2>1, <2>2 DEF TailOK
<1>5. ASSUME NEW p \in Proc, WriteLog(p) PROVE TailOK'
  <2>1. /\ pc[p] = "writelog" /\ tail < Len(lh) /\ tail' = tail + 1
        /\ dlog' = [dlog EXCEPT ![tail] = Bread(lh[tail + 1])]
        /\ UNCHANGED <<home, lh, cache, pc>>
    BY <1>5 DEF WriteLog, cacheVars, logVars
  <2>2. /\ \A q \in Proc : q # p => ~Moving(q)
        /\ \A b : Bread(b)' = Bread(b)
    BY <2>1, Alone DEF Commits, Booting, Moving, Bread
  <2>3. ASSUME NEW i \in DOMAIN lh, i <= tail + 1 PROVE dlog'[i - 1] = Bread(lh[i])
    <3>1. i - 1 \in Slot /\ tail \in Slot
      BY <1>0, <2>1, Sizes DEF Slot
    <3>2. CASE i = tail + 1
      BY <1>0, <2>1, <3>1, <3>2 DEF TypeOK
    <3>3. CASE i # tail + 1
      <4>1. i <= tail /\ i - 1 # tail
        BY <1>0, <2>3, <3>3
      <4>. QED  BY <1>0, <2>1, <3>1, <4>1 DEF TypeOK, TailOK
    <3>. QED  BY <3>2, <3>3
  <2>. QED  BY <2>1, <2>2, <2>3 DEF TailOK, Moving
<1>6. ASSUME NEW p \in Proc, WriteHead(p) PROVE TailOK'
  <2>1. /\ pc[p] = "writelog" /\ tail = Len(lh) /\ tail' = 0
        /\ \A q \in Proc : pc'[q] = IF q = p THEN "install" ELSE pc[q]
        /\ UNCHANGED <<home, dlog, cache, lh>>
    BY <1>6, PcSteps DEF WriteHead, cacheVars, logVars
  <2>2. /\ \A q \in Proc : q # p => ~Moving(q)
        /\ \A q \in Proc : pc[q] # "install"
        /\ ~Booting
    BY <2>1, Alone DEF Commits, Booting, Moving
  <2>3. ASSUME NEW i \in DOMAIN lh PROVE cache[lh[i]] = dlog[i - 1]
    <3>1. dlog[i - 1] = Bread(lh[i])
      BY <1>0, <2>1 DEF TailOK
    <3>2. cache[lh[i]] \in Val
      BY <2>2, LoggedPinned
    <3>. QED  BY <3>1, <3>2, LogAssumption DEF Bread
  <2>. QED  BY <1>0, <2>1, <2>2, <2>3 DEF TailOK, Moving
<1>7. ASSUME NEW p \in Proc, Install(p) PROVE TailOK'
  <2>1. /\ pc[p] = "install" /\ tail < Len(lh) /\ tail' = tail + 1
        /\ cache' = [cache EXCEPT ![lh[tail + 1]] = dlog[tail]]
        /\ home' = [home EXCEPT ![lh[tail + 1]] = dlog[tail]]
        /\ UNCHANGED <<dlog, lh, pc>>
    BY <1>7 DEF Install, logVars
  <2>2. \A q \in Proc : pc[q] \notin {"writelog", "recover"}
    BY <2>1, Alone DEF Commits, Booting
  <2>3. ASSUME NEW i \in DOMAIN lh
        PROVE  /\ i <= tail + 1 => home'[lh[i]] = dlog[i - 1]
               /\ i > tail + 1 => cache'[lh[i]] = dlog[i - 1]
    <3>1. tail + 1 \in DOMAIN lh /\ lh[tail + 1] \in Block
      BY <2>1, TailInLog
    <3>2. CASE i = tail + 1
      BY <1>0, <2>1, <3>1, <3>2 DEF TypeOK
    <3>3. CASE i # tail + 1
      <4>1. lh[i] # lh[tail + 1] /\ lh[i] \in Block
        BY <1>0, <3>1, <3>3
      <4>2. home'[lh[i]] = home[lh[i]] /\ cache'[lh[i]] = cache[lh[i]]
        BY <1>0, <2>1, <4>1 DEF TypeOK
      <4>3. i <= tail + 1 => i <= tail
        BY <1>0, <3>3
      <4>4. i > tail + 1 => i > tail
        BY <1>0
      <4>. QED  BY <1>0, <2>1, <4>2, <4>3, <4>4, <3>3 DEF TailOK
    <3>. QED  BY <3>2, <3>3
  <2>. QED  BY <2>1, <2>2, <2>3 DEF TailOK
<1>8. ASSUME NEW p \in Proc, EraseHead(p) PROVE TailOK'
  BY <1>0, <1>8 DEF EraseHead, TailOK
<1>9. ASSUME NEW b \in Block, Recycle(b) PROVE TailOK'
  <2>1. /\ pin[b] = 0 /\ cache' = [cache EXCEPT ![b] = NoBuf]
        /\ UNCHANGED <<home, dlog, lh, tail, pc>>
    BY <1>9 DEF Recycle, diskVars, logVars, procVars
  <2>2. ASSUME NEW p \in Proc, NEW i \in DOMAIN lh, pc[p] \in {"writelog", "install"},
               pc[p] = "install" => i > tail
        PROVE  cache'[lh[i]] = cache[lh[i]]
    <3>1. \A q \in Proc : pc[q] = "install" => i > tail
      BY <2>2, Alone DEF Commits
    <3>2. lh[i] \in Block /\ pin[lh[i]] = 1
      BY <2>2, <3>1, LoggedPinned, Alone
    <3>. QED  BY <1>0, <2>1, <3>2 DEF TypeOK
  <2>3. ASSUME NEW p \in Proc, NEW i \in DOMAIN lh, pc[p] = "writelog" PROVE Bread(lh[i])' = Bread(lh[i])
    <3>1. cache'[lh[i]] = cache[lh[i]]
      <4>1. pc[p] \in {"writelog", "install"} /\ (pc[p] = "install" => i > tail)
        BY <2>3
      <4>. QED  BY <2>2, <4>1
    <3>2. UNCHANGED <<home, lh>>
      BY <2>1
    <3>. QED  BY <3>1, <3>2 DEF Bread
  <2>. HIDE DEF Bread
  <2>. QED  BY <1>0, <2>1, <2>2, <2>3 DEF TailOK
<1>10. CASE Crash
  BY <1>10 DEF Crash, TailOK
<1>11. CASE ReadHead
  <2>1. tail' = 0 /\ dhead \in Seq(Block) /\ lh' = dhead /\ \A p \in Proc : pc'[p] = "recover"
    BY <1>0, <1>11 DEF ReadHead, TypeOK
  <2>2. \A i \in DOMAIN lh' : ~ i <= tail'
    BY <2>1
  <2>. QED  BY <2>1, <2>2 DEF TailOK
<1>12. CASE Recover
  <2>1. /\ \A p \in Proc : pc[p] = "recover"
        /\ tail < Len(lh) /\ tail' = tail + 1
        /\ home' = [home EXCEPT ![lh[tail + 1]] = dlog[tail]]
        /\ UNCHANGED <<dlog, lh, pc>>
    BY <1>12 DEF Recover, logVars
  <2>2. ASSUME NEW i \in DOMAIN lh, i <= tail + 1 PROVE home'[lh[i]] = dlog[i - 1]
    <3>1. tail + 1 \in DOMAIN lh /\ lh[tail + 1] \in Block
      BY <2>1, TailInLog
    <3>2. CASE i = tail + 1
      BY <1>0, <2>1, <3>1, <3>2 DEF TypeOK
    <3>3. CASE i # tail + 1
      <4>1. lh[i] # lh[tail + 1] /\ lh[i] \in Block
        BY <1>0, <3>1, <3>3
      <4>2. home'[lh[i]] = home[lh[i]] /\ i <= tail
        BY <1>0, <2>1, <2>2, <3>3, <4>1 DEF TypeOK
      <4>. QED  BY <1>0, <2>1, <4>2, LogAssumption DEF TailOK
    <3>. QED  BY <3>2, <3>3
  <2>. QED  BY <2>1, <2>2 DEF TailOK
<1>13. CASE Recovered
  BY <1>13 DEF Recovered, TailOK
<1>14. CASE UNCHANGED vars
  BY <1>0, <1>14 DEF vars, diskVars, cacheVars, logVars, procVars, TailOK, Bread
<1>. QED
  BY <1>1, <1>2, <1>3, <1>4, <1>5, <1>6, <1>7, <1>8, <1>9, <1>10, <1>11, <1>12, <1>13, <1>14
  DEF Next, Step, Request, Boot

\* What a step does to Unsaved when it leaves the log alone and no
\* install_trans() begins or goes on.
LEMMA UnsavedKept ==
  ASSUME IInv, UNCHANGED <<lh, tail>>,
         \A p \in Proc : pc'[p] = "install" <=> pc[p] = "install"
  PROVE  \A b \in Block : Unsaved(b)' <=> Unsaved(b)
BY DEF Unsaved

\* PinOK is not disturbed by who changes neither the log nor the cache.
LEMMA PinKept ==
  ASSUME IInv, UNCHANGED <<lh, tail, home, cache, pin>>, Booting' <=> Booting,
         \A p \in Proc : pc'[p] = "install" <=> pc[p] = "install"
  PROVE  PinOK'
<1>1. \A b \in Block : Unsaved(b)' <=> Unsaved(b)
  BY UnsavedKept
<1>. QED  BY <1>1 DEF IInv, PinOK

\* bpin() and bunpin() keep exactly the blocks in the cache that are logged and
\* not home (log.c:78-79, 234).
LEMMA PinStep == ASSUME LogFits, IInv, [Next]_vars PROVE PinOK'
<1>0. /\ PinOK /\ TypeOK
      /\ lh \in Seq(Block) /\ DOMAIN lh = 1..Len(lh) /\ Len(lh) \in Nat /\ tail \in Nat
      /\ \A i, j \in DOMAIN lh : lh[i] = lh[j] => i = j
      /\ \A i \in DOMAIN lh : lh[i] \in Block
      /\ DOMAIN <<>> = {}
  BY DEF IInv, TypeOK, HeadOK
<1>1. ASSUME NEW p \in Proc, BeginOp(p) \/ BeginWait(p) \/ FinishCommit(p) PROVE PinOK'
  <2>1. /\ \A q \in Proc : pc'[q] = "install" <=> pc[q] = "install"
        /\ ~Booting /\ ~Booting'
    BY <1>1, PcSteps, Alone DEF BeginOp, BeginWait, FinishCommit, Booting
  <2>. QED  BY <1>1, <2>1, PinKept DEF BeginOp, BeginWait, FinishCommit, diskVars, cacheVars, logVars
<1>2. ASSUME NEW p \in Proc, NEW b \in Block, NEW v \in Val, LogWrite(p, b, v) PROVE PinOK'
  <2>1. /\ pc[p] = "op" /\ UNCHANGED <<pc, home, tail>> /\ LogBlock(b)
        /\ cache' = [cache EXCEPT ![b] = v]
    BY <1>2, WriteFits DEF LogWrite, diskVars
  <2>2. /\ ~Booting /\ ~Booting'
        /\ \A q \in Proc : pc[q] # "install" /\ pc'[q] # "install"
    BY <2>1, Alone DEF Commits, Booting
  <2>3. \A c \in Block : /\ Unsaved(c) <=> \E i \in DOMAIN lh : lh[i] = c
                         /\ Unsaved(c)' <=> \E i \in DOMAIN lh' : lh'[i] = c
    BY <2>2 DEF Unsaved
  <2>4. \A c \in Block : /\ Unsaved(c)' <=> Unsaved(c) \/ c = b
                         /\ pin'[c] = IF c = b THEN 1 ELSE pin[c]
    <3>1. CASE (\E i \in DOMAIN lh : lh[i] = b) /\ UNCHANGED <<lh, pin>>
      <4>1. pin[b] = 1
        BY <2>2, <2>3, <3>1, <1>0 DEF PinOK
      <4>. QED  BY <2>3, <3>1, <4>1
    <3>2. CASE /\ ~ \E i \in DOMAIN lh : lh[i] = b
               /\ DOMAIN lh' = 1..(Len(lh) + 1)
               /\ \A i \in DOMAIN lh : lh'[i] = lh[i]
               /\ lh'[Len(lh) + 1] = b
               /\ pin' = [pin EXCEPT ![b] = @ + 1]
      <4>1. pin[b] = 0
        BY <2>3, <3>2, <1>0 DEF PinOK
      <4>2. \A c \in Block : pin'[c] = IF c = b THEN 1 ELSE pin[c]
        BY <3>2, <4>1, <1>0 DEF TypeOK
      <4>3. \A c : (\E i \in DOMAIN lh' : lh'[i] = c) <=> (\E i \in DOMAIN lh : lh[i] = c) \/ c = b
        BY <1>0, <3>2
      <4>. QED  BY <2>3, <4>2, <4>3
    <3>. QED  BY <1>0, <2>1, <3>1, <3>2, Appended
  <2>5. \A c \in Block : cache'[c] = IF c = b THEN v ELSE cache[c]
    BY <1>0, <2>1 DEF TypeOK
  <2>. QED  BY <1>0, <2>1, <2>2, <2>4, <2>5, LogAssumption DEF PinOK
<1>3. ASSUME NEW p \in Proc, EndOp(p) PROVE PinOK'
  <2>1. Goto(p, "commit") \/ WakeAndGoto(p, "idle")
    BY <1>3, EndFits
  <2>2. /\ \A q \in Proc : pc'[q] = "install" <=> pc[q] = "install"
        /\ ~Booting /\ ~Booting'
    BY <1>3, <2>1, PcSteps, Alone DEF EndOp, Booting
  <2>. QED  BY <1>3, <2>2, PinKept DEF EndOp, diskVars, cacheVars
<1>4. ASSUME NEW p \in Proc, Commit(p) PROVE PinOK'
  <2>1. /\ \A q \in Proc : pc[q] # "install" /\ pc'[q] # "install"
        /\ ~Booting /\ ~Booting'
        /\ UNCHANGED <<lh, home, cache, pin>>
    BY <1>4, PcSteps, Alone DEF Commit, Booting, Commits, diskVars, cacheVars, logVars
  <2>2. \A b \in Block : Unsaved(b)' <=> Unsaved(b)
    BY <2>1 DEF Unsaved
  <2>. QED  BY <1>0, <2>1, <2>2 DEF PinOK
<1>5. ASSUME NEW p \in Proc, WriteLog(p) PROVE PinOK'
  <2>1. /\ \A q \in Proc : pc[q] # "install" /\ pc'[q] # "install"
        /\ ~Booting /\ ~Booting'
        /\ UNCHANGED <<lh, home, cache, pin>>
    BY <1>5, Alone DEF WriteLog, Booting, Commits, cacheVars, logVars
  <2>2. \A b \in Block : Unsaved(b)' <=> Unsaved(b)
    BY <2>1 DEF Unsaved
  <2>. QED  BY <1>0, <2>1, <2>2 DEF PinOK
<1>6. ASSUME NEW p \in Proc, WriteHead(p) PROVE PinOK'
  <2>1. /\ \A q \in Proc : pc[q] # "install"
        /\ ~Booting /\ ~Booting' /\ tail' = 0
        /\ UNCHANGED <<lh, home, cache, pin>>
    BY <1>6, PcSteps, Alone DEF WriteHead, Booting, Commits, cacheVars, logVars
  <2>2. \A b \in Block : Unsaved(b)' <=> Unsaved(b)
    BY <1>0, <2>1 DEF Unsaved
  <2>. QED  BY <1>0, <2>1, <2>2 DEF PinOK
<1>7. ASSUME NEW p \in Proc, Install(p) PROVE PinOK'
  <2>. DEFINE c == lh[tail + 1]
  <2>1. /\ pc[p] = "install" /\ tail < Len(lh) /\ tail' = tail + 1
        /\ cache' = [cache EXCEPT ![c] = dlog[tail]]
        /\ home' = [home EXCEPT ![c] = dlog[tail]]
        /\ pin' = [pin EXCEPT ![c] = @ - 1]
        /\ UNCHANGED <<lh, pc>>
    BY <1>7 DEF Install, logVars
  <2>2. tail + 1 \in DOMAIN lh /\ c \in Block /\ dlog[tail] \in Val /\ pin[c] = 1
    BY <2>1, TailInLog, InstallPinned
  <2>3. ~Booting /\ ~Booting' /\ \A q \in Proc : pc[q] = "install" <=> q = p
    BY <2>1, Alone DEF Booting, Commits
  <2>4. \A b \in Block : Unsaved(b)' <=> Unsaved(b) /\ b # c
    <3>1. \A b \in Block : /\ Unsaved(b) <=> \E i \in DOMAIN lh : lh[i] = b /\ i > tail
                           /\ Unsaved(b)' <=> \E i \in DOMAIN lh : lh[i] = b /\ i > tail + 1
      BY <2>1, <2>3 DEF Unsaved
    <3>2. \A i \in DOMAIN lh : i > tail + 1 <=> i > tail /\ lh[i] # c
      BY <1>0, <2>2
    <3>. HIDE DEF c
    <3>. QED  BY <3>1, <3>2
  <2>5. \A b \in Block : /\ cache'[b] = IF b = c THEN dlog[tail] ELSE cache[b]
                         /\ home'[b] = IF b = c THEN dlog[tail] ELSE home[b]
                         /\ pin'[b] = IF b = c THEN 0 ELSE pin[b]
    BY <1>0, <2>1, <2>2 DEF TypeOK
  <2>. HIDE DEF c
  <2>. QED  BY <1>0, <2>2, <2>3, <2>4, <2>5, LogAssumption DEF PinOK
<1>8. ASSUME NEW p \in Proc, EraseHead(p) PROVE PinOK'
  <2>1. pc[p] = "install" /\ tail = Len(lh) /\ lh' = <<>> /\ UNCHANGED <<home, cache, pin>>
    BY <1>8 DEF EraseHead, cacheVars
  <2>2. ~Booting /\ ~Booting'
    BY <1>8, <2>1, PcSteps, Alone DEF EraseHead, Booting
  <2>3. \A b \in Block : ~Unsaved(b) /\ ~Unsaved(b)'
    BY <1>0, <2>1 DEF Unsaved
  <2>. QED  BY <1>0, <2>1, <2>2, <2>3 DEF PinOK
<1>9. ASSUME NEW b \in Block, Recycle(b) PROVE PinOK'
  <2>1. /\ pin[b] = 0 /\ cache' = [cache EXCEPT ![b] = NoBuf]
        /\ UNCHANGED <<home, pin, lh, tail, pc>>
    BY <1>9 DEF Recycle, diskVars, logVars, procVars
  <2>2. (\A c \in Block : Unsaved(c)' <=> Unsaved(c)) /\ (Booting' <=> Booting)
    BY <2>1, UnsavedKept DEF Booting
  <2>3. \A c \in Block : cache'[c] = IF c = b THEN NoBuf ELSE cache[c]
    BY <1>0, <2>1 DEF TypeOK
  <2>. QED  BY <1>0, <2>1, <2>2, <2>3 DEF PinOK
<1>10. CASE Crash
  <2>1. Booting' /\ \A b \in Block : pin'[b] = 0 /\ cache'[b] = NoBuf
    BY <1>10, LogAssumption DEF Crash, Booting
  <2>. QED  BY <2>1 DEF PinOK
<1>11. CASE ReadHead
  <2>1. Booting /\ Booting' /\ UNCHANGED <<home, cache, pin>>
    BY <1>11, LogAssumption DEF ReadHead, Down, Booting, diskVars, cacheVars
  <2>. QED  BY <1>0, <2>1 DEF PinOK
<1>12. CASE Recover
  <2>. DEFINE c == lh[tail + 1]
  <2>1. /\ tail < Len(lh)
        /\ cache' = [cache EXCEPT ![c] = dlog[tail]]
        /\ home' = [home EXCEPT ![c] = dlog[tail]]
        /\ UNCHANGED pin /\ Booting /\ Booting'
    BY <1>12, LogAssumption DEF Recover, Booting
  <2>2. \A b \in Block : /\ cache'[b] = IF b = c THEN dlog[tail] ELSE cache[b]
                         /\ home'[b] = IF b = c THEN dlog[tail] ELSE home[b]
    BY <1>0, <2>1 DEF TypeOK
  <2>. HIDE DEF c
  <2>. QED  BY <1>0, <2>1, <2>2 DEF PinOK
<1>13. CASE Recovered
  <2>1. lh' = <<>> /\ UNCHANGED <<home, cache, pin>> /\ Booting /\ ~Booting'
    BY <1>13, LogAssumption DEF Recovered, cacheVars, Booting
  <2>2. \A b \in Block : ~Unsaved(b)'
    BY <1>0, <2>1 DEF Unsaved
  <2>. QED  BY <1>0, <2>1, <2>2 DEF PinOK
<1>14. CASE UNCHANGED vars
  <2>1. UNCHANGED <<home, cache, pin, lh, tail, pc>>
    BY <1>14 DEF vars, diskVars, cacheVars, logVars, procVars
  <2>. QED  BY <2>1, PinKept DEF Booting
<1>. QED
  BY <1>1, <1>2, <1>3, <1>4, <1>5, <1>6, <1>7, <1>8, <1>9, <1>10, <1>11, <1>12, <1>13, <1>14
  DEF Next, Step, Request, Boot
-----------------------------------------------------------------------------
(* Room in the log, and somebody to wake who waits for it *)

\* Written without the operation of process p.
LEMMA WrittenWithout ==
  ASSUME IInv, NEW p \in Ops
  PROVE  LET W == {x \in Written : x[1] # p} IN
         IsFiniteSet(W) /\ Cardinality(W) \in Nat /\ Cardinality(W) + OPMAX >= Cardinality(Written)
<1>. DEFINE W == {x \in Written : x[1] # p}
            Mine == {x \in Written : x[1] = p}
            f == [x \in Mine |-> x[2]]
<1>0. /\ IsFiniteSet(Written) /\ Cardinality(Written) \in Nat
      /\ IsFiniteSet(wrote[p]) /\ Cardinality(wrote[p]) <= OPMAX
  BY WrittenBound DEF IInv, WroteOK
<1>1. \A x \in Mine : x = <<p, x[2]>> /\ x[2] \in wrote[p]
  BY DEF Written
<1>2. f \in [Mine -> wrote[p]] /\ \A x, y \in Mine : f[x] = f[y] => x = y
  BY <1>1
<1>3. f \in Injection(Mine, wrote[p])
  BY <1>2, Fun_IsInj
<1>4. IsFiniteSet(Mine) /\ Cardinality(Mine) <= Cardinality(wrote[p])
  BY <1>0, <1>3, FS_Injection
<1>5. IsFiniteSet(W)
  BY <1>0, FS_Subset, W \in SUBSET Written
<1>6. Cardinality(Mine) \in Nat /\ Cardinality(W) \in Nat /\ Cardinality(wrote[p]) \in Nat
  BY <1>0, <1>4, <1>5, FS_CardinalityType
<1>7. Cardinality(Written) = Cardinality(W) + Cardinality(Mine)
  <2>1. W \cup Mine = Written /\ W \cap Mine = {}
    OBVIOUS
  <2>2. Cardinality(W \cup Mine) = Cardinality(W) + Cardinality(Mine) - Cardinality(W \cap Mine)
    BY <1>4, <1>5, FS_Union
  <2>3. Cardinality(W \cap Mine) = 0
    BY <2>1, FS_EmptySet
  <2>4. Cardinality(Written) = Cardinality(W) + Cardinality(Mine) - Cardinality(W \cap Mine)
    BY <2>1, <2>2
  <2>. HIDE DEF W, Mine
  <2>. QED  BY <1>6, <2>3, <2>4
<1>. HIDE DEF Mine
<1>. QED  BY <1>0, <1>4, <1>5, <1>6, <1>7, Sizes

\* SpaceOK depends on these things only.
LEMMA SpaceKept ==
  ASSUME IInv, Booting' => Booting, Booting => Booting',
         UNCHANGED <<lh, outstanding>>, Written' = Written
  PROVE  SpaceOK'
BY DEF IInv, SpaceOK

\* begin_op() leaves room for all that is to come, absorption or not
\* (log.c:127-134, 224-236).
LEMMA SpaceStep == ASSUME LogFits, IInv, [Next]_vars PROVE SpaceOK'
<1>0. /\ SpaceOK /\ TypeOK /\ CountOK /\ WroteOK
      /\ lh \in Seq(Block) /\ Len(lh) \in Nat /\ outstanding \in Nat
      /\ IsFiniteSet(Written) /\ Cardinality(Written) \in Nat
      /\ outstanding * OPMAX \in Nat
      /\ Len(<<>>) = 0
  <2>1. IsFiniteSet(Written) /\ Cardinality(Written) \in Nat
    BY WrittenBound DEF IInv
  <2>2. outstanding \in Nat
    BY OpsFinite DEF IInv, CountOK
  <2>. QED  BY <2>1, <2>2, Sizes DEF IInv, TypeOK
<1>1. ASSUME NEW p \in Proc, BeginOp(p) PROVE SpaceOK'
  <2>1. /\ pc[p] \in {"idle", "begin"} /\ ~committing
        /\ Len(lh) + (outstanding + 1) * MAXOPBLOCKS <= LOGSIZE
        /\ outstanding' = outstanding + 1 /\ UNCHANGED lh
        /\ wrote' = [wrote EXCEPT ![p] = {}]
        /\ \A q \in Proc : pc'[q] = IF q = p THEN "op" ELSE pc[q]
    BY <1>0, <1>1, PcSteps, Sizes DEF BeginOp, MustWait
  <2>2. Written' = Written
    <3>1. \A q \in Proc : q \in Ops' <=> q \in Ops \/ q = p
      BY <2>1 DEF Ops
    <3>2. p \notin Ops /\ wrote'[p] = {} /\ \A q \in Proc : q # p => wrote'[q] = wrote[q]
      BY <1>0, <2>1 DEF Ops, TypeOK
    <3>. QED  BY <3>1, <3>2 DEF Written
  <2>3. CASE outstanding = 0
    <3>1. Ops = {}
      BY <2>3, OpsFinite, FS_EmptySet DEF IInv, CountOK
    <3>2. lh = <<>>
      BY <2>1, <3>1, Alone DEF IInv, HeadOK, Commits, Ops, Booting
    <3>3. (outstanding + 1) * OPMAX = OPMAX
      BY <2>3, Sizes
    <3>4. Len(lh') = 0 /\ outstanding' * OPMAX = OPMAX /\ Cardinality(Written') = Cardinality(Written)
      BY <1>0, <2>1, <2>2, <3>2, <3>3
    <3>5. Len(lh') + outstanding' * OPMAX - Cardinality(Written') <= Most
      BY <1>0, <3>4, Sizes
    <3>. QED  BY <3>5 DEF SpaceOK
  <2>4. CASE outstanding # 0
    <3>. DEFINE n == outstanding - 1
                d == MAXOPBLOCKS - OPMAX
    <3>1. n \in Nat /\ outstanding + 1 = n + 2 /\ d \in Nat /\ MAXOPBLOCKS = OPMAX + d
      BY <1>0, <2>4, Sizes
    <3>. HIDE DEF n, d
    <3>2. (n + 2) * MAXOPBLOCKS = (n + 2) * OPMAX + n * d + 2 * d /\ n * d \in Nat
      BY <3>1, Sizes
    <3>3. (n + 2) * OPMAX \in Nat
      BY <3>1, Sizes
    <3>4. Len(lh) + (n + 2) * OPMAX <= LOGSIZE - 2 * d
      BY <1>0, <2>1, <3>1, <3>2, <3>3, Sizes
    <3>5. LOGSIZE - 2 * d <= Most
      BY <3>1, Sizes DEF d
    <3>6. /\ Len(lh') = Len(lh) /\ outstanding' * OPMAX = (n + 2) * OPMAX
          /\ Cardinality(Written') = Cardinality(Written)
      BY <2>1, <2>2, <3>1
    <3>. DEFINE w == (n + 2) * OPMAX
    <3>7. w \in Nat /\ d \in Nat /\ Len(lh) + w <= LOGSIZE - 2 * d /\ outstanding' * OPMAX = w
      BY <3>1, <3>3, <3>4, <3>6
    <3>. HIDE DEF w
    <3>8. Len(lh) + w - Cardinality(Written) <= Most
      BY <1>0, <3>5, <3>7, Sizes
    <3>9. Len(lh') + outstanding' * OPMAX - Cardinality(Written') <= Most
      BY <3>6, <3>7, <3>8
    <3>. QED  BY <3>9 DEF SpaceOK
  <2>. QED  BY <2>3, <2>4
<1>2. ASSUME NEW p \in Proc, NEW b \in Block, NEW v \in Val, LogWrite(p, b, v) PROVE SpaceOK'
  <2>1. /\ pc[p] = "op" /\ ~Booting /\ UNCHANGED <<pc, outstanding>> /\ LogBlock(b)
        /\ wrote' = [wrote EXCEPT ![p] = @ \cup {b}]
    BY <1>2, WriteFits, Alone DEF LogWrite
  <2>2. Written' = Written \cup {<<p, b>>}
    <3>1. \A q \in Proc : q \in Ops' <=> q \in Ops
      BY <2>1 DEF Ops
    <3>2. p \in Ops /\ \A q \in Proc : wrote'[q] = IF q = p THEN wrote[p] \cup {b} ELSE wrote[q]
      BY <1>0, <2>1 DEF Ops, TypeOK
    <3>. QED  BY <3>1, <3>2 DEF Written
  <2>3. Cardinality(Written') = IF <<p, b>> \in Written THEN Cardinality(Written)
                                ELSE Cardinality(Written) + 1
    BY <1>0, <2>2, FS_AddElement
  <2>4. Len(lh') \in Nat /\ Len(lh') <= Len(lh) + (IF <<p, b>> \in Written THEN 0 ELSE 1)
    <3>1. <<p, b>> \in Written => \E i \in DOMAIN lh : lh[i] = b
      BY <1>0 DEF Written, WroteOK
    <3>. QED  BY <1>0, <2>1, <3>1, Appended
  <2>5. Len(lh) + outstanding * OPMAX - Cardinality(Written) <= Most
    BY <1>0, <2>1 DEF SpaceOK
  <2>. DEFINE w == outstanding * OPMAX
  <2>6. w \in Nat /\ w' = w /\ Len(lh) + w - Cardinality(Written) <= Most
    BY <1>0, <2>1, <2>5
  <2>7. SpaceOK' <=> (~Booting' => Len(lh') + w' - Cardinality(Written') <= Most)
    BY DEF SpaceOK
  <2>. HIDE DEF w
  <2>8. Len(lh') + w - Cardinality(Written') <= Most
    BY <1>0, <2>3, <2>4, <2>6, Sizes
  <2>. QED  BY <2>6, <2>7, <2>8
<1>3. ASSUME NEW p \in Proc, EndOp(p) PROVE SpaceOK'
  <2>. DEFINE W == {x \in Written : x[1] # p}
  <2>1. /\ p \in Ops /\ ~Booting /\ UNCHANGED <<lh, wrote>> /\ outstanding' = outstanding - 1
        /\ outstanding >= 1
    BY <1>0, <1>3, Alone, OneCounts DEF EndOp, Ops
  <2>2. Ops' = Ops \ {p}
    <3>1. Goto(p, "commit") \/ WakeAndGoto(p, "idle")
      BY <1>3, EndFits
    <3>. QED  BY <3>1, PcSteps DEF Ops
  <2>3. Written' = W
    BY <2>1, <2>2 DEF Written
  <2>4. Cardinality(W) \in Nat /\ Cardinality(W) + OPMAX >= Cardinality(Written)
    BY <2>1, WrittenWithout
  <2>5. Len(lh) + outstanding * OPMAX - Cardinality(Written) <= Most
    BY <1>0, <2>1 DEF SpaceOK
  <2>6. (outstanding - 1) * OPMAX = outstanding * OPMAX - OPMAX
    BY <1>0, Sizes
  <2>. DEFINE w == outstanding * OPMAX
  <2>7. /\ w \in Nat /\ Len(lh) + w - Cardinality(Written) <= Most
        /\ Len(lh') + outstanding' * OPMAX - Cardinality(Written') = Len(lh) + (w - OPMAX) - Cardinality(W)
    BY <1>0, <2>1, <2>3, <2>5, <2>6
  <2>. HIDE DEF w, W
  <2>8. Len(lh) + (w - OPMAX) - Cardinality(W) <= Most
    BY <1>0, <2>4, <2>7, Sizes
  <2>. QED  BY <2>7, <2>8 DEF SpaceOK
<1>4. ASSUME NEW p \in Proc,
             BeginWait(p) \/ Commit(p) \/ WriteHead(p) \/ FinishCommit(p) \/ WriteLog(p) \/ Install(p)
      PROVE  SpaceOK'
  <2>1. /\ \A q \in Proc : pc'[q] = "op" <=> pc[q] = "op"
        /\ ~Booting /\ ~Booting'
    BY <1>4, PcSteps, Alone
    DEF BeginWait, Commit, WriteHead, FinishCommit, WriteLog, Install, Booting
  <2>2. UNCHANGED <<lh, outstanding, wrote>>
    BY <1>4 DEF BeginWait, Commit, WriteHead, FinishCommit, WriteLog, Install, logVars
  <2>3. Written' = Written
    BY <2>1, <2>2 DEF Written, Ops
  <2>. QED  BY <2>1, <2>2, <2>3, SpaceKept
<1>5. ASSUME NEW p \in Proc, EraseHead(p) PROVE SpaceOK'
  <2>1. Ops = {} /\ lh' = <<>> /\ UNCHANGED outstanding
    BY <1>5, Alone DEF EraseHead, Commits
  <2>2. \A q \in Proc : pc'[q] # "op"
    BY <1>5, <2>1, PcSteps DEF EraseHead, Ops
  <2>3. outstanding = 0
    BY <1>0, <2>1, FS_EmptySet DEF CountOK
  <2>4. Written' = {}
    BY <2>2 DEF Written, Ops
  <2>5. Cardinality(Written') = 0
    BY <2>4, FS_EmptySet
  <2>. QED  BY <1>0, <2>1, <2>3, <2>5, Sizes DEF SpaceOK
<1>6. ASSUME NEW b \in Block, Recycle(b) PROVE SpaceOK'
  <2>1. UNCHANGED <<pc, lh, outstanding, wrote>>
    BY <1>6 DEF Recycle, logVars, procVars
  <2>. QED  BY <2>1, SpaceKept DEF Written, Ops, Booting
<1>7. CASE Crash \/ ReadHead \/ Recover
  <2>1. Booting'
    BY <1>7, LogAssumption DEF Crash, ReadHead, Recover, Booting
  <2>. QED  BY <2>1 DEF SpaceOK
<1>8. CASE Recovered
  <2>1. lh' = <<>> /\ UNCHANGED outstanding /\ (\A q \in Proc : pc[q] # "op" /\ pc'[q] # "op")
    BY <1>8 DEF Recovered
  <2>2. Written' = {} /\ Ops = {}
    BY <2>1 DEF Written, Ops
  <2>3. outstanding = 0 /\ Cardinality(Written') = 0
    BY <1>0, <2>2, FS_EmptySet DEF CountOK
  <2>. QED  BY <1>0, <2>1, <2>3, Sizes DEF SpaceOK
<1>9. CASE UNCHANGED vars
  <2>1. UNCHANGED <<pc, lh, outstanding, wrote>>
    BY <1>9 DEF vars, logVars, procVars
  <2>. QED  BY <2>1, SpaceKept DEF Written, Ops, Booting
<1>. QED
  BY <1>1, <1>2, <1>3, <1>4, <1>5, <1>6, <1>7, <1>8, <1>9 DEF Next, Step, Request, Boot

\* A waker is in the way only until it has woken those who sleep.
LEMMA WakerStep == ASSUME LogFits, IInv, [Next]_vars PROVE SleeperHasWaker'
<1>0. SleeperHasWaker
  BY DEF IInv
<1>. DEFINE Busy == {"op", "commit", "writelog", "install", "finish"}
<1>. USE DEF SleeperHasWaker
<1>1. ASSUME NEW p \in Proc, BeginOp(p) PROVE SleeperHasWaker'
  BY <1>1, PcSteps DEF BeginOp
<1>2. ASSUME NEW p \in Proc, BeginWait(p) PROVE SleeperHasWaker'
  <2>1. /\ pc[p] \in {"idle", "begin"} /\ MustWait
        /\ \A q \in Proc : pc'[q] = IF q = p THEN "asleep" ELSE pc[q]
    BY <1>2, PcSteps DEF BeginWait
  <2>2. CASE committing
    <3>1. PICK q \in Proc : pc[q] \in Commits
      BY <2>2 DEF IInv, PhaseOK
    <3>. QED  BY <2>1, <3>1 DEF Commits
  <2>3. CASE ~committing /\ Ops # {}
    BY <2>1, <2>3 DEF Ops
  <2>4. CASE ~committing /\ Ops = {}
    <3>1. outstanding = 0
      BY <2>4, FS_EmptySet DEF IInv, CountOK
    <3>2. lh = <<>>
      BY <2>1, <2>4, Alone DEF IInv, HeadOK, Commits, Ops, Booting
    <3>3. Len(lh) = 0
      BY <3>2
    <3>. QED  BY <2>1, <2>4, <3>1, <3>3, Sizes DEF MustWait
  <2>. QED  BY <2>2, <2>3, <2>4
<1>3. ASSUME NEW p \in Proc, EndOp(p) PROVE SleeperHasWaker'
  <2>1. Goto(p, "commit") \/ WakeAndGoto(p, "idle")
    BY <1>3, EndFits
  <2>. QED  BY <2>1, PcSteps
<1>4. ASSUME NEW p \in Proc, Commit(p) \/ WriteHead(p) \/ EraseHead(p) PROVE SleeperHasWaker'
  BY <1>4, PcSteps DEF Commit, WriteHead, EraseHead
<1>5. ASSUME NEW p \in Proc, FinishCommit(p) PROVE SleeperHasWaker'
  BY <1>5, PcSteps DEF FinishCommit
<1>6. ASSUME UNCHANGED pc PROVE SleeperHasWaker'
  BY <1>0, <1>6
<1>7. ASSUME NEW p \in Proc, NEW b \in Block, NEW v \in Val, LogWrite(p, b, v)
      PROVE  SleeperHasWaker'
  BY <1>6, <1>7, WriteFits
<1>8. CASE Crash \/ ReadHead \/ Recovered
  BY <1>8 DEF Crash, ReadHead, Recovered
<1>. QED
  BY <1>1, <1>2, <1>3, <1>4, <1>5, <1>6, <1>7, <1>8
  DEF Next, Step, Request, Boot, WriteLog, Install, Recycle, Recover, procVars, vars
-----------------------------------------------------------------------------
(* The theorems *)

LEMMA InitInv == Init => IInv
<1>. SUFFICES ASSUME Init PROVE IInv
  OBVIOUS
<1>0. /\ \A p \in Proc : pc[p] = "idle"
      /\ lh = <<>> /\ dhead = <<>> /\ Len(<<>>) = 0 /\ DOMAIN <<>> = {} /\ <<>> \in Seq(Block)
      /\ outstanding = 0 /\ committing = FALSE /\ ~Booting
  BY DEF Init, Booting
<1>1. TypeOK
  <2>1. outstanding \in 0..Cardinality(Proc)
    <3>1. Cardinality(Proc) \in Nat
      BY LogAssumption, FS_CardinalityType
    <3>. QED  BY <1>0, <3>1
  <2>2. dlog \in [Slot -> Val]
    BY DEF Init
  <2>3. /\ home \in [Block -> Val] /\ cache \in [Block -> Val \cup {NoBuf}]
        /\ pin \in [Block -> 0..1] /\ wrote \in [Proc -> SUBSET Block] /\ tail \in Nat
    BY DEF Init
  <2>4. pc \in [Proc -> {"idle", "begin", "asleep", "op", "commit", "writelog",
                         "install", "finish", "down", "recover", "panic"}]
    BY DEF Init
  <2>. QED  BY <1>0, <2>1, <2>2, <2>3, <2>4 DEF TypeOK
<1>2. Ops = {} /\ Written = {} /\ Cardinality({}) = 0
  BY <1>0, FS_EmptySet DEF Ops, Written
<1>3. NoPanic /\ PhaseOK /\ CountOK /\ WroteOK
  BY <1>0, <1>2 DEF NoPanic, PhaseOK, CountOK, WroteOK, Commits
<1>4. HeadOK /\ TailOK /\ SleeperHasWaker
  BY <1>0, Sizes DEF HeadOK, TailOK, SleeperHasWaker
<1>5. PinOK
  BY <1>0 DEF Init, PinOK, Unsaved
<1>6. SpaceOK
  BY <1>0, <1>2, Sizes DEF SpaceOK
<1>. QED  BY <1>1, <1>3, <1>4, <1>5, <1>6 DEF IInv

LEMMA NextInv == ASSUME LogFits, IInv, [Next]_vars PROVE IInv'
BY TypeStep, PanicStep, PhaseStep, CountStep, WroteStep, HeadStep, TailStep, PinStep,
   SpaceStep, WakerStep DEF IInv

\* The invariant of the log, for every geometry in which a transaction fits:
\* types, who runs and who commits, what is in memory, in the log and at home,
\* pins, and the room that begin_op() keeps (log.c).
THEOREM Inductive == ASSUME LogFits PROVE Spec => []IInv
<1>1. IInv /\ [Next]_vars => IInv'
  BY NextInv
<1>. QED  BY <1>1, InitInv, PTL DEF Spec

\* "begin_op() ... if it thinks the log is close to running out, it sleeps"
\* (log.c:19-22): with operations that write fewer blocks than are reserved for
\* them, log_write() never finds the log full, although it takes one block less
\* than begin_op() reserves; and end_op() never finds a commit under way.
THEOREM NoOverflow == ASSUME LogFits PROVE Spec => []NoPanic
<1>1. IInv => NoPanic
  BY DEF IInv
<1>. QED  BY <1>1, Inductive, PTL

\* No update that is not yet at home can be recycled, committed or not
\* (log.c:78, 234).
THEOREM UpdatesPinned == ASSUME LogFits PROVE Spec => []PinnedUntilHome
<1>1. IInv => PinnedUntilHome
  <2>. SUFFICES ASSUME IInv, NEW b \in Block, Bread(b) # home[b] PROVE pin[b] > 0
    BY DEF PinnedUntilHome
  <2>1. pin[b] \in 0..1
    BY DEF IInv, TypeOK
  <2>2. pin[b] = 0 => Bread(b) = home[b]
    BY DEF IInv, PinOK, Bread
  <2>. QED  BY <2>1, <2>2
<1>. QED  BY <1>1, Inductive, PTL

\* Every pin is one logged block's that is not yet home (log.c:78-79, 234).
THEOREM PinsExact == ASSUME LogFits PROVE Spec => []PinsMatch
<1>1. IInv => PinsMatch
  <2>. SUFFICES ASSUME IInv, ~Booting, NEW b \in Block
                PROVE LET done == IF \E p \in Proc : pc[p] = "install" THEN tail ELSE 0
                      IN pin[b] = Cardinality({i \in DOMAIN lh : i > done /\ lh[i] = b})
    BY DEF PinsMatch
  <2>. DEFINE done == IF \E p \in Proc : pc[p] = "install" THEN tail ELSE 0
              S == {i \in DOMAIN lh : i > done /\ lh[i] = b}
  <2>1. \A i, j \in S : i = j
    BY DEF IInv, HeadOK
  <2>2. Unsaved(b) <=> \E i \in S : TRUE
    <3>1. \A i \in DOMAIN lh : i > done <=> \A p \in Proc : pc[p] = "install" => i > tail
      <4>1. \A i \in DOMAIN lh : i > 0
        BY DEF IInv, TypeOK
      <4>. QED  BY <4>1
    <3>. QED  BY <3>1 DEF Unsaved
  <2>. HIDE DEF S
  <2>3. CASE S = {}
    <3>1. pin[b] = 0
      BY <2>2, <2>3 DEF IInv, PinOK
    <3>. QED  BY <2>3, <3>1, FS_EmptySet DEF S
  <2>4. CASE S # {}
    <3>1. PICK i : S = {i}
      BY <2>1, <2>4
    <3>2. pin[b] = 1
      BY <2>2, <2>4 DEF IInv, PinOK
    <3>. QED  BY <3>1, <3>2, FS_Singleton DEF S
  <2>. QED  BY <2>3, <2>4
<1>. QED  BY <1>1, Inductive, PTL

\* Nobody sleeps in begin_op() without an operation or a commit under way that
\* will wake it (log.c:128-131, 155-158, 165-170).
THEOREM NoLostWakeup == ASSUME LogFits PROVE Spec => []SleeperHasWaker
<1>1. IInv => SleeperHasWaker
  BY DEF IInv
<1>. QED  BY <1>1, Inductive, PTL
-----------------------------------------------------------------------------
(* The refinement of AtomicDisk *)

\* The memory that operations see, as the mapping has it.
Mem == IF Booting THEN stable ELSE [b \in Block |-> Bread(b)]

\* What recovery makes of the disk: the logged blocks from the log, the others
\* from home.
StableIs ==
  /\ stable \in [Block -> Val]
  /\ \A i \in DOMAIN dhead : stable[dhead[i]] = dlog[i - 1]
  /\ \A b \in Block : (\A i \in DOMAIN dhead : dhead[i] # b) => stable[b] = home[b]

MemIs ==
  /\ Mem \in [Block -> Val]
  /\ ~Booting => \A b \in Block : Mem[b] = Bread(b)

LEMMA StableMapped == IInv => StableIs
<1>. SUFFICES ASSUME IInv PROVE StableIs
  OBVIOUS
<1>0. /\ dhead \in Seq(Block) /\ DOMAIN dhead = 1..Len(dhead) /\ Len(dhead) \in Nat
      /\ Len(dhead) <= NLOG - 1
      /\ \A i, j \in DOMAIN dhead : dhead[i] = dhead[j] => i = j
      /\ home \in [Block -> Val] /\ dlog \in [Slot -> Val]
  BY DEF IInv, TypeOK, HeadOK
<1>1. \A i \in DOMAIN dhead : dhead[i] \in Block /\ i - 1 \in Slot
  BY <1>0, Sizes DEF Slot
<1>2. ASSUME NEW i \in DOMAIN dhead PROVE stable[dhead[i]] = dlog[i - 1]
  <2>1. Last(dhead[i]) = i
    <3>1. /\ dhead[i] = dhead[i]
          /\ \A j \in DOMAIN dhead : dhead[j] = dhead[i] => j <= i
      BY <1>0
    <3>2. \A k \in DOMAIN dhead : dhead[k] = dhead[i] => k = i
      BY <1>0
    <3>. QED  BY <3>1, <3>2 DEF Last
  <2>. QED  BY <1>1, <2>1 DEF stable
<1>3. ASSUME NEW b \in Block, \A i \in DOMAIN dhead : dhead[i] # b PROVE stable[b] = home[b]
  BY <1>3 DEF stable
<1>4. \A b \in Block : stable[b] \in Val
  <2>. SUFFICES ASSUME NEW b \in Block PROVE stable[b] \in Val
    OBVIOUS
  <2>1. CASE \E i \in DOMAIN dhead : dhead[i] = b
    BY <1>0, <1>1, <1>2, <2>1
  <2>2. CASE \A i \in DOMAIN dhead : dhead[i] # b
    BY <1>0, <1>3, <2>2
  <2>. QED  BY <2>1, <2>2
<1>5. stable \in [Block -> Val]
  <2>1. stable = [b \in Block |-> stable[b]]
    BY DEF stable
  <2>. QED  BY <1>4, <2>1
<1>. QED  BY <1>2, <1>3, <1>5 DEF StableIs

LEMMA MemMapped == IInv => MemIs
<1>. SUFFICES ASSUME IInv PROVE MemIs
  OBVIOUS
<1>1. stable \in [Block -> Val]
  BY StableMapped DEF StableIs
<1>2. \A b \in Block : Bread(b) \in Val
  BY DEF IInv, TypeOK, Bread
<1>. QED  BY <1>1, <1>2 DEF MemIs, Mem

\* What is the same on both sides.
LEMMA DiskNext ==
  ASSUME \/ UNCHANGED <<Mem, stable, Ops>>
         \/ \E p \in Proc : p \notin Ops /\ Ops' = Ops \cup {p} /\ UNCHANGED <<Mem, stable>>
         \/ \E p \in Proc : p \in Ops /\ Ops' = Ops \ {p} /\ UNCHANGED <<Mem, stable>>
         \/ \E p \in Proc, b \in Block, v \in Val :
              p \in Ops /\ Mem' = [Mem EXCEPT ![b] = v] /\ UNCHANGED <<stable, Ops>>
         \/ Ops = {} /\ stable' = Mem /\ UNCHANGED <<Mem, Ops>>
         \/ Mem' = stable /\ Ops' = {} /\ UNCHANGED stable
  PROVE  [AD!Next]_(AD!vars)
BY DEF AD!Next, AD!vars, AD!Begin, AD!End, AD!Write, AD!Commit, AD!Crash, Mem, Ops

\* A step of the log is one of AtomicDisk, or does not show: the header write
\* is the commit, and neither the log blocks before it nor the copies to the
\* homes after it change what a crash would leave.
LEMMA MapStep == IInv /\ IInv' /\ [Next]_vars /\ LogFits => [AD!Next]_(AD!vars)
<1>. SUFFICES ASSUME IInv, IInv', [Next]_vars, LogFits PROVE [AD!Next]_(AD!vars)
  OBVIOUS
<1>0. StableIs /\ MemIs /\ StableIs' /\ MemIs'
  <2>1. StableIs /\ MemIs
    BY StableMapped, MemMapped
  <2>2. StableIs' /\ MemIs'
    BY StableMapped, MemMapped, PTL
  <2>. QED  BY <2>1, <2>2
<1>a. /\ TypeOK /\ HeadOK /\ TailOK /\ PinOK /\ DOMAIN <<>> = {}
      /\ lh \in Seq(Block) /\ DOMAIN lh = 1..Len(lh) /\ Len(lh) \in Nat /\ tail \in Nat
      /\ \A i \in DOMAIN lh : lh[i] \in Block
  BY DEF IInv, TypeOK
<1>b. ASSUME UNCHANGED <<home, dlog, dhead>> PROVE stable' = stable
  BY <1>b DEF stable, Last
<1>c. ASSUME \A b \in Block : Mem'[b] = Mem[b] PROVE Mem' = Mem
  BY <1>0, <1>c DEF MemIs
<1>d. ASSUME \A b \in Block : stable'[b] = stable[b] PROVE stable' = stable
  BY <1>0, <1>d DEF StableIs
<1>e. ASSUME ~Booting, ~Booting', \A b \in Block : Bread(b)' = Bread(b) PROVE Mem' = Mem
  BY <1>0, <1>c, <1>e DEF MemIs
<1>1. ASSUME NEW p \in Proc, BeginOp(p) PROVE [AD!Next]_(AD!vars)
  <2>1. /\ ~Booting /\ ~Booting' /\ UNCHANGED <<home, dlog, dhead, cache>>
        /\ p \notin Ops /\ Ops' = Ops \cup {p}
    BY <1>1, PcSteps, Alone DEF BeginOp, Booting, Ops, diskVars, cacheVars
  <2>2. \A b \in Block : Bread(b)' = Bread(b)
    BY <2>1 DEF Bread
  <2>. QED  BY <1>b, <1>e, <2>1, <2>2, DiskNext
<1>2. ASSUME NEW p \in Proc, BeginWait(p) \/ Commit(p) \/ FinishCommit(p)
      PROVE  [AD!Next]_(AD!vars)
  <2>1. /\ ~Booting /\ ~Booting' /\ UNCHANGED <<home, dlog, dhead, cache>> /\ Ops' = Ops
    BY <1>2, PcSteps, Alone DEF BeginWait, Commit, FinishCommit, Booting, Ops, diskVars, cacheVars
  <2>2. \A b \in Block : Bread(b)' = Bread(b)
    BY <2>1 DEF Bread
  <2>. QED  BY <1>b, <1>e, <2>1, <2>2, DiskNext
<1>3. ASSUME NEW p \in Proc, NEW b \in Block, NEW v \in Val, LogWrite(p, b, v)
      PROVE  [AD!Next]_(AD!vars)
  <2>1. /\ ~Booting /\ ~Booting' /\ UNCHANGED <<home, dlog, dhead, pc>>
        /\ p \in Ops /\ Ops' = Ops /\ cache' = [cache EXCEPT ![b] = v]
    BY <1>3, WriteFits, Alone DEF LogWrite, Booting, Ops, diskVars
  <2>2. \A c \in Block : Bread(c)' = IF c = b THEN v ELSE Bread(c)
    BY <1>a, <2>1, LogAssumption DEF Bread, TypeOK
  <2>3. \A c \in Block : Mem'[c] = IF c = b THEN v ELSE Mem[c]
    BY <1>0, <2>1, <2>2 DEF MemIs
  <2>4. Mem' = [Mem EXCEPT ![b] = v]
    BY <1>0, <2>3 DEF MemIs
  <2>. QED  BY <1>b, <2>1, <2>4, DiskNext
<1>4. ASSUME NEW p \in Proc, EndOp(p) PROVE [AD!Next]_(AD!vars)
  <2>1. Goto(p, "commit") \/ WakeAndGoto(p, "idle")
    BY <1>4, EndFits
  <2>2. /\ ~Booting /\ ~Booting' /\ UNCHANGED <<home, dlog, dhead, cache>>
        /\ p \in Ops /\ Ops' = Ops \ {p}
    BY <1>4, <2>1, PcSteps, Alone DEF EndOp, Booting, Ops, diskVars, cacheVars
  <2>3. \A b \in Block : Bread(b)' = Bread(b)
    BY <2>2 DEF Bread
  <2>. QED  BY <1>b, <1>e, <2>2, <2>3, DiskNext
<1>5. ASSUME NEW p \in Proc, WriteLog(p) PROVE [AD!Next]_(AD!vars)
  <2>1. /\ ~Booting /\ ~Booting' /\ UNCHANGED <<home, dhead, cache, pc>> /\ Ops' = Ops
        /\ \A q \in Proc : pc[q] \notin {"install", "recover", "down"}
    BY <1>5, Alone DEF WriteLog, Booting, Commits, Ops, cacheVars
  <2>2. dhead = <<>> /\ dhead' = <<>>
    BY <1>a, <2>1 DEF HeadOK
  <2>3. \A b \in Block : stable'[b] = stable[b] /\ Bread(b)' = Bread(b)
    BY <1>0, <1>a, <2>1, <2>2 DEF StableIs, Bread
  <2>. QED  BY <1>d, <1>e, <2>1, <2>3, DiskNext
<1>6. ASSUME NEW p \in Proc, WriteHead(p) PROVE [AD!Next]_(AD!vars)
  <2>1. /\ pc[p] = "writelog" /\ tail = Len(lh) /\ dhead' = lh
        /\ UNCHANGED <<home, dlog, cache>> /\ Ops = {} /\ Ops' = Ops
        /\ ~Booting /\ ~Booting' /\ \A q \in Proc : pc[q] # "install"
    BY <1>6, PcSteps, Alone DEF WriteHead, Booting, Commits, Ops, cacheVars
  <2>2. \A b \in Block : Bread(b)' = Bread(b)
    BY <2>1 DEF Bread
  <2>3. ASSUME NEW b \in Block PROVE stable'[b] = Mem[b]
    <3>1. CASE \E i \in DOMAIN lh : lh[i] = b
      <4>1. PICK i \in DOMAIN lh : lh[i] = b
        BY <3>1
      <4>2. stable'[b] = dlog[i - 1]
        BY <1>0, <2>1, <4>1 DEF StableIs
      <4>3. dlog[i - 1] = Bread(b)
        BY <1>a, <2>1, <4>1 DEF TailOK
      <4>. QED  BY <1>0, <2>1, <4>2, <4>3 DEF MemIs
    <3>2. CASE \A i \in DOMAIN lh : lh[i] # b
      <4>1. stable'[b] = home[b]
        BY <1>0, <2>1, <3>2 DEF StableIs
      <4>2. cache[b] \in {NoBuf, home[b]}
        BY <1>a, <3>2 DEF PinOK, Unsaved
      <4>. QED  BY <1>0, <2>1, <4>1, <4>2 DEF MemIs, Bread
    <3>. QED  BY <3>1, <3>2
  <2>4. stable' = Mem
    BY <1>0, <2>3 DEF StableIs, MemIs
  <2>. QED  BY <1>e, <2>1, <2>2, <2>4, DiskNext
<1>7. ASSUME NEW p \in Proc, Install(p) PROVE [AD!Next]_(AD!vars)
  <2>. DEFINE c == lh[tail + 1]
  <2>1. /\ pc[p] = "install" /\ tail < Len(lh)
        /\ cache' = [cache EXCEPT ![c] = dlog[tail]]
        /\ home' = [home EXCEPT ![c] = dlog[tail]]
        /\ UNCHANGED <<dlog, dhead, pc>> /\ Ops' = Ops /\ ~Booting /\ ~Booting'
    BY <1>7, Alone DEF Install, Booting, Ops
  <2>2. tail + 1 \in DOMAIN lh /\ c \in Block /\ dlog[tail] \in Val /\ dhead = lh
    BY <1>a, <2>1, TailInLog DEF HeadOK
  <2>3. cache[c] = dlog[tail]
    <3>1. tail + 1 > tail /\ (tail + 1) - 1 = tail
      BY <1>a
    <3>. QED  BY <1>a, <2>1, <2>2, <3>1 DEF TailOK
  <2>4. \A b \in Block : Bread(b)' = Bread(b)
    BY <1>a, <2>1, <2>2, <2>3, LogAssumption DEF Bread, TypeOK
  <2>5. \A b \in Block : stable'[b] = stable[b]
    <3>. SUFFICES ASSUME NEW b \in Block PROVE stable'[b] = stable[b]
      OBVIOUS
    <3>1. CASE \E i \in DOMAIN dhead : dhead[i] = b
      BY <1>0, <2>1, <3>1 DEF StableIs
    <3>2. CASE \A i \in DOMAIN dhead : dhead[i] # b
      <4>1. b # c
        BY <2>2, <3>2
      <4>. QED  BY <1>0, <1>a, <2>1, <3>2, <4>1 DEF StableIs, TypeOK
    <3>. QED  BY <3>1, <3>2
  <2>. QED  BY <1>d, <1>e, <2>1, <2>4, <2>5, DiskNext
<1>8. ASSUME NEW p \in Proc, EraseHead(p) PROVE [AD!Next]_(AD!vars)
  <2>1. /\ pc[p] = "install" /\ tail = Len(lh) /\ dhead' = <<>> /\ dhead = lh
        /\ UNCHANGED <<home, dlog, cache>> /\ ~Booting /\ ~Booting' /\ Ops' = Ops
    BY <1>8, <1>a, PcSteps, Alone DEF EraseHead, Booting, Ops, cacheVars, HeadOK
  <2>2. \A b \in Block : Bread(b)' = Bread(b)
    BY <2>1 DEF Bread
  <2>3. ASSUME NEW b \in Block PROVE stable'[b] = stable[b]
    <3>1. stable'[b] = home[b]
      BY <1>0, <1>a, <2>1 DEF StableIs
    <3>2. ASSUME NEW i \in DOMAIN dhead, dhead[i] = b PROVE stable[b] = home[b]
      BY <1>0, <1>a, <2>1, <3>2 DEF StableIs, TailOK
    <3>3. stable[b] = home[b]
      BY <1>0, <3>2 DEF StableIs
    <3>. QED  BY <3>1, <3>3
  <2>. QED  BY <1>d, <1>e, <2>1, <2>2, <2>3, DiskNext
<1>9. ASSUME NEW b \in Block, Recycle(b) PROVE [AD!Next]_(AD!vars)
  <2>1. /\ pin[b] = 0 /\ cache' = [cache EXCEPT ![b] = NoBuf]
        /\ UNCHANGED <<home, dlog, dhead, pc>> /\ Ops' = Ops /\ Booting' = Booting
    BY <1>9 DEF Recycle, Ops, Booting, diskVars, procVars
  <2>2. \A c \in Block : Bread(c)' = Bread(c)
    BY <1>a, <2>1 DEF Bread, TypeOK, PinOK
  <2>3. stable' = stable
    BY <1>b, <2>1
  <2>4. Mem' = Mem
    BY <1>e, <2>1, <2>2, <2>3 DEF Mem
  <2>. QED  BY <2>1, <2>3, <2>4, DiskNext
<1>10. CASE Crash
  <2>1. Booting' /\ UNCHANGED <<home, dlog, dhead>> /\ Ops' = {}
    BY <1>10, LogAssumption DEF Crash, Booting, Ops, diskVars
  <2>2. stable' = stable /\ Mem' = stable'
    BY <1>b, <2>1 DEF Mem
  <2>. QED  BY <2>1, <2>2, DiskNext
<1>11. CASE ReadHead
  <2>1. Booting /\ Booting' /\ UNCHANGED <<home, dlog, dhead>> /\ Ops' = Ops
    BY <1>11, LogAssumption DEF ReadHead, Down, Booting, Ops, diskVars
  <2>2. stable' = stable /\ Mem' = stable' /\ Mem = stable
    BY <1>b, <2>1 DEF Mem
  <2>. QED  BY <2>1, <2>2, DiskNext
<1>12. CASE Recover
  <2>. DEFINE c == lh[tail + 1]
  <2>1. /\ \A p \in Proc : pc[p] = "recover"
        /\ tail < Len(lh) /\ home' = [home EXCEPT ![c] = dlog[tail]]
        /\ UNCHANGED <<dlog, dhead, pc>> /\ Booting /\ Booting' /\ Ops' = Ops
    BY <1>12, LogAssumption DEF Recover, Booting, Ops
  <2>2. tail + 1 \in DOMAIN lh /\ c \in Block /\ dhead = lh
    BY <1>a, <2>1, TailInLog, LogAssumption DEF HeadOK
  <2>3. \A b \in Block : stable'[b] = stable[b]
    <3>. SUFFICES ASSUME NEW b \in Block PROVE stable'[b] = stable[b]
      OBVIOUS
    <3>1. CASE \E i \in DOMAIN dhead : dhead[i] = b
      BY <1>0, <2>1, <3>1 DEF StableIs
    <3>2. CASE \A i \in DOMAIN dhead : dhead[i] # b
      <4>1. b # c
        BY <2>2, <3>2
      <4>. QED  BY <1>0, <1>a, <2>1, <3>2, <4>1 DEF StableIs, TypeOK
    <3>. QED  BY <3>1, <3>2
  <2>4. stable' = stable /\ Mem' = stable' /\ Mem = stable
    BY <1>d, <2>1, <2>3 DEF Mem
  <2>. QED  BY <2>1, <2>4, DiskNext
<1>13. CASE Recovered
  <2>1. /\ \A p \in Proc : pc[p] = "recover"
        /\ tail = Len(lh) /\ dhead' = <<>> /\ dhead = lh
        /\ UNCHANGED <<home, dlog, cache>> /\ Booting /\ ~Booting' /\ Ops' = Ops
    BY <1>13, <1>a, LogAssumption DEF Recovered, Booting, Ops, cacheVars, HeadOK
  <2>2. \A b \in Block : Bread(b)' = home[b]
    BY <1>a, <2>1 DEF Bread, PinOK
  <2>3. ASSUME NEW b \in Block PROVE stable'[b] = home[b] /\ stable[b] = home[b]
    <3>1. stable'[b] = home[b]
      BY <1>0, <1>a, <2>1 DEF StableIs
    <3>2. ASSUME NEW i \in DOMAIN dhead, dhead[i] = b PROVE stable[b] = home[b]
      BY <1>0, <1>a, <2>1, <3>2, LogAssumption DEF StableIs, TailOK
    <3>3. stable[b] = home[b]
      BY <1>0, <3>2 DEF StableIs
    <3>. QED  BY <3>1, <3>3
  <2>4. stable' = stable /\ Mem = stable
    BY <1>d, <2>1, <2>3 DEF Mem
  <2>5. \A b \in Block : Mem'[b] = Mem[b]
    BY <1>0, <2>1, <2>2, <2>3, <2>4 DEF MemIs
  <2>. QED  BY <1>c, <2>1, <2>4, <2>5, DiskNext
<1>14. CASE UNCHANGED vars
  <2>1. UNCHANGED <<Mem, stable, Ops>>
    BY <1>14 DEF vars, diskVars, cacheVars, logVars, procVars, Mem, stable, Last, Booting, Bread, Ops
  <2>. QED  BY <2>1, DiskNext
<1>. QED
  BY <1>1, <1>2, <1>3, <1>4, <1>5, <1>6, <1>7, <1>8, <1>9, <1>10, <1>11, <1>12, <1>13, <1>14
  DEF Next, Step, Request, Boot

\* At the beginning nothing is cached and the log is empty.
LEMMA MapInit == Init => AD!Init
<1>. SUFFICES ASSUME Init PROVE AD!Init
  OBVIOUS
<1>1. IInv
  BY InitInv
<1>2. StableIs /\ MemIs
  BY <1>1, StableMapped, MemMapped
<1>3. ~Booting /\ Ops = {} /\ dhead = <<>> /\ DOMAIN <<>> = {}
  BY DEF Init, Booting, Ops
<1>4. \A b \in Block : stable[b] = home[b] /\ Mem[b] = home[b]
  BY <1>2, <1>3 DEF Init, StableIs, MemIs, Bread
<1>5. Mem \in [Block -> Val] /\ stable = Mem
  BY <1>2, <1>4 DEF StableIs, MemIs
<1>. QED  BY <1>3, <1>5 DEF AD!Init, Mem, Ops

\* A crash at any point, also during recovery, keeps the operations committed
\* so far, whole, and nothing of the others (log.c:84-118, 172-212), whatever
\* the number of processes and blocks, as long as a transaction fits.
THEOREM CrashAtomicity == ASSUME LogFits PROVE Spec => ImplementsAtomicDisk
<1>1. IInv /\ IInv' /\ [Next]_vars => [AD!Next]_(AD!vars)
  BY MapStep
<1>. QED  BY <1>1, MapInit, Inductive, PTL DEF Spec, AD!Spec, ImplementsAtomicDisk
=============================================================================
