--------------------------------- MODULE Log --------------------------------
(***************************************************************************)
(* The write-ahead log of the file system (kernel/log.c), with crashes.    *)
(*                                                                         *)
(* Every process runs file system operations: begin_op(), changes to       *)
(* buffers each followed by log_write(), end_op().  The last end_op()      *)
(* commits.  The disk keeps the home blocks, the log blocks and the header;*)
(* a write of one block is atomic.  Everything else is memory and is lost  *)
(* in a crash, after which initlog() recovers from the log.                *)
(*                                                                         *)
(* One action is what happens under log.lock, or between two disk writes   *)
(* of the one process that commits.                                        *)
(***************************************************************************)
EXTENDS Integers, Sequences, FiniteSets

CONSTANTS
  Proc,         \* processes calling the file system
  Block,        \* home blocks
  Val,          \* block contents
  NoBuf,        \* stands for the contents of a block that is not cached
  LOGSIZE,      \* entries of the header's block[]
  MAXOPBLOCKS,  \* blocks begin_op() reserves for an operation
  NLOG,         \* sb->nlog: blocks mkfs gave the log, its header included
  OPMAX         \* different blocks an operation really writes

ASSUME LogAssumption ==
  /\ LOGSIZE \in Nat /\ MAXOPBLOCKS \in 1..LOGSIZE /\ NLOG \in Nat \ {0}
  /\ OPMAX \in 0..MAXOPBLOCKS
  /\ IsFiniteSet(Proc) /\ Proc # {}
  /\ NoBuf \notin Val

VARIABLES
  home,         \* the blocks on disk, where they belong
  dlog,         \* the log blocks on disk, from the first after the header
  dhead,        \* the block numbers in the header on disk
  cache,        \* b->data in the buffer cache, NoBuf without a buffer
  pin,          \* references log_write() holds on the buffer of a block
  lh,           \* log.lh: the block numbers logged so far
  outstanding,  \* log.outstanding
  committing,   \* log.committing
  pc,           \* control point of each process
  wrote,        \* blocks the operation of each process has written
  tail          \* loop variable of the process that commits or recovers

diskVars == <<home, dlog, dhead>>
cacheVars == <<cache, pin>>
logVars == <<lh, outstanding, committing>>
procVars == <<pc, wrote, tail>>
vars == <<diskVars, cacheVars, logVars, procVars>>

\* Slots of the log on disk.
Slot == 0..(NLOG - 2)

Init ==
  /\ home \in [Block -> Val]
  /\ dlog \in [Slot -> {home[b] : b \in Block}]
  /\ dhead = <<>>
  /\ cache = [b \in Block |-> NoBuf]
  /\ pin = [b \in Block |-> 0]
  /\ lh = <<>>
  /\ outstanding = 0
  /\ committing = FALSE
  /\ pc = [p \in Proc |-> "idle"]
  /\ wrote = [p \in Proc |-> {}]
  /\ tail = 0
-----------------------------------------------------------------------------
\* What bread() returns: the buffer, read from the block's home if need be.
Bread(b) == IF cache[b] = NoBuf THEN home[b] ELSE cache[b]

Goto(p, l) == pc' = [pc EXCEPT ![p] = l]

\* Mutant of WakeAndGoto: nobody is woken.
WakeNobody(p, l) == Goto(p, l)

\* wakeup(&log), then process p goes to l.
WakeAndGoto(p, l) ==
  pc' = [q \in Proc |-> IF q = p THEN l
                        ELSE IF pc[q] = "asleep" THEN "begin" ELSE pc[q]]

\* Mutant of MustWait: no room is counted for the operation itself.
MustWaitLess ==
  committing \/ Len(lh) + outstanding * MAXOPBLOCKS > LOGSIZE

\* begin_op() finds no room for another operation.
MustWait ==
  committing \/ Len(lh) + (outstanding + 1) * MAXOPBLOCKS > LOGSIZE

\* begin_op(): the operation is admitted ...
BeginOp(p) ==
  /\ pc[p] \in {"idle", "begin"}
  /\ ~MustWait
  /\ outstanding' = outstanding + 1
  /\ wrote' = [wrote EXCEPT ![p] = {}]
  /\ Goto(p, "op")
  /\ UNCHANGED <<diskVars, cacheVars, lh, committing, tail>>

\* ... or sleeps on &log and tries again when woken.
BeginWait(p) ==
  /\ pc[p] \in {"idle", "begin"}
  /\ MustWait
  /\ Goto(p, "asleep")
  /\ UNCHANGED <<diskVars, cacheVars, logVars, wrote, tail>>

\* Mutants of LogBlock: bpin() is missing; an absorbed block is pinned again.
LogBlockUnpinned(b) ==
  /\ lh' = IF \E i \in DOMAIN lh : lh[i] = b THEN lh ELSE Append(lh, b)
  /\ UNCHANGED pin

LogBlockRepins(b) ==
  /\ lh' = IF \E i \in DOMAIN lh : lh[i] = b THEN lh ELSE Append(lh, b)
  /\ pin' = [pin EXCEPT ![b] = @ + 1]

\* A block is appended to the header and pinned unless it is there already.
LogBlock(b) ==
  IF \E i \in DOMAIN lh : lh[i] = b
  THEN UNCHANGED <<lh, pin>>
  ELSE lh' = Append(lh, b) /\ pin' = [pin EXCEPT ![b] = @ + 1]

\* The operation changes a buffer, which it has locked, and calls log_write().
LogWrite(p, b, v) ==
  /\ pc[p] = "op"
  /\ b \in wrote[p] \/ Cardinality(wrote[p]) < OPMAX
  /\ cache' = [cache EXCEPT ![b] = v]
  /\ wrote' = [wrote EXCEPT ![p] = @ \cup {b}]
  /\ \/ /\ Len(lh) >= LOGSIZE \/ Len(lh) >= NLOG - 1 \/ outstanding < 1
        /\ Goto(p, "panic")
        /\ UNCHANGED <<lh, pin>>
     \/ /\ Len(lh) < LOGSIZE /\ Len(lh) < NLOG - 1 /\ outstanding >= 1
        /\ LogBlock(b)
        /\ UNCHANGED pc
  /\ UNCHANGED <<diskVars, outstanding, committing, tail>>

\* The cache recycles the buffer of a block nobody refers to.
Recycle(b) ==
  /\ pin[b] = 0
  /\ cache[b] # NoBuf
  /\ cache' = [cache EXCEPT ![b] = NoBuf]
  /\ UNCHANGED <<diskVars, pin, logVars, procVars>>

\* end_op() under log.lock: the last operation commits, any other wakes those
\* waiting for space.
EndOp(p) ==
  /\ pc[p] = "op"
  /\ outstanding' = outstanding - 1
  /\ \/ /\ committing
        /\ Goto(p, "panic")
        /\ UNCHANGED committing
     \/ /\ ~committing /\ outstanding = 1
        /\ committing' = TRUE
        /\ Goto(p, "commit")
     \/ /\ ~committing /\ outstanding # 1
        /\ WakeAndGoto(p, "idle")
        /\ UNCHANGED committing
  /\ UNCHANGED <<diskVars, cacheVars, lh, wrote, tail>>
-----------------------------------------------------------------------------
(* commit(), and the end of end_op() *)

\* if(log.lh.n > 0)
Commit(p) ==
  /\ pc[p] = "commit"
  /\ tail' = 0
  /\ Goto(p, IF lh = <<>> THEN "finish" ELSE "writelog")
  /\ UNCHANGED <<diskVars, cacheVars, logVars, wrote>>

\* write_log(): one block from the cache to the log.
WriteLog(p) ==
  /\ pc[p] = "writelog"
  /\ tail < Len(lh)
  /\ dlog' = [dlog EXCEPT ![tail] = Bread(lh[tail + 1])]
  /\ tail' = tail + 1
  /\ UNCHANGED <<home, dhead, cacheVars, logVars, pc, wrote>>

\* Mutant of WriteHead: the header is written before the last log block.
WriteHeadEarly(p) ==
  /\ pc[p] = "writelog"
  /\ tail = Len(lh) - 1
  /\ dhead' = lh
  /\ tail' = 0
  /\ Goto(p, "install")
  /\ UNCHANGED <<home, dlog, cacheVars, logVars, wrote>>

\* write_head(), the commit point.
WriteHead(p) ==
  /\ pc[p] = "writelog"
  /\ tail = Len(lh)
  /\ dhead' = lh
  /\ tail' = 0
  /\ Goto(p, "install")
  /\ UNCHANGED <<home, dlog, cacheVars, logVars, wrote>>

\* install_trans(0): one block from the log to its home, then unpinned.
Install(p) ==
  LET b == lh[tail + 1] IN
  /\ pc[p] = "install"
  /\ tail < Len(lh)
  /\ cache' = [cache EXCEPT ![b] = dlog[tail]]
  /\ home' = [home EXCEPT ![b] = dlog[tail]]
  /\ pin' = [pin EXCEPT ![b] = @ - 1]
  /\ tail' = tail + 1
  /\ UNCHANGED <<dlog, dhead, logVars, pc, wrote>>

\* log.lh.n = 0; write_head() erases the transaction.
EraseHead(p) ==
  /\ pc[p] = "install"
  /\ tail = Len(lh)
  /\ lh' = <<>>
  /\ dhead' = <<>>
  /\ Goto(p, "finish")
  /\ UNCHANGED <<home, dlog, cacheVars, outstanding, committing, wrote, tail>>

\* log.committing = 0; wakeup(&log)
FinishCommit(p) ==
  /\ pc[p] = "finish"
  /\ committing' = FALSE
  /\ WakeAndGoto(p, "idle")
  /\ UNCHANGED <<diskVars, cacheVars, lh, outstanding, wrote, tail>>
-----------------------------------------------------------------------------
(* Crash and recovery *)

\* Power is lost; at the next boot nothing is in memory but zeroed variables.
Crash ==
  /\ lh' = <<>>
  /\ outstanding' = 0
  /\ committing' = FALSE
  /\ pin' = [b \in Block |-> 0]
  /\ cache' = [b \in Block |-> NoBuf]
  /\ wrote' = [p \in Proc |-> {}]
  /\ tail' = 0
  /\ pc' = [p \in Proc |-> "down"]
  /\ UNCHANGED diskVars

Down == \A p \in Proc : pc[p] = "down"

\* read_head()
ReadHead ==
  /\ Down
  /\ lh' = dhead
  /\ tail' = 0
  /\ pc' = [p \in Proc |-> "recover"]
  /\ UNCHANGED <<diskVars, cacheVars, outstanding, committing, wrote>>

\* install_trans(1): no buffer was pinned.
Recover ==
  LET b == lh[tail + 1] IN
  /\ \A p \in Proc : pc[p] = "recover"
  /\ tail < Len(lh)
  /\ home' = [home EXCEPT ![b] = dlog[tail]]
  /\ cache' = [cache EXCEPT ![b] = dlog[tail]]
  /\ tail' = tail + 1
  /\ UNCHANGED <<dlog, dhead, pin, logVars, pc, wrote>>

\* log.lh.n = 0; write_head(): the file system is up.
Recovered ==
  /\ \A p \in Proc : pc[p] = "recover"
  /\ tail = Len(lh)
  /\ lh' = <<>>
  /\ dhead' = <<>>
  /\ tail' = 0
  /\ pc' = [p \in Proc |-> "idle"]
  /\ UNCHANGED <<home, dlog, cacheVars, outstanding, committing, wrote>>
-----------------------------------------------------------------------------
Step(p) ==
  \/ EndOp(p) \/ Commit(p) \/ WriteLog(p) \/ WriteHead(p) \/ Install(p)
  \/ EraseHead(p) \/ FinishCommit(p)

Request(p) ==
  BeginOp(p) \/ BeginWait(p) \/ \E b \in Block, v \in Val : LogWrite(p, b, v)

Boot == ReadHead \/ Recover \/ Recovered

Next ==
  \/ \E p \in Proc : Step(p) \/ Request(p)
  \/ \E b \in Block : Recycle(b)
  \/ Crash
  \/ Boot

Spec == Init /\ [][Next]_vars

\* Between a crash and the end of recovery.
Booting == \E p \in Proc : pc[p] \in {"down", "recover"}

TypeOK ==
  /\ home \in [Block -> Val] /\ cache \in [Block -> Val \cup {NoBuf}]
  /\ dlog \in [Slot -> Val]
  /\ dhead \in Seq(Block) /\ lh \in Seq(Block)
  /\ pin \in [Block -> 0..1]
  /\ outstanding \in 0..Cardinality(Proc) /\ committing \in BOOLEAN
  /\ pc \in [Proc -> {"idle", "begin", "asleep", "op", "commit", "writelog",
                      "install", "finish", "down", "recover", "panic"}]
  /\ wrote \in [Proc -> SUBSET Block]
  /\ tail \in Nat
-----------------------------------------------------------------------------
\* "begin_op() ... if it thinks the log is close to running out, it sleeps"
\* (log.c:19-22): log_write() never finds the log full and end_op() never finds
\* a commit under way.
NoPanic == \A p \in Proc : pc[p] # "panic"

\* A buffer that differs from its home on disk is pinned: the cache recycles no
\* update that is not installed, committed or not.
PinnedUntilHome ==
  \A b \in Block : pc # [p \in Proc |-> "recover"] /\ Bread(b) # home[b] => pin[b] > 0

\* Whoever sleeps in begin_op() has somebody to wake it: a running operation or
\* a commit under way.
SleeperHasWaker ==
  \A p \in Proc : pc[p] = "asleep" =>
    \E q \in Proc : pc[q] \in {"op", "commit", "writelog", "install", "finish"}

\* Every pin is a logged block's, once: bpin() and bunpin() match.
PinsMatch ==
  LET done == IF \E p \in Proc : pc[p] = "install" THEN tail ELSE 0
  IN ~Booting => \A b \in Block :
       pin[b] = Cardinality({i \in DOMAIN lh : i > done /\ lh[i] = b})
-----------------------------------------------------------------------------
(* The log implements AtomicDisk.  Stable is what recovery would make of the *)
(* disk: the home blocks, overwritten by the log if the header names any.    *)
Last(b) ==
  CHOOSE i \in DOMAIN dhead :
    dhead[i] = b /\ \A j \in DOMAIN dhead : dhead[j] = b => j <= i

stable ==
  [b \in Block |-> IF \E i \in DOMAIN dhead : dhead[i] = b
                   THEN dlog[Last(b) - 1] ELSE home[b]]

AD == INSTANCE AtomicDisk WITH
        mem <- IF Booting THEN stable ELSE [b \in Block |-> Bread(b)],
        active <- {p \in Proc : pc[p] = "op"}

\* A crash at any point keeps the operations committed so far, whole, and
\* nothing of the others; so does a crash during recovery.
ImplementsAtomicDisk == AD!Spec
-----------------------------------------------------------------------------
(* Liveness without crashes: operations end and disk writes complete.        *)
FairSpec ==
  /\ Init
  /\ [][Next /\ ~Crash]_vars
  /\ \A p \in Proc : WF_vars(Step(p))

\* Nobody sleeps in begin_op() for ever: whoever is in the way ends and wakes
\* the sleepers (the comment of end_op(), log.c:155-158 and 169).
SleeperWakes == \A p \in Proc : pc[p] = "asleep" ~> pc[p] # "asleep"
=============================================================================
