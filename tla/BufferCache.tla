---------------------------- MODULE BufferCache -----------------------------
(***************************************************************************)
(* The buffer cache (kernel/bio.c) and the sleep-lock of each buffer       *)
(* (kernel/sleeplock.c).                                                   *)
(*                                                                         *)
(* One action is what happens under bcache.lock or under the spinlock of a *)
(* sleep-lock.  A disk access takes one step, which is what DiskRequests   *)
(* promises of the driver: nobody else has a request for that block.       *)
(***************************************************************************)
EXTENDS Integers, Sequences, FiniteSets, SequencesExt

CONSTANTS
  Proc, Block, Val,
  NBUF,      \* buffers
  MAXPINS,   \* blocks the log has pinned at the same time, at most
  None

ASSUME CacheAssumption ==
  /\ NBUF \in Nat \ {0} /\ MAXPINS \in Nat
  /\ IsFiniteSet(Proc)
  /\ None \notin Proc \cup Block \cup Val \cup 1..NBUF

VARIABLES
  buf,      \* each buffer: blockno, valid, refcnt, data, and the holder of its lock
  lru,      \* the buffers from bcache.head.next on, most recently used first
  disk,     \* the blocks on the disk
  pins,     \* the blocks the log has pinned
  pc,       \* control point of each process
  mine      \* the buffer a process is about to get or has: one use of a buffer is
            \* one process here, and the code may have two in one process

vars == <<buf, lru, disk, pins, pc, mine>>

Buf == 1..NBUF

Init ==
  /\ buf = [i \in Buf |-> [blockno |-> None, valid |-> FALSE, refcnt |-> 0,
                           data |-> None, locked |-> None]]
  /\ lru = [i \in Buf |-> NBUF + 1 - i]
  /\ disk \in [Block -> Val]
  /\ pins = {}
  /\ pc = [p \in Proc |-> "idle"]
  /\ mine = [p \in Proc |-> None]
-----------------------------------------------------------------------------
CachedValid(b) == {i \in Buf : buf[i].blockno = b /\ buf[i].valid}
Cached(b) == {i \in Buf : buf[i].blockno = b}
Unused == {i \in Buf : buf[i].refcnt = 0}

\* bcache.lock can be had.
LockFree == \A q \in Proc : pc[q] # "panic"

\* bget(): the buffer of the block, found first from the front of the list.
Hit(p, b) ==
  /\ LockFree /\ pc[p] = "idle"
  /\ \E i \in Cached(b) :
       /\ buf' = [buf EXCEPT ![i].refcnt = @ + 1]
       /\ mine' = [mine EXCEPT ![p] = i]
  /\ pc' = [pc EXCEPT ![p] = "lock"]
  /\ UNCHANGED <<lru, disk, pins>>

\* bget(): the unused buffer nearest to the end of the list becomes the
\* buffer of the block.
RecyclableAny == Buf
Recyclable == Unused
LeastRecent(n) == lru[n] \in Recyclable /\ \A k \in Buf : k > n => lru[k] \notin Recyclable
Recycle(p, b) ==
  /\ LockFree /\ pc[p] = "idle" /\ Cached(b) = {}
  /\ \E n \in Buf :
       /\ LeastRecent(n)
       /\ buf' = [buf EXCEPT ![lru[n]].blockno = b, ![lru[n]].valid = FALSE, ![lru[n]].refcnt = 1]
       /\ mine' = [mine EXCEPT ![p] = lru[n]]
  /\ pc' = [pc EXCEPT ![p] = "lock"]
  /\ UNCHANGED <<lru, disk, pins>>

\* bget() finds no buffer: it panics, and bcache.lock is never released.
Panic(p, b) ==
  /\ LockFree /\ pc[p] = "idle" /\ Cached(b) = {} /\ Unused = {}
  /\ pc' = [pc EXCEPT ![p] = "panic"]
  /\ UNCHANGED <<buf, lru, disk, pins, mine>>
-----------------------------------------------------------------------------
\* acquiresleep(); bread() returns at once if the buffer is valid.
Lock(p) ==
  /\ pc[p] = "lock" /\ buf[mine[p]].locked = None
  /\ buf' = [buf EXCEPT ![mine[p]].locked = p]
  /\ pc' = [pc EXCEPT ![p] = IF buf[mine[p]].valid THEN "held" ELSE "read"]
  /\ UNCHANGED <<lru, disk, pins, mine>>

LockSleeps(p) ==
  /\ pc[p] = "lock" /\ buf[mine[p]].locked # None
  /\ pc' = [pc EXCEPT ![p] = "sleep"]
  /\ UNCHANGED <<buf, lru, disk, pins, mine>>

\* bread() reads the block from the disk.
Read(p) ==
  /\ pc[p] = "read"
  /\ buf' = [buf EXCEPT ![mine[p]].data = disk[buf[mine[p]].blockno], ![mine[p]].valid = TRUE]
  /\ pc' = [pc EXCEPT ![p] = "held"]
  /\ UNCHANGED <<lru, disk, pins, mine>>

\* The holder changes b->data.
Change(p, v) ==
  /\ pc[p] = "held"
  /\ buf' = [buf EXCEPT ![mine[p]].data = v]
  /\ UNCHANGED <<lru, disk, pins, pc, mine>>

\* bwrite().
Write(p) ==
  /\ pc[p] = "held"
  /\ disk' = [disk EXCEPT ![buf[mine[p]].blockno] = buf[mine[p]].data]
  /\ UNCHANGED <<buf, lru, pins, pc, mine>>

\* bpin() of a block the log takes in, and bunpin() when it is home.
Pin(p) ==
  /\ LockFree /\ pc[p] = "held" /\ buf[mine[p]].blockno \notin pins /\ Cardinality(pins) < MAXPINS
  /\ pins' = pins \cup {buf[mine[p]].blockno}
  /\ buf' = [buf EXCEPT ![mine[p]].refcnt = @ + 1]
  /\ UNCHANGED <<lru, disk, pc, mine>>

DroppedNot(n) == n
Dropped(n) == n - 1
Unpin(p) ==
  /\ LockFree /\ pc[p] = "held" /\ buf[mine[p]].blockno \in pins
  /\ pins' = pins \ {buf[mine[p]].blockno}
  /\ buf' = [buf EXCEPT ![mine[p]].refcnt = Dropped(@)]
  /\ UNCHANGED <<lru, disk, pc, mine>>

\* brelse(): releasesleep() wakes whoever waits for the lock ...
SleepersNone(i) == {}
Sleepers(i) == {q \in Proc : pc[q] = "sleep" /\ mine[q] = i}
Release(p) ==
  /\ pc[p] = "held"
  /\ buf' = [buf EXCEPT ![mine[p]].locked = None]
  /\ pc' = [q \in Proc |-> IF q = p THEN "brelse"
                           ELSE IF q \in Sleepers(mine[p]) THEN "lock" ELSE pc[q]]
  /\ UNCHANGED <<lru, disk, pins, mine>>

\* ... and then the reference goes; an unused buffer moves to the front.
Unref(p) ==
  /\ LockFree /\ pc[p] = "brelse"
  /\ LET i == mine[p] IN
       /\ buf' = [buf EXCEPT ![i].refcnt = Dropped(@)]
       /\ lru' = IF buf[i].refcnt = 1 THEN <<i>> \o Remove(lru, i) ELSE lru
  /\ pc' = [pc EXCEPT ![p] = "idle"]
  /\ mine' = [mine EXCEPT ![p] = None]
  /\ UNCHANGED <<disk, pins>>
-----------------------------------------------------------------------------
Next ==
  \E p \in Proc :
    \/ \E b \in Block : Hit(p, b) \/ Recycle(p, b) \/ Panic(p, b)
    \/ Lock(p) \/ LockSleeps(p) \/ Read(p)
    \/ \E v \in Val : Change(p, v)
    \/ Write(p) \/ Pin(p) \/ Unpin(p)
    \/ Release(p) \/ Unref(p)

Spec == Init /\ [][Next]_vars
-----------------------------------------------------------------------------
\* A buffer has one reference for each process between bget() and the end of
\* brelse() and one for the log's pin: none is forgotten, so buffers become
\* free again, and none goes twice (bio.c:68, 82, 125, 142, 149).
Users(i) == {p \in Proc : mine[p] = i}
RefsExact ==
  \A i \in Buf : buf[i].refcnt = Cardinality(Users(i)) + (IF buf[i].blockno \in pins THEN 1 ELSE 0)

\* No block has two buffers, although bget() gives up bcache.lock before it has
\* the buffer's lock (bio.c:63-87).
OneBuffer == \A b \in Block : Cardinality(Cached(b)) <= 1

\* Nobody sleeps for a lock that is free (sleeplock.c:25-26, 37-39).
SleeperHasHolder == \A p \in Proc : pc[p] = "sleep" => buf[mine[p]].locked # None

\* bget() panics only when the log's pins and the buffers the other processes
\* have really take up the whole cache (bio.c:88).
PanicOnlyWhenFull ==
  \A p \in Proc : pc[p] = "panic" =>
    NBUF <= Cardinality(pins) + Cardinality({q \in Proc : mine[q] # None})

\* Processes see the blocks as BlockStore promises (bio.c:92-151).
Holder(b) == {p \in Proc : pc[p] = "held" /\ buf[mine[p]].blockno = b}
Store == INSTANCE BlockStore WITH
  holder <- [b \in Block |-> IF Holder(b) = {} THEN None ELSE CHOOSE p \in Holder(b) : TRUE],
  content <- [b \in Block |->
                IF \E i \in Cached(b) : buf[i].valid
                THEN buf[CHOOSE i \in Cached(b) : buf[i].valid].data ELSE disk[b]],
  stable <- disk,
  pinned <- pins
ImplementsBlockStore == Store!Spec
=============================================================================
