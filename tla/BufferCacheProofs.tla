------------------------- MODULE BufferCacheProofs --------------------------
(***************************************************************************)
(* The buffer cache keeps its references exact and has one buffer for a    *)
(* block, and implements BlockStore, for any number of processes, blocks,  *)
(* contents and buffers.  The order of the LRU list plays no part in it.   *)
(***************************************************************************)
EXTENDS BufferCache, FiniteSetTheorems, TLAPS

Pc == {"idle", "panic", "lock", "sleep", "read", "held", "brelse"}

\* Every variable but lru keeps its type (bio.c:26-35, buf.h:1-12).
TypeOK ==
  /\ buf \in [Buf -> [blockno : Block \cup {None}, valid : BOOLEAN, refcnt : Nat,
                      data : Val \cup {None}, locked : Proc \cup {None}]]
  /\ disk \in [Block -> Val]
  /\ pins \in SUBSET Block
  /\ pc \in [Proc -> Pc]
  /\ mine \in [Proc -> Buf \cup {None}]

\* A process between bget() and brelse() has a buffer, and that is of a block.
MineOK ==
  \A p \in Proc :
    /\ mine[p] \in Buf <=> pc[p] \notin {"idle", "panic"}
    /\ mine[p] \in Buf => buf[mine[p]].blockno \in Block

\* The lock of a buffer is with the one process that reads or uses it.
HolderOK ==
  \A p \in Proc, i \in Buf : buf[i].locked = p <=> mine[p] = i /\ pc[p] \in {"read", "held"}

\* A valid buffer has a block and contents, and what a process uses is valid.
ValidOK ==
  /\ \A i \in Buf : buf[i].valid => buf[i].blockno \in Block /\ buf[i].data \in Val
  /\ \A p \in Proc : /\ pc[p] = "held" => buf[mine[p]].valid
                     /\ pc[p] = "read" => ~buf[mine[p]].valid

\* OneBuffer, without cardinalities.
Distinct ==
  \A i, j \in Buf : buf[i].blockno \in Block /\ buf[i].blockno = buf[j].blockno => i = j

\* What is pinned is in the cache.
PinsOK == \A b \in pins : \E i \in Buf : buf[i].blockno = b /\ buf[i].valid

\* What exact references tell about a buffer in use, and about one that is not.
Counts ==
  \A i \in Buf :
    /\ \A p \in Proc : mine[p] = i => buf[i].refcnt >= 1
    /\ buf[i].blockno \in pins => buf[i].refcnt >= 1
    /\ \A p \in Proc : mine[p] = i /\ buf[i].blockno \in pins => buf[i].refcnt >= 2

\* The inductive invariant.
IInv == TypeOK /\ MineOK /\ HolderOK /\ ValidOK /\ Distinct /\ PinsOK /\ RefsExact
-----------------------------------------------------------------------------

\* A buffer has finitely many users.
LEMMA UsersFinite ==
  ASSUME NEW i \in Buf
  PROVE  IsFiniteSet(Users(i)) /\ Cardinality(Users(i)) \in Nat
<1>1. Users(i) \in SUBSET Proc /\ IsFiniteSet(Proc)
  BY CacheAssumption DEF Users
<1>2. IsFiniteSet(Users(i))
  BY <1>1, FS_Subset
<1>. QED  BY <1>2, FS_CardinalityType

\* What Unref does apart from the list.
LEMMA UnrefDrops ==
  ASSUME NEW p \in Proc, Unref(p)
  PROVE  /\ pc[p] = "brelse" /\ UNCHANGED <<disk, pins>>
         /\ buf' = [buf EXCEPT ![mine[p]].refcnt = Dropped(@)]
         /\ pc' = [pc EXCEPT ![p] = "idle"]
         /\ mine' = [mine EXCEPT ![p] = None]
BY DEF Unref

\* No buffer is called None.
LEMMA NoneNoBuf == None \notin Buf
BY CacheAssumption DEF Buf

\* What a holder has in his hands.
LEMMA HeldValid ==
  ASSUME TypeOK, MineOK, ValidOK, NEW p \in Proc, pc[p] = "held"
  PROVE  /\ mine[p] \in Buf /\ buf[mine[p]].blockno \in Block
         /\ buf[mine[p]].valid /\ buf[mine[p]].data \in Val
<1>1. mine[p] \in Buf /\ buf[mine[p]].blockno \in Block
  BY DEF MineOK
<1>2. buf[mine[p]].valid
  BY <1>1 DEF ValidOK, TypeOK
<1>. QED  BY <1>1, <1>2 DEF ValidOK

\* Exact references are at least one for a user and one for a pin.
LEMMA RefsCount == TypeOK /\ RefsExact => Counts
<1>. SUFFICES ASSUME TypeOK, RefsExact, NEW i \in Buf
              PROVE  /\ \A p \in Proc : mine[p] = i => Cardinality(Users(i)) >= 1
                     /\ Cardinality(Users(i)) \in Nat
  BY DEF RefsExact, Counts
<1>1. ASSUME NEW p \in Proc, mine[p] = i PROVE Cardinality(Users(i)) # 0
  <2>1. p \in Users(i)
    BY <1>1 DEF Users
  <2>. QED  BY <2>1, UsersFinite, FS_EmptySet
<1>. QED  BY <1>1, UsersFinite

\* Types are kept; what brelse() takes away is there.
LEMMA TypeStep == TypeOK /\ MineOK /\ ValidOK /\ Counts /\ [Next]_vars => TypeOK'
<1>. SUFFICES ASSUME TypeOK, MineOK, ValidOK, Counts, [Next]_vars PROVE TypeOK'
  OBVIOUS
<1>. USE CacheAssumption DEF TypeOK, Pc, MineOK, Counts
<1>1. ASSUME NEW p \in Proc, NEW b \in Block, Hit(p, b) PROVE TypeOK'
  BY <1>1 DEF Hit, Cached
<1>2. ASSUME NEW p \in Proc, NEW b \in Block, Recycle(p, b) PROVE TypeOK'
  BY <1>2 DEF Recycle, Cached, LeastRecent, Recyclable, Unused
<1>3. ASSUME NEW p \in Proc, NEW b \in Block, Panic(p, b) PROVE TypeOK'
  BY <1>3 DEF Panic
<1>4. ASSUME NEW p \in Proc, Lock(p) PROVE TypeOK'
  BY <1>4 DEF Lock
<1>5. ASSUME NEW p \in Proc, LockSleeps(p) PROVE TypeOK'
  BY <1>5 DEF LockSleeps
<1>6. ASSUME NEW p \in Proc, Read(p) PROVE TypeOK'
  <2>1. mine[p] \in Buf /\ buf[mine[p]].blockno \in Block
    BY <1>6 DEF Read
  <2>2. PICK v \in Val : v = disk[buf[mine[p]].blockno]
    BY <2>1
  <2>3. /\ buf' = [buf EXCEPT ![mine[p]].data = v, ![mine[p]].valid = TRUE]
        /\ pc' = [pc EXCEPT ![p] = "held"] /\ UNCHANGED <<disk, pins, mine>>
    BY <1>6, <2>2 DEF Read
  <2>. QED  BY <2>1, <2>3
<1>7. ASSUME NEW p \in Proc, NEW v \in Val, Change(p, v) PROVE TypeOK'
  BY <1>7 DEF Change
<1>8. ASSUME NEW p \in Proc, Write(p) PROVE TypeOK'
  <2>1. mine[p] \in Buf /\ buf[mine[p]].data \in Val
    BY <1>8, HeldValid DEF Write
  <2>. QED  BY <1>8, <2>1 DEF Write
<1>9. ASSUME NEW p \in Proc, Pin(p) PROVE TypeOK'
  BY <1>9 DEF Pin
<1>10. ASSUME NEW p \in Proc, Unpin(p) PROVE TypeOK'
  BY <1>10 DEF Unpin, Dropped
<1>11. ASSUME NEW p \in Proc, Release(p) PROVE TypeOK'
  BY <1>11 DEF Release, Sleepers
<1>12. ASSUME NEW p \in Proc, Unref(p) PROVE TypeOK'
  <2>1. /\ pc[p] = "brelse" /\ UNCHANGED <<disk, pins>>
        /\ buf' = [buf EXCEPT ![mine[p]].refcnt = Dropped(@)]
        /\ pc' = [pc EXCEPT ![p] = "idle"]
        /\ mine' = [mine EXCEPT ![p] = None]
    BY <1>12, UnrefDrops
  <2>2. mine[p] \in Buf /\ buf[mine[p]].refcnt >= 1 /\ None \notin Buf
    BY <2>1, NoneNoBuf
  <2>3. PICK n \in Nat : n = Dropped(buf[mine[p]].refcnt)
    BY <2>2 DEF Dropped
  <2>4. buf' = [buf EXCEPT ![mine[p]].refcnt = n]
    BY <2>1, <2>3
  <2>5. buf' \in [Buf -> [blockno : Block \cup {None}, valid : BOOLEAN, refcnt : Nat,
                          data : Val \cup {None}, locked : Proc \cup {None}]]
    BY <2>2, <2>4
  <2>6. pc' \in [Proc -> Pc] /\ mine' \in [Proc -> Buf \cup {None}]
    BY <2>1
  <2>. QED  BY <2>1, <2>5, <2>6
<1>13. CASE UNCHANGED vars
  BY <1>13 DEF vars
<1>. QED  BY <1>1, <1>2, <1>3, <1>4, <1>5, <1>6, <1>7, <1>8, <1>9, <1>10, <1>11, <1>12, <1>13 DEF Next

\* bget() gives a buffer with a block, brelse() takes it back.
LEMMA MineStep == TypeOK /\ MineOK /\ Counts /\ [Next]_vars => MineOK'
<1>. SUFFICES ASSUME TypeOK, MineOK, Counts, [Next]_vars PROVE MineOK'
  OBVIOUS
<1>. USE CacheAssumption DEF TypeOK, Pc, MineOK, Counts
<1>1. ASSUME NEW p \in Proc, NEW b \in Block, Hit(p, b) PROVE MineOK'
  BY <1>1 DEF Hit, Cached
<1>2. ASSUME NEW p \in Proc, NEW b \in Block, Recycle(p, b) PROVE MineOK'
  BY <1>2 DEF Recycle, Cached, LeastRecent, Recyclable, Unused
<1>3. ASSUME NEW p \in Proc, NEW b \in Block, Panic(p, b) PROVE MineOK'
  BY <1>3 DEF Panic
<1>4. ASSUME NEW p \in Proc, Lock(p) PROVE MineOK'
  BY <1>4 DEF Lock
<1>5. ASSUME NEW p \in Proc, LockSleeps(p) PROVE MineOK'
  BY <1>5 DEF LockSleeps
<1>6. ASSUME NEW p \in Proc, Read(p) PROVE MineOK'
  BY <1>6 DEF Read
<1>7. ASSUME NEW p \in Proc, NEW v \in Val, Change(p, v) PROVE MineOK'
  BY <1>7 DEF Change
<1>8. ASSUME NEW p \in Proc, Write(p) PROVE MineOK'
  BY <1>8 DEF Write
<1>9. ASSUME NEW p \in Proc, Pin(p) PROVE MineOK'
  BY <1>9 DEF Pin
<1>10. ASSUME NEW p \in Proc, Unpin(p) PROVE MineOK'
  BY <1>10 DEF Unpin, Dropped
<1>11. ASSUME NEW p \in Proc, Release(p) PROVE MineOK'
  BY <1>11 DEF Release, Sleepers
<1>12. ASSUME NEW p \in Proc, Unref(p) PROVE MineOK'
  <2>1. /\ pc[p] = "brelse" /\ UNCHANGED <<disk, pins>>
        /\ buf' = [buf EXCEPT ![mine[p]].refcnt = Dropped(@)]
        /\ pc' = [pc EXCEPT ![p] = "idle"]
        /\ mine' = [mine EXCEPT ![p] = None]
    BY <1>12, UnrefDrops
  <2>2. mine[p] \in Buf /\ buf[mine[p]].refcnt >= 1 /\ None \notin Buf
    BY <2>1, NoneNoBuf
  <2>. QED  BY <2>1, <2>2 DEF Dropped
<1>13. CASE UNCHANGED vars
  BY <1>13 DEF vars
<1>. QED  BY <1>1, <1>2, <1>3, <1>4, <1>5, <1>6, <1>7, <1>8, <1>9, <1>10, <1>11, <1>12, <1>13 DEF Next

\* A lock is taken when it is free and released by its holder.
LEMMA HolderStep == TypeOK /\ MineOK /\ HolderOK /\ [Next]_vars => HolderOK'
<1>. SUFFICES ASSUME TypeOK, MineOK, HolderOK, [Next]_vars PROVE HolderOK'
  OBVIOUS
<1>. USE CacheAssumption DEF TypeOK, Pc, MineOK, HolderOK
<1>1. ASSUME NEW p \in Proc, NEW b \in Block, Hit(p, b) PROVE HolderOK'
  BY <1>1 DEF Hit, Cached
<1>2. ASSUME NEW p \in Proc, NEW b \in Block, Recycle(p, b) PROVE HolderOK'
  BY <1>2 DEF Recycle, Cached, LeastRecent, Recyclable, Unused
<1>3. ASSUME NEW p \in Proc, NEW b \in Block, Panic(p, b) PROVE HolderOK'
  BY <1>3 DEF Panic
<1>4. ASSUME NEW p \in Proc, Lock(p) PROVE HolderOK'
  BY <1>4 DEF Lock
<1>5. ASSUME NEW p \in Proc, LockSleeps(p) PROVE HolderOK'
  BY <1>5 DEF LockSleeps
<1>6. ASSUME NEW p \in Proc, Read(p) PROVE HolderOK'
  BY <1>6 DEF Read
<1>7. ASSUME NEW p \in Proc, NEW v \in Val, Change(p, v) PROVE HolderOK'
  BY <1>7 DEF Change
<1>8. ASSUME NEW p \in Proc, Write(p) PROVE HolderOK'
  BY <1>8 DEF Write
<1>9. ASSUME NEW p \in Proc, Pin(p) PROVE HolderOK'
  BY <1>9 DEF Pin
<1>10. ASSUME NEW p \in Proc, Unpin(p) PROVE HolderOK'
  BY <1>10 DEF Unpin, Dropped
<1>11. ASSUME NEW p \in Proc, Release(p) PROVE HolderOK'
  BY <1>11 DEF Release, Sleepers
<1>12. ASSUME NEW p \in Proc, Unref(p) PROVE HolderOK'
  BY <1>12 DEF Unref, Dropped
<1>13. CASE UNCHANGED vars
  BY <1>13 DEF vars
<1>. QED  BY <1>1, <1>2, <1>3, <1>4, <1>5, <1>6, <1>7, <1>8, <1>9, <1>10, <1>11, <1>12, <1>13 DEF Next

\* A buffer becomes valid under its lock and invalid only when nobody has it.
LEMMA ValidStep == TypeOK /\ MineOK /\ HolderOK /\ ValidOK /\ [Next]_vars => ValidOK'
<1>. SUFFICES ASSUME TypeOK, MineOK, HolderOK, ValidOK, [Next]_vars PROVE ValidOK'
  OBVIOUS
<1>. USE CacheAssumption DEF TypeOK, Pc, MineOK, HolderOK, ValidOK
<1>1. ASSUME NEW p \in Proc, NEW b \in Block, Hit(p, b) PROVE ValidOK'
  BY <1>1 DEF Hit, Cached
<1>2. ASSUME NEW p \in Proc, NEW b \in Block, Recycle(p, b) PROVE ValidOK'
  BY <1>2 DEF Recycle, Cached, LeastRecent, Recyclable, Unused
<1>3. ASSUME NEW p \in Proc, NEW b \in Block, Panic(p, b) PROVE ValidOK'
  BY <1>3 DEF Panic
<1>4. ASSUME NEW p \in Proc, Lock(p) PROVE ValidOK'
  BY <1>4 DEF Lock
<1>5. ASSUME NEW p \in Proc, LockSleeps(p) PROVE ValidOK'
  BY <1>5 DEF LockSleeps
<1>6. ASSUME NEW p \in Proc, Read(p) PROVE ValidOK'
  BY <1>6 DEF Read
<1>7. ASSUME NEW p \in Proc, NEW v \in Val, Change(p, v) PROVE ValidOK'
  BY <1>7 DEF Change
<1>8. ASSUME NEW p \in Proc, Write(p) PROVE ValidOK'
  BY <1>8 DEF Write
<1>9. ASSUME NEW p \in Proc, Pin(p) PROVE ValidOK'
  BY <1>9 DEF Pin
<1>10. ASSUME NEW p \in Proc, Unpin(p) PROVE ValidOK'
  BY <1>10 DEF Unpin, Dropped
<1>11. ASSUME NEW p \in Proc, Release(p) PROVE ValidOK'
  BY <1>11 DEF Release, Sleepers
<1>12. ASSUME NEW p \in Proc, Unref(p) PROVE ValidOK'
  BY <1>12 DEF Unref, Dropped
<1>13. CASE UNCHANGED vars
  BY <1>13 DEF vars
<1>. QED  BY <1>1, <1>2, <1>3, <1>4, <1>5, <1>6, <1>7, <1>8, <1>9, <1>10, <1>11, <1>12, <1>13 DEF Next

\* bget() recycles only when the block has no buffer.
LEMMA DistinctStep == TypeOK /\ MineOK /\ Distinct /\ [Next]_vars => Distinct'
<1>. SUFFICES ASSUME TypeOK, MineOK, Distinct, [Next]_vars PROVE Distinct'
  OBVIOUS
<1>. USE CacheAssumption DEF TypeOK, Distinct
<1>1. ASSUME NEW p \in Proc, NEW b \in Block, Hit(p, b) PROVE Distinct'
  BY <1>1 DEF Hit, Cached
<1>2. ASSUME NEW p \in Proc, NEW b \in Block, Recycle(p, b) PROVE Distinct'
  BY <1>2 DEF Recycle, Cached, LeastRecent, Recyclable, Unused
<1>3. ASSUME NEW p \in Proc, NEW b \in Block, Panic(p, b) PROVE Distinct'
  BY <1>3 DEF Panic
<1>4. ASSUME NEW p \in Proc, Lock(p) PROVE Distinct'
  BY <1>4 DEF Lock
<1>5. ASSUME NEW p \in Proc, LockSleeps(p) PROVE Distinct'
  BY <1>5 DEF LockSleeps
<1>6. ASSUME NEW p \in Proc, Read(p) PROVE Distinct'
  BY <1>6 DEF Read
<1>7. ASSUME NEW p \in Proc, NEW v \in Val, Change(p, v) PROVE Distinct'
  BY <1>7 DEF Change
<1>8. ASSUME NEW p \in Proc, Write(p) PROVE Distinct'
  BY <1>8 DEF Write
<1>9. ASSUME NEW p \in Proc, Pin(p) PROVE Distinct'
  BY <1>9 DEF Pin
<1>10. ASSUME NEW p \in Proc, Unpin(p) PROVE Distinct'
  BY <1>10 DEF Unpin, Dropped
<1>11. ASSUME NEW p \in Proc, Release(p) PROVE Distinct'
  BY <1>11 DEF Release, Sleepers
<1>12. ASSUME NEW p \in Proc, Unref(p) PROVE Distinct'
  BY <1>12 DEF Unref, Dropped
<1>13. CASE UNCHANGED vars
  BY <1>13 DEF vars
<1>. QED  BY <1>1, <1>2, <1>3, <1>4, <1>5, <1>6, <1>7, <1>8, <1>9, <1>10, <1>11, <1>12, <1>13 DEF Next

\* A pinned buffer has a reference and is not recycled.
LEMMA PinsStep == TypeOK /\ MineOK /\ ValidOK /\ Counts /\ PinsOK /\ [Next]_vars => PinsOK'
<1>. SUFFICES ASSUME TypeOK, MineOK, ValidOK, Counts, PinsOK, [Next]_vars PROVE PinsOK'
  OBVIOUS
<1>. USE CacheAssumption DEF TypeOK, MineOK, ValidOK, PinsOK, Counts
<1>1. ASSUME NEW p \in Proc, NEW b \in Block, Hit(p, b) PROVE PinsOK'
  BY <1>1 DEF Hit, Cached
<1>2. ASSUME NEW p \in Proc, NEW b \in Block, Recycle(p, b) PROVE PinsOK'
  BY <1>2 DEF Recycle, Cached, LeastRecent, Recyclable, Unused
<1>3. ASSUME NEW p \in Proc, NEW b \in Block, Panic(p, b) PROVE PinsOK'
  BY <1>3 DEF Panic
<1>4. ASSUME NEW p \in Proc, Lock(p) PROVE PinsOK'
  BY <1>4 DEF Lock
<1>5. ASSUME NEW p \in Proc, LockSleeps(p) PROVE PinsOK'
  BY <1>5 DEF LockSleeps
<1>6. ASSUME NEW p \in Proc, Read(p) PROVE PinsOK'
  BY <1>6 DEF Read
<1>7. ASSUME NEW p \in Proc, NEW v \in Val, Change(p, v) PROVE PinsOK'
  BY <1>7 DEF Change
<1>8. ASSUME NEW p \in Proc, Write(p) PROVE PinsOK'
  BY <1>8 DEF Write
<1>9. ASSUME NEW p \in Proc, Pin(p) PROVE PinsOK'
  <2>1. /\ mine[p] \in Buf /\ buf[mine[p]].valid
        /\ pins' = pins \cup {buf[mine[p]].blockno}
        /\ buf' = [buf EXCEPT ![mine[p]].refcnt = @ + 1]
    BY <1>9, HeldValid DEF Pin
  <2>2. \A j \in Buf : buf'[j].blockno = buf[j].blockno /\ buf'[j].valid = buf[j].valid
    BY <2>1
  <2>. QED  BY <2>1, <2>2
<1>10. ASSUME NEW p \in Proc, Unpin(p) PROVE PinsOK'
  BY <1>10 DEF Unpin, Dropped
<1>11. ASSUME NEW p \in Proc, Release(p) PROVE PinsOK'
  BY <1>11 DEF Release, Sleepers
<1>12. ASSUME NEW p \in Proc, Unref(p) PROVE PinsOK'
  BY <1>12 DEF Unref, Dropped
<1>13. CASE UNCHANGED vars
  BY <1>13 DEF vars
<1>. QED  BY <1>1, <1>2, <1>3, <1>4, <1>5, <1>6, <1>7, <1>8, <1>9, <1>10, <1>11, <1>12, <1>13 DEF Next

-----------------------------------------------------------------------------
(* References. *)

\* Users change only with mine.
LEMMA UsersSame == ASSUME UNCHANGED mine, NEW i PROVE Users(i)' = Users(i)
BY DEF Users

\* bget() adds one user.
LEMMA UsersGain ==
  ASSUME TypeOK, NEW p \in Proc, NEW i \in Buf, mine[p] \notin Buf,
         mine' = [mine EXCEPT ![p] = i]
  PROVE  /\ Cardinality(Users(i)') = Cardinality(Users(i)) + 1
         /\ \A j \in Buf \ {i} : Users(j)' = Users(j)
<1>1. Users(i)' = Users(i) \cup {p} /\ p \notin Users(i)
  BY DEF Users, TypeOK
<1>2. \A j \in Buf \ {i} : Users(j)' = Users(j)
  BY DEF Users, TypeOK
<1>. QED  BY <1>1, <1>2, UsersFinite, FS_AddElement

\* brelse() takes one user away.
LEMMA UsersLose ==
  ASSUME TypeOK, NEW p \in Proc, NEW i \in Buf, mine[p] = i, mine' = [mine EXCEPT ![p] = None]
  PROVE  /\ Cardinality(Users(i)') = Cardinality(Users(i)) - 1
         /\ \A j \in Buf \ {i} : Users(j)' = Users(j)
<1>1. Users(i)' = Users(i) \ {p} /\ p \in Users(i)
  BY NoneNoBuf DEF Users, TypeOK
<1>2. \A j \in Buf \ {i} : Users(j)' = Users(j)
  BY NoneNoBuf DEF Users, TypeOK
<1>. QED  BY <1>1, <1>2, UsersFinite, FS_RemoveElement

\* A step that leaves references, pins and the identity of buffers alone.
LEMMA RefsSame ==
  ASSUME TypeOK, RefsExact, UNCHANGED <<mine, pins>>,
         \A i \in Buf : buf'[i].refcnt = buf[i].refcnt /\ buf'[i].blockno = buf[i].blockno
  PROVE  RefsExact'
BY UsersSame DEF RefsExact

\* Each step changes the count of a buffer as it changes its users and its pin.
LEMMA RefsStep ==
  TypeOK /\ MineOK /\ Distinct /\ PinsOK /\ RefsExact /\ [Next]_vars => RefsExact'
<1>. SUFFICES ASSUME TypeOK, MineOK, Distinct, PinsOK, RefsExact, [Next]_vars PROVE RefsExact'
  OBVIOUS
<1>0. Counts
  BY RefsCount
<1>1. ASSUME NEW p \in Proc, NEW b \in Block, Hit(p, b) PROVE RefsExact'
  <2>1. PICK i \in Buf : /\ buf' = [buf EXCEPT ![i].refcnt = @ + 1]
                         /\ mine' = [mine EXCEPT ![p] = i]
    BY <1>1 DEF Hit, Cached
  <2>2. mine[p] \notin Buf /\ UNCHANGED pins
    BY <1>1 DEF Hit, MineOK
  <2>3. Cardinality(Users(i)') = Cardinality(Users(i)) + 1 /\ \A j \in Buf \ {i} : Users(j)' = Users(j)
    BY <2>1, <2>2, UsersGain
  <2>4. \A j \in Buf : /\ buf'[j].blockno = buf[j].blockno
                       /\ buf'[j].refcnt = IF j = i THEN buf[j].refcnt + 1 ELSE buf[j].refcnt
    BY <2>1 DEF TypeOK
  <2>. QED  BY <2>2, <2>3, <2>4, UsersFinite DEF RefsExact
<1>2. ASSUME NEW p \in Proc, NEW b \in Block, Recycle(p, b) PROVE RefsExact'
  <2>1. PICK i \in Unused : /\ buf' = [buf EXCEPT ![i].blockno = b, ![i].valid = FALSE, ![i].refcnt = 1]
                            /\ mine' = [mine EXCEPT ![p] = i]
    BY <1>2 DEF Recycle, LeastRecent, Recyclable
  <2>2. mine[p] \notin Buf /\ UNCHANGED pins /\ Cached(b) = {}
    BY <1>2 DEF Recycle, MineOK
  <2>3. i \in Buf /\ buf[i].refcnt = 0
    BY DEF Unused
  <2>4. Cardinality(Users(i)') = Cardinality(Users(i)) + 1 /\ \A j \in Buf \ {i} : Users(j)' = Users(j)
    BY <2>1, <2>2, <2>3, UsersGain
  <2>5. b \notin pins
    BY <2>2 DEF PinsOK, Cached
  <2>6. Cardinality(Users(i)) = 0
    BY <2>3, UsersFinite DEF RefsExact
  <2>7. \A j \in Buf : IF j = i THEN buf'[j].blockno = b /\ buf'[j].refcnt = 1 ELSE buf'[j] = buf[j]
    BY <2>1, <2>3 DEF TypeOK
  <2>. QED  BY <2>2, <2>3, <2>4, <2>5, <2>6, <2>7 DEF RefsExact
<1>3. ASSUME NEW p \in Proc, Pin(p) PROVE RefsExact'
  <2>. DEFINE i == mine[p]
  <2>1. i \in Buf /\ buf[i].blockno \in Block
    BY <1>3 DEF Pin, MineOK, TypeOK
  <2>2. \A j \in Buf : /\ buf'[j].blockno = buf[j].blockno
                       /\ buf'[j].refcnt = IF j = i THEN buf[j].refcnt + 1 ELSE buf[j].refcnt
    BY <1>3, <2>1 DEF Pin, TypeOK
  <2>3. /\ buf[i].blockno \notin pins /\ buf[i].blockno \in pins'
        /\ \A j \in Buf \ {i} : buf[j].blockno \in pins' <=> buf[j].blockno \in pins
    BY <1>3, <2>1 DEF Pin, Distinct, TypeOK
  <2>4. \A j \in Buf : Users(j)' = Users(j)
    BY <1>3, UsersSame DEF Pin
  <2>. QED  BY <2>1, <2>2, <2>3, <2>4, UsersFinite DEF RefsExact
<1>4. ASSUME NEW p \in Proc, Unpin(p) PROVE RefsExact'
  <2>. DEFINE i == mine[p]
  <2>1. i \in Buf /\ buf[i].blockno \in Block
    BY <1>4 DEF Unpin, MineOK, TypeOK
  <2>2. \A j \in Buf : /\ buf'[j].blockno = buf[j].blockno
                       /\ buf'[j].refcnt = IF j = i THEN buf[j].refcnt - 1 ELSE buf[j].refcnt
    BY <1>4, <2>1 DEF Unpin, Dropped, TypeOK
  <2>3. /\ buf[i].blockno \in pins /\ buf[i].blockno \notin pins'
        /\ \A j \in Buf \ {i} : buf[j].blockno \in pins' <=> buf[j].blockno \in pins
    BY <1>4, <2>1 DEF Unpin, Distinct, TypeOK
  <2>4. \A j \in Buf : Users(j)' = Users(j)
    BY <1>4, UsersSame DEF Unpin
  <2>. QED  BY <2>1, <2>2, <2>3, <2>4, UsersFinite DEF RefsExact
<1>5. ASSUME NEW p \in Proc, Unref(p) PROVE RefsExact'
  <2>1. /\ pc[p] = "brelse" /\ UNCHANGED pins
        /\ buf' = [buf EXCEPT ![mine[p]].refcnt = Dropped(@)]
        /\ mine' = [mine EXCEPT ![p] = None]
    BY <1>5, UnrefDrops
  <2>2. PICK i \in Buf : i = mine[p]
    BY <2>1 DEF MineOK
  <2>3. Cardinality(Users(i)') = Cardinality(Users(i)) - 1 /\ \A j \in Buf \ {i} : Users(j)' = Users(j)
    BY <2>1, <2>2, UsersLose
  <2>4. \A j \in Buf : /\ buf'[j].blockno = buf[j].blockno
                       /\ buf'[j].refcnt = IF j = i THEN buf[j].refcnt - 1 ELSE buf[j].refcnt
    BY <2>1, <2>2 DEF Dropped, TypeOK
  <2>. QED  BY <2>1, <2>2, <2>3, <2>4, UsersFinite DEF RefsExact
<1>6. ASSUME NEW p \in Proc, NEW b \in Block, Panic(p, b) PROVE RefsExact'
  BY <1>6, RefsSame DEF Panic
<1>7. ASSUME NEW p \in Proc, Lock(p) PROVE RefsExact'
  <2>1. \A i \in Buf : buf'[i].refcnt = buf[i].refcnt /\ buf'[i].blockno = buf[i].blockno
    BY <1>7 DEF Lock, TypeOK
  <2>. QED  BY <1>7, <2>1, RefsSame DEF Lock
<1>8. ASSUME NEW p \in Proc, LockSleeps(p) PROVE RefsExact'
  BY <1>8, RefsSame DEF LockSleeps
<1>9. ASSUME NEW p \in Proc, Read(p) PROVE RefsExact'
  <2>1. \A i \in Buf : buf'[i].refcnt = buf[i].refcnt /\ buf'[i].blockno = buf[i].blockno
    BY <1>9 DEF Read, TypeOK
  <2>. QED  BY <1>9, <2>1, RefsSame DEF Read
<1>10. ASSUME NEW p \in Proc, NEW v \in Val, Change(p, v) PROVE RefsExact'
  <2>1. \A i \in Buf : buf'[i].refcnt = buf[i].refcnt /\ buf'[i].blockno = buf[i].blockno
    BY <1>10 DEF Change, TypeOK
  <2>. QED  BY <1>10, <2>1, RefsSame DEF Change
<1>11. ASSUME NEW p \in Proc, Write(p) PROVE RefsExact'
  BY <1>11, RefsSame DEF Write
<1>12. ASSUME NEW p \in Proc, Release(p) PROVE RefsExact'
  <2>1. \A i \in Buf : buf'[i].refcnt = buf[i].refcnt /\ buf'[i].blockno = buf[i].blockno
    BY <1>12 DEF Release, TypeOK
  <2>. QED  BY <1>12, <2>1, RefsSame DEF Release
<1>13. CASE UNCHANGED vars
  BY <1>13, RefsSame DEF vars
<1>. QED  BY <1>1, <1>2, <1>3, <1>4, <1>5, <1>6, <1>7, <1>8, <1>9, <1>10, <1>11, <1>12, <1>13 DEF Next
-----------------------------------------------------------------------------
\* The cache starts empty (bio.c:37-53).
LEMMA InitInv == Init => IInv
<1>. SUFFICES ASSUME Init PROVE IInv
  OBVIOUS
<1>1. TypeOK /\ MineOK /\ HolderOK /\ ValidOK /\ Distinct /\ PinsOK
  BY CacheAssumption, NoneNoBuf DEF Init, TypeOK, Pc, MineOK, HolderOK, ValidOK, Distinct, PinsOK
<1>2. \A i \in Buf : Users(i) = {} /\ buf[i].refcnt = 0 /\ pins = {}
  BY NoneNoBuf DEF Init, Users
<1>3. RefsExact
  BY <1>2, FS_EmptySet DEF RefsExact
<1>. QED  BY <1>1, <1>3 DEF IInv

\* Every step keeps the invariant.
LEMMA StepInv == IInv /\ [Next]_vars => IInv'
BY RefsCount, TypeStep, MineStep, HolderStep, ValidStep, DistinctStep, PinsStep, RefsStep DEF IInv

\* The invariant of the cache: who has which buffer, which block it is of and
\* whether it is valid (bio.c:58-152, sleeplock.c:22-42).
THEOREM Inductive == Spec => []IInv
BY InitInv, StepInv, PTL DEF Spec

\* No reference of a buffer is forgotten, and none is given back twice
\* (bio.c:68, 82, 125, 142, 149).
THEOREM ReferencesExact == Spec => []RefsExact
<1>1. IInv => RefsExact
  BY DEF IInv
<1>. QED  BY <1>1, Inductive, PTL

\* No block has two buffers (bio.c:63-87).
THEOREM OneBufferPerBlock == Spec => []OneBuffer
<1>1. ASSUME IInv PROVE OneBuffer
  <2>. SUFFICES ASSUME NEW b \in Block PROVE Cardinality(Cached(b)) <= 1
    BY DEF OneBuffer
  <2>1. CASE Cached(b) = {}
    BY <2>1, FS_EmptySet
  <2>2. CASE Cached(b) # {}
    <3>1. PICK i \in Buf : i \in Cached(b)
      BY <2>2 DEF Cached
    <3>2. Cached(b) = {i}
      BY <1>1, <3>1 DEF IInv, Distinct, Cached
    <3>. QED  BY <3>2, FS_Singleton
  <2>. QED  BY <2>1, <2>2
<1>. QED  BY <1>1, Inductive, PTL

\* releasesleep() wakes all who sleep for its lock.
LEMMA SleeperStep == IInv /\ SleeperHasHolder /\ [Next]_vars => SleeperHasHolder'
<1>. SUFFICES ASSUME IInv, SleeperHasHolder, [Next]_vars PROVE SleeperHasHolder'
  OBVIOUS
<1>. USE CacheAssumption DEF IInv, TypeOK, Pc, MineOK, HolderOK, SleeperHasHolder
<1>1. ASSUME NEW p \in Proc, NEW b \in Block, Hit(p, b) PROVE SleeperHasHolder'
  BY <1>1 DEF Hit, Cached
<1>2. ASSUME NEW p \in Proc, NEW b \in Block, Recycle(p, b) PROVE SleeperHasHolder'
  BY <1>2 DEF Recycle, Cached, LeastRecent, Recyclable, Unused
<1>3. ASSUME NEW p \in Proc, NEW b \in Block, Panic(p, b) PROVE SleeperHasHolder'
  BY <1>3 DEF Panic
<1>4. ASSUME NEW p \in Proc, Lock(p) PROVE SleeperHasHolder'
  BY <1>4 DEF Lock
<1>5. ASSUME NEW p \in Proc, LockSleeps(p) PROVE SleeperHasHolder'
  BY <1>5 DEF LockSleeps
<1>6. ASSUME NEW p \in Proc, Read(p) PROVE SleeperHasHolder'
  BY <1>6 DEF Read
<1>7. ASSUME NEW p \in Proc, NEW v \in Val, Change(p, v) PROVE SleeperHasHolder'
  BY <1>7 DEF Change
<1>8. ASSUME NEW p \in Proc, Write(p) PROVE SleeperHasHolder'
  BY <1>8 DEF Write
<1>9. ASSUME NEW p \in Proc, Pin(p) PROVE SleeperHasHolder'
  BY <1>9 DEF Pin
<1>10. ASSUME NEW p \in Proc, Unpin(p) PROVE SleeperHasHolder'
  BY <1>10 DEF Unpin, Dropped
<1>11. ASSUME NEW p \in Proc, Release(p) PROVE SleeperHasHolder'
  BY <1>11 DEF Release, Sleepers
<1>12. ASSUME NEW p \in Proc, Unref(p) PROVE SleeperHasHolder'
  <2>1. /\ pc[p] = "brelse"
        /\ buf' = [buf EXCEPT ![mine[p]].refcnt = Dropped(@)]
        /\ pc' = [pc EXCEPT ![p] = "idle"]
        /\ mine' = [mine EXCEPT ![p] = None]
    BY <1>12, UnrefDrops
  <2>. QED  BY <2>1
<1>13. CASE UNCHANGED vars
  BY <1>13 DEF vars
<1>. QED  BY <1>1, <1>2, <1>3, <1>4, <1>5, <1>6, <1>7, <1>8, <1>9, <1>10, <1>11, <1>12, <1>13 DEF Next

\* Nobody sleeps for a lock that is free (sleeplock.c:25-26, 37-39).
THEOREM NoLostWakeup == Spec => []SleeperHasHolder
<1>1. Init => SleeperHasHolder
  BY DEF Init, SleeperHasHolder
<1>. QED  BY <1>1, SleeperStep, Inductive, PTL DEF Spec
-----------------------------------------------------------------------------
(* The panic of bget(). *)

\* Once bget() has panicked, every buffer stays in use.
FullOK == \A p \in Proc, i \in Buf : pc[p] = "panic" => buf[i].refcnt # 0

\* bcache.lock is not released after the panic: no reference goes any more.
LEMMA FullStep == IInv /\ FullOK /\ [Next]_vars => FullOK'
<1>. SUFFICES ASSUME IInv, FullOK, [Next]_vars PROVE FullOK'
  OBVIOUS
<1>. USE CacheAssumption DEF IInv, TypeOK, Pc, MineOK, FullOK
<1>1. ASSUME NEW p \in Proc, NEW b \in Block, Hit(p, b) PROVE FullOK'
  BY <1>1 DEF Hit, LockFree, Cached
<1>2. ASSUME NEW p \in Proc, NEW b \in Block, Recycle(p, b) PROVE FullOK'
  BY <1>2 DEF Recycle, LockFree, LeastRecent, Recyclable, Unused
<1>3. ASSUME NEW p \in Proc, NEW b \in Block, Panic(p, b) PROVE FullOK'
  BY <1>3 DEF Panic, Unused
<1>4. ASSUME NEW p \in Proc, Lock(p) PROVE FullOK'
  BY <1>4 DEF Lock
<1>5. ASSUME NEW p \in Proc, LockSleeps(p) PROVE FullOK'
  BY <1>5 DEF LockSleeps
<1>6. ASSUME NEW p \in Proc, Read(p) PROVE FullOK'
  BY <1>6 DEF Read
<1>7. ASSUME NEW p \in Proc, NEW v \in Val, Change(p, v) PROVE FullOK'
  BY <1>7 DEF Change
<1>8. ASSUME NEW p \in Proc, Write(p) PROVE FullOK'
  BY <1>8 DEF Write
<1>9. ASSUME NEW p \in Proc, Pin(p) PROVE FullOK'
  BY <1>9 DEF Pin, LockFree
<1>10. ASSUME NEW p \in Proc, Unpin(p) PROVE FullOK'
  BY <1>10 DEF Unpin, LockFree
<1>11. ASSUME NEW p \in Proc, Release(p) PROVE FullOK'
  BY <1>11 DEF Release, Sleepers
<1>12. ASSUME NEW p \in Proc, Unref(p) PROVE FullOK'
  <2>1. LockFree
    BY <1>12 DEF Unref
  <2>2. pc' = [pc EXCEPT ![p] = "idle"]
    BY <1>12, UnrefDrops
  <2>. QED  BY <2>1, <2>2 DEF LockFree
<1>13. CASE UNCHANGED vars
  BY <1>13 DEF vars
<1>. QED  BY <1>1, <1>2, <1>3, <1>4, <1>5, <1>6, <1>7, <1>8, <1>9, <1>10, <1>11, <1>12, <1>13 DEF Next

\* Each buffer in use has a pin or a process of its own.
LEMMA FullCounted == ASSUME IInv, \A i \in Buf : buf[i].refcnt # 0
                     PROVE  NBUF <= Cardinality(pins) + Cardinality({q \in Proc : mine[q] # None})
<1>. DEFINE P == {i \in Buf : buf[i].blockno \in pins}
            U == {q \in Proc : mine[q] # None}
            B == {i \in Buf : \E q \in Proc : mine[q] = i}
            f == [i \in P |-> buf[i].blockno]
            g == [q \in U |-> mine[q]]
<1>. USE DEF IInv
<1>1. IsFiniteSet(Buf) /\ Cardinality(Buf) = NBUF
  BY CacheAssumption, FS_Interval DEF Buf
<1>2. IsFiniteSet(P)
  BY <1>1, FS_Subset
<1>3. f \in Surjection(P, pins)
  BY DEF PinsOK, Surjection
<1>4. f \in Injection(P, pins)
  BY DEF Distinct, TypeOK, Injection, IsInjective
<1>5. Cardinality(pins) = Cardinality(P)
  BY <1>2, <1>3, <1>4, FS_Surjection
<1>6. IsFiniteSet(U)
  BY CacheAssumption, FS_Subset
<1>7. g \in Surjection(U, B)
  BY NoneNoBuf DEF TypeOK, Surjection
<1>8. IsFiniteSet(B) /\ Cardinality(B) <= Cardinality(U)
  BY <1>6, <1>7, FS_Surjection
<1>9. P \cup B = Buf
  <2>1. ASSUME NEW i \in Buf, i \notin P PROVE i \in B
    <3>1. Cardinality(Users(i)) # 0
      BY <2>1, UsersFinite DEF RefsExact
    <3>2. Users(i) # {}
      BY <3>1, FS_EmptySet
    <3>. QED  BY <3>2 DEF Users
  <2>. QED  BY <2>1
<1>10. NBUF <= Cardinality(P) + Cardinality(B)
  <2>1. NBUF = Cardinality(P) + Cardinality(B) - Cardinality(P \cap B)
    BY <1>1, <1>2, <1>8, <1>9, FS_Union
  <2>2. IsFiniteSet(P \cap B) /\ Cardinality(P \cap B) \in Nat
    BY <1>2, FS_Intersection, FS_CardinalityType
  <2>3. Cardinality(P) \in Nat /\ Cardinality(B) \in Nat
    BY <1>2, <1>8, FS_CardinalityType
  <2>. QED  BY <2>1, <2>2, <2>3, CacheAssumption
<1>11. Cardinality(P) \in Nat /\ Cardinality(B) \in Nat /\ Cardinality(U) \in Nat
  BY <1>2, <1>6, <1>8, FS_CardinalityType
<1>. QED  BY <1>5, <1>8, <1>10, <1>11, CacheAssumption

\* bget() panics only when pins and other processes really have every buffer
\* (bio.c:88).
THEOREM PanicsOnlyWhenFull == Spec => []PanicOnlyWhenFull
<1>1. Init => FullOK
  BY DEF Init, FullOK
<1>2. IInv /\ FullOK => PanicOnlyWhenFull
  BY FullCounted DEF FullOK, PanicOnlyWhenFull
<1>. QED  BY <1>1, <1>2, FullStep, Inductive, PTL DEF Spec
-----------------------------------------------------------------------------
(* The cache implements BlockStore. *)

Holds == [b \in Block |-> IF Holder(b) = {} THEN None ELSE CHOOSE p \in Holder(b) : TRUE]
Content == [b \in Block |->
              IF \E i \in Cached(b) : buf[i].valid
              THEN buf[CHOOSE i \in Cached(b) : buf[i].valid].data ELSE disk[b]]

\* Who holds a block and what he sees, without CHOOSE.
HoldsIs ==
  \A b \in Block :
    /\ Holds[b] \in Proc \cup {None}
    /\ \A p \in Proc : Holds[b] = p <=> pc[p] = "held" /\ buf[mine[p]].blockno = b
ContentIs ==
  \A b \in Block :
    /\ \A i \in Buf : buf[i].blockno = b /\ buf[i].valid => Content[b] = buf[i].data
    /\ (\A i \in Buf : ~(buf[i].blockno = b /\ buf[i].valid)) => Content[b] = disk[b]

\* At most one process has the buffers of a block.
LEMMA HoldsMapped == IInv => HoldsIs
<1>. SUFFICES ASSUME IInv, NEW b \in Block
              PROVE  /\ Holds[b] \in Proc \cup {None}
                     /\ \A p \in Proc : Holds[b] = p <=> pc[p] = "held" /\ buf[mine[p]].blockno = b
  BY DEF HoldsIs
<1>1. \A p, q \in Holder(b) : p = q
  BY DEF IInv, TypeOK, MineOK, HolderOK, Distinct, Holder
<1>2. CASE Holder(b) = {}
  BY <1>2, CacheAssumption DEF Holds, Holder
<1>3. CASE Holder(b) # {}
  <2>1. PICK p \in Holder(b) : Holds[b] = p
    BY <1>3 DEF Holds
  <2>2. Holder(b) = {p}
    BY <1>1, <2>1
  <2>. QED  BY <2>1, <2>2 DEF Holder
<1>. QED  BY <1>2, <1>3

\* What is seen of a block is its one valid buffer, or the disk.
LEMMA ContentMapped == IInv => ContentIs
<1>. SUFFICES ASSUME IInv, NEW b \in Block
              PROVE  /\ \A i \in Buf : buf[i].blockno = b /\ buf[i].valid => Content[b] = buf[i].data
                     /\ (\A i \in Buf : ~(buf[i].blockno = b /\ buf[i].valid)) => Content[b] = disk[b]
  BY DEF ContentIs
<1>1. ASSUME NEW i \in Buf, buf[i].blockno = b, buf[i].valid PROVE Content[b] = buf[i].data
  <2>1. Cached(b) = {i}
    BY <1>1 DEF IInv, Distinct, Cached
  <2>. QED  BY <1>1, <2>1 DEF Content
<1>2. ASSUME \A i \in Buf : ~(buf[i].blockno = b /\ buf[i].valid) PROVE Content[b] = disk[b]
  BY <1>2 DEF Content, Cached
<1>. QED  BY <1>1, <1>2

\* What is the same on both sides.
LEMMA StoreNext ==
  ASSUME \/ UNCHANGED <<Holds, Content, disk, pins>>
         \/ \E p \in Proc, b \in Block :
              /\ Holds[b] = None /\ Holds' = [Holds EXCEPT ![b] = p]
              /\ UNCHANGED <<Content, disk, pins>>
         \/ \E p \in Proc, b \in Block, v \in Val :
              /\ Holds[b] = p /\ Content' = [Content EXCEPT ![b] = v]
              /\ UNCHANGED <<Holds, disk, pins>>
         \/ \E p \in Proc, b \in Block :
              /\ Holds[b] = p /\ disk' = [disk EXCEPT ![b] = Content[b]]
              /\ UNCHANGED <<Holds, Content, pins>>
         \/ \E p \in Proc, b \in Block :
              /\ Holds[b] = p /\ pins' \in {pins \cup {b}, pins \ {b}}
              /\ UNCHANGED <<Holds, Content, disk>>
         \/ \E p \in Proc, b \in Block :
              /\ Holds[b] = p /\ Holds' = [Holds EXCEPT ![b] = None]
              /\ UNCHANGED <<Content, disk, pins>>
         \/ \E b \in Block :
              /\ Holds[b] = None /\ b \notin pins /\ Content' = [Content EXCEPT ![b] = disk[b]]
              /\ UNCHANGED <<Holds, disk, pins>>
  PROVE  [Store!Next]_(Store!vars)
<1>. USE DEF Store!Next, Store!vars, Holds, Content
<1>1. CASE UNCHANGED <<Holds, Content, disk, pins>>
  BY <1>1
<1>2. ASSUME NEW p \in Proc, NEW b \in Block,
             \/ /\ Holds[b] = None /\ Holds' = [Holds EXCEPT ![b] = p]
                /\ UNCHANGED <<Content, disk, pins>>
             \/ \E v \in Val : /\ Holds[b] = p /\ Content' = [Content EXCEPT ![b] = v]
                               /\ UNCHANGED <<Holds, disk, pins>>
             \/ /\ Holds[b] = p /\ disk' = [disk EXCEPT ![b] = Content[b]]
                /\ UNCHANGED <<Holds, Content, pins>>
             \/ /\ Holds[b] = p /\ pins' \in {pins \cup {b}, pins \ {b}}
                /\ UNCHANGED <<Holds, Content, disk>>
             \/ /\ Holds[b] = p /\ Holds' = [Holds EXCEPT ![b] = None]
                /\ UNCHANGED <<Content, disk, pins>>
      PROVE  Store!Next
  <2>1. \/ Store!Hold(p, b) \/ \E v \in Val : Store!Change(p, b, v)
        \/ Store!Write(p, b) \/ Store!Pin(p, b) \/ Store!Release(p, b)
    BY <1>2, Zenon DEF Store!Hold, Store!Change, Store!Write, Store!Pin, Store!Release
  <2>. QED  BY <2>1, Zenon
<1>3. ASSUME NEW b \in Block,
             Holds[b] = None, b \notin pins, Content' = [Content EXCEPT ![b] = disk[b]],
             UNCHANGED <<Holds, disk, pins>>
      PROVE  Store!Next
  <2>1. Store!Forget(b)
    BY <1>3, Zenon DEF Store!Forget
  <2>. QED  BY <2>1, Zenon
<1>. QED  BY <1>1, <1>2, <1>3, Zenon

\* Every step is one of BlockStore under the mapping, or changes nothing there.
LEMMA MapStep == IInv /\ IInv' /\ [Next]_vars => [Store!Next]_(Store!vars)
<1>. SUFFICES ASSUME IInv, IInv', [Next]_vars PROVE [Store!Next]_(Store!vars)
  OBVIOUS
<1>. USE CacheAssumption, NoneNoBuf
<1>0. /\ HoldsIs /\ ContentIs /\ HoldsIs' /\ ContentIs'
      /\ Holds = [b \in Block |-> Holds[b]] /\ Holds' = [b \in Block |-> Holds'[b]]
      /\ Content = [b \in Block |-> Content[b]] /\ Content' = [b \in Block |-> Content'[b]]
  <2>1. HoldsIs /\ ContentIs
    BY HoldsMapped, ContentMapped
  <2>2. HoldsIs' /\ ContentIs'
    BY HoldsMapped, ContentMapped, PTL
  <2>. QED  BY <2>1, <2>2 DEF Holds, Content
<1>1. ASSUME NEW p \in Proc, NEW b \in Block, Hit(p, b) PROVE [Store!Next]_(Store!vars)
  <2>1. PICK i \in Buf : /\ buf' = [buf EXCEPT ![i].refcnt = @ + 1]
                         /\ mine' = [mine EXCEPT ![p] = i]
    BY <1>1 DEF Hit, Cached
  <2>2. UNCHANGED <<disk, pins>> /\ pc' = [pc EXCEPT ![p] = "lock"] /\ pc[p] = "idle"
    BY <1>1 DEF Hit
  <2>3. \A j \in Buf : /\ buf'[j].blockno = buf[j].blockno /\ buf'[j].valid = buf[j].valid
                       /\ buf'[j].data = buf[j].data
    BY <2>1 DEF IInv, TypeOK
  <2>4. \A b2 \in Block : Content'[b2] = Content[b2]
    BY <1>0, <2>2, <2>3 DEF ContentIs
  <2>5. \A b2 \in Block : Holds'[b2] = Holds[b2]
    <3>1. /\ \A q \in Proc : pc'[q] = "held" <=> pc[q] = "held"
          /\ \A q \in Proc : pc[q] = "held" => mine'[q] = mine[q] /\ mine[q] \in Buf
      BY <2>1, <2>2 DEF IInv, TypeOK, MineOK
    <3>. QED  BY <1>0, <2>3, <3>1 DEF HoldsIs
  <2>6. Content' = Content /\ Holds' = Holds
    BY <1>0, <2>4, <2>5
  <2>. QED  BY <2>2, <2>6, StoreNext
<1>2. ASSUME NEW p \in Proc, NEW b \in Block, Recycle(p, b) PROVE [Store!Next]_(Store!vars)
  <2>1. PICK i \in Unused : /\ buf' = [buf EXCEPT ![i].blockno = b, ![i].valid = FALSE, ![i].refcnt = 1]
                            /\ mine' = [mine EXCEPT ![p] = i]
    BY <1>2 DEF Recycle, LeastRecent, Recyclable
  <2>2. UNCHANGED <<disk, pins>> /\ Cached(b) = {} /\ pc' = [pc EXCEPT ![p] = "lock"] /\ pc[p] = "idle"
    BY <1>2 DEF Recycle
  <2>3. i \in Buf /\ buf[i].refcnt = 0
    BY DEF Unused
  <2>4. (\A q \in Proc : mine[q] # i) /\ buf[i].blockno \notin pins
    BY <2>3, RefsCount DEF IInv, Counts
  <2>5. \A j \in Buf : IF j = i THEN buf'[j].blockno = b /\ ~buf'[j].valid ELSE buf'[j] = buf[j]
    BY <2>1, <2>3 DEF IInv, TypeOK
  <2>6. \A q \in Proc : pc'[q] = "held" <=> pc[q] = "held"
    BY <2>2 DEF IInv, TypeOK
  <2>7. \A q \in Proc : pc[q] = "held" => mine[q] \in Buf \ {i} /\ mine'[q] = mine[q]
    BY <2>1, <2>2, <2>4 DEF IInv, TypeOK, MineOK
  <2>8. \A b2 \in Block : Holds'[b2] = Holds[b2]
    BY <1>0, <2>5, <2>6, <2>7 DEF HoldsIs
  <2>9. \A b2 \in Block : b2 # buf[i].blockno => Content'[b2] = Content[b2]
    <3>. SUFFICES ASSUME NEW b2 \in Block, b2 # buf[i].blockno PROVE Content'[b2] = Content[b2]
      OBVIOUS
    <3>1. CASE b2 = b
      <4>1. Content[b2] = disk[b2]
        BY <1>0, <2>2, <3>1 DEF ContentIs, Cached
      <4>2. \A j \in Buf : ~(buf'[j].blockno = b2 /\ buf'[j].valid)
        BY <2>2, <2>5, <3>1 DEF Cached
      <4>. QED  BY <1>0, <2>2, <4>1, <4>2 DEF ContentIs
    <3>2. CASE \E j \in Buf : buf[j].blockno = b2 /\ buf[j].valid
      <4>1. PICK j \in Buf : buf[j].blockno = b2 /\ buf[j].valid
        BY <3>2
      <4>2. buf'[j] = buf[j]
        BY <2>5, <4>1
      <4>. QED  BY <1>0, <4>1, <4>2 DEF ContentIs
    <3>3. CASE b2 # b /\ \A j \in Buf : ~(buf[j].blockno = b2 /\ buf[j].valid)
      <4>1. \A j \in Buf : ~(buf'[j].blockno = b2 /\ buf'[j].valid)
        BY <2>5, <3>3
      <4>. QED  BY <1>0, <2>2, <3>3, <4>1 DEF ContentIs
    <3>. QED  BY <3>1, <3>2, <3>3
  <2>10. CASE buf[i].blockno \in Block
    <3>1. Content'[buf[i].blockno] = disk[buf[i].blockno]
      BY <1>0, <2>2, <2>3, <2>5, <2>10 DEF ContentIs, Cached, IInv, Distinct
    <3>2. Holds[buf[i].blockno] = None
      BY <1>0, <2>3, <2>4, <2>7, <2>10 DEF HoldsIs, IInv, Distinct
    <3>3. Holds' = Holds
      BY <1>0, <2>8
    <3>4. Content' = [Content EXCEPT ![buf[i].blockno] = disk[buf[i].blockno]]
      BY <1>0, <2>9, <2>10, <3>1
    <3>. QED  BY <2>2, <2>4, <2>10, <3>2, <3>3, <3>4, StoreNext
  <2>11. CASE buf[i].blockno \notin Block
    BY <1>0, <2>2, <2>8, <2>9, <2>11, StoreNext
  <2>. QED  BY <2>10, <2>11
<1>3. ASSUME NEW p \in Proc, NEW b \in Block, Panic(p, b) PROVE [Store!Next]_(Store!vars)
  <2>1. \A b2 \in Block : Holds'[b2] = Holds[b2]
    BY <1>0, <1>3 DEF Panic, HoldsIs, IInv, TypeOK, MineOK, HolderOK
  <2>2. \A b2 \in Block : Content'[b2] = Content[b2]
    BY <1>0, <1>3 DEF Panic, ContentIs, IInv, TypeOK, MineOK, ValidOK
  <2>. QED  BY <1>0, <1>3, <2>1, <2>2, StoreNext DEF Panic
<1>4. ASSUME NEW p \in Proc, Lock(p) PROVE [Store!Next]_(Store!vars)
  <2>. DEFINE b == buf[mine[p]].blockno
  <2>1. mine[p] \in Buf /\ b \in Block /\ buf[mine[p]].locked = None
    BY <1>4 DEF Lock, IInv, MineOK, TypeOK
  <2>2. \A j \in Buf : /\ buf'[j].blockno = buf[j].blockno /\ buf'[j].valid = buf[j].valid
                       /\ buf'[j].data = buf[j].data
    BY <1>4, <2>1 DEF Lock, IInv, TypeOK
  <2>3. Content' = Content
    <3>1. \A b2 \in Block : Content'[b2] = Content[b2]
      BY <1>0, <1>4, <2>2 DEF Lock, ContentIs
    <3>. QED  BY <1>0, <3>1
  <2>4. CASE buf[mine[p]].valid
    <3>1. Holds[b] = None
      BY <1>0, <2>1 DEF HoldsIs, IInv, TypeOK, MineOK, HolderOK, Distinct
    <3>0. /\ UNCHANGED mine
          /\ \A q \in Proc : pc'[q] = "held" <=> pc[q] = "held" \/ q = p
          /\ \A q \in Proc : pc'[q] = "held" => mine[q] \in Buf
      BY <1>4, <2>1, <2>4 DEF Lock, IInv, TypeOK, MineOK
    <3>2. \A b2 \in Block : Holds'[b2] = IF b2 = b THEN p ELSE Holds[b2]
      BY <1>0, <2>1, <2>2, <3>0, <3>1 DEF HoldsIs
    <3>3. Holds' = [Holds EXCEPT ![b] = p]
      BY <1>0, <3>2
    <3>. QED  BY <1>4, <2>1, <2>3, <3>1, <3>3, StoreNext DEF Lock
  <2>5. CASE ~buf[mine[p]].valid
    <3>0. /\ UNCHANGED mine
          /\ \A q \in Proc : pc'[q] = "held" <=> pc[q] = "held"
          /\ \A q \in Proc : pc'[q] = "held" => mine[q] \in Buf
      BY <1>4, <2>1, <2>5 DEF Lock, IInv, TypeOK, MineOK
    <3>1. \A b2 \in Block : Holds'[b2] = Holds[b2]
      BY <1>0, <2>2, <3>0 DEF HoldsIs
    <3>2. Holds' = Holds
      BY <1>0, <3>1
    <3>. QED  BY <1>4, <2>3, <3>2, StoreNext DEF Lock
  <2>. QED  BY <2>4, <2>5
<1>5. ASSUME NEW p \in Proc, LockSleeps(p) PROVE [Store!Next]_(Store!vars)
  <2>1. \A b2 \in Block : Holds'[b2] = Holds[b2]
    BY <1>0, <1>5 DEF LockSleeps, HoldsIs, IInv, TypeOK, MineOK, HolderOK
  <2>2. \A b2 \in Block : Content'[b2] = Content[b2]
    BY <1>0, <1>5 DEF LockSleeps, ContentIs, IInv, TypeOK, MineOK, ValidOK
  <2>. QED  BY <1>0, <1>5, <2>1, <2>2, StoreNext DEF LockSleeps
<1>6. ASSUME NEW p \in Proc, Read(p) PROVE [Store!Next]_(Store!vars)
  <2>. DEFINE b == buf[mine[p]].blockno
  <2>1. mine[p] \in Buf /\ b \in Block
    BY <1>6 DEF Read, IInv, MineOK, TypeOK
  <2>2. \A j \in Buf : /\ buf'[j].blockno = buf[j].blockno
                       /\ j # mine[p] => buf'[j] = buf[j]
    BY <1>6, <2>1 DEF Read, IInv, TypeOK
  <2>3. buf'[mine[p]].valid /\ buf'[mine[p]].data = disk[b]
    BY <1>6, <2>1 DEF Read, IInv, TypeOK
  <2>4. UNCHANGED <<disk, pins, mine>> /\ pc' = [pc EXCEPT ![p] = "held"] /\ pc[p] = "read"
    BY <1>6 DEF Read
  <2>5. \A b2 \in Block \ {b} : Content'[b2] = Content[b2]
    BY <1>0, <2>1, <2>2, <2>4 DEF ContentIs
  <2>6. Content'[b] = disk[b]
    BY <1>0, <2>1, <2>2, <2>3 DEF ContentIs
  <2>7. Content[b] = disk[b]
    <3>1. ~buf[mine[p]].valid
      BY <1>6 DEF Read, IInv, ValidOK
    <3>. QED  BY <1>0, <2>1, <3>1 DEF ContentIs, IInv, Distinct
  <2>8. Content' = Content
    BY <1>0, <2>5, <2>6, <2>7
  <2>9. Holds[b] = None
    <3>1. buf[mine[p]].locked = p
      BY <2>1, <2>4 DEF IInv, HolderOK
    <3>2. ASSUME NEW q \in Proc, pc[q] = "held", buf[mine[q]].blockno = b PROVE FALSE
      <4>1. mine[q] \in Buf
        BY <3>2 DEF IInv, MineOK
      <4>2. mine[q] = mine[p] /\ buf[mine[q]].locked = q
        BY <2>1, <3>2, <4>1 DEF IInv, Distinct, HolderOK
      <4>. QED  BY <2>4, <3>1, <3>2, <4>2
    <3>. QED  BY <1>0, <2>1, <3>2 DEF HoldsIs
  <2>10. \A b2 \in Block : Holds'[b2] = IF b2 = b THEN p ELSE Holds[b2]
    <3>1. /\ \A q \in Proc : pc'[q] = "held" <=> pc[q] = "held" \/ q = p
          /\ \A q \in Proc : pc'[q] = "held" => mine[q] \in Buf
      BY <2>1, <2>4 DEF IInv, TypeOK, MineOK
    <3>. QED  BY <1>0, <2>1, <2>2, <2>4, <2>9, <3>1 DEF HoldsIs
  <2>11. Holds' = [Holds EXCEPT ![b] = p]
    BY <1>0, <2>10
  <2>. QED  BY <2>1, <2>4, <2>8, <2>9, <2>11, StoreNext
<1>7. ASSUME NEW p \in Proc, NEW v \in Val, Change(p, v) PROVE [Store!Next]_(Store!vars)
  <2>. DEFINE b == buf[mine[p]].blockno
  <2>1. mine[p] \in Buf /\ b \in Block /\ buf[mine[p]].valid
    BY <1>7, HeldValid DEF Change, IInv
  <2>2. \A j \in Buf : /\ buf'[j].blockno = buf[j].blockno /\ buf'[j].valid = buf[j].valid
                       /\ buf'[j].data = IF j = mine[p] THEN v ELSE buf[j].data
    BY <1>7, <2>1 DEF Change, IInv, TypeOK
  <2>3. \A b2 \in Block : Content'[b2] = IF b2 = b THEN v ELSE Content[b2]
    BY <1>0, <1>7, <2>1, <2>2 DEF Change, ContentIs
  <2>4. \A b2 \in Block : Holds'[b2] = Holds[b2]
    BY <1>0, <1>7, <2>2 DEF Change, HoldsIs, IInv, MineOK, TypeOK
  <2>5. Holds[b] = p
    BY <1>0, <1>7, <2>1 DEF Change, HoldsIs
  <2>6. Content' = [Content EXCEPT ![b] = v] /\ Holds' = Holds
    BY <1>0, <2>3, <2>4
  <2>. QED  BY <1>7, <2>1, <2>5, <2>6, StoreNext DEF Change
<1>8. ASSUME NEW p \in Proc, Write(p) PROVE [Store!Next]_(Store!vars)
  <2>. DEFINE b == buf[mine[p]].blockno
  <2>1. mine[p] \in Buf /\ b \in Block /\ buf[mine[p]].valid
    BY <1>8, HeldValid DEF Write, IInv
  <2>2. Holds[b] = p /\ Content[b] = buf[mine[p]].data
    BY <1>0, <1>8, <2>1 DEF Write, HoldsIs, ContentIs
  <2>3. \A b2 \in Block : Content'[b2] = Content[b2] /\ Holds'[b2] = Holds[b2]
    <3>1. \A b2 \in Block : b2 # b => disk'[b2] = disk[b2]
      BY <1>8, <2>1 DEF Write, IInv, TypeOK
    <3>2. \A b2 \in Block : Content'[b2] = Content[b2]
      BY <1>0, <1>8, <2>1, <3>1 DEF Write, ContentIs
    <3>. QED  BY <1>0, <1>8, <3>2 DEF Write, HoldsIs
  <2>4. Content' = Content /\ Holds' = Holds
    BY <1>0, <2>3
  <2>. QED  BY <1>8, <2>1, <2>2, <2>4, StoreNext DEF Write
<1>9. ASSUME NEW p \in Proc, Pin(p) PROVE [Store!Next]_(Store!vars)
  <2>. DEFINE b == buf[mine[p]].blockno
  <2>1. mine[p] \in Buf /\ b \in Block /\ pc[p] = "held"
    BY <1>9 DEF Pin, IInv, MineOK, TypeOK
  <2>2. \A j \in Buf : /\ buf'[j].blockno = buf[j].blockno /\ buf'[j].valid = buf[j].valid
                       /\ buf'[j].data = buf[j].data
    BY <1>9, <2>1 DEF Pin, IInv, TypeOK
  <2>3. UNCHANGED <<disk, mine, pc>> /\ pins' \in {pins \cup {b}, pins \ {b}}
    BY <1>9 DEF Pin
  <2>4. Holds[b] = p
    BY <1>0, <2>1 DEF HoldsIs
  <2>5. \A b2 \in Block : Content'[b2] = Content[b2]
    BY <1>0, <2>2, <2>3 DEF ContentIs
  <2>6. \A b2 \in Block : Holds'[b2] = Holds[b2]
    BY <1>0, <2>2, <2>3 DEF HoldsIs, IInv, MineOK, TypeOK
  <2>7. Content' = Content /\ Holds' = Holds
    BY <1>0, <2>5, <2>6
  <2>. QED  BY <2>1, <2>3, <2>4, <2>7, StoreNext
<1>10. ASSUME NEW p \in Proc, Unpin(p) PROVE [Store!Next]_(Store!vars)
  <2>. DEFINE b == buf[mine[p]].blockno
  <2>1. mine[p] \in Buf /\ b \in Block /\ pc[p] = "held"
    BY <1>10 DEF Unpin, IInv, MineOK, TypeOK
  <2>2. \A j \in Buf : /\ buf'[j].blockno = buf[j].blockno /\ buf'[j].valid = buf[j].valid
                       /\ buf'[j].data = buf[j].data
    BY <1>10, <2>1 DEF Unpin, IInv, TypeOK
  <2>3. UNCHANGED <<disk, mine, pc>> /\ pins' \in {pins \cup {b}, pins \ {b}}
    BY <1>10 DEF Unpin
  <2>4. Holds[b] = p
    BY <1>0, <2>1 DEF HoldsIs
  <2>5. \A b2 \in Block : Content'[b2] = Content[b2]
    BY <1>0, <2>2, <2>3 DEF ContentIs
  <2>6. \A b2 \in Block : Holds'[b2] = Holds[b2]
    BY <1>0, <2>2, <2>3 DEF HoldsIs, IInv, MineOK, TypeOK
  <2>7. Content' = Content /\ Holds' = Holds
    BY <1>0, <2>5, <2>6
  <2>. QED  BY <2>1, <2>3, <2>4, <2>7, StoreNext
<1>11. ASSUME NEW p \in Proc, Release(p) PROVE [Store!Next]_(Store!vars)
  <2>. DEFINE b == buf[mine[p]].blockno
  <2>1. mine[p] \in Buf /\ b \in Block /\ pc[p] = "held"
    BY <1>11 DEF Release, IInv, MineOK, TypeOK
  <2>2. \A j \in Buf : /\ buf'[j].blockno = buf[j].blockno /\ buf'[j].valid = buf[j].valid
                       /\ buf'[j].data = buf[j].data
    BY <1>11, <2>1 DEF Release, IInv, TypeOK
  <2>3. UNCHANGED <<disk, mine, pins>> /\ \A q \in Proc : pc'[q] = "held" <=> pc[q] = "held" /\ q # p
    BY <1>11 DEF Release, Sleepers, IInv, TypeOK
  <2>4. Holds[b] = p
    BY <1>0, <2>1 DEF HoldsIs
  <2>5. \A b2 \in Block : Content'[b2] = Content[b2]
    BY <1>0, <2>2, <2>3 DEF ContentIs
  <2>6. \A b2 \in Block : Holds'[b2] = IF b2 = b THEN None ELSE Holds[b2]
    BY <1>0, <2>1, <2>2, <2>3, <2>4 DEF HoldsIs, IInv, MineOK, TypeOK
  <2>7. Content' = Content /\ Holds' = [Holds EXCEPT ![b] = None]
    BY <1>0, <2>5, <2>6
  <2>. QED  BY <2>1, <2>3, <2>4, <2>7, StoreNext
<1>12. ASSUME NEW p \in Proc, Unref(p) PROVE [Store!Next]_(Store!vars)
  <2>1. /\ pc[p] = "brelse" /\ UNCHANGED <<disk, pins>>
        /\ buf' = [buf EXCEPT ![mine[p]].refcnt = Dropped(@)]
        /\ pc' = [pc EXCEPT ![p] = "idle"]
        /\ mine' = [mine EXCEPT ![p] = None]
    BY <1>12, UnrefDrops
  <2>2. \A j \in Buf : /\ buf'[j].blockno = buf[j].blockno /\ buf'[j].valid = buf[j].valid
                       /\ buf'[j].data = buf[j].data
    BY <2>1 DEF IInv, TypeOK, MineOK
  <2>3. \A b2 \in Block : Content'[b2] = Content[b2]
    BY <1>0, <2>1, <2>2 DEF ContentIs
  <2>4. \A b2 \in Block : Holds'[b2] = Holds[b2]
    <3>1. /\ \A q \in Proc : pc'[q] = "held" <=> pc[q] = "held"
          /\ \A q \in Proc : pc[q] = "held" => mine'[q] = mine[q] /\ mine[q] \in Buf
      BY <2>1 DEF IInv, TypeOK, MineOK
    <3>. QED  BY <1>0, <2>2, <3>1 DEF HoldsIs
  <2>5. Content' = Content /\ Holds' = Holds
    BY <1>0, <2>3, <2>4
  <2>. QED  BY <2>1, <2>5, StoreNext
<1>13. CASE UNCHANGED vars
  <2>1. UNCHANGED <<Holds, Content, disk, pins>>
    BY <1>13 DEF vars, Holds, Content, Holder, Cached
  <2>. QED  BY <2>1, StoreNext
<1>. QED  BY <1>1, <1>2, <1>3, <1>4, <1>5, <1>6, <1>7, <1>8, <1>9, <1>10, <1>11, <1>12, <1>13 DEF Next

\* The empty cache shows the disk.
LEMMA MapInit == Init => Store!Init
<1>. SUFFICES ASSUME Init PROVE Store!Init
  OBVIOUS
<1>1. IInv
  BY InitInv
<1>2. HoldsIs /\ ContentIs
  BY <1>1, HoldsMapped, ContentMapped
<1>3. \A b \in Block : Holds[b] = None
  BY <1>2 DEF HoldsIs, Init
<1>4. \A b \in Block : Content[b] = disk[b]
  BY <1>2 DEF ContentIs, Init
<1>5. Holds = [b \in Block |-> None]
  BY <1>3 DEF Holds
<1>6. Content = disk
  BY <1>1, <1>4 DEF Content, IInv, TypeOK
<1>. QED  BY <1>5, <1>6 DEF Store!Init, Init, Holds, Content

\* A block has one holder at a time, who sees what the last one left, for any
\* number of processes, blocks and buffers (bio.c:92-152).
THEOREM Refinement == Spec => ImplementsBlockStore
BY MapInit, MapStep, Inductive, PTL DEF Spec, Store!Spec, ImplementsBlockStore
=============================================================================
