--------------------------- MODULE VirtioDiskProofs ---------------------------
(***************************************************************************)
(* No descriptor, completion or interrupt of the disk driver is lost or    *)
(* counted twice, and every call gets its own transfer, for any number of  *)
(* processes, blocks and descriptors, and ring indices that wrap at any    *)
(* multiple of the size of the rings.                                      *)
(***************************************************************************)
EXTENDS VirtioDisk, FiniteSetTheorems, TLAPS

Index == 0..(MOD - 1)
Entry == Desc \cup {None}
Addr == {None} \cup ({"ops", "status"} \X Desc) \cup ({"data"} \X Proc)
Command == [block : Block, write : BOOLEAN]

TypeOK ==
  /\ free \in [Desc -> BOOLEAN]
  /\ desc \in [Desc -> [addr : Addr, next : Desc, more : BOOLEAN]]
  /\ info \in [Desc -> [b : Proc \cup {None}, status : {0, 255}]]
  /\ ops \in [Desc -> Command \cup {None}]
  /\ avail \in [ring : [Desc -> Entry], idx : Index]
  /\ used \in [ring : [Desc -> Entry], idx : Index]
  /\ used_idx \in Index /\ taken \in Index
  /\ disk \in [Proc -> BOOLEAN]
  /\ pc \in [Proc -> {"idle", "alloc", "allocsleep", "sleep", "woken"}]
  /\ req \in [Proc -> Transfer \cup {None}]
  /\ head \in [Proc -> Entry]
  /\ intr \in BOOLEAN /\ irq \in BOOLEAN
  /\ inside \in SUBSET Desc
  /\ did \in [Proc -> Transfer \cup {None}]

\* A process in a call has its transfer, with its own buffer; only one that
\* waits can have it on its way or made, and one that need not wait any longer
\* has had it made.
CallOK ==
  \A p \in Proc :
    /\ pc[p] = "idle" <=> req[p] = None
    /\ req[p] # None => req[p].buf = p
    /\ p \notin Waiting => ~disk[p] /\ did[p] = None
    /\ pc[p] = "sleep" => disk[p]
    /\ p \in Waiting /\ ~disk[p] => did[p] = req[p]

\* The three descriptors of a request, and what is kept at its head.
Second(p) == desc[head[p]].next
Third(p) == desc[Second(p)].next
ChainOK ==
  \A p \in Waiting :
    /\ head[p] \in Desc /\ Second(p) \in Desc /\ Third(p) \in Desc
    /\ head[p] # Second(p) /\ head[p] # Third(p) /\ Second(p) # Third(p)
    /\ desc[head[p]] = [addr |-> <<"ops", head[p]>>, next |-> Second(p), more |-> TRUE]
    /\ desc[Second(p)] = [addr |-> <<"data", p>>, next |-> Third(p), more |-> TRUE]
    /\ desc[Third(p)] = [addr |-> <<"status", head[p]>>, next |-> 0, more |-> FALSE]
    /\ info[head[p]].b = p
    /\ ops[head[p]] = [block |-> req[p].block, write |-> req[p].write]

\* A descriptor is free or in one chain, and never in two.
OwnOK ==
  /\ \A p \in Waiting, d \in Desc : d \in Chain(head[p]) => ~free[d]
  /\ \A p, q \in Waiting, d \in Desc : d \in Chain(head[p]) /\ d \in Chain(head[q]) => p = q
  /\ \A d \in Desc : ~free[d] => \E p \in Waiting : d \in Chain(head[p])

\* How many entries a ring has from one index to another; no head is there
\* twice.
Level(from, to) == (to - from) % MOD
Distinct(ring, from, to) ==
  \A i, j \in 0..(Level(from, to) - 1) :
    ring[(from + i) % NUM] = ring[(from + j) % NUM] => i = j

Asked == {head[p] : p \in {q \in Waiting : disk[q]}}
InAvail == Pending(avail.ring, taken, avail.idx)
InUsed == Pending(used.ring, used_idx, used.idx)

\* Every request under way is in one of the three places, and its transfer is
\* made when it enters the last of them.
PlaceOK ==
  /\ Distinct(avail.ring, taken, avail.idx) /\ Distinct(used.ring, used_idx, used.idx)
  /\ Asked = InAvail \cup inside \cup InUsed
  /\ InAvail \cap inside = {} /\ InAvail \cap InUsed = {} /\ inside \cap InUsed = {}
  /\ InUsed # {} => irq \/ intr
  /\ \A id \in InUsed : info[id].status = 0
  /\ \A p \in Waiting : disk[p] => did[p] = IF head[p] \in InUsed THEN req[p] ELSE None

SleepOK == \A p \in Proc : pc[p] = "allocsleep" => FreeCount < 3

IInv == TypeOK /\ CallOK /\ ChainOK /\ OwnOK /\ PlaceOK /\ SleepOK
-----------------------------------------------------------------------------
(* Rings and indices *)

LEMMA Sizes ==
  /\ NUM \in Nat \ {0} /\ NUM >= 3 /\ MOD \in Nat \ {0} /\ MOD % NUM = 0
  /\ Desc \subseteq Nat /\ IsFiniteSet(Desc) /\ Cardinality(Desc) = NUM
<1>1. NUM \in Nat \ {0} /\ NUM >= 3 /\ MOD \in Nat \ {0} /\ MOD % NUM = 0
  BY DiskAssumption
<1>2. NUM - 1 \in Int /\ 0 \in Int /\ ~(0 > NUM - 1) /\ NUM - 1 - 0 + 1 = NUM
  BY <1>1
<1>3. IsFiniteSet(0..(NUM-1)) /\ Cardinality(0..(NUM-1)) = NUM
  BY <1>2, FS_Interval
<1>. QED  BY <1>1, <1>3 DEF Desc

LEMMA ModRange ==
  ASSUME NEW n \in Int, NEW m \in Nat \ {0}
  PROVE  n % m \in 0..(m-1)
OBVIOUS

LEMMA Residues ==
  ASSUME NEW n \in Int
  PROVE  n % NUM \in Desc /\ n % MOD \in Index
BY Sizes, ModRange DEF Desc, Index

\* No multiple of m but 0 is nearer to 0 than m.
LEMMA NoMultiple ==
  ASSUME NEW m \in Nat \ {0}, NEW d \in Int, -m < m * d, m * d < m
  PROVE  d = 0
<1>1. d >= 1 => m * d >= m
  OBVIOUS
<1>2. d <= -1 => m * d <= -m
  OBVIOUS
<1>. QED  BY <1>1, <1>2

LEMMA Division ==
  ASSUME NEW m \in Nat \ {0}, NEW a \in Int
  PROVE  \E k \in Int : a = m * k + (a % m) /\ a % m \in 0..(m-1)
<1>1. a = m * (a \div m) + (a % m) /\ a \div m \in Int
  OBVIOUS
<1>2. a % m \in 0..(m-1)
  OBVIOUS
<1>. QED  BY <1>1, <1>2

\* Numbers that differ by a multiple of m have the same residue, and numbers
\* that are nearer than m have different ones.
LEMMA SameResidue ==
  ASSUME NEW m \in Nat \ {0}, NEW a \in Int, NEW b \in Int, NEW k \in Int, a = b + m * k
  PROVE  a % m = b % m
<1>1. PICK i \in Int : a = m * i + (a % m) /\ a % m \in 0..(m-1)
  BY Division
<1>2. PICK j \in Int : b = m * j + (b % m) /\ b % m \in 0..(m-1)
  BY Division
<1>. DEFINE e == i - j
            d == e - k
<1>3. d \in Int /\ m * d = (b % m) - (a % m)
  <2>1. e \in Int /\ m * e = m * i - m * j
    OBVIOUS
  <2>2. m * d = m * e - m * k
    <3>. HIDE DEF e
    <3>. QED  BY <2>1
  <2>. HIDE DEF e
  <2>. QED  BY <1>1, <1>2, <2>1, <2>2
<1>4. -m < m * d /\ m * d < m
  <2>. HIDE DEF d
  <2>. QED  BY <1>1, <1>2, <1>3
<1>5. d = 0
  <2>. HIDE DEF d
  <2>. QED  BY <1>3, <1>4, NoMultiple
<1>6. m * d = 0
  BY <1>5
<1>. HIDE DEF d
<1>. QED  BY <1>1, <1>2, <1>3, <1>6

LEMMA OtherResidue ==
  ASSUME NEW m \in Nat \ {0}, NEW a \in Int, NEW b \in Int, a % m = b % m,
         a - b < m, b - a < m
  PROVE  a = b
<1>1. PICK i \in Int : a = m * i + (a % m) /\ a % m \in 0..(m-1)
  BY Division
<1>2. PICK j \in Int : b = m * j + (b % m) /\ b % m \in 0..(m-1)
  BY Division
<1>. DEFINE d == j - i
<1>3. d \in Int /\ m * d = b - a
  <2>1. d \in Int /\ m * d = m * j - m * i
    OBVIOUS
  <2>. HIDE DEF d
  <2>. QED  BY <1>1, <1>2, <2>1
<1>. HIDE DEF d
<1>4. d = 0
  BY <1>3, NoMultiple
<1>5. m * d = 0
  BY <1>4
<1>. QED  BY <1>3, <1>5

\* An index that wraps points to the same entry of a ring.
LEMMA SameEntry ==
  ASSUME NEW a \in Int, NEW c \in Int
  PROVE  ((a % MOD) + c) % NUM = (a + c) % NUM
<1>1. PICK q \in Int : MOD = NUM * q
  <2>1. NUM \in Nat \ {0} /\ MOD \in Int
    BY Sizes
  <2>2. \E n \in Int : MOD = NUM * n + (MOD % NUM) /\ MOD % NUM \in 0..(NUM-1)
    BY <2>1, Division
  <2>. QED  BY <2>1, <2>2, Sizes
<1>2. PICK k \in Int : a = MOD * k + (a % MOD)
  BY Sizes, Division
<1>. DEFINE r == a % MOD
            x == a + c
            y == r + c
            e == q * k
<1>3. r \in Int
  BY Residues DEF Index
<1>4. MOD * k = NUM * e /\ e \in Int
  <2>1. NUM \in Int
    BY Sizes
  <2>2. (NUM * q) * k = NUM * (q * k) /\ q * k \in Int
    BY <2>1
  <2>. QED  BY <1>1, <2>2
<1>5. x \in Int /\ y \in Int /\ x = y + NUM * e
  <2>1. NUM * e = MOD * k /\ MOD * k \in Int
    BY <1>4, Sizes
  <2>2. a = MOD * k + r
    BY <1>2
  <2>. HIDE DEF r, e
  <2>. QED  BY <1>3, <2>1, <2>2
<1>6. x % NUM = y % NUM
  <2>1. NUM \in Nat \ {0} /\ e \in Int
    BY <1>4, Sizes
  <2>2. x \in Int /\ y \in Int /\ x = y + NUM * e
    BY <1>5
  <2>. HIDE DEF x, y, e
  <2>. QED  BY <2>1, <2>2, SameResidue
<1>. QED  BY <1>6

\* The level of a ring after an entry was put, or taken, and of an empty ring.
LEMMA Difference ==
  ASSUME NEW m \in Nat \ {0}, NEW x \in 0..(m-1), NEW y \in 0..(m-1)
  PROVE  (x - y) % m = IF y <= x THEN x - y ELSE x - y + m
<1>1. ASSUME NEW a \in Nat, NEW b \in Nat, a < m, b < m
      PROVE  (a - b) % m = IF b <= a THEN a - b ELSE a - b + m
  BY <1>1
<1>2. x \in Nat /\ y \in Nat /\ x < m /\ y < m
  OBVIOUS
<1>. QED  BY <1>1, <1>2

LEMMA Successor ==
  ASSUME NEW m \in Nat \ {0}, NEW x \in 0..(m-1)
  PROVE  (x + 1) % m = (IF x + 1 < m THEN x + 1 ELSE 0) /\ (x + 1) % m \in 0..(m-1)
OBVIOUS

LEMMA Levels ==
  ASSUME NEW from \in Index, NEW to \in Index
  PROVE  /\ Level(from, to) \in Index
         /\ Level(from, to) = 0 <=> from = to
         /\ Level(from, to) + 1 < MOD => Level(from, (to + 1) % MOD) = Level(from, to) + 1
         /\ from # to => Level((from + 1) % MOD, to) = Level(from, to) - 1
         /\ to % NUM = (from + Level(from, to)) % NUM
<1>0. MOD \in Nat \ {0} /\ from \in 0..(MOD-1) /\ to \in 0..(MOD-1)
  BY Sizes DEF Index
<1>. DEFINE n == Level(from, to)
            to1 == (to + 1) % MOD
            from1 == (from + 1) % MOD
<1>1. n = IF from <= to THEN to - from ELSE to - from + MOD
  BY <1>0, Difference DEF Level
<1>2. to1 = (IF to + 1 < MOD THEN to + 1 ELSE 0) /\ to1 \in 0..(MOD-1)
  BY <1>0, Successor
<1>3. from1 = (IF from + 1 < MOD THEN from + 1 ELSE 0) /\ from1 \in 0..(MOD-1)
  BY <1>0, Successor
<1>4. Level(from, to1) = IF from <= to1 THEN to1 - from ELSE to1 - from + MOD
  <2>. HIDE DEF to1
  <2>. QED  BY <1>0, <1>2, Difference DEF Level
<1>5. Level(from1, to) = IF from1 <= to THEN to - from1 ELSE to - from1 + MOD
  <2>. HIDE DEF from1
  <2>. QED  BY <1>0, <1>3, Difference DEF Level
<1>6. n \in Index /\ (n = 0 <=> from = to) /\ from + n \in {to, to + MOD}
  <2>. HIDE DEF n
  <2>. QED  BY <1>0, <1>1 DEF Index
<1>7. n + 1 < MOD => Level(from, to1) = n + 1
  <2>. HIDE DEF n, to1
  <2>. QED  BY <1>0, <1>1, <1>2, <1>4
<1>8. from # to => Level(from1, to) = n - 1
  <2>. HIDE DEF n, from1
  <2>. QED  BY <1>0, <1>1, <1>3, <1>5
<1>9. to % NUM = (from + n) % NUM
  <2>1. (from + n) % MOD = to
    <3>1. to % MOD = to
      <4>1. ASSUME NEW m \in Nat \ {0}, NEW x \in 0..(m-1) PROVE x % m = x
        OBVIOUS
      <4>. QED  BY <1>0, <4>1
    <3>2. (to + MOD) % MOD = to % MOD
      <4>1. to + MOD \in Int /\ to \in Int /\ 1 \in Int /\ to + MOD = to + MOD * 1
        BY <1>0
      <4>. QED  BY <1>0, <4>1, SameResidue
    <3>. HIDE DEF n
    <3>. QED  BY <1>6, <3>1, <3>2
  <2>2. from + n \in Int
    <3>. HIDE DEF n
    <3>. QED  BY <1>0, <1>6
  <2>3. (((from + n) % MOD) + 0) % NUM = ((from + n) + 0) % NUM
    <3>. DEFINE s == from + n
    <3>. HIDE DEF s
    <3>. QED  BY <2>2, SameEntry DEF s
  <2>4. to + 0 = to /\ (from + n) + 0 = from + n
    BY <1>0, <2>2
  <2>. QED  BY <2>1, <2>3, <2>4
<1>. QED  BY <1>6, <1>7, <1>8, <1>9

\* What is between two indices of a ring.
LEMMA InPending ==
  ASSUME NEW ring, NEW from \in Index, NEW to \in Index, NEW h
  PROVE  h \in Pending(ring, from, to)
           <=> \E i \in 0..(Level(from, to) - 1) : h = ring[(from + i) % NUM]
BY DEF Pending, Level

LEMMA EmptyRing ==
  ASSUME NEW ring, NEW x \in Index
  PROVE  Pending(ring, x, x) = {} /\ Distinct(ring, x, x)
<1>1. Level(x, x) = 0
  BY Levels
<1>2. 0..(Level(x, x) - 1) = {}
  BY <1>1
<1>. QED  BY <1>2, InPending DEF Distinct

\* Different places of a ring, as long as it does not overflow.
LEMMA OtherEntry ==
  ASSUME NEW a \in Int, NEW i \in 0..NUM, NEW j \in 0..NUM, i - j < NUM, j - i < NUM,
         (a + i) % NUM = (a + j) % NUM
  PROVE  i = j
<1>. DEFINE x == a + i
            y == a + j
<1>1. NUM \in Nat \ {0} /\ i \in Int /\ j \in Int
  BY Sizes
<1>2. x \in Int /\ y \in Int /\ x - y < NUM /\ y - x < NUM
  BY <1>1
<1>3. x % NUM = y % NUM
  OBVIOUS
<1>4. x = y
  <2>. HIDE DEF x, y
  <2>. QED  BY <1>1, <1>2, <1>3, OtherResidue
<1>. QED  BY <1>1, <1>4

\* A ring holds no more heads than there are.
LEMMA FewEntries ==
  ASSUME NEW ring, NEW from \in Index, NEW to \in Index, Distinct(ring, from, to),
         NEW S, IsFiniteSet(S), Pending(ring, from, to) \subseteq S
  PROVE  Cardinality(S) \in Nat /\ Level(from, to) <= Cardinality(S)
<1>. DEFINE n == Level(from, to)
            I == 0..(n-1)
            f == [i \in I |-> ring[(from + i) % NUM]]
<1>0. n \in Nat
  BY Sizes, Levels DEF Index
<1>1. \A i \in I : f[i] \in S
  BY InPending
<1>2. f \in Injection(I, S)
  <2>1. f \in [I -> S]
    BY <1>1
  <2>2. \A i, j \in I : f[i] = f[j] => i = j
    BY DEF Distinct
  <2>. HIDE DEF f, I
  <2>. QED  BY <2>1, <2>2 DEF Injection, IsInjective
<1>3. IsFiniteSet(I) /\ Cardinality(I) <= Cardinality(S)
  <2>. HIDE DEF I, f
  <2>. QED  BY <1>2, FS_Injection
<1>4. Cardinality(I) = n
  <2>1. n - 1 \in Int /\ 0 \in Int /\ (IF 0 > n - 1 THEN 0 ELSE n - 1 - 0 + 1) = n
    <3>. HIDE DEF n
    <3>. QED  BY <1>0
  <2>. HIDE DEF n
  <2>. QED  BY <2>1, FS_Interval
<1>5. Cardinality(S) \in Nat
  BY FS_CardinalityType
<1>. QED  BY <1>3, <1>4, <1>5

\* An entry goes in behind the others.
LEMMA RingPut ==
  ASSUME NEW ring \in [Desc -> Entry], NEW from \in Index, NEW to \in Index,
         Distinct(ring, from, to), Level(from, to) + 1 < NUM,
         NEW h \in Desc, h \notin Pending(ring, from, to)
  PROVE  LET ring2 == [ring EXCEPT ![to % NUM] = h]
             to2 == (to + 1) % MOD
         IN /\ Pending(ring2, from, to2) = Pending(ring, from, to) \cup {h}
            /\ Distinct(ring2, from, to2)
<1>. DEFINE ring2 == [ring EXCEPT ![to % NUM] = h]
            to2 == (to + 1) % MOD
            n == Level(from, to)
<1>0. n \in Nat /\ from \in Int /\ NUM \in Nat /\ NUM <= MOD /\ to2 \in Index /\ MOD \in Nat
  <2>1. n \in Index
    BY Levels
  <2>2. NUM \in Nat \ {0} /\ MOD \in Nat \ {0} /\ MOD % NUM = 0
    BY Sizes
  <2>3. NUM <= MOD
    <3>1. ASSUME NEW a \in Nat \ {0}, NEW b \in Nat \ {0}, a < b PROVE a % b = a
      BY <3>1
    <3>2. MOD < NUM => MOD % NUM = MOD
      BY <2>2, <3>1
    <3>. QED  BY <2>2, <3>2
  <2>4. to + 1 \in Int
    BY Sizes DEF Index
  <2>5. to2 \in Index
    BY <2>4, Residues
  <2>. HIDE DEF n, to2
  <2>. QED  BY <2>1, <2>2, <2>3, <2>5 DEF Index
<1>1. Level(from, to2) = n + 1
  <2>1. n + 1 < MOD
    <3>. HIDE DEF n
    <3>1. n + 1 < NUM
      BY DEF n
    <3>. QED  BY <1>0, <3>1
  <2>. QED  BY <2>1, Levels
<1>2. to % NUM = (from + n) % NUM
  BY Levels
<1>3. \A i \in 0..n : (from + i) % NUM \in Desc
  <2>. HIDE DEF n
  <2>. QED  BY <1>0, Residues
<1>4. ASSUME NEW i \in 0..(n-1) PROVE (from + i) % NUM # to % NUM
  <2>. HIDE DEF n
  <2>1. n + 1 < NUM
    BY DEF n
  <2>2. i \in 0..NUM /\ n \in 0..NUM /\ i - n < NUM /\ n - i < NUM /\ i # n
    BY <1>0, <2>1
  <2>3. ASSUME (from + i) % NUM = (from + n) % NUM PROVE FALSE
    BY <1>0, <2>2, <2>3, OtherEntry
  <2>. QED  BY <1>2, <2>3
<1>5. /\ \A i \in 0..(n-1) : ring2[(from + i) % NUM] = ring[(from + i) % NUM]
      /\ ring2[(from + n) % NUM] = h
  <2>1. 0..(n-1) \subseteq 0..n /\ n \in 0..n
    <3>. HIDE DEF n
    <3>. QED  BY <1>0
  <2>2. \A e \in Desc : ring2[e] = IF e = to % NUM THEN h ELSE ring[e]
    OBVIOUS
  <2>. HIDE DEF ring2, n
  <2>. QED  BY <1>2, <1>3, <1>4, <2>1, <2>2
<1>6. 0..((n+1)-1) = 0..(n-1) \cup {n} /\ n \notin 0..(n-1)
  <2>. HIDE DEF n
  <2>. QED  BY <1>0
<1>7. ASSUME NEW e PROVE e \in Pending(ring2, from, to2) <=> e \in Pending(ring, from, to) \cup {h}
  <2>1. e \in Pending(ring2, from, to2) <=> \E i \in 0..((n+1)-1) : e = ring2[(from + i) % NUM]
    <3>1. e \in Pending(ring2, from, to2)
            <=> \E i \in 0..(Level(from, to2) - 1) : e = ring2[(from + i) % NUM]
      <4>. HIDE DEF ring2, to2, n
      <4>. QED  BY <1>0, InPending
    <3>. HIDE DEF ring2, to2, n
    <3>. QED  BY <1>1, <3>1
  <2>2. e \in Pending(ring, from, to) <=> \E i \in 0..(n-1) : e = ring[(from + i) % NUM]
    BY InPending
  <2>. HIDE DEF n, ring2, to2
  <2>. QED  BY <2>1, <2>2, <1>5, <1>6
<1>8. \A i \in 0..(n-1) : ring[(from + i) % NUM] # h
  BY InPending
<1>9. Distinct(ring2, from, to2)
  <2>. SUFFICES ASSUME NEW i \in 0..((n+1)-1), NEW j \in 0..((n+1)-1),
                       ring2[(from + i) % NUM] = ring2[(from + j) % NUM]
                PROVE i = j
    BY <1>1 DEF Distinct
  <2>1. \A x, y \in 0..(n-1) : ring[(from + x) % NUM] = ring[(from + y) % NUM] => x = y
    BY DEF Distinct
  <2>. HIDE DEF n, ring2, to2
  <2>. QED  BY <2>1, <1>5, <1>6, <1>8
<1>. QED  BY <1>7, <1>9

\* The oldest entry is taken out.
LEMMA RingTake ==
  ASSUME NEW ring \in [Desc -> Entry], NEW from \in Index, NEW to \in Index,
         Distinct(ring, from, to), from # to, Level(from, to) < NUM
  PROVE  LET h == ring[from % NUM]
             ring2 == [ring EXCEPT ![from % NUM] = None]
             from2 == (from + 1) % MOD
         IN /\ h \in Pending(ring, from, to)
            /\ Pending(ring2, from2, to) = Pending(ring, from, to) \ {h}
            /\ Distinct(ring2, from2, to)
<1>. DEFINE h == ring[from % NUM]
            ring2 == [ring EXCEPT ![from % NUM] = None]
            from2 == (from + 1) % MOD
            n == Level(from, to)
<1>0. n \in Nat /\ from \in Int /\ NUM \in Nat /\ from2 \in Index /\ n # 0 /\ n < NUM
  <2>1. n \in Index /\ n # 0
    BY Levels
  <2>2. NUM \in Nat \ {0} /\ MOD \in Nat \ {0} /\ from \in Int /\ from + 1 \in Int
    BY Sizes DEF Index
  <2>3. from2 \in Index
    BY <2>2, Residues
  <2>. QED  BY <2>1, <2>2, <2>3 DEF Index
<1>1. Level(from2, to) = n - 1
  BY Levels
<1>2. \A i \in 0..(n-1) : (from + i) % NUM \in Desc
  <2>. HIDE DEF n
  <2>. QED  BY <1>0, Residues
<1>3. ASSUME NEW i \in 0..((n-1)-1)
      PROVE  (from2 + i) % NUM = (from + (i + 1)) % NUM /\ i + 1 \in 1..(n-1)
  <2>1. (((from + 1) % MOD) + i) % NUM = ((from + 1) + i) % NUM
    <3>1. from + 1 \in Int /\ i \in Int
      BY <1>0
    <3>. DEFINE a == from + 1
    <3>2. a \in Int
      BY <3>1
    <3>. HIDE DEF a
    <3>3. ((a % MOD) + i) % NUM = (a + i) % NUM
      BY <3>1, <3>2, SameEntry
    <3>. QED  BY <3>3 DEF a
  <2>2. (from + 1) + i = from + (i + 1)
    BY <1>0
  <2>3. i + 1 \in 1..(n-1)
    <3>. HIDE DEF n
    <3>. QED  BY <1>0
  <2>. QED  BY <2>1, <2>2, <2>3
<1>4. ASSUME NEW i \in 1..(n-1) PROVE (from + i) % NUM # from % NUM
  <2>. HIDE DEF n
  <2>1. i \in 0..NUM /\ 0 \in 0..NUM /\ i - 0 < NUM /\ 0 - i < NUM /\ i # 0 /\ from + 0 = from
    BY <1>0
  <2>2. ASSUME (from + i) % NUM = (from + 0) % NUM PROVE FALSE
    BY <1>0, <2>1, <2>2, OtherEntry
  <2>. QED  BY <2>1, <2>2
<1>5. 0..(n-1) = {0} \cup 1..(n-1) /\ from + 0 = from /\ 0 \notin 1..(n-1)
  <2>. HIDE DEF n
  <2>. QED  BY <1>0
<1>6. \A i \in 1..(n-1) : ring2[(from + i) % NUM] = ring[(from + i) % NUM]
  <2>1. \A e \in Desc : e # from % NUM => ring2[e] = ring[e]
    OBVIOUS
  <2>. HIDE DEF ring2, n
  <2>. QED  BY <1>2, <1>4, <1>5, <2>1
<1>7. \A i, j \in 0..(n-1) : ring[(from + i) % NUM] = ring[(from + j) % NUM] => i = j
  BY DEF Distinct
<1>8. \A e : e \in Pending(ring, from, to) <=> \E i \in 0..(n-1) : e = ring[(from + i) % NUM]
  BY InPending
<1>9. \A e : e \in Pending(ring2, from2, to)
               <=> \E i \in 0..((n-1)-1) : e = ring2[(from2 + i) % NUM]
  <2>1. \A e : e \in Pending(ring2, from2, to)
                 <=> \E i \in 0..(Level(from2, to) - 1) : e = ring2[(from2 + i) % NUM]
    <3>. HIDE DEF ring2, from2, n
    <3>. QED  BY <1>0, InPending
  <2>. HIDE DEF ring2, from2, n
  <2>. QED  BY <1>1, <2>1
<1>10. \A j \in 1..(n-1) : \E i \in 0..((n-1)-1) : j = i + 1
  <2>. SUFFICES ASSUME NEW j \in 1..(n-1) PROVE \E i \in 0..((n-1)-1) : j = i + 1
    OBVIOUS
  <2>1. j - 1 \in 0..((n-1)-1) /\ j = (j - 1) + 1
    <3>. HIDE DEF n
    <3>. QED  BY <1>0
  <2>. QED  BY <2>1
<1>11. \A e : e \in Pending(ring2, from2, to)
                <=> \E j \in 1..(n-1) : e = ring[(from + j) % NUM]
  <2>. HIDE DEF n, ring2, from2
  <2>. QED  BY <1>9, <1>3, <1>6, <1>10
<1>12. h \in Pending(ring, from, to)
  BY <1>5, <1>8
<1>13. ASSUME NEW e PROVE e \in Pending(ring2, from2, to) <=> e \in Pending(ring, from, to) \ {h}
  <2>1. h = ring[(from + 0) % NUM]
    BY <1>5
  <2>. HIDE DEF n, ring2, from2, h
  <2>. QED  BY <2>1, <1>5, <1>7, <1>8, <1>11
<1>14. Distinct(ring2, from2, to)
  <2>. SUFFICES ASSUME NEW i \in 0..((n-1)-1), NEW j \in 0..((n-1)-1),
                       ring2[(from2 + i) % NUM] = ring2[(from2 + j) % NUM]
                PROVE i = j
    BY <1>1 DEF Distinct
  <2>1. i + 1 \in 1..(n-1) /\ j + 1 \in 1..(n-1)
        /\ ring[(from + (i+1)) % NUM] = ring[(from + (j+1)) % NUM]
    <3>. HIDE DEF n, ring2, from2
    <3>. QED  BY <1>3, <1>6
  <2>2. i + 1 = j + 1
    BY <2>1, <1>5, <1>7
  <2>. QED  BY <2>2
<1>. QED  BY <1>12, <1>13, <1>14
-----------------------------------------------------------------------------
(* Allocation and chains *)

LEMMA Least ==
  ASSUME NEW S \in SUBSET Nat, S # {}
  PROVE  \E x \in S : \A y \in S : x <= y
<1>. DEFINE T == {0..x : x \in S}
           R == StrictSubsetOrdering(Nat)
           F == FiniteSubsetsOf(Nat)
<1>1. IsWellFoundedOn(R, F)
  BY FS_StrictSubsetOrderingWellFounded
<1>2. \A x \in S : 0..x \in F /\ 0..x \in SUBSET Nat
  BY FS_Interval DEF FiniteSubsetsOf
<1>3. T \subseteq F /\ T # {}
  BY <1>2
<1>4. \E t \in T : \A u \in T : ~(<<u, t>> \in R)
  <2>. HIDE DEF T, R, F
  <2>. QED  BY <1>1, <1>3, WFMin
<1>5. PICK x \in S : \A y \in S : ~(<<0..y, 0..x>> \in R)
  BY <1>4
<1>6. ASSUME NEW y \in S PROVE x <= y
  <2>1. ~(0..y \subseteq 0..x /\ 0..y # 0..x)
    BY <1>2, <1>5 DEF StrictSubsetOrdering
  <2>2. y < x => 0..y \subseteq 0..x /\ x \in 0..x /\ x \notin 0..y
    OBVIOUS
  <2>. QED  BY <2>1, <2>2
<1>. QED  BY <1>6

\* The three least elements of a set.
LEMMA LeastThree ==
  ASSUME NEW S \in SUBSET Nat, IsFiniteSet(S), Cardinality(S) >= 3
  PROVE  \E a, b, c \in S : a < b /\ b < c /\ \A e \in S \ {a, b, c} : c < e
<1>0. Cardinality(S) \in Nat
  BY FS_CardinalityType
<1>1. S # {}
  BY FS_EmptySet
<1>2. PICK a \in S : \A y \in S : a <= y
  BY <1>1, Least
<1>3. IsFiniteSet(S \ {a}) /\ Cardinality(S \ {a}) = Cardinality(S) - 1
  BY FS_RemoveElement
<1>4. S \ {a} # {}
  BY <1>0, <1>3, FS_EmptySet
<1>5. PICK b \in S \ {a} : \A y \in S \ {a} : b <= y
  <2>1. S \ {a} \in SUBSET Nat
    OBVIOUS
  <2>. QED  BY <1>4, <2>1, Least
<1>. DEFINE T == (S \ {a}) \ {b}
<1>6. IsFiniteSet(T) /\ Cardinality(T) = Cardinality(S \ {a}) - 1
  BY <1>3, FS_RemoveElement
<1>7. T # {}
  <2>1. Cardinality(T) # 0
    <3>. HIDE DEF T
    <3>. QED  BY <1>0, <1>3, <1>6
  <2>. QED  BY <1>6, <2>1, FS_EmptySet
<1>8. PICK c \in T : \A y \in T : c <= y
  <2>1. T \in SUBSET Nat
    OBVIOUS
  <2>. HIDE DEF T
  <2>. QED  BY <1>7, <2>1, Least
<1>9. a \in Nat /\ b \in Nat /\ c \in Nat /\ a # b /\ b # c /\ a <= b /\ b <= c /\ c \in S
  BY <1>2, <1>5, <1>8
<1>10. \A e \in S \ {a, b, c} : c <= e /\ c # e /\ e \in Nat
  BY <1>8
<1>11. \A e \in S \ {a, b, c} : c < e
  BY <1>9, <1>10
<1>. QED  BY <1>9, <1>11

FreeSet == {d \in Desc : free[d]}
Three(a, b, c) == a # b /\ b # c /\ a # c /\ free[a] /\ free[b] /\ free[c]

\* alloc3_desc() finds three different free descriptors (virtio_disk.c:157-168,
\* 199-213).
LEMMA AllocThree ==
  ASSUME FreeCount >= 3
  PROVE  LET idx == Next3(Lowest(3))
         IN /\ idx[1] \in Desc /\ idx[2] \in Desc /\ idx[3] \in Desc
            /\ Three(idx[1], idx[2], idx[3])
<1>. DEFINE Q(S) == Cardinality(S) = 3 /\ \A d \in S, e \in Desc \ S : free[e] => d < e
            L == Lowest(3)
            idx == Next3(L)
<1>1. FreeSet \in SUBSET Nat /\ IsFiniteSet(FreeSet) /\ FreeSet \subseteq Desc
  BY Sizes, FS_Subset DEF FreeSet
<1>2. PICK a \in FreeSet, b \in FreeSet, c \in FreeSet :
        a < b /\ b < c /\ \A e \in FreeSet \ {a, b, c} : c < e
  BY <1>1, LeastThree DEF FreeCount, FreeSet
<1>. DEFINE S == {a, b, c}
<1>3. Cardinality(S) = 3
  <2>1. a # b /\ c \notin {a, b}
    BY <1>1, <1>2
  <2>2. IsFiniteSet({a}) /\ Cardinality({a}) = 1
    BY FS_Singleton
  <2>3. IsFiniteSet({a} \cup {b}) /\ Cardinality({a} \cup {b}) = 2
    BY <2>1, <2>2, FS_AddElement
  <2>4. {a} \cup {b} = {a, b} /\ {a, b} \cup {c} = S
    OBVIOUS
  <2>5. Cardinality({a, b} \cup {c}) = 3
    BY <2>1, <2>3, <2>4, FS_AddElement
  <2>. QED  BY <2>4, <2>5
<1>4. \A d \in S, e \in Desc \ S : free[e] => d < e
  <2>. SUFFICES ASSUME NEW d \in S, NEW e \in Desc \ S, free[e] PROVE d < e
    OBVIOUS
  <2>1. e \in FreeSet \ {a, b, c}
    BY DEF FreeSet
  <2>2. c < e /\ e \in Nat /\ a \in Nat /\ b \in Nat /\ c \in Nat
    BY <2>1, <1>1, <1>2
  <2>. QED  BY <1>2, <2>2
<1>5. L \in SUBSET FreeSet /\ Cardinality(L) = 3
  <2>1. S \in SUBSET FreeSet /\ Q(S)
    BY <1>3, <1>4
  <2>2. L = CHOOSE X \in SUBSET FreeSet : Q(X)
    BY DEF Lowest, FreeSet
  <2>. HIDE DEF Q, L, S
  <2>3. L \in SUBSET FreeSet /\ Q(L)
    BY <2>1, <2>2
  <2>. QED  BY <2>3 DEF Q
<1>6. PICK x \in L, y \in L, z \in L : x < y /\ y < z
  <2>1. L \in SUBSET Nat /\ IsFiniteSet(L) /\ Cardinality(L) >= 3
    <3>. HIDE DEF L
    <3>. QED  BY <1>1, <1>5, FS_Subset
  <2>. HIDE DEF L
  <2>. QED  BY <2>1, LeastThree
<1>7. idx \in [1..3 -> L] /\ idx[1] < idx[2] /\ idx[2] < idx[3]
  <2>. DEFINE s == [i \in 1..3 |-> IF i = 1 THEN x ELSE IF i = 2 THEN y ELSE z]
  <2>1. s \in [1..3 -> L] /\ s[1] < s[2] /\ s[2] < s[3]
    <3>1. s[1] = x /\ s[2] = y /\ s[3] = z
      OBVIOUS
    <3>2. s \in [1..3 -> L]
      <4>. HIDE DEF L
      <4>. QED  BY <1>6
    <3>. HIDE DEF s, L
    <3>. QED  BY <3>1, <3>2, <1>6
  <2>. HIDE DEF s, L
  <2>. QED  BY <2>1 DEF Next3
<1>8. \A i \in 1..3 : idx[i] \in Desc /\ free[idx[i]] /\ idx[i] \in Nat
  <2>1. \A i \in 1..3 : idx[i] \in L
    <3>. HIDE DEF L, idx
    <3>. QED  BY <1>7
  <2>. HIDE DEF L, idx
  <2>. QED  BY <1>1, <1>5, <2>1 DEF FreeSet
<1>9. 1 \in 1..3 /\ 2 \in 1..3 /\ 3 \in 1..3
  OBVIOUS
<1>. HIDE DEF idx, L
<1>10. idx[1] \in Desc /\ idx[2] \in Desc /\ idx[3] \in Desc
       /\ free[idx[1]] /\ free[idx[2]] /\ free[idx[3]]
  BY <1>8, <1>9
<1>11. idx[1] # idx[2] /\ idx[2] # idx[3] /\ idx[1] # idx[3]
  BY <1>7, <1>8, <1>9
<1>. QED  BY <1>10, <1>11 DEF Three, idx, L

\* virtio_disk_rw() up to its sleep, with the descriptors it got.
SubmitWith(p, a, b, c) ==
  /\ free' = [d \in Desc |-> free[d] /\ d \notin {a, b, c}]
  /\ ops' = [ops EXCEPT ![a] = [block |-> req[p].block, write |-> req[p].write]]
  /\ desc' = [desc EXCEPT ![a] = [addr |-> <<"ops", a>>, next |-> b, more |-> TRUE],
                          ![b] = [addr |-> <<"data", p>>, next |-> c, more |-> TRUE],
                          ![c] = [addr |-> <<"status", a>>, next |-> 0, more |-> FALSE]]
  /\ info' = [info EXCEPT ![a] = [b |-> p, status |-> 255]]
  /\ avail' = [ring |-> [avail.ring EXCEPT ![avail.idx % NUM] = a],
               idx |-> (avail.idx + 1) % MOD]
  /\ head' = [head EXCEPT ![p] = a]

LEMMA SubmitThree ==
  ASSUME NEW p \in Proc, Submit(p)
  PROVE  \E a, b, c \in Desc : Three(a, b, c) /\ SubmitWith(p, a, b, c)
<1>. DEFINE idx == Next3(Lowest(3))
<1>1. /\ idx[1] \in Desc /\ idx[2] \in Desc /\ idx[3] \in Desc
      /\ Three(idx[1], idx[2], idx[3])
  BY AllocThree DEF Submit
<1>2. SubmitWith(p, idx[1], idx[2], idx[3])
  BY DEF Submit, SubmitWith
<1>. QED  BY <1>1, <1>2

\* The descriptors that free_chain() finds.
Chains == \A p \in Waiting : Chain(head[p]) = {head[p], Second(p), Third(p)}
LEMMA ChainIs == ChainOK => Chains
<1>. SUFFICES ASSUME ChainOK, NEW p \in Waiting
              PROVE Chain(head[p]) = {head[p], Second(p), Third(p)}
  BY DEF Chains
<1>1. desc[head[p]].more = TRUE /\ desc[Second(p)].more = TRUE
  <2>1. /\ desc[head[p]] = [addr |-> <<"ops", head[p]>>, next |-> Second(p), more |-> TRUE]
        /\ desc[Second(p)] = [addr |-> <<"data", p>>, next |-> Third(p), more |-> TRUE]
    BY DEF ChainOK
  <2>2. \A x, y : [addr |-> x, next |-> y, more |-> TRUE].more = TRUE
    OBVIOUS
  <2>. QED  BY <2>1, <2>2
<1>2. desc[head[p]].next = Second(p) /\ desc[Second(p)].next = Third(p)
  BY DEF Second, Third
<1>. HIDE DEF Second, Third
<1>. QED  BY <1>1, <1>2 DEF Chain

\* OwnOK in terms of the three.
OwnThree ==
  /\ \A p \in Waiting : ~free[head[p]] /\ ~free[Second(p)] /\ ~free[Third(p)]
  /\ \A p, q \in Waiting : p # q =>
       {head[p], Second(p), Third(p)} \cap {head[q], Second(q), Third(q)} = {}
  /\ \A d \in Desc : ~free[d] => \E p \in Waiting : d \in {head[p], Second(p), Third(p)}
LEMMA Owns == ChainOK => (OwnOK <=> OwnThree)
<1>. SUFFICES ASSUME ChainOK PROVE OwnOK <=> OwnThree
  OBVIOUS
<1>1. \A p \in Waiting : Chain(head[p]) = {head[p], Second(p), Third(p)}
  BY ChainIs DEF Chains
<1>2. \A p \in Waiting : head[p] \in Desc /\ Second(p) \in Desc /\ Third(p) \in Desc
  BY DEF ChainOK
<1>3. (\A p \in Waiting, d \in Desc : d \in Chain(head[p]) => ~free[d])
        <=> \A p \in Waiting : ~free[head[p]] /\ ~free[Second(p)] /\ ~free[Third(p)]
  BY <1>1, <1>2
<1>4. (\A p, q \in Waiting, d \in Desc : d \in Chain(head[p]) /\ d \in Chain(head[q]) => p = q)
        <=> \A p, q \in Waiting : p # q =>
              {head[p], Second(p), Third(p)} \cap {head[q], Second(q), Third(q)} = {}
  BY <1>1, <1>2
<1>5. (\A d \in Desc : ~free[d] => \E p \in Waiting : d \in Chain(head[p]))
        <=> \A d \in Desc : ~free[d] => \E p \in Waiting : d \in {head[p], Second(p), Third(p)}
  BY <1>1
<1>. QED  BY <1>3, <1>4, <1>5 DEF OwnOK, OwnThree
-----------------------------------------------------------------------------
(* The invariant is inductive *)

\* The descriptors in use, and heads, are fewer than the entries of a ring.
LEMMA InUseFew ==
  ASSUME FreeCount >= 3, free \in [Desc -> BOOLEAN]
  PROVE  /\ IsFiniteSet({d \in Desc : ~free[d]})
         /\ Cardinality({d \in Desc : ~free[d]}) <= NUM - 3
<1>. DEFINE F == {d \in Desc : free[d]}
            U == {d \in Desc : ~free[d]}
<1>1. IsFiniteSet(F) /\ IsFiniteSet(U)
  BY Sizes, FS_Subset
<1>2. U \cup F = Desc /\ U \cap F = {}
  OBVIOUS
<1>3. Cardinality(F) \in Nat /\ Cardinality(U) \in Nat
  <2>. HIDE DEF F, U
  <2>. QED  BY <1>1, FS_CardinalityType
<1>4. Cardinality(Desc) = Cardinality(U) + Cardinality(F)
  <2>. HIDE DEF F, U
  <2>1. Cardinality(U \cup F) = Cardinality(U) + Cardinality(F) - Cardinality(U \cap F)
    BY <1>1, FS_Union
  <2>2. Cardinality(U \cap F) = 0
    BY <1>2, FS_EmptySet
  <2>3. Cardinality(U \cup F) = Cardinality(Desc)
    BY <1>2
  <2>. QED  BY <1>3, <2>1, <2>2, <2>3
<1>5. Cardinality(F) >= 3
  BY DEF FreeCount
<1>. HIDE DEF F, U
<1>6. Cardinality(U) <= NUM - 3
  BY <1>3, <1>4, <1>5, Sizes
<1>. QED  BY <1>1, <1>6 DEF U

LEMMA HeadsFew ==
  ASSUME ChainOK, OwnOK, NEW p \in Waiting
  PROVE  /\ head[p] \in Desc /\ Second(p) \in Desc
         /\ \A q \in Waiting : head[q] \in Desc /\ head[q] # Second(p)
                               /\ (q # p => head[q] # head[p])
         /\ IsFiniteSet(Desc \ {Second(p)}) /\ Cardinality(Desc \ {Second(p)}) = NUM - 1
         /\ IsFiniteSet(Desc \ {head[p], Second(p)})
         /\ Cardinality(Desc \ {head[p], Second(p)}) = NUM - 2
<1>1. head[p] \in Desc /\ Second(p) \in Desc /\ head[p] # Second(p)
  BY DEF ChainOK
<1>2. OwnThree
  BY Owns
<1>3. ASSUME NEW q \in Waiting
      PROVE head[q] \in Desc /\ head[q] # Second(p) /\ (q # p => head[q] # head[p])
  <2>1. q # p => {head[q], Second(q), Third(q)} \cap {head[p], Second(p), Third(p)} = {}
    BY <1>2 DEF OwnThree
  <2>2. q # p => head[q] # Second(p) /\ head[q] # head[p]
    BY <2>1
  <2>3. head[q] \in Desc
    BY DEF ChainOK
  <2>. QED  BY <1>1, <2>2, <2>3
<1>4. IsFiniteSet(Desc \ {Second(p)}) /\ Cardinality(Desc \ {Second(p)}) = NUM - 1
  BY <1>1, Sizes, FS_RemoveElement
<1>5. /\ IsFiniteSet((Desc \ {Second(p)}) \ {head[p]})
      /\ Cardinality((Desc \ {Second(p)}) \ {head[p]}) = Cardinality(Desc \ {Second(p)}) - 1
  BY <1>1, <1>4, FS_RemoveElement
<1>6. (Desc \ {Second(p)}) \ {head[p]} = Desc \ {head[p], Second(p)}
  OBVIOUS
<1>7. Cardinality((Desc \ {Second(p)}) \ {head[p]}) = NUM - 2
  BY <1>4, <1>5, Sizes
<1>. QED  BY <1>1, <1>3, <1>4, <1>5, <1>6, <1>7

\* Steps that leave the descriptors and the rings alone.
Quiet ==
  /\ UNCHANGED <<driverVars, deviceVars, disk, head>>
  /\ Waiting' = Waiting
  /\ \A p \in Waiting : req'[p] = req[p]
  /\ irq \/ intr => irq' \/ intr'

LEMMA QuietStep ==
  ASSUME ChainOK, OwnOK, PlaceOK, Quiet
  PROVE  ChainOK' /\ OwnOK' /\ PlaceOK'
<1>0. /\ free' = free /\ desc' = desc /\ info' = info /\ ops' = ops /\ avail' = avail
      /\ used_idx' = used_idx /\ used' = used /\ taken' = taken /\ inside' = inside
      /\ did' = did /\ disk' = disk /\ head' = head /\ Waiting' = Waiting
  BY DEF Quiet, driverVars, deviceVars
<1>1. \A p : Second(p)' = Second(p) /\ Third(p)' = Third(p)
  BY <1>0 DEF Second, Third
<1>2. \A d : Chain(d)' = Chain(d)
  BY <1>0 DEF Chain
<1>3. ChainOK'
  <2>. SUFFICES ASSUME NEW p \in Waiting' PROVE ChainOK!(p)'
    BY DEF ChainOK
  <2>1. ChainOK!(p) /\ req'[p] = req[p]
    BY <1>0 DEF ChainOK, Quiet
  <2>. QED  BY <1>0, <1>1, <2>1
<1>4. OwnOK'
  BY <1>0, <1>2 DEF OwnOK
<1>5. Asked' = Asked /\ InAvail' = InAvail /\ InUsed' = InUsed
  BY <1>0 DEF Asked, InAvail, InUsed, Pending
<1>6. /\ Distinct(avail.ring, taken, avail.idx)' /\ Distinct(used.ring, used_idx, used.idx)'
  BY <1>0 DEF PlaceOK, Distinct, Level
<1>7. \A p \in Waiting' : disk'[p] => did'[p] = IF head'[p] \in InUsed' THEN req'[p] ELSE None
  BY <1>0, <1>5 DEF PlaceOK, Quiet
<1>8. \A id \in InUsed' : info'[id].status = 0
  BY <1>0, <1>5 DEF PlaceOK
<1>9. /\ Asked' = InAvail' \cup inside' \cup InUsed'
      /\ InAvail' \cap inside' = {} /\ InAvail' \cap InUsed' = {} /\ inside' \cap InUsed' = {}
      /\ InUsed' # {} => irq' \/ intr'
  BY <1>0, <1>5 DEF PlaceOK, Quiet
<1>. QED  BY <1>3, <1>4, <1>6, <1>7, <1>8, <1>9 DEF PlaceOK

LEMMA SetType ==
  ASSUME NEW D, NEW T, NEW f \in [D -> T], NEW d \in D, NEW v \in T
  PROVE  [f EXCEPT ![d] = v] \in [D -> T]
OBVIOUS

LEMMA CallInv ==
  ASSUME IInv, NEW p \in Proc, NEW t \in Transfer, Call(p, t)
  PROVE  IInv'
<1>0. TypeOK /\ CallOK /\ ChainOK /\ OwnOK /\ PlaceOK /\ SleepOK
  BY DEF IInv
<1>1. TypeOK'
  <2>1. pc' \in [Proc -> {"idle", "alloc", "allocsleep", "sleep", "woken"}]
        /\ req' \in [Proc -> Transfer \cup {None}]
    BY <1>0 DEF TypeOK, Call
  <2>. QED  BY <1>0, <2>1 DEF TypeOK, Call, driverVars, deviceVars
<1>2. Waiting' = Waiting /\ p \notin Waiting
  BY <1>0 DEF Call, Waiting, TypeOK
<1>3. Quiet
  <2>1. \A q \in Waiting : req'[q] = req[q]
    BY <1>0, <1>2 DEF Call, TypeOK
  <2>. QED  BY <1>2, <2>1 DEF Quiet, Call
<1>4. CallOK'
  <2>. SUFFICES ASSUME NEW q \in Proc PROVE CallOK!(q)'
    BY DEF CallOK
  <2>1. CASE q = p
    <3>1. pc'[p] = "alloc" /\ req'[p] = t /\ t # None /\ t.buf = p
      BY <1>0, DiskAssumption DEF Call, TypeOK
    <3>2. disk' = disk /\ did' = did
      BY DEF Call, deviceVars
    <3>3. ~disk[p] /\ did[p] = None
      BY <1>0, <1>2 DEF CallOK
    <3>. QED  BY <2>1, <3>1, <3>2, <3>3, <1>2
  <2>2. CASE q # p
    <3>1. pc'[q] = pc[q] /\ req'[q] = req[q] /\ disk' = disk /\ did' = did
      BY <1>0, <2>2 DEF Call, TypeOK, deviceVars
    <3>2. CallOK!(q)
      BY <1>0 DEF CallOK
    <3>. QED  BY <3>1, <3>2, <1>2
  <2>. QED  BY <2>1, <2>2
<1>5. SleepOK'
  BY <1>0 DEF SleepOK, Call, TypeOK, FreeCount, driverVars
<1>. QED  BY <1>0, <1>1, <1>3, <1>4, <1>5, QuietStep DEF IInv

\* A process that goes to sleep, or is made runnable, without its transfer.
LEMMA ProcInv ==
  ASSUME IInv, NEW p \in Proc, AllocFails(p) \/ SleepAgain(p) \/ Kill(p)
  PROVE  IInv'
<1>0. TypeOK /\ CallOK /\ ChainOK /\ OwnOK /\ PlaceOK /\ SleepOK
  BY DEF IInv
<1>1. /\ UNCHANGED <<free, desc, info, ops, avail, used_idx, used, taken, inside, did>>
      /\ UNCHANGED <<disk, req, head, intr, irq>>
  BY DEF AllocFails, SleepAgain, Kill, driverVars, deviceVars
<1>2. /\ pc' \in [Proc -> {"idle", "alloc", "allocsleep", "sleep", "woken"}]
      /\ \A q \in Proc : \/ pc'[q] = pc[q]
                         \/ pc[q] \in {"alloc", "allocsleep"} /\ pc'[q] = "alloc"
                         \/ pc[q] = "alloc" /\ pc'[q] = "allocsleep" /\ FreeCount < 3
                         \/ pc[q] \in {"sleep", "woken"} /\ pc'[q] = "woken"
                         \/ pc[q] = "woken" /\ pc'[q] = "sleep" /\ disk[q]
  <2>1. CASE AllocFails(p)
    BY <2>1, <1>0 DEF AllocFails, TypeOK, Waiters
  <2>2. CASE SleepAgain(p)
    BY <2>2, <1>0 DEF SleepAgain, TypeOK, Done
  <2>3. CASE Kill(p)
    BY <2>3, <1>0 DEF Kill, TypeOK
  <2>. QED  BY <2>1, <2>2, <2>3
<1>3. TypeOK'
  BY <1>0, <1>1, <1>2 DEF TypeOK
<1>4. Waiting' = Waiting
  BY <1>2 DEF Waiting
<1>5. Quiet
  BY <1>1, <1>4 DEF Quiet, driverVars, deviceVars
<1>6. CallOK'
  <2>. SUFFICES ASSUME NEW q \in Proc PROVE CallOK!(q)'
    BY DEF CallOK
  <2>1. CallOK!(q)
    BY <1>0 DEF CallOK
  <2>. QED  BY <2>1, <1>1, <1>2, <1>4
<1>7. SleepOK'
  <2>1. FreeCount' = FreeCount
    BY <1>1 DEF FreeCount
  <2>. QED  BY <1>0, <1>2, <2>1 DEF SleepOK
<1>. QED  BY <1>0, <1>3, <1>5, <1>6, <1>7, QuietStep DEF IInv

LEMMA AckInv ==
  ASSUME IInv, IntrAck
  PROVE  IInv'
<1>0. TypeOK /\ CallOK /\ ChainOK /\ OwnOK /\ PlaceOK /\ SleepOK
  BY DEF IInv
<1>1. /\ UNCHANGED <<free, desc, info, ops, avail, used_idx, used, taken, inside, did>>
      /\ UNCHANGED <<disk, pc, req, head>> /\ irq' = FALSE /\ intr' = TRUE
  BY DEF IntrAck, driverVars, deviceVars, procVars
<1>2. TypeOK'
  BY <1>0, <1>1 DEF TypeOK
<1>3. Waiting' = Waiting
  BY <1>1 DEF Waiting
<1>4. Quiet
  BY <1>1, <1>3 DEF Quiet, driverVars, deviceVars
<1>5. CallOK' /\ SleepOK'
  BY <1>0, <1>1, <1>3 DEF CallOK, SleepOK, FreeCount
<1>. QED  BY <1>0, <1>2, <1>4, <1>5, QuietStep DEF IInv

\* The request of Submit gets descriptors that nobody else has.
LEMMA SubmitChains ==
  ASSUME TypeOK, ChainOK, OwnThree, NEW p \in Proc, p \notin Waiting,
         NEW a \in Desc, NEW b \in Desc, NEW c \in Desc, Three(a, b, c),
         SubmitWith(p, a, b, c), req' = req, Waiting' = Waiting \cup {p}
  PROVE  /\ ChainOK' /\ OwnThree'
         /\ \A q \in Waiting : head'[q] = head[q] /\ head[q] # a
         /\ head'[p] = a
<1>1. head' = [head EXCEPT ![p] = a] /\ head'[p] = a
  BY DEF SubmitWith, TypeOK
<1>2. ASSUME NEW q \in Waiting
      PROVE  /\ q \in Proc /\ q # p /\ head'[q] = head[q]
             /\ {a, b, c} \cap {head[q], Second(q), Third(q)} = {}
             /\ head[q] \in Desc /\ Second(q) \in Desc /\ Third(q) \in Desc
  <2>1. q \in Proc /\ q # p
    BY DEF Waiting
  <2>2. head'[q] = head[q]
    BY <2>1, <1>1 DEF TypeOK
  <2>3. head[q] \in Desc /\ Second(q) \in Desc /\ Third(q) \in Desc
    BY DEF ChainOK
  <2>4. ~free[head[q]] /\ ~free[Second(q)] /\ ~free[Third(q)]
    BY DEF OwnThree
  <2>5. {a, b, c} \cap {head[q], Second(q), Third(q)} = {}
    BY <2>4 DEF Three
  <2>. QED  BY <2>1, <2>2, <2>3, <2>5
<1>3. \A d \in Desc : d \notin {a, b, c} => desc'[d] = desc[d] /\ info'[d] = info[d] /\ ops'[d] = ops[d]
  BY DEF SubmitWith, TypeOK
<1>4. ASSUME NEW q \in Waiting
      PROVE  Second(q)' = Second(q) /\ Third(q)' = Third(q)
  <2>1. Second(q)' = Second(q)
    BY <1>2, <1>3 DEF Second
  <2>2. Third(q)' = desc'[Second(q)].next
    BY <2>1 DEF Third
  <2>. QED  BY <1>2, <1>3, <2>1, <2>2 DEF Third
<1>5. /\ desc'[a] = [addr |-> <<"ops", a>>, next |-> b, more |-> TRUE]
      /\ desc'[b] = [addr |-> <<"data", p>>, next |-> c, more |-> TRUE]
      /\ desc'[c] = [addr |-> <<"status", a>>, next |-> 0, more |-> FALSE]
  BY DEF SubmitWith, TypeOK, Three
<1>6. Second(p)' = b /\ Third(p)' = c
  <2>1. Second(p)' = b
    BY <1>1, <1>5 DEF Second
  <2>. QED  BY <1>5, <2>1 DEF Third
<1>7. ChainOK'
  <2>. SUFFICES ASSUME NEW q \in Waiting' PROVE ChainOK!(q)'
    BY DEF ChainOK
  <2>1. CASE q = p
    <3>1. info'[a].b = p /\ ops'[a] = [block |-> req'[p].block, write |-> req'[p].write]
      BY DEF SubmitWith, TypeOK
    <3>. QED  BY <2>1, <1>1, <1>5, <1>6, <3>1 DEF Three
  <2>2. CASE q # p
    <3>1. q \in Waiting /\ ChainOK!(q)
      BY <2>2 DEF ChainOK
    <3>2. /\ desc'[head[q]] = desc[head[q]] /\ desc'[Second(q)] = desc[Second(q)]
          /\ desc'[Third(q)] = desc[Third(q)] /\ info'[head[q]] = info[head[q]]
          /\ ops'[head[q]] = ops[head[q]]
      BY <1>2, <1>3, <3>1
    <3>. QED  BY <3>1, <3>2, <1>2, <1>4
  <2>. QED  BY <2>1, <2>2
<1>8. OwnThree'
  <2>1. \A d \in Desc : free'[d] <=> free[d] /\ d \notin {a, b, c}
    BY DEF SubmitWith
  <2>2. \A q \in Waiting' : ~free'[head'[q]] /\ ~free'[Second(q)'] /\ ~free'[Third(q)']
    <3>. SUFFICES ASSUME NEW q \in Waiting'
                  PROVE ~free'[head'[q]] /\ ~free'[Second(q)'] /\ ~free'[Third(q)']
      OBVIOUS
    <3>1. CASE q = p
      BY <3>1, <2>1, <1>1, <1>6
    <3>2. CASE q # p
      BY <3>2, <2>1, <1>2, <1>4 DEF OwnThree
    <3>. QED  BY <3>1, <3>2
  <2>3. \A q, r \in Waiting' : q # r =>
          {head'[q], Second(q)', Third(q)'} \cap {head'[r], Second(r)', Third(r)'} = {}
    <3>. SUFFICES ASSUME NEW q \in Waiting', NEW r \in Waiting', q # r
                  PROVE {head'[q], Second(q)', Third(q)'} \cap {head'[r], Second(r)', Third(r)'} = {}
      OBVIOUS
    <3>1. CASE q = p
      BY <3>1, <1>1, <1>2, <1>4, <1>6
    <3>2. CASE r = p
      BY <3>2, <1>1, <1>2, <1>4, <1>6
    <3>3. CASE q # p /\ r # p
      BY <3>3, <1>2, <1>4 DEF OwnThree
    <3>. QED  BY <3>1, <3>2, <3>3
  <2>4. \A d \in Desc : ~free'[d] =>
          \E q \in Waiting' : d \in {head'[q], Second(q)', Third(q)'}
    <3>. SUFFICES ASSUME NEW d \in Desc, ~free'[d]
                  PROVE \E q \in Waiting' : d \in {head'[q], Second(q)', Third(q)'}
      OBVIOUS
    <3>1. CASE d \in {a, b, c}
      BY <3>1, <1>1, <1>6
    <3>2. CASE d \notin {a, b, c}
      <4>1. PICK q \in Waiting : d \in {head[q], Second(q), Third(q)}
        BY <3>2, <2>1 DEF OwnThree
      <4>. QED  BY <4>1, <1>2, <1>4
    <3>. QED  BY <3>1, <3>2
  <2>. QED  BY <2>2, <2>3, <2>4 DEF OwnThree
<1>. QED  BY <1>1, <1>2, <1>7, <1>8

LEMMA SubmitInv ==
  ASSUME IInv, NEW p \in Proc, Submit(p)
  PROVE  IInv'
<1>0. TypeOK /\ CallOK /\ ChainOK /\ OwnOK /\ PlaceOK /\ SleepOK
  BY DEF IInv
<1>1. PICK a \in Desc, b \in Desc, c \in Desc : Three(a, b, c) /\ SubmitWith(p, a, b, c)
  BY SubmitThree
<1>2. /\ pc[p] = "alloc" /\ FreeCount >= 3 /\ disk' = [disk EXCEPT ![p] = TRUE]
      /\ pc' = [pc EXCEPT ![p] = "sleep"]
      /\ UNCHANGED <<used_idx, used, taken, inside, did, req, intr, irq>>
  BY DEF Submit, deviceVars
<1>3. Waiting' = Waiting \cup {p} /\ p \notin Waiting
  BY <1>0, <1>2 DEF Waiting, TypeOK
<1>4. /\ ChainOK' /\ OwnThree' /\ head'[p] = a
      /\ \A q \in Waiting : head'[q] = head[q] /\ head[q] # a
  <2>1. OwnThree
    BY <1>0, Owns
  <2>. QED  BY <2>1, <1>0, <1>1, <1>2, <1>3, SubmitChains
<1>5. OwnOK'
  <2>1. (ChainOK => (OwnOK <=> OwnThree))'
    BY Owns, PTL
  <2>. QED  BY <2>1, <1>4
<1>6. req[p] # None /\ req[p] \in Transfer /\ req[p].block \in Block /\ req[p].write \in BOOLEAN
      /\ req[p].buf = p /\ did[p] = None /\ did[p] # req[p]
  <2>1. CallOK!(p)
    BY <1>0 DEF CallOK
  <2>2. req[p] # None /\ req[p] \in Transfer /\ req[p].buf = p /\ did[p] = None
    BY <1>0, <1>2, <1>3, <2>1 DEF TypeOK
  <2>. QED  BY <2>2, DiskAssumption
<1>7. TypeOK'
  <2>0. avail.idx % NUM \in Desc /\ (avail.idx + 1) % MOD \in Index /\ 0 \in Desc
    <3>1. avail.idx \in Int /\ avail.idx + 1 \in Int
      <4>1. avail.idx \in 0..(MOD-1)
        BY <1>0 DEF TypeOK, Index
      <4>. QED  BY <4>1
    <3>2. 0 \in Desc
      BY Sizes DEF Desc
    <3>. QED  BY <3>1, <3>2, Residues
  <2>1. free' \in [Desc -> BOOLEAN]
    BY <1>1 DEF SubmitWith
  <2>2. desc' \in [Desc -> [addr : Addr, next : Desc, more : BOOLEAN]]
    <3>1. <<"ops", a>> \in Addr /\ <<"data", p>> \in Addr /\ <<"status", a>> \in Addr
      BY DEF Addr
    <3>2. /\ [addr |-> <<"ops", a>>, next |-> b, more |-> TRUE] \in [addr : Addr, next : Desc, more : BOOLEAN]
          /\ [addr |-> <<"data", p>>, next |-> c, more |-> TRUE] \in [addr : Addr, next : Desc, more : BOOLEAN]
          /\ [addr |-> <<"status", a>>, next |-> 0, more |-> FALSE] \in [addr : Addr, next : Desc, more : BOOLEAN]
      BY <2>0, <3>1
    <3>3. desc \in [Desc -> [addr : Addr, next : Desc, more : BOOLEAN]]
      BY <1>0 DEF TypeOK
    <3>. QED  BY <3>2, <3>3, <1>1 DEF SubmitWith
  <2>3. info' \in [Desc -> [b : Proc \cup {None}, status : {0, 255}]]
    BY <1>0, <1>1 DEF SubmitWith, TypeOK
  <2>4. ops' \in [Desc -> Command \cup {None}]
    <3>1. [block |-> req[p].block, write |-> req[p].write] \in Command
      BY <1>6 DEF Command
    <3>. QED  BY <3>1, <1>0, <1>1 DEF SubmitWith, TypeOK
  <2>5. avail' \in [ring : [Desc -> Entry], idx : Index]
    <3>1. [avail.ring EXCEPT ![avail.idx % NUM] = a] \in [Desc -> Entry]
      BY <1>0 DEF TypeOK, Entry
    <3>. QED  BY <2>0, <3>1, <1>1 DEF SubmitWith
  <2>6. head' \in [Proc -> Entry]
    BY <1>0, <1>1 DEF SubmitWith, TypeOK, Entry
  <2>7. disk' \in [Proc -> BOOLEAN] /\ pc' \in [Proc -> {"idle", "alloc", "allocsleep", "sleep", "woken"}]
    BY <1>0, <1>2 DEF TypeOK
  <2>. QED  BY <2>1, <2>2, <2>3, <2>4, <2>5, <2>6, <2>7, <1>0, <1>2 DEF TypeOK
<1>8. CallOK'
  <2>. SUFFICES ASSUME NEW q \in Proc PROVE CallOK!(q)'
    BY DEF CallOK
  <2>1. CallOK!(q)
    BY <1>0 DEF CallOK
  <2>2. CASE q = p
    BY <2>2, <1>0, <1>2, <1>3, <1>6 DEF TypeOK
  <2>3. CASE q # p
    BY <2>3, <2>1, <1>0, <1>2, <1>3 DEF TypeOK
  <2>. QED  BY <2>2, <2>3
<1>9. SleepOK'
  <2>1. {d \in Desc : free'[d]} \in SUBSET {d \in Desc : free[d]}
    BY <1>1 DEF SubmitWith
  <2>. DEFINE F == {d \in Desc : free[d]}
              G == {d \in Desc : free'[d]}
  <2>2. IsFiniteSet(F)
    BY Sizes, FS_Subset
  <2>3. Cardinality(F) \in Nat /\ Cardinality(G) \in Nat /\ Cardinality(G) <= Cardinality(F)
    <3>. HIDE DEF F, G
    <3>1. IsFiniteSet(G) /\ Cardinality(G) <= Cardinality(F)
      BY <2>1, <2>2, FS_Subset DEF F, G
    <3>. QED  BY <2>2, <3>1, FS_CardinalityType
  <2>4. ASSUME NEW q \in Proc, pc'[q] = "allocsleep" PROVE Cardinality(G) < 3
    <3>1. pc[q] = "allocsleep"
      BY <2>4, <1>0, <1>2 DEF TypeOK
    <3>2. Cardinality(F) < 3
      BY <3>1, <1>0 DEF SleepOK, FreeCount
    <3>. HIDE DEF F, G
    <3>. QED  BY <3>2, <2>3
  <2>. QED  BY <2>4 DEF SleepOK, FreeCount
<1>10. Asked' = Asked \cup {a} /\ a \notin Asked
  <2>1. \A q \in Waiting : disk'[q] = disk[q]
    BY <1>0, <1>2, <1>3 DEF TypeOK, Waiting
  <2>2. disk'[p]
    BY <1>0, <1>2 DEF TypeOK
  <2>. QED  BY <2>1, <2>2, <1>3, <1>4 DEF Asked
<1>11. InAvail \subseteq {d \in Desc : ~free[d]}
  <2>1. \A q \in Waiting : head[q] \in Desc /\ ~free[head[q]]
    BY <1>0, Owns DEF OwnThree, ChainOK
  <2>. QED  BY <1>0, <2>1 DEF PlaceOK, Asked
<1>12. InAvail' = InAvail \cup {a} /\ Distinct(avail.ring, taken, avail.idx)'
  <2>1. avail.ring \in [Desc -> Entry] /\ avail.idx \in Index /\ taken \in Index
        /\ Distinct(avail.ring, taken, avail.idx) /\ free \in [Desc -> BOOLEAN]
    BY <1>0 DEF TypeOK, PlaceOK
  <2>2. Level(taken, avail.idx) + 1 < NUM
    <3>. DEFINE U == {d \in Desc : ~free[d]}
    <3>1. IsFiniteSet(U) /\ Cardinality(U) <= NUM - 3
      BY <2>1, <1>2, InUseFew
    <3>2. Pending(avail.ring, taken, avail.idx) \subseteq U
      BY <1>11 DEF InAvail
    <3>. HIDE DEF U
    <3>3. Cardinality(U) \in Nat /\ Level(taken, avail.idx) <= Cardinality(U)
      BY <2>1, <3>1, <3>2, FewEntries
    <3>4. Level(taken, avail.idx) \in Int
      <4>1. Level(taken, avail.idx) \in 0..(MOD-1)
        BY <2>1, Levels DEF Index
      <4>. QED  BY <4>1
    <3>. QED  BY <3>1, <3>3, <3>4, Sizes
  <2>3. a \notin Pending(avail.ring, taken, avail.idx)
    BY <1>1, <1>11 DEF Three, InAvail
  <2>4. /\ avail'.ring = [avail.ring EXCEPT ![avail.idx % NUM] = a]
        /\ avail'.idx = (avail.idx + 1) % MOD /\ taken' = taken
    BY <1>1, <1>2 DEF SubmitWith
  <2>5. /\ Pending(avail'.ring, taken, avail'.idx) = Pending(avail.ring, taken, avail.idx) \cup {a}
        /\ Distinct(avail'.ring, taken, avail'.idx)
    BY <2>1, <2>2, <2>3, <2>4, RingPut
  <2>. QED  BY <2>4, <2>5 DEF InAvail, Pending, Distinct, Level
<1>13. InUsed' = InUsed /\ Distinct(used.ring, used_idx, used.idx)'
  BY <1>0, <1>2 DEF InUsed, Pending, PlaceOK, Distinct, Level
<1>14. \A id \in InUsed' : info'[id].status = 0
  <2>1. \A id \in InUsed : id \in Desc /\ id # a
    <3>1. InUsed \subseteq Asked
      BY <1>0 DEF PlaceOK
    <3>2. \A q \in Waiting : head[q] \in Desc /\ head[q] # a
      BY <1>0, <1>4 DEF ChainOK
    <3>. QED  BY <3>1, <3>2 DEF Asked
  <2>2. \A id \in Desc : id # a => info'[id] = info[id]
    BY <1>0, <1>1 DEF SubmitWith, TypeOK
  <2>. QED  BY <2>1, <2>2, <1>0, <1>13 DEF PlaceOK
<1>15. \A q \in Waiting' : disk'[q] => did'[q] = IF head'[q] \in InUsed' THEN req'[q] ELSE None
  <2>. SUFFICES ASSUME NEW q \in Waiting', disk'[q]
                PROVE did'[q] = IF head'[q] \in InUsed' THEN req'[q] ELSE None
    OBVIOUS
  <2>1. CASE q = p
    BY <2>1, <1>0, <1>2, <1>4, <1>6, <1>10, <1>13 DEF PlaceOK
  <2>2. CASE q # p
    <3>1. q \in Waiting /\ disk[q]
      BY <2>2, <1>0, <1>2, <1>3 DEF TypeOK, Waiting
    <3>. QED  BY <3>1, <1>0, <1>2, <1>4, <1>13 DEF PlaceOK
  <2>. QED  BY <2>1, <2>2
<1>16. PlaceOK'
  BY <1>0, <1>2, <1>10, <1>12, <1>13, <1>14, <1>15 DEF PlaceOK
<1>. QED  BY <1>4, <1>5, <1>7, <1>8, <1>9, <1>16 DEF IInv

\* free_chain() gives back the three descriptors of the request, and no other.
LEMMA FinishChains ==
  ASSUME TypeOK, ChainOK, OwnThree, NEW p \in Waiting, Finish(p), Waiting' = Waiting \ {p}
  PROVE  /\ ChainOK' /\ OwnThree'
         /\ \A q \in Waiting \ {p} : head'[q] = head[q] /\ head[q] # head[p] /\ head[q] \in Desc
<1>0. /\ p \in Proc /\ head[p] \in Desc /\ Second(p) \in Desc /\ Third(p) \in Desc
  BY DEF ChainOK, Waiting
<1>1. Freed(p) = {head[p], Second(p), Third(p)}
  BY ChainIs DEF Freed, Chains
<1>2. /\ \A d \in Desc : desc'[d] = IF d \in Freed(p) THEN NoDesc ELSE desc[d]
      /\ \A d \in Desc : free'[d] <=> free[d] \/ d \in Freed(p)
      /\ \A d \in Desc : d # head[p] => info'[d] = info[d] /\ ops'[d] = ops[d]
      /\ \A q \in Proc : q # p => head'[q] = head[q] /\ req'[q] = req[q]
  BY DEF Finish, TypeOK
<1>3. ASSUME NEW q \in Waiting \ {p}
      PROVE  /\ q \in Waiting /\ q \in Proc /\ q # p /\ head'[q] = head[q] /\ req'[q] = req[q]
             /\ {head[p], Second(p), Third(p)} \cap {head[q], Second(q), Third(q)} = {}
             /\ head[q] \in Desc /\ Second(q) \in Desc /\ Third(q) \in Desc
  <2>1. q \in Waiting /\ q \in Proc /\ q # p
    BY DEF Waiting
  <2>2. head'[q] = head[q] /\ req'[q] = req[q]
    BY <2>1, <1>2
  <2>3. head[q] \in Desc /\ Second(q) \in Desc /\ Third(q) \in Desc
    BY <2>1 DEF ChainOK
  <2>4. {head[p], Second(p), Third(p)} \cap {head[q], Second(q), Third(q)} = {}
    BY <2>1 DEF OwnThree
  <2>. QED  BY <2>1, <2>2, <2>3, <2>4
<1>30. ASSUME NEW q \in Waiting \ {p}, NEW d \in {head[q], Second(q), Third(q)}
       PROVE  d \in Desc /\ d \notin Freed(p) /\ d # head[p] /\ desc'[d] = desc[d]
              /\ info'[d] = info[d] /\ ops'[d] = ops[d] /\ (free'[d] <=> free[d])
  <2>1. d \in Desc /\ d \notin {head[p], Second(p), Third(p)}
    BY <1>3
  <2>2. d \notin Freed(p)
    BY <2>1, <1>1
  <2>. QED  BY <2>1, <2>2, <1>2
<1>4. ASSUME NEW q \in Waiting \ {p}
      PROVE  Second(q)' = Second(q) /\ Third(q)' = Third(q)
  <2>1. desc'[head[q]] = desc[head[q]] /\ desc'[Second(q)] = desc[Second(q)]
    BY <1>30
  <2>2. Second(q)' = Second(q)
    BY <2>1, <1>3 DEF Second
  <2>3. Third(q)' = desc'[Second(q)].next
    BY <2>2 DEF Third
  <2>. QED  BY <2>1, <2>2, <2>3 DEF Third
<1>5. ChainOK'
  <2>. SUFFICES ASSUME NEW q \in Waiting' PROVE ChainOK!(q)'
    BY DEF ChainOK
  <2>1. q \in Waiting \ {p} /\ ChainOK!(q)
    BY DEF ChainOK
  <2>2. /\ desc'[head[q]] = desc[head[q]] /\ desc'[Second(q)] = desc[Second(q)]
        /\ desc'[Third(q)] = desc[Third(q)] /\ info'[head[q]] = info[head[q]]
        /\ ops'[head[q]] = ops[head[q]]
    BY <1>30, <2>1
  <2>. QED  BY <2>1, <2>2, <1>3, <1>4
<1>6. OwnThree'
  <2>1. \A q \in Waiting' : ~free'[head'[q]] /\ ~free'[Second(q)'] /\ ~free'[Third(q)']
    <3>. SUFFICES ASSUME NEW q \in Waiting \ {p}
                  PROVE ~free'[head'[q]] /\ ~free'[Second(q)'] /\ ~free'[Third(q)']
      OBVIOUS
    <3>1. ~free'[head[q]] /\ ~free'[Second(q)] /\ ~free'[Third(q)]
      BY <1>30 DEF OwnThree
    <3>. QED  BY <3>1, <1>3, <1>4
  <2>2. \A q, r \in Waiting' : q # r =>
          {head'[q], Second(q)', Third(q)'} \cap {head'[r], Second(r)', Third(r)'} = {}
    BY <1>3, <1>4 DEF OwnThree
  <2>3. \A d \in Desc : ~free'[d] =>
          \E q \in Waiting' : d \in {head'[q], Second(q)', Third(q)'}
    <3>. SUFFICES ASSUME NEW d \in Desc, ~free'[d]
                  PROVE \E q \in Waiting' : d \in {head'[q], Second(q)', Third(q)'}
      OBVIOUS
    <3>1. ~free[d] /\ d \notin {head[p], Second(p), Third(p)}
      BY <1>1, <1>2
    <3>2. PICK q \in Waiting : d \in {head[q], Second(q), Third(q)}
      BY <3>1 DEF OwnThree
    <3>. QED  BY <3>1, <3>2, <1>3, <1>4
  <2>. QED  BY <2>1, <2>2, <2>3 DEF OwnThree
<1>. QED  BY <1>3, <1>5, <1>6

LEMMA FinishInv ==
  ASSUME IInv, NEW p \in Proc, Finish(p)
  PROVE  IInv'
<1>0. TypeOK /\ CallOK /\ ChainOK /\ OwnOK /\ PlaceOK /\ SleepOK
  BY DEF IInv
<1>1. /\ p \in Waiting /\ ~disk[p]
      /\ UNCHANGED <<avail, used_idx, used, taken, inside, disk, intr, irq>>
  BY DEF Finish, Waiting, Done
<1>2. /\ pc' \in [Proc -> {"idle", "alloc", "allocsleep", "sleep", "woken"}]
      /\ pc'[p] = "idle"
      /\ \A q \in Proc : q # p => \/ pc'[q] = pc[q] /\ pc[q] # "allocsleep"
                                  \/ pc[q] = "allocsleep" /\ pc'[q] = "alloc"
  BY <1>0 DEF Finish, TypeOK, Waiters
<1>3. Waiting' = Waiting \ {p}
  BY <1>2 DEF Waiting
<1>4. /\ ChainOK' /\ OwnThree'
      /\ \A q \in Waiting \ {p} : head'[q] = head[q] /\ head[q] # head[p] /\ head[q] \in Desc
  <2>1. OwnThree
    BY <1>0, Owns
  <2>. QED  BY <2>1, <1>0, <1>1, <1>3, FinishChains
<1>5. OwnOK'
  <2>1. (ChainOK => (OwnOK <=> OwnThree))'
    BY Owns, PTL
  <2>. QED  BY <2>1, <1>4
<1>6. /\ req' = [req EXCEPT ![p] = None] /\ did' = [did EXCEPT ![p] = None]
      /\ info' = [info EXCEPT ![head[p]].b = None]
  BY DEF Finish
<1>7. TypeOK'
  <2>1. free' \in [Desc -> BOOLEAN]
    <3>1. \A d \in Desc : (free[d] \/ d \in Freed(p)) \in BOOLEAN
      OBVIOUS
    <3>. QED  BY <3>1 DEF Finish
  <2>2. desc' \in [Desc -> [addr : Addr, next : Desc, more : BOOLEAN]]
    <3>1. NoDesc \in [addr : Addr, next : Desc, more : BOOLEAN]
      <4>1. 0 \in Desc
        BY Sizes DEF Desc
      <4>. QED  BY <4>1 DEF NoDesc, Addr
    <3>. QED  BY <3>1, <1>0 DEF Finish, TypeOK
  <2>3. info' \in [Desc -> [b : Proc \cup {None}, status : {0, 255}]]
    <3>1. [info[head[p]] EXCEPT !.b = None] \in [b : Proc \cup {None}, status : {0, 255}]
      <4>1. head[p] \in Desc
        BY <1>0, <1>1 DEF ChainOK
      <4>2. info[head[p]] \in [b : Proc \cup {None}, status : {0, 255}]
        BY <4>1, <1>0 DEF TypeOK
      <4>. QED  BY <4>2
    <3>2. info' = [info EXCEPT ![head[p]] = [info[head[p]] EXCEPT !.b = None]]
      BY <1>6
    <3>3. info \in [Desc -> [b : Proc \cup {None}, status : {0, 255}]]
      BY <1>0 DEF TypeOK
    <3>. QED  BY <3>1, <3>2, <3>3
  <2>4. ops' \in [Desc -> Command \cup {None}] /\ head' \in [Proc -> Entry]
    BY <1>0 DEF Finish, TypeOK, Entry
  <2>5. req' \in [Proc -> Transfer \cup {None}] /\ did' \in [Proc -> Transfer \cup {None}]
    BY <1>0, <1>6 DEF TypeOK
  <2>. QED  BY <2>1, <2>2, <2>3, <2>4, <2>5, <1>0, <1>1, <1>2 DEF TypeOK
<1>8. CallOK'
  <2>. SUFFICES ASSUME NEW q \in Proc PROVE CallOK!(q)'
    BY DEF CallOK
  <2>1. CallOK!(q)
    BY <1>0 DEF CallOK
  <2>2. CASE q = p
    BY <2>2, <1>0, <1>1, <1>2, <1>3, <1>6 DEF TypeOK
  <2>3. CASE q # p
    <3>1. req'[q] = req[q] /\ did'[q] = did[q] /\ disk'[q] = disk[q]
      BY <2>3, <1>0, <1>1, <1>6 DEF TypeOK
    <3>. QED  BY <2>1, <2>3, <3>1, <1>2, <1>3
  <2>. QED  BY <2>2, <2>3
<1>9. SleepOK'
  BY <1>2 DEF SleepOK
<1>10. Asked' = Asked /\ InAvail' = InAvail /\ InUsed' = InUsed /\ head[p] \notin Asked
  <2>1. \A q \in Waiting : disk[q] => q \in Waiting \ {p} /\ head'[q] = head[q] /\ head[q] # head[p]
    BY <1>1, <1>4
  <2>2. Asked' = Asked /\ head[p] \notin Asked
    BY <2>1, <1>1, <1>3, <1>4 DEF Asked
  <2>. QED  BY <2>2, <1>1 DEF InAvail, InUsed, Pending
<1>11. \A id \in InUsed' : info'[id].status = 0
  <2>1. \A id \in InUsed : id \in Desc /\ id # head[p]
    <3>1. InUsed \subseteq Asked
      BY <1>0 DEF PlaceOK
    <3>2. \A q \in Waiting : head[q] \in Desc
      BY <1>0 DEF ChainOK
    <3>. QED  BY <3>1, <3>2, <1>10 DEF Asked
  <2>2. \A id \in Desc : id # head[p] => info'[id] = info[id]
    BY <1>0, <1>6 DEF TypeOK
  <2>. QED  BY <2>1, <2>2, <1>0, <1>10 DEF PlaceOK
<1>12. \A q \in Waiting' : disk'[q] => did'[q] = IF head'[q] \in InUsed' THEN req'[q] ELSE None
  <2>. SUFFICES ASSUME NEW q \in Waiting \ {p}, disk[q]
                PROVE did'[q] = IF head'[q] \in InUsed' THEN req'[q] ELSE None
    BY <1>1, <1>3
  <2>1. req'[q] = req[q] /\ did'[q] = did[q] /\ head'[q] = head[q]
    BY <1>0, <1>4, <1>6 DEF TypeOK, Waiting
  <2>. QED  BY <2>1, <1>0, <1>10 DEF PlaceOK
<1>13. Distinct(avail.ring, taken, avail.idx)' /\ Distinct(used.ring, used_idx, used.idx)'
  BY <1>0, <1>1 DEF PlaceOK, Distinct, Level
<1>14. PlaceOK'
  BY <1>0, <1>1, <1>10, <1>11, <1>12, <1>13 DEF PlaceOK
<1>. QED  BY <1>4, <1>5, <1>7, <1>8, <1>9, <1>14 DEF IInv
-----------------------------------------------------------------------------
(* The interrupt and the device *)

\* The steps that leave the chains alone.
LEMMA ChainsKept ==
  ASSUME ChainOK, OwnOK, UNCHANGED <<free, desc, ops, head, req>>, Waiting' = Waiting,
         \A p \in Waiting : info'[head[p]].b = info[head[p]].b
  PROVE  ChainOK' /\ OwnOK'
<1>1. \A p : Second(p)' = Second(p) /\ Third(p)' = Third(p)
  BY DEF Second, Third
<1>2. \A d : Chain(d)' = Chain(d)
  BY DEF Chain
<1>3. ChainOK'
  <2>. SUFFICES ASSUME NEW p \in Waiting' PROVE ChainOK!(p)'
    BY DEF ChainOK
  <2>1. ChainOK!(p)
    BY DEF ChainOK
  <2>. QED  BY <1>1, <2>1
<1>4. OwnOK'
  BY <1>2 DEF OwnOK
<1>. QED  BY <1>3, <1>4

LEMMA LoopInv ==
  ASSUME IInv, IntrLoop
  PROVE  IInv'
<1>0. TypeOK /\ CallOK /\ ChainOK /\ OwnOK /\ PlaceOK /\ SleepOK
  BY DEF IInv
<1>. DEFINE n == (Upto - used_idx) % MOD
            places == {Completed(i) : i \in 0..(n-1)}
            ids == {used.ring[i] : i \in places}
            bufs == {info[id].b : id \in ids}
<1>1. /\ disk' = [p \in Proc |-> disk[p] /\ p \notin bufs]
      /\ pc' = [p \in Proc |-> IF p \in bufs /\ pc[p] = "sleep" THEN "woken" ELSE pc[p]]
      /\ used' = [used EXCEPT !.ring = [i \in Desc |-> IF i \in places THEN None ELSE used.ring[i]]]
      /\ used_idx' = used.idx /\ intr' = FALSE
      /\ UNCHANGED <<free, desc, info, ops, avail, taken, inside, did, req, head, irq>>
  BY DEF IntrLoop, Upto
<1>2. ids = InUsed
  BY DEF InUsed, Pending, Completed, Upto
<1>3. \A p \in Waiting : disk[p] => (p \in bufs <=> head[p] \in InUsed)
  <2>. SUFFICES ASSUME NEW p \in Waiting, disk[p] PROVE p \in bufs <=> head[p] \in InUsed
    OBVIOUS
  <2>1. info[head[p]].b = p
    BY <1>0 DEF ChainOK
  <2>2. ASSUME p \in bufs PROVE head[p] \in InUsed
    <3>1. PICK id \in InUsed : p = info[id].b
      BY <2>2, <1>2
    <3>2. PICK q \in Waiting : id = head[q]
      BY <1>0 DEF PlaceOK, Asked
    <3>3. info[head[q]].b = q
      BY <1>0 DEF ChainOK
    <3>. QED  BY <3>1, <3>2, <3>3
  <2>3. ASSUME head[p] \in InUsed PROVE p \in bufs
    BY <2>1, <2>3, <1>2
  <2>. QED  BY <2>2, <2>3
<1>. HIDE DEF bufs, ids, places, n
<1>4. /\ disk' \in [Proc -> BOOLEAN]
      /\ \A p \in Proc : disk'[p] <=> disk[p] /\ p \notin bufs
  <2>1. \A p \in Proc : (disk[p] /\ p \notin bufs) \in BOOLEAN
    OBVIOUS
  <2>. QED  BY <2>1, <1>1
<1>5. /\ pc' \in [Proc -> {"idle", "alloc", "allocsleep", "sleep", "woken"}]
      /\ \A p \in Proc : pc'[p] = IF p \in bufs /\ pc[p] = "sleep" THEN "woken" ELSE pc[p]
  BY <1>0, <1>1 DEF TypeOK
<1>6. used' \in [ring : [Desc -> Entry], idx : Index] /\ used'.idx = used.idx
  <2>1. [i \in Desc |-> IF i \in places THEN None ELSE used.ring[i]] \in [Desc -> Entry]
    BY <1>0 DEF TypeOK, Entry
  <2>. QED  BY <2>1, <1>0, <1>1 DEF TypeOK
<1>7. TypeOK'
  <2>1. used_idx' \in Index /\ intr' \in BOOLEAN
    BY <1>0, <1>1 DEF TypeOK
  <2>. QED  BY <2>1, <1>0, <1>1, <1>4, <1>5, <1>6 DEF TypeOK
<1>8. Waiting' = Waiting
  BY <1>5 DEF Waiting
<1>9. ChainOK' /\ OwnOK'
  BY <1>0, <1>1, <1>8, ChainsKept
<1>10. CallOK'
  <2>. SUFFICES ASSUME NEW p \in Proc PROVE CallOK!(p)'
    BY DEF CallOK
  <2>1. CallOK!(p)
    BY <1>0 DEF CallOK
  <2>2. p \in Waiting /\ ~disk'[p] => did[p] = req[p]
    <3>. SUFFICES ASSUME p \in Waiting, disk[p], p \in bufs PROVE did[p] = req[p]
      BY <2>1, <1>4
    <3>1. head[p] \in InUsed
      BY <1>3
    <3>. QED  BY <3>1, <1>0 DEF PlaceOK
  <2>3. pc'[p] = "sleep" => pc[p] = "sleep" /\ p \notin bufs
    BY <1>5
  <2>4. pc'[p] = "idle" <=> pc[p] = "idle"
    BY <1>5
  <2>. QED  BY <2>1, <2>2, <2>3, <2>4, <1>1, <1>4, <1>8
<1>11. SleepOK'
  <2>1. FreeCount' = FreeCount
    BY <1>1 DEF FreeCount
  <2>. QED  BY <2>1, <1>0, <1>5 DEF SleepOK
<1>12. InUsed' = {} /\ Distinct(used.ring, used_idx, used.idx)'
  <2>1. used.idx \in Index
    BY <1>0 DEF TypeOK
  <2>2. Pending(used'.ring, used.idx, used.idx) = {} /\ Distinct(used'.ring, used.idx, used.idx)
    BY <2>1, EmptyRing
  <2>3. used_idx' = used.idx /\ used'.idx = used.idx
    BY <1>1, <1>6
  <2>4. InUsed' = {}
    BY <2>2, <2>3 DEF InUsed, Pending
  <2>5. Distinct(used.ring, used_idx, used.idx)'
    BY <2>2, <2>3 DEF Distinct, Level
  <2>. QED  BY <2>4, <2>5
<1>13. InAvail' = InAvail /\ Distinct(avail.ring, taken, avail.idx)'
  BY <1>0, <1>1 DEF InAvail, Pending, PlaceOK, Distinct, Level
<1>14. Asked' = Asked \ InUsed
  <2>1. \A p, q \in Waiting : p # q => head[p] # head[q]
    <3>1. OwnThree
      BY <1>0, Owns
    <3>2. \A p, q \in Waiting : p # q =>
            {head[p], Second(p), Third(p)} \cap {head[q], Second(q), Third(q)} = {}
      BY <3>1 DEF OwnThree
    <3>. QED  BY <3>2
  <2>2. \A p \in Waiting : disk'[p] <=> disk[p] /\ head[p] \notin InUsed
    BY <1>3, <1>4 DEF Waiting
  <2>. QED  BY <2>1, <2>2, <1>1, <1>8 DEF Asked
<1>15. \A p \in Waiting' : disk'[p] => did'[p] = IF head'[p] \in InUsed' THEN req'[p] ELSE None
  <2>. SUFFICES ASSUME NEW p \in Waiting, disk'[p] PROVE did[p] = None
    BY <1>1, <1>8, <1>12
  <2>1. disk[p] /\ head[p] \notin InUsed
    BY <1>3, <1>4 DEF Waiting
  <2>. QED  BY <2>1, <1>0 DEF PlaceOK
<1>16. PlaceOK'
  <2>1. Asked' = InAvail' \cup inside' \cup InUsed'
    BY <1>0, <1>1, <1>12, <1>13, <1>14 DEF PlaceOK
  <2>2. InAvail' \cap inside' = {}
    BY <1>0, <1>1, <1>13 DEF PlaceOK
  <2>. QED  BY <2>1, <2>2, <1>12, <1>13, <1>15 DEF PlaceOK
<1>. QED  BY <1>7, <1>9, <1>10, <1>11, <1>16 DEF IInv

\* No ring is ever full: each request has descriptors that are no heads.
LEMMA RingRoom ==
  ASSUME ChainOK, OwnOK, NEW ring, NEW from \in Index, NEW to \in Index,
         Distinct(ring, from, to), Pending(ring, from, to) \subseteq Asked
  PROVE  /\ Level(from, to) < NUM
         /\ \A h \in Asked : h \notin Pending(ring, from, to) => Level(from, to) + 1 < NUM
<1>0. Level(from, to) \in Nat
  BY Levels, Sizes DEF Index
<1>1. \A h \in Asked : \E q \in Waiting : h = head[q]
  BY DEF Asked
<1>2. CASE Pending(ring, from, to) = {}
  <2>1. IsFiniteSet({}) /\ Cardinality({}) = 0
    BY FS_EmptySet
  <2>2. Level(from, to) <= Cardinality({})
    BY <1>2, <2>1, FewEntries
  <2>3. Level(from, to) <= 0
    BY <2>1, <2>2
  <2>. QED  BY <1>0, <2>3, Sizes
<1>3. CASE Pending(ring, from, to) # {}
  <2>1. PICK p \in Waiting : TRUE
    BY <1>1, <1>3
  <2>2. /\ \A q \in Waiting : head[q] \in Desc /\ head[q] # Second(p)
        /\ IsFiniteSet(Desc \ {Second(p)}) /\ Cardinality(Desc \ {Second(p)}) = NUM - 1
    BY HeadsFew
  <2>3. Pending(ring, from, to) \subseteq Desc \ {Second(p)}
    BY <1>1, <2>2
  <2>4. Level(from, to) <= Cardinality(Desc \ {Second(p)})
    BY <2>2, <2>3, FewEntries
  <2>5. Level(from, to) < NUM
    BY <1>0, <2>2, <2>4, Sizes
  <2>6. ASSUME NEW h \in Asked, h \notin Pending(ring, from, to) PROVE Level(from, to) + 1 < NUM
    <3>1. PICK r \in Waiting : h = head[r]
      BY <1>1
    <3>2. /\ \A q \in Waiting : head[q] \in Desc /\ head[q] # Second(r)
          /\ IsFiniteSet(Desc \ {head[r], Second(r)})
          /\ Cardinality(Desc \ {head[r], Second(r)}) = NUM - 2
      BY HeadsFew
    <3>3. Pending(ring, from, to) \subseteq Desc \ {head[r], Second(r)}
      BY <1>1, <2>6, <3>1, <3>2
    <3>4. Level(from, to) <= Cardinality(Desc \ {head[r], Second(r)})
      BY <3>2, <3>3, FewEntries
    <3>. QED  BY <1>0, <3>2, <3>4, Sizes
  <2>. QED  BY <2>5, <2>6
<1>. QED  BY <1>2, <1>3

LEMMA TakeInv ==
  ASSUME IInv, DeviceTake
  PROVE  IInv'
<1>0. TypeOK /\ CallOK /\ ChainOK /\ OwnOK /\ PlaceOK /\ SleepOK
  BY DEF IInv
<1>. DEFINE h == avail.ring[taken % NUM]
<1>1. /\ taken # avail.idx /\ inside' = inside \cup {h} /\ taken' = (taken + 1) % MOD
      /\ avail' = [avail EXCEPT !.ring[taken % NUM] = None]
      /\ UNCHANGED <<free, desc, info, ops, used_idx, disk, pc, req, head, used, did, intr, irq>>
  BY DEF DeviceTake, procVars
<1>2. /\ avail.ring \in [Desc -> Entry] /\ avail.idx \in Index /\ taken \in Index
      /\ Distinct(avail.ring, taken, avail.idx)
      /\ avail \in [ring : [Desc -> Entry], idx : Index]
  BY <1>0 DEF TypeOK, PlaceOK
<1>3. avail' = [avail EXCEPT !.ring = [avail.ring EXCEPT ![taken % NUM] = None]]
  BY <1>1
<1>4. /\ avail'.ring = [avail.ring EXCEPT ![taken % NUM] = None] /\ avail'.idx = avail.idx
      /\ avail' \in [ring : [Desc -> Entry], idx : Index]
  <2>1. [avail.ring EXCEPT ![taken % NUM] = None] \in [Desc -> Entry]
    BY <1>2 DEF Entry
  <2>. QED  BY <1>2, <1>3, <2>1
<1>5. Pending(avail.ring, taken, avail.idx) \subseteq Asked
  BY <1>0 DEF PlaceOK, InAvail
<1>6. Level(taken, avail.idx) < NUM
  BY <1>0, <1>2, <1>5, RingRoom
<1>7. /\ h \in Pending(avail.ring, taken, avail.idx)
      /\ Pending(avail'.ring, taken', avail.idx) = Pending(avail.ring, taken, avail.idx) \ {h}
      /\ Distinct(avail'.ring, taken', avail.idx)
  BY <1>1, <1>2, <1>4, <1>6, RingTake
<1>. HIDE DEF h
<1>8. h \in InAvail /\ InAvail' = InAvail \ {h} /\ Distinct(avail.ring, taken, avail.idx)'
  <2>1. InAvail' = Pending(avail'.ring, taken', avail'.idx)
    BY DEF InAvail, Pending
  <2>2. Distinct(avail.ring, taken, avail.idx)' <=> Distinct(avail'.ring, taken', avail'.idx)
    BY DEF Distinct, Level
  <2>. QED  BY <1>4, <1>7, <2>1, <2>2 DEF InAvail
<1>9. h \in Desc
  <2>1. \A q \in Waiting : head[q] \in Desc
    BY <1>0 DEF ChainOK
  <2>. QED  BY <2>1, <1>5, <1>7 DEF Asked
<1>10. TypeOK'
  <2>1. taken' \in Index
    <3>1. taken + 1 \in Int
      <4>1. taken \in 0..(MOD-1)
        BY <1>2 DEF Index
      <4>. QED  BY <4>1
    <3>. QED  BY <3>1, <1>1, Residues
  <2>2. inside' \in SUBSET Desc
    BY <1>0, <1>1, <1>9 DEF TypeOK
  <2>. QED  BY <2>1, <2>2, <1>0, <1>1, <1>4 DEF TypeOK
<1>11. Waiting' = Waiting
  BY <1>1 DEF Waiting
<1>12. ChainOK' /\ OwnOK'
  BY <1>0, <1>1, <1>11, ChainsKept
<1>13. CallOK' /\ SleepOK'
  BY <1>0, <1>1, <1>11 DEF CallOK, SleepOK, FreeCount
<1>14. InUsed' = InUsed /\ Distinct(used.ring, used_idx, used.idx)' /\ Asked' = Asked
  BY <1>0, <1>1, <1>11 DEF InUsed, Pending, PlaceOK, Distinct, Level, Asked
<1>15. PlaceOK'
  <2>1. Asked' = InAvail' \cup inside' \cup InUsed'
    BY <1>0, <1>1, <1>8, <1>14 DEF PlaceOK
  <2>2. InAvail' \cap inside' = {} /\ InAvail' \cap InUsed' = {} /\ inside' \cap InUsed' = {}
    BY <1>0, <1>1, <1>8, <1>14 DEF PlaceOK
  <2>3. InUsed' # {} => irq' \/ intr'
    BY <1>0, <1>1, <1>14 DEF PlaceOK
  <2>4. \A id \in InUsed' : info'[id].status = 0
    BY <1>0, <1>1, <1>14 DEF PlaceOK
  <2>5. \A p \in Waiting' : disk'[p] => did'[p] = IF head'[p] \in InUsed' THEN req'[p] ELSE None
    BY <1>0, <1>1, <1>11, <1>14 DEF PlaceOK
  <2>. QED  BY <2>1, <2>2, <2>3, <2>4, <2>5, <1>8, <1>14 DEF PlaceOK
<1>. QED  BY <1>10, <1>12, <1>13, <1>15 DEF IInv

\* The device makes the transfer of the process whose request it works on, and
\* reports it at the head of the same request.
Answers(p, h) ==
  /\ p \in Waiting /\ disk[p] /\ head[p] = h /\ h \in Desc /\ h \notin InUsed
  /\ did[p] = None /\ req[p] \in Transfer
  /\ did' = [did EXCEPT ![p] = req[p]]
  /\ info' = [info EXCEPT ![h].status = 0]

LEMMA Answered ==
  ASSUME IInv, NEW h \in Desc, DeviceDone(h)
  PROVE  \E p \in Proc : Answers(p, h)
<1>0. TypeOK /\ CallOK /\ ChainOK /\ OwnOK /\ PlaceOK
  BY DEF IInv
<1>1. h \in inside /\ h \notin InUsed /\ h \in Asked
  BY <1>0 DEF DeviceDone, PlaceOK
<1>2. PICK p \in Waiting : disk[p] /\ h = head[p]
  BY <1>1 DEF Asked
<1>3. p \in Proc
  BY DEF Waiting
<1>4. ChainOK!(p)
  BY <1>0 DEF ChainOK
<1>5. /\ desc[h].next = Second(p) /\ desc[Second(p)].next = Third(p)
  BY <1>2 DEF Second, Third
<1>6. /\ desc[h].addr = <<"ops", h>> /\ desc[Second(p)].addr = <<"data", p>>
      /\ desc[Third(p)].addr = <<"status", h>>
  <2>1. \A x, y, z : [addr |-> x, next |-> y, more |-> z].addr = x
    OBVIOUS
  <2>2. /\ desc[h] = [addr |-> <<"ops", h>>, next |-> Second(p), more |-> TRUE]
        /\ desc[Second(p)] = [addr |-> <<"data", p>>, next |-> Third(p), more |-> TRUE]
        /\ desc[Third(p)] = [addr |-> <<"status", h>>, next |-> 0, more |-> FALSE]
    BY <1>2, <1>4
  <2>. QED  BY <2>1, <2>2
<1>7. desc[h].addr[2] = h /\ desc[Second(p)].addr[2] = p /\ desc[Third(p)].addr[2] = h
  <2>1. \A x, y : <<x, y>>[2] = y
    OBVIOUS
  <2>. QED  BY <1>6, <2>1
<1>8. ops[h] = [block |-> req[p].block, write |-> req[p].write]
  BY <1>2, <1>4
<1>9. req[p] \in Transfer /\ req[p].buf = p /\ did[p] = None
  <2>1. CallOK!(p) /\ pc[p] \in {"sleep", "woken"}
    BY <1>0, <1>3 DEF CallOK, Waiting
  <2>2. req[p] \in Transfer /\ req[p].buf = p
    BY <2>1, <1>0, <1>3 DEF TypeOK
  <2>. QED  BY <2>2, <1>0, <1>1, <1>2 DEF PlaceOK
<1>10. [buf |-> p, block |-> ops[h].block, write |-> ops[h].write] = req[p]
  <2>1. req[p] \in [buf : Proc, block : Block, write : BOOLEAN]
    BY <1>9, DiskAssumption
  <2>2. ops[h].block = req[p].block /\ ops[h].write = req[p].write
    BY <1>8
  <2>3. req[p] = [buf |-> req[p].buf, block |-> req[p].block, write |-> req[p].write]
    BY <2>1
  <2>. QED  BY <2>2, <2>3, <1>9
<1>11. did' = [did EXCEPT ![p] = req[p]]
  <2>1. did' = [did EXCEPT ![desc[desc[h].next].addr[2]] =
                  [buf |-> desc[desc[h].next].addr[2], block |-> ops[desc[h].addr[2]].block,
                   write |-> ops[desc[h].addr[2]].write]]
    BY DEF DeviceDone
  <2>. QED  BY <2>1, <1>5, <1>7, <1>10
<1>12. info' = [info EXCEPT ![h].status = 0]
  <2>1. info' = [info EXCEPT ![desc[desc[desc[h].next].next].addr[2]].status = 0]
    BY DEF DeviceDone
  <2>. QED  BY <2>1, <1>5, <1>7
<1>. QED  BY <1>1, <1>2, <1>3, <1>9, <1>11, <1>12 DEF Answers

LEMMA DoneInv ==
  ASSUME IInv, NEW h \in Desc, DeviceDone(h)
  PROVE  IInv'
<1>0. TypeOK /\ CallOK /\ ChainOK /\ OwnOK /\ PlaceOK /\ SleepOK
  BY DEF IInv
<1>1. PICK p \in Proc : Answers(p, h)
  BY Answered
<1>2. /\ h \in inside /\ inside' = inside \ {h} /\ irq' = TRUE
      /\ used' = [ring |-> [used.ring EXCEPT ![used.idx % NUM] = h], idx |-> (used.idx + 1) % MOD]
      /\ UNCHANGED <<free, desc, ops, avail, used_idx, taken, disk, pc, req, head, intr>>
  BY DEF DeviceDone, procVars
<1>3. /\ used.ring \in [Desc -> Entry] /\ used.idx \in Index /\ used_idx \in Index
      /\ Distinct(used.ring, used_idx, used.idx)
  BY <1>0 DEF TypeOK, PlaceOK
<1>4. /\ used'.ring = [used.ring EXCEPT ![used.idx % NUM] = h]
      /\ used'.idx = (used.idx + 1) % MOD /\ used'.idx \in Index
      /\ used' \in [ring : [Desc -> Entry], idx : Index]
  <2>1. [used.ring EXCEPT ![used.idx % NUM] = h] \in [Desc -> Entry]
    BY <1>3 DEF Entry
  <2>2. (used.idx + 1) % MOD \in Index
    <3>1. used.idx + 1 \in Int
      <4>1. used.idx \in 0..(MOD-1)
        BY <1>3 DEF Index
      <4>. QED  BY <4>1
    <3>. QED  BY <3>1, Residues
  <2>. QED  BY <1>2, <2>1, <2>2
<1>5. /\ \A d \in Desc : info'[d].b = info[d].b
      /\ info'[h].status = 0 /\ \A d \in Desc : d # h => info'[d] = info[d]
      /\ info' \in [Desc -> [b : Proc \cup {None}, status : {0, 255}]]
  <2>1. info \in [Desc -> [b : Proc \cup {None}, status : {0, 255}]]
    BY <1>0 DEF TypeOK
  <2>2. info' = [info EXCEPT ![h] = [info[h] EXCEPT !.status = 0]]
    BY <1>1 DEF Answers
  <2>3. /\ [info[h] EXCEPT !.status = 0] \in [b : Proc \cup {None}, status : {0, 255}]
        /\ [info[h] EXCEPT !.status = 0].b = info[h].b
        /\ [info[h] EXCEPT !.status = 0].status = 0
    BY <2>1
  <2>. QED  BY <2>1, <2>2, <2>3
<1>6. TypeOK'
  <2>1. did' \in [Proc -> Transfer \cup {None}]
    BY <1>0, <1>1 DEF TypeOK, Answers
  <2>2. inside' \in SUBSET Desc /\ irq' \in BOOLEAN
    BY <1>0, <1>2 DEF TypeOK
  <2>. QED  BY <2>1, <2>2, <1>0, <1>2, <1>4, <1>5 DEF TypeOK
<1>7. Waiting' = Waiting
  BY <1>2 DEF Waiting
<1>8. ChainOK' /\ OwnOK'
  <2>1. \A q \in Waiting : head[q] \in Desc
    BY <1>0 DEF ChainOK
  <2>. QED  BY <2>1, <1>0, <1>2, <1>5, <1>7, ChainsKept
<1>9. CallOK'
  <2>. SUFFICES ASSUME NEW q \in Proc PROVE CallOK!(q)'
    BY DEF CallOK
  <2>1. CallOK!(q)
    BY <1>0 DEF CallOK
  <2>2. q # p => did'[q] = did[q]
    BY <1>0, <1>1 DEF Answers, TypeOK
  <2>3. p \in Waiting /\ disk[p]
    BY <1>1 DEF Answers
  <2>. QED  BY <2>1, <2>2, <2>3, <1>2, <1>7
<1>10. SleepOK'
  BY <1>0, <1>2 DEF SleepOK, FreeCount
<1>11. Asked' = Asked /\ h \in Asked /\ h \notin InUsed
  BY <1>1, <1>2, <1>7 DEF Asked, Answers
<1>12. InUsed' = InUsed \cup {h} /\ Distinct(used.ring, used_idx, used.idx)'
  <2>1. Pending(used.ring, used_idx, used.idx) \subseteq Asked
    BY <1>0 DEF PlaceOK, InUsed
  <2>2. Level(used_idx, used.idx) + 1 < NUM
    BY <2>1, <1>0, <1>3, <1>11, RingRoom DEF InUsed
  <2>3. h \notin Pending(used.ring, used_idx, used.idx)
    BY <1>11 DEF InUsed
  <2>4. /\ Pending(used'.ring, used_idx, used'.idx) = Pending(used.ring, used_idx, used.idx) \cup {h}
        /\ Distinct(used'.ring, used_idx, used'.idx)
    BY <2>2, <2>3, <1>3, <1>4, RingPut
  <2>5. InUsed' = Pending(used'.ring, used_idx, used'.idx)
    BY <1>2 DEF InUsed, Pending
  <2>6. Distinct(used.ring, used_idx, used.idx)'
    BY <2>4, <1>2 DEF Distinct, Level
  <2>. QED  BY <2>4, <2>5, <2>6 DEF InUsed
<1>13. InAvail' = InAvail /\ Distinct(avail.ring, taken, avail.idx)'
  BY <1>0, <1>2 DEF InAvail, Pending, PlaceOK, Distinct, Level
<1>14. \A id \in InUsed' : info'[id].status = 0
  <2>1. \A id \in InUsed : id \in Desc /\ info[id].status = 0
    <3>1. InUsed \subseteq Asked /\ \A id \in InUsed : info[id].status = 0
      BY <1>0 DEF PlaceOK
    <3>2. \A q \in Waiting : head[q] \in Desc
      BY <1>0 DEF ChainOK
    <3>. QED  BY <3>1, <3>2 DEF Asked
  <2>. QED  BY <2>1, <1>5, <1>12
<1>15. \A q \in Waiting' : disk'[q] => did'[q] = IF head'[q] \in InUsed' THEN req'[q] ELSE None
  <2>. SUFFICES ASSUME NEW q \in Waiting, disk[q]
                PROVE did'[q] = IF head[q] \in InUsed \cup {h} THEN req[q] ELSE None
    BY <1>2, <1>7, <1>12
  <2>1. CASE q = p
    BY <2>1, <1>0, <1>1 DEF Answers, TypeOK
  <2>2. CASE q # p
    <3>1. p \in Waiting /\ head[p] = h
      BY <1>1 DEF Answers
    <3>2. head[q] # h
      BY <3>1, <2>2, <1>0, HeadsFew
    <3>3. did'[q] = did[q]
      BY <2>2, <1>0, <1>1 DEF Answers, TypeOK
    <3>. QED  BY <3>2, <3>3, <1>0 DEF PlaceOK
  <2>. QED  BY <2>1, <2>2
<1>16. PlaceOK'
  <2>1. Asked' = InAvail' \cup inside' \cup InUsed'
    BY <1>0, <1>2, <1>11, <1>12, <1>13 DEF PlaceOK
  <2>2. InAvail' \cap inside' = {} /\ InAvail' \cap InUsed' = {} /\ inside' \cap InUsed' = {}
    BY <1>0, <1>2, <1>11, <1>12, <1>13 DEF PlaceOK
  <2>. QED  BY <2>1, <2>2, <1>2, <1>12, <1>13, <1>14, <1>15 DEF PlaceOK
<1>. QED  BY <1>6, <1>8, <1>9, <1>10, <1>16 DEF IInv
-----------------------------------------------------------------------------
(* The theorems *)

LEMMA InitInv == Init => IInv
<1>. SUFFICES ASSUME Init PROVE IInv
  OBVIOUS
<1>1. 0 \in Desc /\ 0 \in Index
  BY Sizes DEF Desc, Index
<1>2. Waiting = {}
  BY DEF Init, Waiting
<1>3. TypeOK
  <2>1. NoDesc \in [addr : Addr, next : Desc, more : BOOLEAN]
    BY <1>1 DEF NoDesc, Addr
  <2>2. [d \in Desc |-> None] \in [Desc -> Entry]
    BY DEF Entry
  <2>3. avail \in [ring : [Desc -> Entry], idx : Index] /\ used \in [ring : [Desc -> Entry], idx : Index]
    BY <2>2, <1>1 DEF Init
  <2>. QED  BY <2>1, <2>3, <1>1 DEF Init, TypeOK, Entry
<1>4. CallOK /\ ChainOK /\ OwnOK /\ SleepOK
  BY <1>2 DEF Init, CallOK, ChainOK, OwnOK, SleepOK
<1>5. PlaceOK
  <2>1. avail.idx = 0 /\ used.idx = 0 /\ taken = 0 /\ used_idx = 0 /\ inside = {}
    BY DEF Init
  <2>2. /\ InAvail = {} /\ Distinct(avail.ring, taken, avail.idx)
        /\ InUsed = {} /\ Distinct(used.ring, used_idx, used.idx)
    BY <1>1, <2>1, EmptyRing DEF InAvail, InUsed
  <2>3. Asked = {}
    BY <1>2 DEF Asked
  <2>. QED  BY <1>2, <2>1, <2>2, <2>3 DEF PlaceOK
<1>. QED  BY <1>3, <1>4, <1>5 DEF IInv

LEMMA StutterInv ==
  ASSUME IInv, UNCHANGED vars
  PROVE  IInv'
<1>0. TypeOK /\ CallOK /\ ChainOK /\ OwnOK /\ PlaceOK /\ SleepOK
  BY DEF IInv
<1>1. /\ UNCHANGED <<free, desc, info, ops, avail, used_idx, used, taken, inside, did>>
      /\ UNCHANGED <<disk, pc, req, head, intr, irq>>
  BY DEF vars, driverVars, deviceVars, procVars
<1>2. Waiting' = Waiting
  BY <1>1 DEF Waiting
<1>3. Quiet
  BY <1>1, <1>2 DEF Quiet, driverVars, deviceVars
<1>4. TypeOK' /\ CallOK' /\ SleepOK'
  BY <1>0, <1>1, <1>2 DEF TypeOK, CallOK, SleepOK, FreeCount
<1>. QED  BY <1>0, <1>3, <1>4, QuietStep DEF IInv

LEMMA StepInv == IInv /\ [Next]_vars => IInv'
<1>. SUFFICES ASSUME IInv, [Next]_vars PROVE IInv'
  OBVIOUS
<1>1. ASSUME NEW p \in Proc, NEW t \in Transfer, Call(p, t) PROVE IInv'
  BY <1>1, CallInv
<1>2. ASSUME NEW p \in Proc, AllocFails(p) \/ SleepAgain(p) \/ Kill(p) PROVE IInv'
  BY <1>2, ProcInv
<1>3. ASSUME NEW p \in Proc, Submit(p) PROVE IInv'
  BY <1>3, SubmitInv
<1>4. ASSUME NEW p \in Proc, Finish(p) PROVE IInv'
  BY <1>4, FinishInv
<1>5. CASE IntrAck
  BY <1>5, AckInv
<1>6. CASE IntrLoop
  BY <1>6, LoopInv
<1>7. CASE DeviceTake
  BY <1>7, TakeInv
<1>8. ASSUME NEW h \in Desc, DeviceDone(h) PROVE IInv'
  BY <1>8, DoneInv
<1>9. CASE UNCHANGED vars
  BY <1>9, StutterInv
<1>. QED  BY <1>1, <1>2, <1>3, <1>4, <1>5, <1>6, <1>7, <1>8, <1>9 DEF Next, Driver, Device

\* IInv holds in every state, however requests, completions, interrupts and
\* kills are interleaved.
THEOREM Inductive == Spec => []IInv
<1>. QED  BY InitInv, StepInv, PTL DEF Spec

\* virtio_disk.c:152-213: a descriptor is free or in the chain of exactly one
\* request, and nobody sleeps for descriptors that there are.
THEOREM NoDescriptorLost == Spec => []DescriptorsExact
<1>1. IInv => DescriptorsExact
  <2>. SUFFICES ASSUME IInv PROVE DescriptorsExact
    OBVIOUS
  <2>0. OwnOK /\ SleepOK
    BY DEF IInv
  <2>1. ASSUME NEW d \in Desc
        PROVE ~free[d] <=> Cardinality({p \in Waiting : d \in Chain(head[p])}) = 1
    <3>. DEFINE S == {p \in Waiting : d \in Chain(head[p])}
    <3>1. \A p, q \in S : p = q
      BY <2>0 DEF OwnOK
    <3>2. S = {} \/ \E p \in S : S = {p}
      <4>. HIDE DEF S
      <4>. QED  BY <3>1
    <3>3. ~free[d] <=> S # {}
      BY <2>0 DEF OwnOK
    <3>4. CASE S = {}
      <4>1. Cardinality(S) = 0
        BY <3>4, FS_EmptySet
      <4>. QED  BY <3>3, <3>4, <4>1
    <3>5. ASSUME NEW p \in S, S = {p} PROVE ~free[d] <=> Cardinality(S) = 1
      <4>1. Cardinality({p}) = 1
        BY FS_Singleton
      <4>. HIDE DEF S
      <4>. QED  BY <3>3, <3>5, <4>1
    <3>. QED  BY <3>2, <3>4, <3>5
  <2>. QED  BY <2>0, <2>1 DEF DescriptorsExact, SleepOK
<1>. QED  BY <1>1, Inductive, PTL

\* virtio_disk.c:272-323: a request the driver waits for is in the avail ring,
\* in the device or in the used ring, and then an interrupt is to come.
THEOREM NoCompletionLost == Spec => []Underway
<1>1. IInv => Underway
  <2>. SUFFICES ASSUME IInv PROVE Underway
    OBVIOUS
  <2>1. \A p \in Proc : pc[p] = "sleep" => disk[p]
    BY DEF IInv, CallOK
  <2>. QED  BY <2>1 DEF IInv, PlaceOK, Underway, Asked, InAvail, InUsed
<1>. QED  BY <1>1, Inductive, PTL

\* Both rings have room for whatever may come.
RingsNeverFull == Level(taken, avail.idx) < NUM /\ Level(used_idx, used.idx) < NUM

\* Descriptors run out before the rings do, so that the indices never overtake
\* each other (virtio_disk.c:276, 281).
THEOREM RingsHaveRoom == Spec => []RingsNeverFull
<1>1. IInv => RingsNeverFull
  <2>. SUFFICES ASSUME IInv PROVE RingsNeverFull
    OBVIOUS
  <2>1. ChainOK /\ OwnOK /\ PlaceOK /\ TypeOK
    BY DEF IInv
  <2>2. avail.idx \in Index /\ used.idx \in Index /\ taken \in Index /\ used_idx \in Index
    BY <2>1 DEF TypeOK
  <2>3. /\ Distinct(avail.ring, taken, avail.idx) /\ InAvail \subseteq Asked
        /\ Distinct(used.ring, used_idx, used.idx) /\ InUsed \subseteq Asked
    BY <2>1 DEF PlaceOK
  <2>4. Level(taken, avail.idx) < NUM
    BY <2>1, <2>2, <2>3, RingRoom DEF InAvail
  <2>5. Level(used_idx, used.idx) < NUM
    BY <2>1, <2>2, <2>3, RingRoom DEF InUsed
  <2>. QED  BY <2>4, <2>5 DEF RingsNeverFull
<1>. QED  BY <1>1, Inductive, PTL

\* Whatever the order in which the device completes, every call has its own
\* transfer made, once, before it returns (virtio_disk.c:215-327).
THEOREM Refinement == Spec => ImplementsDiskRequests
<1>1. Init => Requests!Init
  BY DEF Init, Requests!Init
<1>2. IInv /\ [Next]_vars => [Requests!Next]_(Requests!vars)
  <2>. SUFFICES ASSUME IInv, [Next]_vars PROVE [Requests!Next]_(Requests!vars)
    OBVIOUS
  <2>0. TypeOK /\ CallOK
    BY DEF IInv
  <2>1. ASSUME NEW p \in Proc, NEW t \in Transfer, Call(p, t) PROVE Requests!Next
    <3>1. req[p] = None
      BY <2>0, <2>1 DEF Call, CallOK
    <3>2. req' = [req EXCEPT ![p] = t] /\ did' = did
      BY <2>1 DEF Call, deviceVars
    <3>. QED  BY <3>1, <3>2 DEF Requests!Next, Requests!Call
  <2>2. ASSUME NEW p \in Proc, Finish(p) PROVE Requests!Next
    <3>1. /\ p \in Waiting /\ ~disk[p] /\ pc[p] = "woken"
          /\ req' = [req EXCEPT ![p] = None] /\ did' = [did EXCEPT ![p] = None]
      BY <2>2 DEF Finish, Waiting, Done
    <3>2. req[p] # None /\ did[p] = req[p]
      BY <2>0, <3>1 DEF CallOK
    <3>. QED  BY <3>1, <3>2 DEF Requests!Next, Requests!Return
  <2>3. ASSUME NEW h \in Desc, DeviceDone(h) PROVE Requests!Next
    <3>1. PICK p \in Proc : Answers(p, h)
      BY <2>3, Answered
    <3>2. req[p] # None /\ did[p] = None /\ did' = [did EXCEPT ![p] = req[p]]
      BY <3>1, DiskAssumption DEF Answers
    <3>3. req' = req
      BY <2>3 DEF DeviceDone, procVars
    <3>. QED  BY <3>1, <3>2, <3>3 DEF Requests!Next, Requests!Serve
  <2>4. ASSUME NEW p \in Proc, AllocFails(p) \/ Submit(p) \/ SleepAgain(p) \/ Kill(p)
        PROVE UNCHANGED Requests!vars
    BY <2>4 DEF AllocFails, Submit, SleepAgain, Kill, deviceVars, Requests!vars
  <2>5. CASE IntrAck \/ IntrLoop \/ DeviceTake \/ UNCHANGED vars
    BY <2>5 DEF IntrAck, IntrLoop, DeviceTake, vars, deviceVars, procVars, Requests!vars
  <2>. QED  BY <2>1, <2>2, <2>3, <2>4, <2>5 DEF Next, Driver, Device
<1>. QED  BY <1>1, <1>2, Inductive, PTL DEF Spec, Requests!Spec, ImplementsDiskRequests
=============================================================================
