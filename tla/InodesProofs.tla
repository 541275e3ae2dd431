---------------------------- MODULE InodesProofs -----------------------------
(***************************************************************************)
(* References to inodes are exact, and iput() never waits, for any number  *)
(* of processes and inodes and any calls.  Of each action there is what it *)
(* does to the local variables and the table (XxxDoes), that it keeps this *)
(* invariant (XxxInv) and, in the second part, that it keeps what is on    *)
(* the disk (XxxKeeps), as long as no path has a ".." in it.               *)
(***************************************************************************)
EXTENDS Inodes, FiniteSetTheorems, TLAPS

Elements == Name \cup {".."}
Kinds == {"none", "FILE", "DIR"}
Index == Inum \cup {0}
Table == [Inum -> [ref : Int, lock : Proc \cup {None}, valid : BOOLEAN, type : Kinds, nlink : Int]]
Disk == [Inum -> [type : Kinds, nlink : Int, ent : [Elements -> Index]]]

Paused == {"put", "trunc", "freed", "drop"}
Points == {"idle", "found", "walk", "open", "existing", "chdir", "link", "linkto", "linkbad", "putip",
           "unlink", "unlinkip", "unlinked", "unlockdp", "create", "init", "created"}
Thens == {"end", "found", "walk", "linkbad", "putip", "unlockdp", "unlinked", "existing", "created"}
Local == [pc : Points \cup Paused, call : Calls \cup {None}, names : Seq(Elements),
          at : Index, ip : Index, put : Index, then : Thens]

\* The type invariant.
TypeOK ==
  /\ disk \in Disk /\ inode \in Table
  /\ cwd \in [Proc -> Inum] /\ file \in [Proc -> Index]
  /\ l \in [Proc -> Local]

Putting(p) == l[p].pc \in Paused
\* Where a process is in its call, iput() left out.
Cont(p) == IF Putting(p) THEN l[p].then ELSE l[p].pc

AtPoints == {"found", "walk", "open", "existing", "chdir", "link", "linkto", "unlink", "unlinkip",
             "unlockdp", "create", "init"}
IpPoints == {"linkto", "linkbad", "putip", "unlinkip", "unlinked", "init", "created"}
NamePoints == {"walk", "linkto", "unlink", "unlinkip", "create", "init"}

\* The points that are in one system call only.
OpOK(p) ==
  LET at == Cont(p) IN
  /\ at = "open" => Op(p) = "open"
  /\ at = "chdir" => Op(p) = "chdir"
  /\ at \in {"link", "linkto", "linkbad", "putip"} => Op(p) = "link"
  /\ at \in {"unlink", "unlinkip", "unlinked"} => Op(p) = "unlink"
  /\ at \in {"create", "existing", "init", "created"} => Op(p) \in {"creat", "mkdir"}
  /\ at = "unlockdp" => Op(p) \in {"unlink", "creat", "mkdir"}

\* Which local variables are in use.
Shape(p) ==
  /\ l[p].at # 0 <=> Cont(p) \in AtPoints
  /\ l[p].ip # 0 <=> Cont(p) \in IpPoints \/ (Cont(p) \in {"walk", "found"} /\ l[p].ip # 0)
  /\ Cont(p) \in {"walk", "found"} /\ l[p].ip # 0 => Op(p) = "link"
  /\ l[p].put # 0 <=> Putting(p)
  /\ Cont(p) \notin {"idle", "end"} => l[p].call \in Calls /\ OpOK(p)
  /\ Cont(p) \in NamePoints => l[p].names # <<>>

\* Which inodes a process has locked from one action to the next: never one twice.
HoldsAt(p) == Cont(p) \in {"unlinkip", "init", "unlockdp"}
HoldsIp(p) == Cont(p) \in {"unlinked", "created"}
HoldsPut(p) == l[p].pc \in {"trunc", "freed"}
Holds(p, i) ==
  (HoldsAt(p) /\ i = l[p].at) \/ (HoldsIp(p) /\ i = l[p].ip) \/ (HoldsPut(p) /\ i = l[p].put)
Apart(p) ==
  HoldsPut(p) => (HoldsAt(p) => l[p].at # l[p].put) /\ (HoldsIp(p) => l[p].ip # l[p].put)

ShapeOK == \A p \in Proc : Shape(p) /\ Apart(p)
LockOK == \A p \in Proc, i \in Inum : inode[i].lock = p <=> Holds(p, i)

\* The inductive invariant.
IInv == TypeOK /\ ShapeOK /\ LockOK /\ RefsExact
-----------------------------------------------------------------------------
(* Local variables *)

\* What an action does to them: those of p are as given, and no others change.
Goes(p, pc, call, names, at, ip, put, then) ==
  /\ \A q \in Proc : q # p => l'[q] = l[q]
  /\ l'[p].pc = pc /\ l'[p].call = call /\ l'[p].names = names
  /\ l'[p].at = at /\ l'[p].ip = ip /\ l'[p].put = put /\ l'[p].then = then

LEMMA StepPc ==
  ASSUME NEW p \in Proc, l \in [Proc -> Local], NEW z \in Points \cup Paused,
         Step(p, [pc |-> z])
  PROVE  l' \in [Proc -> Local] /\ Goes(p, z, l[p].call, l[p].names, l[p].at, l[p].ip, l[p].put, l[p].then)
BY DEF Step, With, Goes, Local

LEMMA StepPut ==
  ASSUME NEW p \in Proc, l \in [Proc -> Local], NEW z \in Points \cup Paused, NEW a \in Index,
         Step(p, [pc |-> z, put |-> a])
  PROVE  l' \in [Proc -> Local] /\ Goes(p, z, l[p].call, l[p].names, l[p].at, l[p].ip, a, l[p].then)
BY DEF Step, With, Goes, Local

LEMMA StepIp ==
  ASSUME NEW p \in Proc, l \in [Proc -> Local], NEW z \in Points \cup Paused, NEW i \in Index,
         Step(p, [pc |-> z, ip |-> i])
  PROVE  l' \in [Proc -> Local] /\ Goes(p, z, l[p].call, l[p].names, l[p].at, i, l[p].put, l[p].then)
BY DEF Step, With, Goes, Local

LEMMA StepBegin ==
  ASSUME NEW p \in Proc, l \in [Proc -> Local], NEW z \in Points \cup Paused, NEW c \in Calls, NEW n \in Seq(Elements), NEW a \in Index,
         Step(p, [pc |-> z, call |-> c, names |-> n, at |-> a])
  PROVE  l' \in [Proc -> Local] /\ Goes(p, z, c, n, a, l[p].ip, l[p].put, l[p].then)
BY DEF Step, With, Goes, Local

LEMMA StepLink ==
  ASSUME NEW p \in Proc, l \in [Proc -> Local], NEW z \in Points \cup Paused, NEW i \in Index, NEW a \in Index, NEW n \in Seq(Elements),
         Step(p, [pc |-> z, ip |-> i, at |-> a, names |-> n])
  PROVE  l' \in [Proc -> Local] /\ Goes(p, z, l[p].call, n, a, i, l[p].put, l[p].then)
BY DEF Step, With, Goes, Local

\* What iput() is asked to put, and what comes after it.
Asked(p, i, next) == [l[p] EXCEPT !.pc = "put", !.put = i, !.then = next]

LEMMA AskedIs ==
  ASSUME NEW p \in Proc, l \in [Proc -> Local], NEW i \in Index, NEW y \in Thens
  PROVE  /\ Asked(p, i, y) \in Local
         /\ Asked(p, i, y).pc = "put" /\ Asked(p, i, y).put = i /\ Asked(p, i, y).then = y
         /\ Asked(p, i, y).call = l[p].call /\ Asked(p, i, y).names = l[p].names
         /\ Asked(p, i, y).at = l[p].at /\ Asked(p, i, y).ip = l[p].ip
BY DEF Asked, Local, Paused

LEMMA PutAt ==
  ASSUME NEW p \in Proc, l \in [Proc -> Local], NEW i \in Index, NEW y \in Thens, NEW a \in Index,
         Put(p, i, y, [at |-> a])
  PROVE  l' \in [Proc -> Local] /\ Goes(p, "put", l[p].call, l[p].names, a, l[p].ip, i, y)
<1>. DEFINE e == Asked(p, i, y)
            r == With(e, [at |-> a])
<1>1. l' = [l EXCEPT ![p] = r]
  BY DEF Put, Asked
<1>2. /\ e \in Local /\ e.pc = "put" /\ e.put = i /\ e.then = y
      /\ e.call = l[p].call /\ e.names = l[p].names /\ e.at = l[p].at /\ e.ip = l[p].ip
  BY AskedIs
<1>. HIDE DEF e
<1>3. /\ r \in Local /\ r.pc = "put" /\ r.put = i /\ r.then = y /\ r.call = l[p].call
      /\ r.at = a /\ r.ip = l[p].ip /\ r.names = l[p].names
  BY <1>2 DEF With, Local
<1>. HIDE DEF r
<1>. QED  BY <1>1, <1>3 DEF Goes

LEMMA PutWalk ==
  ASSUME NEW p \in Proc, l \in [Proc -> Local], NEW i \in Index, NEW y \in Thens, NEW a \in Index, NEW n \in Seq(Elements),
         Put(p, i, y, [at |-> a, names |-> n])
  PROVE  l' \in [Proc -> Local] /\ Goes(p, "put", l[p].call, n, a, l[p].ip, i, y)
<1>. DEFINE e == Asked(p, i, y)
            r == With(e, [at |-> a, names |-> n])
<1>1. l' = [l EXCEPT ![p] = r]
  BY DEF Put, Asked
<1>2. /\ e \in Local /\ e.pc = "put" /\ e.put = i /\ e.then = y
      /\ e.call = l[p].call /\ e.names = l[p].names /\ e.at = l[p].at /\ e.ip = l[p].ip
  BY AskedIs
<1>. HIDE DEF e
<1>3. /\ r \in Local /\ r.pc = "put" /\ r.put = i /\ r.then = y /\ r.call = l[p].call
      /\ r.at = a /\ r.ip = l[p].ip /\ r.names = n
  BY <1>2 DEF With, Local
<1>. HIDE DEF r
<1>. QED  BY <1>1, <1>3 DEF Goes

LEMMA PutHeld ==
  ASSUME NEW p \in Proc, l \in [Proc -> Local], NEW i \in Index, NEW y \in Thens, NEW a \in Index,
         Put(p, i, y, [ip |-> a])
  PROVE  l' \in [Proc -> Local] /\ Goes(p, "put", l[p].call, l[p].names, l[p].at, a, i, y)
<1>. DEFINE e == Asked(p, i, y)
            r == With(e, [ip |-> a])
<1>1. l' = [l EXCEPT ![p] = r]
  BY DEF Put, Asked
<1>2. /\ e \in Local /\ e.pc = "put" /\ e.put = i /\ e.then = y
      /\ e.call = l[p].call /\ e.names = l[p].names /\ e.at = l[p].at /\ e.ip = l[p].ip
  BY AskedIs
<1>. HIDE DEF e
<1>3. /\ r \in Local /\ r.pc = "put" /\ r.put = i /\ r.then = y /\ r.call = l[p].call
      /\ r.at = l[p].at /\ r.ip = a /\ r.names = l[p].names
  BY <1>2 DEF With, Local
<1>. HIDE DEF r
<1>. QED  BY <1>1, <1>3 DEF Goes

LEMMA IdleIs == Idle \in Local
<1>1. <<>> \in Seq(Elements)
  OBVIOUS
<1>. QED  BY <1>1 DEF Idle, Local, Points, Thens, Index

LEMMA PutEnd ==
  ASSUME NEW p \in Proc, l \in [Proc -> Local], NEW i \in Index, PutLast(p, i)
  PROVE  l' \in [Proc -> Local] /\ Goes(p, "put", None, <<>>, 0, 0, i, "end")
<1>. DEFINE r == [Idle EXCEPT !.pc = "put", !.put = i]
<1>1. l' = [l EXCEPT ![p] = r]
  BY DEF PutLast
<1>2. r \in Local
  BY IdleIs DEF Local, Paused
<1>3. /\ r.pc = "put" /\ r.put = i /\ r.then = "end" /\ r.call = None /\ r.ip = 0 /\ r.at = 0
      /\ r.names = <<>>
  BY DEF Idle
<1>. QED  BY <1>1, <1>2, <1>3 DEF Goes

LEMMA EndIs ==
  ASSUME NEW p \in Proc, l \in [Proc -> Local], Ends(p)
  PROVE  l' \in [Proc -> Local] /\ Goes(p, "idle", None, <<>>, 0, 0, 0, "end")
<1>1. l' = [l EXCEPT ![p] = Idle]
  BY DEF Ends
<1>2. /\ Idle.pc = "idle" /\ Idle.put = 0 /\ Idle.then = "end" /\ Idle.call = None /\ Idle.ip = 0
      /\ Idle.at = 0 /\ Idle.names = <<>>
  BY DEF Idle
<1>. QED  BY <1>1, <1>2, IdleIs DEF Goes
-----------------------------------------------------------------------------
(* The table *)

One(b) == IF b THEN 1 ELSE 0

LEMMA OneInt == \A b : One(b) \in Int
BY DEF One

LEMMA LoadedIs ==
  ASSUME TypeOK, NEW i \in Inum
  PROVE  /\ Loaded(i) \in Table
         /\ Loaded(i)[i].valid
         /\ inode[i].valid => Loaded(i)[i].type = inode[i].type /\ Loaded(i)[i].nlink = inode[i].nlink
         /\ ~inode[i].valid => Loaded(i)[i].type = disk[i].type /\ Loaded(i)[i].nlink = disk[i].nlink
         /\ \A j \in Inum : /\ Loaded(i)[j].ref = inode[j].ref /\ Loaded(i)[j].lock = inode[j].lock
                            /\ j # i => Loaded(i)[j] = inode[j]
<1>1. CASE inode[i].valid
  BY <1>1 DEF Loaded, TypeOK
<1>2. CASE ~inode[i].valid
  BY Zenon, <1>2 DEF Loaded, TypeOK, Table, Disk
<1>. QED  BY <1>1, <1>2

LEMMA IgetIs ==
  ASSUME NEW T \in Table, NEW i \in Inum
  PROVE  /\ Iget(T, i) \in Table
         /\ Iget(T, i)[i].ref = T[i].ref + 1 /\ Iget(T, i)[i].lock = T[i].lock
         /\ Iget(T, i)[i].valid = (T[i].valid /\ T[i].ref > 0)
         /\ Iget(T, i)[i].type = T[i].type /\ Iget(T, i)[i].nlink = T[i].nlink
         /\ \A j \in Inum : j # i => Iget(T, i)[j] = T[j]
         /\ \A j \in Inum : Iget(T, i)[j].ref = (T[j].ref + One(i = j)) /\ Iget(T, i)[j].lock = T[j].lock
<1>. DEFINE U == [T EXCEPT ![i].ref = @ + 1]
            v == T[i].valid /\ T[i].ref > 0
<1>1. /\ U \in Table /\ U[i].ref = T[i].ref + 1 /\ U[i].lock = T[i].lock /\ U[i].valid = T[i].valid
      /\ U[i].type = T[i].type /\ U[i].nlink = T[i].nlink
      /\ \A j \in Inum : j # i => U[j] = T[j]
  BY DEF Table
<1>2. Iget(T, i) = [U EXCEPT ![i].valid = v]
  BY <1>1 DEF Iget
<1>3. v \in BOOLEAN
  OBVIOUS
<1>. HIDE DEF U, v
<1>4. LET V == [U EXCEPT ![i].valid = v] IN
      /\ V \in Table /\ V[i].ref = U[i].ref /\ V[i].lock = U[i].lock /\ V[i].valid = v
      /\ V[i].type = U[i].type /\ V[i].nlink = U[i].nlink
      /\ \A j \in Inum : j # i => V[j] = U[j]
  BY <1>1, <1>3 DEF Table
<1>5. /\ Iget(T, i) \in Table
      /\ Iget(T, i)[i].ref = T[i].ref + 1 /\ Iget(T, i)[i].lock = T[i].lock
      /\ Iget(T, i)[i].valid = (T[i].valid /\ T[i].ref > 0)
      /\ Iget(T, i)[i].type = T[i].type /\ Iget(T, i)[i].nlink = T[i].nlink
      /\ \A j \in Inum : j # i => Iget(T, i)[j] = T[j]
  BY <1>1, <1>2, <1>4 DEF v
<1>. QED  BY <1>5 DEF One, Table

LEMMA LoadGet ==
  ASSUME TypeOK, NEW d \in Inum, NEW e \in Inum
  PROVE  /\ Iget(Loaded(d), e) \in Table
         /\ \A j \in Inum : /\ Iget(Loaded(d), e)[j].ref = (inode[j].ref + One(e = j))
                            /\ Iget(Loaded(d), e)[j].lock = inode[j].lock
<1>. DEFINE T == Loaded(d)
<1>1. T \in Table /\ \A j \in Inum : T[j].ref = inode[j].ref /\ T[j].lock = inode[j].lock
  BY LoadedIs
<1>. HIDE DEF T
<1>2. Iget(T, e) \in Table /\ \A j \in Inum : Iget(T, e)[j].ref = (T[j].ref + One(e = j)) /\ Iget(T, e)[j].lock = T[j].lock
  BY <1>1, IgetIs DEF One, Table
<1>. QED  BY <1>1, <1>2 DEF T

LEMMA LockIs ==
  ASSUME NEW T \in Table, NEW i \in Inum, NEW k \in Proc \cup {None}, NEW U, U = [T EXCEPT ![i].lock = k]
  PROVE  /\ U \in Table
         /\ U[i].ref = T[i].ref /\ U[i].lock = k /\ U[i].valid = T[i].valid
         /\ U[i].type = T[i].type /\ U[i].nlink = T[i].nlink
         /\ \A j \in Inum : j # i => U[j] = T[j]
         /\ \A j \in Inum : U[j].ref = T[j].ref
         /\ \A j \in Inum : U[j].lock = IF j = i THEN k ELSE T[j].lock
BY DEF Table

LEMMA RefIs ==
  ASSUME NEW T \in Table, NEW i \in Inum, NEW k \in Int, NEW U, U = [T EXCEPT ![i].ref = k]
  PROVE  /\ U \in Table
         /\ U[i].ref = k /\ U[i].lock = T[i].lock /\ U[i].valid = T[i].valid
         /\ U[i].type = T[i].type /\ U[i].nlink = T[i].nlink
         /\ \A j \in Inum : j # i => U[j] = T[j]
         /\ \A j \in Inum : U[j].ref = IF j = i THEN k ELSE T[j].ref
         /\ \A j \in Inum : U[j].lock = T[j].lock
BY DEF Table

LEMMA TypeIs ==
  ASSUME NEW T \in Table, NEW i \in Inum, NEW k \in Kinds, NEW U, U = [T EXCEPT ![i].type = k]
  PROVE  /\ U \in Table
         /\ U[i].ref = T[i].ref /\ U[i].lock = T[i].lock /\ U[i].valid = T[i].valid
         /\ U[i].type = k /\ U[i].nlink = T[i].nlink
         /\ \A j \in Inum : j # i => U[j] = T[j]
         /\ \A j \in Inum : U[j].ref = T[j].ref
         /\ \A j \in Inum : U[j].lock = T[j].lock
BY DEF Table

LEMMA NlinkIs ==
  ASSUME NEW T \in Table, NEW i \in Inum, NEW k \in Int, NEW U, U = [T EXCEPT ![i].nlink = k]
  PROVE  /\ U \in Table
         /\ U[i].ref = T[i].ref /\ U[i].lock = T[i].lock /\ U[i].valid = T[i].valid
         /\ U[i].type = T[i].type /\ U[i].nlink = k
         /\ \A j \in Inum : j # i => U[j] = T[j]
         /\ \A j \in Inum : U[j].ref = T[j].ref
         /\ \A j \in Inum : U[j].lock = T[j].lock
BY DEF Table

LEMMA InvalidatedIs ==
  ASSUME NEW T \in Table, NEW i \in Inum, NEW U, U = [T EXCEPT ![i] = Invalidated(@)]
  PROVE  /\ U \in Table
         /\ U[i].ref = T[i].ref /\ U[i].lock = None /\ U[i].valid = FALSE
         /\ U[i].type = T[i].type /\ U[i].nlink = T[i].nlink
         /\ \A j \in Inum : j # i => U[j] = T[j]
         /\ \A j \in Inum : U[j].ref = T[j].ref
         /\ \A j \in Inum : U[j].lock = IF j = i THEN None ELSE T[j].lock
BY DEF Table, Invalidated

LEMMA FreeInode == [type |-> "none", nlink |-> 0, ent |-> Empty] \in [type : Kinds, nlink : Int, ent : [Elements -> Index]]
BY DEF Kinds, Empty, Elements, Index

LEMMA DiskNlink ==
  ASSUME disk \in Disk, NEW i \in Inum, NEW k \in Int, disk' = [disk EXCEPT ![i].nlink = k]
  PROVE  /\ disk' \in Disk /\ disk'[i].nlink = k
         /\ \A j \in Inum : disk'[j].type = disk[j].type /\ disk'[j].ent = disk[j].ent
         /\ \A j \in Inum : j # i => disk'[j].nlink = disk[j].nlink
BY DEF Disk

LEMMA DiskEnt ==
  ASSUME disk \in Disk, NEW i \in Inum, NEW n \in Elements, NEW k \in Index,
         disk' = [disk EXCEPT ![i].ent[n] = k]
  PROVE  /\ disk' \in Disk
         /\ disk'[i].ent = [disk[i].ent EXCEPT ![n] = k]
         /\ \A j \in Inum : disk'[j].type = disk[j].type /\ disk'[j].nlink = disk[j].nlink
         /\ \A j \in Inum : j # i => disk'[j].ent = disk[j].ent
<1>. DEFINE e == disk[i]
            f == [e.ent EXCEPT ![n] = k]
            r == [e EXCEPT !.ent = f]
<1>1. disk' = [disk EXCEPT ![i] = r]
  OBVIOUS
<1>2. e \in [type : Kinds, nlink : Int, ent : [Elements -> Index]]
  BY DEF Disk
<1>. HIDE DEF e
<1>3. f \in [Elements -> Index]
  BY <1>2
<1>. HIDE DEF f
<1>4. r \in [type : Kinds, nlink : Int, ent : [Elements -> Index]] /\ r.ent = f /\ r.type = e.type /\ r.nlink = e.nlink
  BY <1>2, <1>3
<1>. HIDE DEF r
<1>. QED  BY <1>1, <1>4 DEF Disk, e, f

LEMMA NewInode ==
  ASSUME NEW p
  PROVE  [type |-> Type(p), nlink |-> 0, ent |-> Empty] \in [type : Kinds, nlink : Int, ent : [Elements -> Index]]
BY DEF Type, Kinds, Empty, Elements, Index

\* What unlink() does to the table and the disk, and create().
Unlinked(T, i, d, p, less) == [T EXCEPT ![i].lock = p, ![d].lock = None, ![d].nlink = @ - less]
Linked(T, i, d, p, more) ==
  [T EXCEPT ![i].nlink = 1, ![i].lock = p, ![d].nlink = @ + more, ![d].lock = None]
Made(i, d, n, x, more) ==
  [disk EXCEPT ![i].nlink = 1, ![i].ent[".."] = x, ![d].nlink = @ + more, ![d].ent[n] = i]

LEMMA UnlinkTable ==
  ASSUME TypeOK, NEW i \in Inum, NEW d \in Inum, i # d, NEW p \in Proc, NEW less \in {0, 1},
         inode' = Unlinked(Loaded(i), i, d, p, less)
  PROVE  /\ inode' \in Table
         /\ \A j \in Inum : /\ inode'[j].ref = inode[j].ref
                            /\ inode'[j].lock = IF j = i THEN p ELSE IF j = d THEN None ELSE inode[j].lock
                            /\ inode'[j].valid = Loaded(i)[j].valid /\ inode'[j].type = Loaded(i)[j].type
                            /\ inode'[j].nlink = Loaded(i)[j].nlink - (IF j = d THEN less ELSE 0)
<1>. DEFINE T == Loaded(i)
            A == [T EXCEPT ![i].lock = p]
            B == [A EXCEPT ![d].lock = None]
            C == [B EXCEPT ![d].nlink = @ - less]
<1>1. T \in Table /\ \A j \in Inum : T[j].ref = inode[j].ref /\ T[j].lock = inode[j].lock
  BY LoadedIs
<1>2. inode' = C
  BY <1>1 DEF Table, Unlinked
<1>. HIDE DEF T
<1>3. /\ A \in Table
      /\ \A j \in Inum : /\ A[j].ref = T[j].ref /\ A[j].lock = IF j = i THEN p ELSE T[j].lock
                         /\ A[j].valid = T[j].valid /\ A[j].type = T[j].type /\ A[j].nlink = T[j].nlink
  BY <1>1 DEF Table
<1>. HIDE DEF A
<1>4. /\ B \in Table
      /\ \A j \in Inum : /\ B[j].ref = A[j].ref /\ B[j].lock = IF j = d THEN None ELSE A[j].lock
                         /\ B[j].valid = A[j].valid /\ B[j].type = A[j].type /\ B[j].nlink = A[j].nlink
  BY <1>3 DEF Table
<1>. HIDE DEF B
<1>5. /\ C \in Table
      /\ \A j \in Inum : /\ C[j].ref = B[j].ref /\ C[j].lock = B[j].lock
                         /\ C[j].valid = B[j].valid /\ C[j].type = B[j].type
                         /\ C[j].nlink = B[j].nlink - (IF j = d THEN less ELSE 0)
  BY <1>4 DEF Table
<1>. HIDE DEF C
<1>6. ASSUME NEW j \in Inum
      PROVE  /\ C[j].ref = T[j].ref /\ C[j].valid = T[j].valid /\ C[j].type = T[j].type
             /\ C[j].lock = IF j = i THEN p ELSE IF j = d THEN None ELSE T[j].lock
             /\ C[j].nlink = T[j].nlink - (IF j = d THEN less ELSE 0)
  BY <1>3, <1>4, <1>5
<1>7. \A j \in Inum : /\ inode'[j].ref = inode[j].ref
                      /\ inode'[j].lock = IF j = i THEN p ELSE IF j = d THEN None ELSE inode[j].lock
                      /\ inode'[j].valid = T[j].valid /\ inode'[j].type = T[j].type
                      /\ inode'[j].nlink = T[j].nlink - (IF j = d THEN less ELSE 0)
  BY <1>1, <1>2, <1>6
<1>. QED  BY <1>2, <1>5, <1>7 DEF T

LEMMA UnlinkDisk ==
  ASSUME disk \in Disk, NEW d \in Inum, NEW less \in {0, 1}, NEW n \in Elements,
         disk' = [disk EXCEPT ![d].ent[n] = 0, ![d].nlink = @ - less]
  PROVE  /\ disk' \in Disk
         /\ disk'[d].ent = [disk[d].ent EXCEPT ![n] = 0]
         /\ \A j \in Inum : disk'[j].type = disk[j].type
         /\ \A j \in Inum : disk'[j].nlink = disk[j].nlink - (IF j = d THEN less ELSE 0)
         /\ \A j \in Inum : j # d => disk'[j].ent = disk[j].ent
<1>. DEFINE e == disk[d]
            f == [e.ent EXCEPT ![n] = 0]
            r == [e EXCEPT !.ent = f, !.nlink = @ - less]
<1>1. disk' = [disk EXCEPT ![d] = r]
  BY DEF Disk
<1>2. e \in [type : Kinds, nlink : Int, ent : [Elements -> Index]]
  BY DEF Disk
<1>. HIDE DEF e
<1>3. f \in [Elements -> Index]
  BY <1>2 DEF Index
<1>. HIDE DEF f
<1>4. r \in [type : Kinds, nlink : Int, ent : [Elements -> Index]] /\ r.ent = f /\ r.type = e.type /\ r.nlink = e.nlink - less
  <2>. DEFINE a == [e EXCEPT !.ent = f]
              m == e.nlink - less
  <2>1. /\ a \in [type : Kinds, nlink : Int, ent : [Elements -> Index]]
        /\ a.ent = f /\ a.type = e.type /\ a.nlink = e.nlink
    BY <1>2, <1>3
  <2>2. m \in Int /\ r = [a EXCEPT !.nlink = m]
    BY <1>2, <2>1
  <2>. HIDE DEF a, m, r
  <2>3. /\ r \in [type : Kinds, nlink : Int, ent : [Elements -> Index]]
        /\ r.ent = a.ent /\ r.type = a.type /\ r.nlink = m
    BY <2>1, <2>2
  <2>. QED  BY <2>1, <2>3 DEF m
<1>. HIDE DEF r
<1>5. \A j \in Inum : disk'[j] = IF j = d THEN r ELSE disk[j]
  BY <1>1 DEF Disk
<1>6. disk' \in Disk
  BY <1>1, <1>4 DEF Disk
<1>7. \A j \in Inum : disk[j].nlink \in Int
  BY DEF Disk
<1>8. ASSUME NEW j \in Inum
      PROVE  /\ disk'[j].type = disk[j].type
             /\ disk'[j].nlink = disk[j].nlink - (IF j = d THEN less ELSE 0)
             /\ j # d => disk'[j].ent = disk[j].ent
  <2>1. CASE j = d
    BY <1>4, <1>5, <2>1 DEF e
  <2>2. CASE j # d
    <3>1. disk'[j] = disk[j] /\ disk[j].nlink \in Int /\ (IF j = d THEN less ELSE 0) = 0
      BY <1>5, <1>7, <2>2
    <3>. QED  BY <3>1
  <2>. QED  BY <2>1, <2>2
<1>9. disk'[d].ent = [disk[d].ent EXCEPT ![n] = 0]
  BY <1>4, <1>5 DEF e, f
<1>. QED  BY <1>6, <1>8, <1>9

LEMMA CreateTable ==
  ASSUME TypeOK, NEW i \in Inum, NEW d \in Inum, i # d, NEW p \in Proc, NEW more \in {0, 1},
         inode' = Linked(Loaded(i), i, d, p, more)
  PROVE  /\ inode' \in Table
         /\ \A j \in Inum : /\ inode'[j].ref = inode[j].ref
                            /\ inode'[j].lock = IF j = i THEN p ELSE IF j = d THEN None ELSE inode[j].lock
                            /\ inode'[j].valid = Loaded(i)[j].valid /\ inode'[j].type = Loaded(i)[j].type
                            /\ inode'[j].nlink = IF j = i THEN 1 ELSE Loaded(i)[j].nlink + (IF j = d THEN more ELSE 0)
<1>. DEFINE T == Loaded(i)
            Z == [T EXCEPT ![i].nlink = 1]
            A == [Z EXCEPT ![i].lock = p]
            B == [A EXCEPT ![d].nlink = @ + more]
            C == [B EXCEPT ![d].lock = None]
<1>1. T \in Table /\ \A j \in Inum : T[j].ref = inode[j].ref /\ T[j].lock = inode[j].lock
  BY LoadedIs
<1>2. inode' = C
  BY <1>1 DEF Table, Linked
<1>. HIDE DEF T
<1>8. /\ Z \in Table
      /\ \A j \in Inum : /\ Z[j].ref = T[j].ref /\ Z[j].lock = T[j].lock
                         /\ Z[j].valid = T[j].valid /\ Z[j].type = T[j].type
                         /\ Z[j].nlink = IF j = i THEN 1 ELSE T[j].nlink
  BY <1>1 DEF Table
<1>. HIDE DEF Z
<1>3. /\ A \in Table
      /\ \A j \in Inum : /\ A[j].ref = T[j].ref /\ A[j].lock = IF j = i THEN p ELSE T[j].lock
                         /\ A[j].valid = T[j].valid /\ A[j].type = T[j].type
                         /\ A[j].nlink = IF j = i THEN 1 ELSE T[j].nlink
  BY <1>8 DEF Table
<1>. HIDE DEF A
<1>4. /\ B \in Table
      /\ \A j \in Inum : /\ B[j].ref = A[j].ref /\ B[j].lock = A[j].lock
                         /\ B[j].valid = A[j].valid /\ B[j].type = A[j].type
                         /\ B[j].nlink = A[j].nlink + (IF j = d THEN more ELSE 0)
  BY <1>3 DEF Table
<1>. HIDE DEF B
<1>5. /\ C \in Table
      /\ \A j \in Inum : /\ C[j].ref = B[j].ref /\ C[j].lock = IF j = d THEN None ELSE B[j].lock
                         /\ C[j].valid = B[j].valid /\ C[j].type = B[j].type
                         /\ C[j].nlink = B[j].nlink
  BY <1>4 DEF Table
<1>. HIDE DEF C
<1>6. ASSUME NEW j \in Inum
      PROVE  /\ C[j].ref = T[j].ref /\ C[j].valid = T[j].valid /\ C[j].type = T[j].type
             /\ C[j].lock = IF j = i THEN p ELSE IF j = d THEN None ELSE T[j].lock
             /\ C[j].nlink = IF j = i THEN 1 ELSE T[j].nlink + (IF j = d THEN more ELSE 0)
  <2>1. T[j].nlink \in Int /\ (j = i => j # d)
    BY <1>1 DEF Table
  <2>. QED  BY <1>3, <1>4, <1>5, <2>1
<1>7. \A j \in Inum : /\ inode'[j].ref = inode[j].ref
                      /\ inode'[j].lock = IF j = i THEN p ELSE IF j = d THEN None ELSE inode[j].lock
                      /\ inode'[j].valid = T[j].valid /\ inode'[j].type = T[j].type
                      /\ inode'[j].nlink = IF j = i THEN 1 ELSE T[j].nlink + (IF j = d THEN more ELSE 0)
  BY <1>1, <1>2, <1>6
<1>. QED  BY <1>2, <1>5, <1>7 DEF T

\* What is on the disk when create() has done that.
IsMade(i, d, n, x, more) ==
  /\ disk' \in Disk
  /\ disk'[i].ent = [disk[i].ent EXCEPT ![".."] = x]
  /\ disk'[d].ent = [disk[d].ent EXCEPT ![n] = i]
  /\ \A j \in Inum : disk'[j].type = disk[j].type
  /\ \A j \in Inum : disk'[j].nlink = IF j = i THEN 1 ELSE disk[j].nlink + (IF j = d THEN more ELSE 0)
  /\ \A j \in Inum : j # d /\ j # i => disk'[j].ent = disk[j].ent

LEMMA CreateDisk ==
  ASSUME disk \in Disk, NEW i \in Inum, NEW d \in Inum, i # d, NEW more \in {0, 1}, NEW n \in Elements,
         NEW x \in Index, disk' = Made(i, d, n, x, more)
  PROVE  IsMade(i, d, n, x, more)
<1>. DEFINE Node == [type : Kinds, nlink : Int, ent : [Elements -> Index]]
            a == disk[i]
            b == disk[d]
            f == [a.ent EXCEPT ![".."] = x]
            g == [b.ent EXCEPT ![n] = i]
            r == [a EXCEPT !.nlink = 1, !.ent = f]
            q == [b EXCEPT !.nlink = @ + more, !.ent = g]
<1>1. disk' = [disk EXCEPT ![i] = r, ![d] = q]
  BY DEF Disk, Made
<1>2. a \in Node /\ b \in Node
  BY DEF Disk
<1>. HIDE DEF a, b
<1>3. f \in [Elements -> Index] /\ g \in [Elements -> Index]
  BY <1>2 DEF Index, Elements
<1>. HIDE DEF f, g
<1>4. r \in Node /\ r.ent = f /\ r.type = a.type /\ r.nlink = 1
  <2>. DEFINE c == [a EXCEPT !.nlink = 1]
  <2>1. c \in Node /\ c.ent = a.ent /\ c.type = a.type /\ c.nlink = 1
    BY <1>2
  <2>2. r = [c EXCEPT !.ent = f]
    BY <1>2, <2>1
  <2>. HIDE DEF c, r
  <2>. QED  BY <1>3, <2>1, <2>2
<1>8. q \in Node /\ q.ent = g /\ q.type = b.type /\ q.nlink = b.nlink + more
  <2>. DEFINE m == b.nlink + more
              c == [b EXCEPT !.nlink = m]
  <2>1. m \in Int
    BY <1>2
  <2>2. q = [c EXCEPT !.ent = g]
    BY <1>2
  <2>. HIDE DEF m
  <2>3. c \in Node /\ c.ent = b.ent /\ c.type = b.type /\ c.nlink = m
    BY <1>2, <2>1
  <2>. HIDE DEF c, q
  <2>4. q \in Node /\ q.ent = g /\ q.type = c.type /\ q.nlink = c.nlink
    BY <1>3, <2>2, <2>3
  <2>. QED  BY <2>3, <2>4 DEF m
<1>. HIDE DEF r, q
<1>5. \A j \in Inum : disk'[j] = IF j = d THEN q ELSE IF j = i THEN r ELSE disk[j]
  BY <1>1 DEF Disk
<1>6. disk' \in Disk
  BY <1>1, <1>4, <1>8 DEF Disk
<1>7. \A j \in Inum : disk[j].nlink \in Int
  BY DEF Disk
<1>9. ASSUME NEW j \in Inum
      PROVE  /\ disk'[j].type = disk[j].type
             /\ disk'[j].nlink = IF j = i THEN 1 ELSE disk[j].nlink + (IF j = d THEN more ELSE 0)
             /\ (j # d /\ j # i) => disk'[j].ent = disk[j].ent
  <2>1. CASE j = d
    BY <1>5, <1>8, <2>1 DEF b
  <2>2. CASE j = i
    BY <1>4, <1>5, <2>2 DEF a
  <2>3. CASE j # d /\ j # i
    <3>1. disk'[j] = disk[j] /\ disk[j].nlink \in Int /\ (IF j = d THEN more ELSE 0) = 0
      BY <1>5, <1>7, <2>3
    <3>. QED  BY <2>3, <3>1
  <2>. QED  BY <2>1, <2>2, <2>3
<1>10. disk'[i].ent = [disk[i].ent EXCEPT ![".."] = x]
  BY <1>4, <1>5 DEF a, f
<1>11. disk'[d].ent = [disk[d].ent EXCEPT ![n] = i]
  BY <1>5, <1>8 DEF b, g
<1>. QED  BY <1>6, <1>9, <1>10, <1>11 DEF IsMade

LEMMA EntersAt ==
  ASSUME NEW p, NEW pc \in {"walk", "open", "existing", "chdir", "link", "linkto", "unlink", "create"},
         Enters(p, pc)
  PROVE  l[p].pc = pc /\ inode[l[p].at].lock = None /\ Loaded(l[p].at)[l[p].at].type # "none"
<1>1. l[p].pc = pc
  BY DEF Enters
<1>2. Locking(p) = l[p].at
  BY <1>1 DEF Locking
<1>. QED  BY <1>1, <1>2 DEF Enters, CanLock

LEMMA EntersIp ==
  ASSUME NEW p, NEW pc \in {"unlinkip", "init", "linkbad"}, Enters(p, pc)
  PROVE  l[p].pc = pc /\ inode[l[p].ip].lock = None /\ Loaded(l[p].ip)[l[p].ip].type # "none"
<1>1. l[p].pc = pc
  BY DEF Enters
<1>2. Locking(p) = l[p].ip
  BY <1>1 DEF Locking
<1>. QED  BY <1>1, <1>2 DEF Enters, CanLock
-----------------------------------------------------------------------------
(* References *)

LEMMA OneChanges ==
  ASSUME NEW S, NEW T, NEW p, IsFiniteSet(S), IsFiniteSet(T), S \ {p} = T \ {p}
  PROVE  /\ Cardinality(S) \in Int /\ Cardinality(T) \in Int
         /\ Cardinality(T) - (IF p \in T THEN 1 ELSE 0) = Cardinality(S) - (IF p \in S THEN 1 ELSE 0)
<1>1. Cardinality(S) \in Nat /\ Cardinality(T) \in Nat
  BY FS_CardinalityType
<1>2. Cardinality(S \ {p}) = Cardinality(S) - (IF p \in S THEN 1 ELSE 0)
  BY <1>1, FS_RemoveElement
<1>3. Cardinality(T \ {p}) = Cardinality(T) - (IF p \in T THEN 1 ELSE 0)
  BY <1>1, FS_RemoveElement
<1>. QED  BY <1>1, <1>2, <1>3

LEMMA FinitelyMany ==
  ASSUME NEW S \in SUBSET Proc
  PROVE  IsFiniteSet(S)
BY InodesAssumption, FS_Subset

\* The references to an inode that a process has.
Own(p, i) ==
  One(cwd[p] = i) + One(file[p] = i) + One(l[p].at = i) + One(l[p].ip = i) + One(l[p].put = i)

LEMMA CardStep ==
  ASSUME NEW S \in SUBSET Proc, NEW T \in SUBSET Proc, NEW p \in Proc,
         \A q \in Proc : q # p => (q \in S <=> q \in T)
  PROVE  /\ Cardinality(S) \in Int /\ Cardinality(T) \in Int
         /\ Cardinality(T) - One(p \in T) = Cardinality(S) - One(p \in S)
<1>1. IsFiniteSet(S) /\ IsFiniteSet(T)
  BY FinitelyMany
<1>2. S \ {p} = T \ {p}
  OBVIOUS
<1>. QED  BY <1>1, <1>2, OneChanges DEF One

\* The references of the processes, one by one; an action changes those of one.
Refs(i) ==
  Cardinality({q \in Proc : cwd[q] = i}) + Cardinality({q \in Proc : file[q] = i})
    + Cardinality({q \in Proc : l[q].at = i}) + Cardinality({q \in Proc : l[q].ip = i})
    + Cardinality({q \in Proc : l[q].put = i})

LEMMA RefsStep ==
  ASSUME NEW p \in Proc, NEW i,
         \A q \in Proc : q # p => cwd'[q] = cwd[q] /\ file'[q] = file[q] /\ l'[q] = l[q]
  PROVE  Refs(i) \in Int /\ Refs(i)' \in Int /\ Refs(i)' - Own(p, i)' = Refs(i) - Own(p, i)
<1>. DEFINE C == {q \in Proc : cwd[q] = i}      D == {q \in Proc : cwd'[q] = i}
            F == {q \in Proc : file[q] = i}     G == {q \in Proc : file'[q] = i}
            A == {q \in Proc : l[q].at = i}     B == {q \in Proc : l'[q].at = i}
            I == {q \in Proc : l[q].ip = i}     J == {q \in Proc : l'[q].ip = i}
            P == {q \in Proc : l[q].put = i}    Q == {q \in Proc : l'[q].put = i}
<1>1. /\ Cardinality(C) \in Int /\ Cardinality(D) \in Int
      /\ Cardinality(D) - One(p \in D) = Cardinality(C) - One(p \in C)
  BY CardStep
<1>2. /\ Cardinality(F) \in Int /\ Cardinality(G) \in Int
      /\ Cardinality(G) - One(p \in G) = Cardinality(F) - One(p \in F)
  BY CardStep
<1>3. /\ Cardinality(A) \in Int /\ Cardinality(B) \in Int
      /\ Cardinality(B) - One(p \in B) = Cardinality(A) - One(p \in A)
  BY CardStep
<1>4. /\ Cardinality(I) \in Int /\ Cardinality(J) \in Int
      /\ Cardinality(J) - One(p \in J) = Cardinality(I) - One(p \in I)
  BY CardStep
<1>5. /\ Cardinality(P) \in Int /\ Cardinality(Q) \in Int
      /\ Cardinality(Q) - One(p \in Q) = Cardinality(P) - One(p \in P)
  BY CardStep
<1>6. /\ (p \in C <=> cwd[p] = i) /\ (p \in D <=> cwd'[p] = i)
      /\ (p \in F <=> file[p] = i) /\ (p \in G <=> file'[p] = i)
      /\ (p \in A <=> l[p].at = i) /\ (p \in B <=> l'[p].at = i)
      /\ (p \in I <=> l[p].ip = i) /\ (p \in J <=> l'[p].ip = i)
      /\ (p \in P <=> l[p].put = i) /\ (p \in Q <=> l'[p].put = i)
  OBVIOUS
<1>7. /\ Refs(i) = Cardinality(C) + Cardinality(F) + Cardinality(A) + Cardinality(I) + Cardinality(P)
      /\ Refs(i)' = Cardinality(D) + Cardinality(G) + Cardinality(B) + Cardinality(J) + Cardinality(Q)
  BY DEF Refs
<1>. HIDE DEF C, D, F, G, A, B, I, J, P, Q
<1>8. /\ Own(p, i) = One(p \in C) + One(p \in F) + One(p \in A) + One(p \in I) + One(p \in P)
      /\ Own(p, i)' = One(p \in D) + One(p \in G) + One(p \in B) + One(p \in J) + One(p \in Q)
  BY <1>6 DEF Own, One
<1>9. \A b : One(b) \in Int
  BY DEF One
<1>. QED  BY <1>1, <1>2, <1>3, <1>4, <1>5, <1>7, <1>8, <1>9

LEMMA RefsAre == RefsExact <=> \A i \in Inum : inode[i].ref = Refs(i)
BY DEF RefsExact, Refs

\* What an action of one process has to show.
Counted(p) == \A i \in Inum : inode'[i].ref - inode[i].ref = Own(p, i)' - Own(p, i)
Locked(p) ==
  \A i \in Inum :
    /\ Holds(p, i)' => inode'[i].lock = p /\ inode[i].lock \in {None, p}
    /\ ~Holds(p, i)' => inode'[i].lock = IF Holds(p, i) THEN None ELSE inode[i].lock

LEMMA ProcStep ==
  ASSUME IInv, TypeOK', NEW p \in Proc,
         \A q \in Proc : q # p => cwd'[q] = cwd[q] /\ file'[q] = file[q] /\ l'[q] = l[q],
         Shape(p)', Apart(p)', Counted(p), Locked(p)
  PROVE  IInv'
<1>1. ShapeOK'
  BY DEF IInv, ShapeOK, Shape, Apart, Putting, Cont, HoldsAt, HoldsIp, HoldsPut, OpOK, Op
<1>2. LockOK'
  <2>1. ASSUME NEW q \in Proc, q # p, NEW i \in Inum
        PROVE  Holds(q, i)' <=> Holds(q, i)
    BY <2>1 DEF Holds, Putting, Cont, HoldsAt, HoldsIp, HoldsPut
  <2>2. None \notin Proc
    BY InodesAssumption
  <2>3. ASSUME NEW q \in Proc, NEW i \in Inum
        PROVE  inode'[i].lock = q <=> Holds(q, i)'
    BY <2>1, <2>2, <2>3 DEF IInv, LockOK, Locked
  <2>. QED  BY <2>3 DEF LockOK
<1>3. RefsExact'
  <2>1. ASSUME NEW i \in Inum PROVE inode'[i].ref = Refs(i)'
    <3>1. Refs(i) \in Int /\ Refs(i)' \in Int /\ Refs(i)' - Own(p, i)' = Refs(i) - Own(p, i)
      BY RefsStep
    <3>2. inode[i].ref = Refs(i)
      BY RefsAre DEF IInv
    <3>3. inode'[i].ref - inode[i].ref = Own(p, i)' - Own(p, i)
      BY DEF Counted
    <3>4. inode'[i].ref \in Int /\ inode[i].ref \in Int /\ Own(p, i) \in Int /\ Own(p, i)' \in Int
      BY DEF IInv, TypeOK, Table, Own, One
    <3>. QED  BY <3>1, <3>2, <3>3, <3>4
  <2>2. (\A i \in Inum : inode[i].ref = Refs(i))' => RefsExact'
    BY RefsAre, PTL
  <2>. QED  BY <2>1, <2>2
<1>. QED  BY <1>1, <1>2, <1>3 DEF IInv
-----------------------------------------------------------------------------
(* Actions *)

Rest(p) == \A q \in Proc : q # p => cwd'[q] = cwd[q] /\ file'[q] = file[q] /\ l'[q] = l[q]

LEMMA Typed ==
  ASSUME TypeOK, NEW p \in Proc
  PROVE  /\ cwd[p] \in Inum /\ file[p] \in Index /\ l[p].at \in Index /\ l[p].ip \in Index
         /\ l[p].put \in Index /\ l[p].names \in Seq(Elements) /\ l[p].call \in Calls \cup {None}
         /\ l[p].pc \in Points \cup Paused /\ l[p].then \in Thens
         /\ Root \in Inum /\ Inum \subseteq Index /\ 0 \in Index /\ 0 \notin Inum
         /\ \A i \in Index : i # 0 => i \in Inum
BY InodesAssumption DEF TypeOK, Local, Index, Root, Inum

LEMMA LoopIn ==
  ASSUME NEW names \in Seq(Elements)
  PROVE  /\ Loop(names) \in {"found", "walk"}
         /\ Loop(names) = "walk" => names # <<>>
BY DEF Loop

LEMMA Lookup ==
  ASSUME TypeOK, NEW p \in Proc, NEW d \in Inum, l[p].names # <<>>
  PROVE  /\ Head(l[p].names) \in Elements /\ Entry(p, d) \in Index
         /\ Tail(l[p].names) \in Seq(Elements)
<1>1. l[p].names \in Seq(Elements)
  BY Typed
<1>2. Head(l[p].names) \in Elements /\ Tail(l[p].names) \in Seq(Elements)
  BY <1>1
<1>. QED  BY <1>2 DEF Entry, TypeOK, Disk

LEMMA FailsDoes ==
  ASSUME TypeOK, NEW p \in Proc, NEW d \in Inum, Fails(p, d)
  PROVE  /\ l' \in [Proc -> Local]
         /\ \/ Linking(p) /\ Goes(p, "put", l[p].call, l[p].names, 0, l[p].ip, d, "linkbad")
            \/ ~Linking(p) /\ Goes(p, "put", None, <<>>, 0, 0, d, "end")
<1>1. l \in [Proc -> Local] /\ d \in Index /\ 0 \in Index /\ "linkbad" \in Thens
  BY DEF TypeOK, Index, Thens
<1>2. CASE Linking(p)
  BY <1>1, <1>2, PutAt DEF Fails
<1>3. CASE ~Linking(p)
  BY <1>1, <1>3, PutEnd DEF Fails
<1>. QED  BY <1>2, <1>3

LEMMA FoundIn ==
  ASSUME NEW p, ShapeOK, p \in Proc, Cont(p) \in {"walk", "found"}
  PROVE  /\ Found(p) \in {"open", "chdir", "link", "linkto", "unlink", "create"}
         /\ Found(p) = "open" => Op(p) = "open"
         /\ Found(p) = "chdir" => Op(p) = "chdir"
         /\ Found(p) = "link" => Op(p) = "link" /\ l[p].ip = 0
         /\ Found(p) = "linkto" => Op(p) = "link" /\ l[p].ip # 0
         /\ Found(p) = "unlink" => Op(p) = "unlink"
         /\ Found(p) = "create" => Op(p) \in {"creat", "mkdir"}
         /\ ~Parent(p) => Found(p) = Op(p) /\ Found(p) \in {"open", "chdir", "link"}
         /\ Parent(p) => Found(p) \in {"linkto", "unlink", "create"}
         /\ Linking(p) <=> l[p].ip # 0
         /\ Linking(p) => Found(p) = "linkto"
<1>1. l[p].call \in Calls /\ (l[p].ip # 0 => Op(p) = "link")
  BY DEF ShapeOK, Shape
<1>2. Op(p) \in {"open", "chdir", "link", "creat", "mkdir", "unlink"}
  BY <1>1, InodesAssumption DEF Op
<1>3. CASE Linking(p)
  BY <1>1, <1>2, <1>3 DEF Found, Linking, Parent
<1>4. CASE ~Linking(p)
  BY <1>1, <1>2, <1>4 DEF Found, Linking, Parent
<1>. QED  BY <1>3, <1>4

LEMMA WalkDoes ==
  ASSUME IInv, NEW p \in Proc, Walk(p)
  PROVE  LET d == l[p].at IN
         /\ d \in Inum /\ inode[d].lock = None /\ l[p].pc = "walk" /\ l[p].names # <<>>
         /\ Loaded(d)[d].type # "none"
         /\ UNCHANGED <<disk, cwd, file>> /\ l' \in [Proc -> Local]
         /\ \/ /\ Loaded(d)[d].type = "DIR" /\ Parent(p) /\ Last(p)
               /\ inode' = Loaded(d)
               /\ Goes(p, Found(p), l[p].call, l[p].names, d, l[p].ip, l[p].put, l[p].then)
            \/ /\ Loaded(d)[d].type = "DIR" /\ Entry(p, d) \in Inum
               /\ inode' = Iget(Loaded(d), Entry(p, d))
               /\ Goes(p, "put", l[p].call, Tail(l[p].names), Entry(p, d), l[p].ip, d,
                       Loop(Tail(l[p].names)))
               /\ ~(Parent(p) /\ Last(p))
            \/ /\ inode' = Loaded(d) /\ Linking(p)
               /\ Goes(p, "put", l[p].call, l[p].names, 0, l[p].ip, d, "linkbad")
            \/ /\ inode' = Loaded(d) /\ ~Linking(p)
               /\ Goes(p, "put", None, <<>>, 0, 0, d, "end")
<1>. DEFINE d == l[p].at
<1>1. l[p].pc = "walk" /\ inode[d].lock = None /\ Loaded(d)[d].type # "none"
  BY EntersAt DEF Walk
<1>2. Cont(p) = "walk" /\ d # 0 /\ l[p].names # <<>>
  BY <1>1 DEF IInv, ShapeOK, Shape, Cont, Putting, Paused, AtPoints, NamePoints
<1>3. TypeOK /\ d \in Inum /\ d \in Index /\ l \in [Proc -> Local]
  BY <1>2, Typed DEF IInv, TypeOK
<1>4. UNCHANGED <<disk, cwd, file>>
  BY DEF Walk
<1>5. Entry(p, d) \in Index /\ Tail(l[p].names) \in Seq(Elements)
  BY <1>2, <1>3, Lookup
<1>6. CASE /\ Loaded(d)[d].type = "DIR" /\ Parent(p) /\ Last(p)
           /\ inode' = Loaded(d) /\ Step(p, [pc |-> Found(p)])
  <2>1. Found(p) \in Points \cup Paused
    BY <1>2, FoundIn DEF IInv, Points
  <2>2. l' \in [Proc -> Local] /\ Goes(p, Found(p), l[p].call, l[p].names, d, l[p].ip, l[p].put, l[p].then)
    BY <1>3, <1>6, <2>1, StepPc
  <2>. QED  BY <1>1, <1>2, <1>3, <1>4, <1>6, <2>2
<1>7. CASE /\ Loaded(d)[d].type = "DIR" /\ ~(Parent(p) /\ Last(p)) /\ Entry(p, d) # 0
           /\ inode' = Iget(Loaded(d), Entry(p, d))
           /\ Put(p, d, Loop(Tail(l[p].names)), [at |-> Entry(p, d), names |-> Tail(l[p].names)])
  <2>1. Loop(Tail(l[p].names)) \in Thens
    BY <1>5, LoopIn DEF Thens
  <2>2. l' \in [Proc -> Local] /\ Goes(p, "put", l[p].call, Tail(l[p].names), Entry(p, d), l[p].ip, d,
                       Loop(Tail(l[p].names)))
    BY <1>3, <1>5, <1>7, <2>1, PutWalk
  <2>3. Entry(p, d) \in Inum
    BY <1>5, <1>7 DEF Index
  <2>. QED  BY <1>1, <1>2, <1>3, <1>4, <1>7, <2>2, <2>3
<1>8. CASE inode' = Loaded(d) /\ Fails(p, d)
  BY <1>1, <1>2, <1>3, <1>4, <1>8, FailsDoes
<1>. QED  BY SMTT(30), <1>6, <1>7, <1>8 DEF Walk

LEMMA WalkInv ==
  ASSUME IInv, NEW p \in Proc, Walk(p)
  PROVE  IInv'
<1>. DEFINE d == l[p].at
<1>1. /\ d \in Inum /\ inode[d].lock = None /\ l[p].pc = "walk" /\ l[p].names # <<>>
      /\ UNCHANGED <<disk, cwd, file>> /\ l' \in [Proc -> Local]
  BY WalkDoes
<1>2. TypeOK /\ Shape(p) /\ Apart(p)
  BY DEF IInv, ShapeOK
<1>3. Cont(p) = "walk" /\ Putting(p) = FALSE
  BY <1>1, <1>2 DEF Cont, Putting, Paused, Shape
<1>4. \A j \in Inum : Holds(p, j) <=> FALSE
  BY <1>1, <1>2, <1>3 DEF Holds, HoldsAt, HoldsIp, HoldsPut
<1>5. \A j \in Inum : inode[j].lock = p <=> Holds(p, j)
  BY DEF IInv, LockOK
<1>6. /\ Parent(p) => Found(p) \in {"linkto", "unlink", "create"}
      /\ (Found(p) = "unlink" => Op(p) = "unlink")
      /\ (Found(p) = "create" => Op(p) \in {"creat", "mkdir"})
      /\ (Found(p) = "linkto" <=> l[p].ip # 0) /\ (Linking(p) <=> l[p].ip # 0)
  BY <1>1, <1>3, FoundIn DEF IInv
<1>7. /\ Tail(l[p].names) \in Seq(Elements)
      /\ Loop(Tail(l[p].names)) \in {"found", "walk"}
      /\ Loop(Tail(l[p].names)) = "walk" => Tail(l[p].names) # <<>>
  BY <1>1, <1>2, Lookup, LoopIn
<1>8. \A j \in Inum : Own(p, j) = One(cwd[p] = j) + One(file[p] = j) + One(l[p].at = j) + One(l[p].ip = j)
  BY <1>1, <1>2, <1>3, Typed DEF Own, One, Shape, AtPoints, IpPoints
<1>9. \A j \in Inum : inode[j].ref \in Int
  BY <1>2 DEF TypeOK, Table
<1>10. CASE /\ Parent(p) /\ inode' = Loaded(d)
            /\ Goes(p, Found(p), l[p].call, l[p].names, d, l[p].ip, l[p].put, l[p].then)
  <2>1. /\ TypeOK'
        /\ \A j \in Inum : inode'[j].ref = inode[j].ref /\ inode'[j].lock = inode[j].lock
    <3>1. inode \in Table /\ disk \in Disk
      BY <1>2 DEF TypeOK
    <3>2. inode' \in Table /\ \A j \in Inum : inode'[j].ref = inode[j].ref /\ inode'[j].lock = inode[j].lock
      BY <1>1, <1>2, <1>10, <3>1, LoadedIs
    <3>3. disk' \in Disk
      BY <1>1, <1>10, <3>1
    <3>. QED  BY <1>1, <1>2, <1>10, <3>2, <3>3, Typed DEF TypeOK
  <2>2. Cont(p)' = Found(p) /\ Putting(p)' = FALSE
    BY <1>1, <1>2, <1>3, <1>10, <1>6 DEF Goes, Cont, Putting, Paused, Points, Thens
  <2>3. Shape(p)'
    BY <1>1, <1>2, <1>3, <1>10, <2>2, Typed, <1>6 DEF Goes, Shape, OpOK, Op, AtPoints, IpPoints, NamePoints
  <2>4. Apart(p)' /\ \A j \in Inum : Holds(p, j)' <=> FALSE
    BY <1>1, <1>2, <1>3, <1>10, <2>2, <1>6 DEF Goes, Apart, Holds, HoldsAt, HoldsIp, HoldsPut
  <2>5. \A j \in Inum : Own(p, j)' = One(cwd[p] = j) + One(file[p] = j) + One(d = j) + One(l[p].ip = j)
    BY <1>1, <1>2, <1>3, <1>10, Typed DEF Goes, Own, One, TypeOK, Shape, AtPoints, IpPoints
  <2>6. Counted(p)
    BY <1>8, <1>9, <2>1, <2>5, OneInt DEF Counted
  <2>7. Locked(p)
    BY <1>1, <1>4, <1>5, <1>10, <2>1, <2>4, <1>6 DEF Locked
  <2>. QED  BY <1>1, <1>10, <2>1, <2>3, <2>4, <2>6, <2>7, ProcStep DEF Goes, TypeOK
<1>11. CASE /\ Entry(p, d) \in Inum /\ inode' = Iget(Loaded(d), Entry(p, d))
            /\ Goes(p, "put", l[p].call, Tail(l[p].names), Entry(p, d), l[p].ip, d, Loop(Tail(l[p].names)))
  <2>1. /\ TypeOK'
        /\ \A j \in Inum : inode'[j].ref = (inode[j].ref + One(Entry(p, d) = j)) /\ inode'[j].lock = inode[j].lock
    <3>1. inode \in Table /\ disk \in Disk
      BY <1>2 DEF TypeOK
    <3>2. inode' \in Table /\ \A j \in Inum : inode'[j].ref = (inode[j].ref + One(Entry(p, d) = j)) /\ inode'[j].lock = inode[j].lock
      BY <1>1, <1>2, <1>11, <3>1, LoadGet
    <3>3. disk' \in Disk
      BY <1>1, <1>11, <3>1
    <3>. QED  BY <1>1, <1>2, <1>11, <3>2, <3>3, Typed DEF TypeOK
  <2>2. Cont(p)' = Loop(Tail(l[p].names)) /\ Putting(p)' = TRUE
    BY <1>1, <1>2, <1>3, <1>11, <1>7 DEF Goes, Cont, Putting, Paused, Points, Thens
  <2>3. Shape(p)'
    BY <1>1, <1>2, <1>3, <1>11, <2>2, Typed, <1>7 DEF Goes, Shape, OpOK, Op, AtPoints, IpPoints, NamePoints
  <2>4. Apart(p)' /\ \A j \in Inum : Holds(p, j)' <=> FALSE
    BY <1>1, <1>2, <1>3, <1>11, <2>2, <1>7 DEF Goes, Apart, Holds, HoldsAt, HoldsIp, HoldsPut
  <2>5. \A j \in Inum : Own(p, j)' = One(cwd[p] = j) + One(file[p] = j) + One(Entry(p, d) = j) + One(l[p].ip = j) + One(d = j)
    BY <1>1, <1>2, <1>3, <1>11, Typed DEF Goes, Own, One, TypeOK, Shape, AtPoints, IpPoints
  <2>6. Counted(p)
    BY <1>8, <1>9, <2>1, <2>5, OneInt DEF Counted
  <2>7. Locked(p)
    BY <1>1, <1>4, <1>5, <1>11, <2>1, <2>4, <1>7 DEF Locked
  <2>. QED  BY <1>1, <1>11, <2>1, <2>3, <2>4, <2>6, <2>7, ProcStep DEF Goes, TypeOK
<1>12. CASE /\ Linking(p) /\ inode' = Loaded(d)
            /\ Goes(p, "put", l[p].call, l[p].names, 0, l[p].ip, d, "linkbad")
  <2>1. /\ TypeOK'
        /\ \A j \in Inum : inode'[j].ref = inode[j].ref /\ inode'[j].lock = inode[j].lock
    <3>1. inode \in Table /\ disk \in Disk
      BY <1>2 DEF TypeOK
    <3>2. inode' \in Table /\ \A j \in Inum : inode'[j].ref = inode[j].ref /\ inode'[j].lock = inode[j].lock
      BY <1>1, <1>2, <1>12, <3>1, LoadedIs
    <3>3. disk' \in Disk
      BY <1>1, <1>12, <3>1
    <3>. QED  BY <1>1, <1>2, <1>12, <3>2, <3>3, Typed DEF TypeOK
  <2>2. Cont(p)' = "linkbad" /\ Putting(p)' = TRUE
    BY <1>1, <1>2, <1>3, <1>12, <1>6 DEF Goes, Cont, Putting, Paused, Points, Thens
  <2>3. Shape(p)'
    BY <1>1, <1>2, <1>3, <1>12, <2>2, Typed, <1>6 DEF Goes, Shape, OpOK, Op, AtPoints, IpPoints, NamePoints
  <2>4. Apart(p)' /\ \A j \in Inum : Holds(p, j)' <=> FALSE
    BY <1>1, <1>2, <1>3, <1>12, <2>2, <1>6 DEF Goes, Apart, Holds, HoldsAt, HoldsIp, HoldsPut
  <2>5. \A j \in Inum : Own(p, j)' = One(cwd[p] = j) + One(file[p] = j) + One(l[p].ip = j) + One(d = j)
    BY <1>1, <1>2, <1>3, <1>12, Typed DEF Goes, Own, One, TypeOK, Shape, AtPoints, IpPoints
  <2>6. Counted(p)
    BY <1>8, <1>9, <2>1, <2>5, OneInt DEF Counted
  <2>7. Locked(p)
    BY <1>1, <1>4, <1>5, <1>12, <2>1, <2>4, <1>6 DEF Locked
  <2>. QED  BY <1>1, <1>12, <2>1, <2>3, <2>4, <2>6, <2>7, ProcStep DEF Goes, TypeOK
<1>13. CASE /\ ~Linking(p) /\ inode' = Loaded(d)
            /\ Goes(p, "put", None, <<>>, 0, 0, d, "end")
  <2>1. /\ TypeOK'
        /\ \A j \in Inum : inode'[j].ref = inode[j].ref /\ inode'[j].lock = inode[j].lock
    <3>1. inode \in Table /\ disk \in Disk
      BY <1>2 DEF TypeOK
    <3>2. inode' \in Table /\ \A j \in Inum : inode'[j].ref = inode[j].ref /\ inode'[j].lock = inode[j].lock
      BY <1>1, <1>2, <1>13, <3>1, LoadedIs
    <3>3. disk' \in Disk
      BY <1>1, <1>13, <3>1
    <3>. QED  BY <1>1, <1>2, <1>13, <3>2, <3>3, Typed DEF TypeOK
  <2>2. Cont(p)' = "end" /\ Putting(p)' = TRUE
    BY <1>1, <1>2, <1>3, <1>13, <1>6 DEF Goes, Cont, Putting, Paused, Points, Thens
  <2>3. Shape(p)'
    BY <1>1, <1>2, <1>3, <1>13, <2>2, Typed, <1>6 DEF Goes, Shape, OpOK, Op, AtPoints, IpPoints, NamePoints
  <2>4. Apart(p)' /\ \A j \in Inum : Holds(p, j)' <=> FALSE
    BY <1>1, <1>2, <1>3, <1>13, <2>2, <1>6 DEF Goes, Apart, Holds, HoldsAt, HoldsIp, HoldsPut
  <2>5. \A j \in Inum : Own(p, j)' = One(cwd[p] = j) + One(file[p] = j) + One(d = j)
                                 /\ One(l[p].ip = j) = 0
    BY <1>1, <1>2, <1>3, <1>13, Typed, <1>6 DEF Goes, Own, One, TypeOK, Shape, AtPoints, IpPoints
  <2>6. Counted(p)
    BY <1>8, <1>9, <2>1, <2>5, OneInt DEF Counted
  <2>7. Locked(p)
    BY <1>1, <1>4, <1>5, <1>13, <2>1, <2>4, <1>6 DEF Locked
  <2>. QED  BY <1>1, <1>13, <2>1, <2>3, <2>4, <2>6, <2>7, ProcStep DEF Goes, TypeOK
<1>. QED  BY <1>10, <1>11, <1>12, <1>13, WalkDoes

LEMMA BeginDoes ==
  ASSUME IInv, NEW p \in Proc, NEW c \in Calls, Begin(p, c)
  PROVE  LET d == Start(p, c.path) IN
         /\ d \in Inum /\ l[p].pc = "idle"
         /\ c.path.names \in Seq(Elements)
         /\ UNCHANGED <<disk, cwd, file>> /\ l' \in [Proc -> Local]
         /\ inode' = Iget(inode, d)
         /\ Goes(p, Loop(c.path.names), c, c.path.names, d, l[p].ip, l[p].put, l[p].then)
<1>. DEFINE d == Start(p, c.path)
<1>1. TypeOK /\ c.path \in Path /\ l \in [Proc -> Local]
  BY InodesAssumption DEF IInv, TypeOK
<1>2. c.path.names \in Seq(Elements)
  BY <1>1 DEF Path, Elements
<1>3. d \in Inum /\ d \in Index
  BY <1>1, Typed DEF Start
<1>4. Loop(c.path.names) \in Points \cup Paused
  BY <1>2, LoopIn DEF Points
<1>5. /\ l[p].pc = "idle" /\ inode' = Iget(inode, d) /\ UNCHANGED <<disk, cwd, file>>
      /\ Step(p, [pc |-> Loop(c.path.names), call |-> c, names |-> c.path.names, at |-> d])
  BY DEF Begin
<1>6. /\ l' \in [Proc -> Local]
      /\ Goes(p, Loop(c.path.names), c, c.path.names, d, l[p].ip, l[p].put, l[p].then)
  BY <1>1, <1>2, <1>3, <1>4, <1>5, StepBegin
<1>. QED  BY <1>2, <1>3, <1>5, <1>6

LEMMA BeginInv ==
  ASSUME IInv, NEW p \in Proc, NEW c \in Calls, Begin(p, c)
  PROVE  IInv'
<1>. DEFINE d == Start(p, c.path)
<1>1. /\ d \in Inum /\ l[p].pc = "idle"
      /\ c.path.names \in Seq(Elements)
      /\ UNCHANGED <<disk, cwd, file>> /\ l' \in [Proc -> Local]
  BY BeginDoes
<1>2. TypeOK /\ Shape(p) /\ Apart(p)
  BY DEF IInv, ShapeOK
<1>3. Cont(p) = "idle" /\ Putting(p) = FALSE
  BY <1>1, <1>2 DEF Cont, Putting, Paused, Shape
<1>4. \A j \in Inum : Holds(p, j) <=> FALSE
  BY <1>1, <1>2, <1>3 DEF Holds, HoldsAt, HoldsIp, HoldsPut
<1>5. \A j \in Inum : inode[j].lock = p <=> Holds(p, j)
  BY DEF IInv, LockOK
<1>6. Loop(c.path.names) \in {"found", "walk"} /\ (Loop(c.path.names) = "walk" => c.path.names # <<>>)
  BY <1>1, LoopIn
<1>8. \A j \in Inum : Own(p, j) = One(cwd[p] = j) + One(file[p] = j)
  BY <1>1, <1>2, <1>3, Typed DEF Own, One, Shape, AtPoints, IpPoints
<1>9. \A j \in Inum : inode[j].ref \in Int
  BY <1>2 DEF TypeOK, Table
<1>10. CASE /\ inode' = Iget(inode, d)
            /\ Goes(p, Loop(c.path.names), c, c.path.names, d, l[p].ip, l[p].put, l[p].then)
  <2>1. /\ TypeOK'
        /\ \A j \in Inum : inode'[j].ref = (inode[j].ref + One(d = j)) /\ inode'[j].lock = inode[j].lock
    <3>1. inode \in Table /\ disk \in Disk
      BY <1>2 DEF TypeOK
    <3>2. inode' \in Table /\ \A j \in Inum : inode'[j].ref = (inode[j].ref + One(d = j)) /\ inode'[j].lock = inode[j].lock
      BY <1>1, <1>10, <3>1, IgetIs DEF One, Table
    <3>3. disk' \in Disk
      BY <1>1, <1>10, <3>1
    <3>. QED  BY <1>1, <1>2, <1>10, <3>2, <3>3, Typed DEF TypeOK
  <2>2. Cont(p)' = Loop(c.path.names) /\ Putting(p)' = FALSE
    BY <1>1, <1>2, <1>3, <1>10, <1>6 DEF Goes, Cont, Putting, Paused, Points, Thens
  <2>3. Shape(p)'
    BY <1>1, <1>2, <1>3, <1>10, <2>2, Typed, <1>6 DEF Goes, Shape, OpOK, Op, AtPoints, IpPoints, NamePoints
  <2>4. Apart(p)' /\ \A j \in Inum : Holds(p, j)' <=> FALSE
    BY <1>1, <1>2, <1>3, <1>10, <2>2, <1>6 DEF Goes, Apart, Holds, HoldsAt, HoldsIp, HoldsPut
  <2>5. \A j \in Inum : Own(p, j)' = One(cwd[p] = j) + One(file[p] = j) + One(d = j)
    BY <1>1, <1>2, <1>3, <1>10, Typed DEF Goes, Own, One, TypeOK, Shape, AtPoints, IpPoints
  <2>6. Counted(p)
    BY <1>8, <1>9, <2>1, <2>5, OneInt DEF Counted
  <2>7. Locked(p)
    BY <1>1, <1>4, <1>5, <1>10, <2>1, <2>4, <1>6 DEF Locked
  <2>. QED  BY <1>1, <1>10, <2>1, <2>3, <2>4, <2>6, <2>7, ProcStep DEF Goes, TypeOK
<1>. QED  BY <1>10, BeginDoes

LEMMA WalkEndsDoes ==
  ASSUME IInv, NEW p \in Proc, WalkEnds(p)
  PROVE  LET d == l[p].at IN
         /\ d \in Inum /\ l[p].pc = "found"
         /\ UNCHANGED <<disk, inode, cwd, file>> /\ l' \in [Proc -> Local]
         /\ \/ /\ Parent(p) /\ Linking(p)
               /\ Goes(p, "put", l[p].call, l[p].names, 0, l[p].ip, d, "linkbad")
            \/ /\ Parent(p) /\ ~Linking(p)
               /\ Goes(p, "put", None, <<>>, 0, 0, d, "end")
            \/ /\ ~Parent(p)
               /\ Goes(p, Found(p), l[p].call, l[p].names, l[p].at, l[p].ip, l[p].put, l[p].then)
<1>. DEFINE d == l[p].at
<1>1. l[p].pc = "found" /\ UNCHANGED <<disk, inode, cwd, file>>
  BY DEF WalkEnds
<1>2. Cont(p) = "found" /\ d # 0
  BY <1>1 DEF IInv, ShapeOK, Shape, Cont, Putting, Paused, AtPoints
<1>3. TypeOK /\ d \in Inum /\ d \in Index /\ l \in [Proc -> Local]
  BY <1>2, Typed DEF IInv, TypeOK
<1>4. CASE Parent(p) /\ Fails(p, d)
  BY <1>1, <1>3, <1>4, FailsDoes
<1>5. CASE ~Parent(p) /\ Step(p, [pc |-> Found(p)])
  <2>1. Found(p) \in Points \cup Paused
    BY <1>2, FoundIn DEF IInv, Points
  <2>. QED  BY <1>1, <1>3, <1>5, <2>1, StepPc
<1>. QED  BY <1>4, <1>5 DEF WalkEnds

LEMMA WalkEndsInv ==
  ASSUME IInv, NEW p \in Proc, WalkEnds(p)
  PROVE  IInv'
<1>. DEFINE d == l[p].at
<1>1. /\ d \in Inum /\ l[p].pc = "found"
      /\ UNCHANGED <<disk, inode, cwd, file>> /\ l' \in [Proc -> Local]
  BY WalkEndsDoes
<1>2. TypeOK /\ Shape(p) /\ Apart(p)
  BY DEF IInv, ShapeOK
<1>3. Cont(p) = "found" /\ Putting(p) = FALSE
  BY <1>1, <1>2 DEF Cont, Putting, Paused, Shape
<1>4. \A j \in Inum : Holds(p, j) <=> FALSE
  BY <1>1, <1>2, <1>3 DEF Holds, HoldsAt, HoldsIp, HoldsPut
<1>5. \A j \in Inum : inode[j].lock = p <=> Holds(p, j)
  BY DEF IInv, LockOK
<1>6. /\ ~Parent(p) => Found(p) = Op(p) /\ Found(p) \in {"open", "chdir", "link"}
      /\ Found(p) = "link" => l[p].ip = 0
      /\ ~Parent(p) => l[p].ip = 0
      /\ Linking(p) <=> l[p].ip # 0
  BY <1>1, <1>3, FoundIn DEF IInv, Parent
<1>8. \A j \in Inum : Own(p, j) = One(cwd[p] = j) + One(file[p] = j) + One(l[p].at = j) + One(l[p].ip = j)
  BY <1>1, <1>2, <1>3, Typed DEF Own, One, Shape, AtPoints, IpPoints
<1>9. \A j \in Inum : inode[j].ref \in Int
  BY <1>2 DEF TypeOK, Table
<1>10. CASE /\ Parent(p) /\ Linking(p)
            /\ Goes(p, "put", l[p].call, l[p].names, 0, l[p].ip, d, "linkbad")
  <2>1. /\ TypeOK'
        /\ \A j \in Inum : inode'[j].ref = inode[j].ref /\ inode'[j].lock = inode[j].lock
    <3>1. inode \in Table /\ disk \in Disk
      BY <1>2 DEF TypeOK
    <3>2. inode' \in Table /\ \A j \in Inum : inode'[j].ref = inode[j].ref /\ inode'[j].lock = inode[j].lock
      BY <1>1, <1>10, <3>1
    <3>3. disk' \in Disk
      BY <1>1, <1>10, <3>1
    <3>. QED  BY <1>1, <1>2, <1>10, <3>2, <3>3, Typed DEF TypeOK
  <2>2. Cont(p)' = "linkbad" /\ Putting(p)' = TRUE
    BY <1>1, <1>2, <1>3, <1>10, <1>6 DEF Goes, Cont, Putting, Paused, Points, Thens
  <2>3. Shape(p)'
    BY <1>1, <1>2, <1>3, <1>10, <2>2, Typed, <1>6 DEF Goes, Shape, OpOK, Op, AtPoints, IpPoints, NamePoints
  <2>4. Apart(p)' /\ \A j \in Inum : Holds(p, j)' <=> FALSE
    BY <1>1, <1>2, <1>3, <1>10, <2>2, <1>6 DEF Goes, Apart, Holds, HoldsAt, HoldsIp, HoldsPut
  <2>5. \A j \in Inum : Own(p, j)' = One(cwd[p] = j) + One(file[p] = j) + One(l[p].ip = j) + One(d = j)
    BY <1>1, <1>2, <1>3, <1>10, Typed DEF Goes, Own, One, TypeOK, Shape, AtPoints, IpPoints
  <2>6. Counted(p)
    BY <1>8, <1>9, <2>1, <2>5, OneInt DEF Counted
  <2>7. Locked(p)
    BY <1>1, <1>4, <1>5, <1>10, <2>1, <2>4, <1>6 DEF Locked
  <2>. QED  BY <1>1, <1>10, <2>1, <2>3, <2>4, <2>6, <2>7, ProcStep DEF Goes, TypeOK
<1>11. CASE /\ Parent(p) /\ ~Linking(p)
            /\ Goes(p, "put", None, <<>>, 0, 0, d, "end")
  <2>1. /\ TypeOK'
        /\ \A j \in Inum : inode'[j].ref = inode[j].ref /\ inode'[j].lock = inode[j].lock
    <3>1. inode \in Table /\ disk \in Disk
      BY <1>2 DEF TypeOK
    <3>2. inode' \in Table /\ \A j \in Inum : inode'[j].ref = inode[j].ref /\ inode'[j].lock = inode[j].lock
      BY <1>1, <1>11, <3>1
    <3>3. disk' \in Disk
      BY <1>1, <1>11, <3>1
    <3>. QED  BY <1>1, <1>2, <1>11, <3>2, <3>3, Typed DEF TypeOK
  <2>2. Cont(p)' = "end" /\ Putting(p)' = TRUE
    BY <1>1, <1>2, <1>3, <1>11, <1>6 DEF Goes, Cont, Putting, Paused, Points, Thens
  <2>3. Shape(p)'
    BY <1>1, <1>2, <1>3, <1>11, <2>2, Typed, <1>6 DEF Goes, Shape, OpOK, Op, AtPoints, IpPoints, NamePoints
  <2>4. Apart(p)' /\ \A j \in Inum : Holds(p, j)' <=> FALSE
    BY <1>1, <1>2, <1>3, <1>11, <2>2, <1>6 DEF Goes, Apart, Holds, HoldsAt, HoldsIp, HoldsPut
  <2>5. \A j \in Inum : Own(p, j)' = One(cwd[p] = j) + One(file[p] = j) + One(d = j)
                                 /\ One(l[p].ip = j) = 0
    BY <1>1, <1>2, <1>3, <1>11, Typed, <1>6 DEF Goes, Own, One, TypeOK, Shape, AtPoints, IpPoints
  <2>6. Counted(p)
    BY <1>8, <1>9, <2>1, <2>5, OneInt DEF Counted
  <2>7. Locked(p)
    BY <1>1, <1>4, <1>5, <1>11, <2>1, <2>4, <1>6 DEF Locked
  <2>. QED  BY <1>1, <1>11, <2>1, <2>3, <2>4, <2>6, <2>7, ProcStep DEF Goes, TypeOK
<1>12. CASE /\ ~Parent(p)
            /\ Goes(p, Found(p), l[p].call, l[p].names, l[p].at, l[p].ip, l[p].put, l[p].then)
  <2>1. /\ TypeOK'
        /\ \A j \in Inum : inode'[j].ref = inode[j].ref /\ inode'[j].lock = inode[j].lock
    <3>1. inode \in Table /\ disk \in Disk
      BY <1>2 DEF TypeOK
    <3>2. inode' \in Table /\ \A j \in Inum : inode'[j].ref = inode[j].ref /\ inode'[j].lock = inode[j].lock
      BY <1>1, <1>12, <3>1
    <3>3. disk' \in Disk
      BY <1>1, <1>12, <3>1
    <3>. QED  BY <1>1, <1>2, <1>12, <3>2, <3>3, Typed DEF TypeOK
  <2>2. Cont(p)' = Found(p) /\ Putting(p)' = FALSE
    BY <1>1, <1>2, <1>3, <1>12, <1>6 DEF Goes, Cont, Putting, Paused, Points, Thens
  <2>3. Shape(p)'
    BY <1>1, <1>2, <1>3, <1>12, <2>2, Typed, <1>6 DEF Goes, Shape, OpOK, Op, AtPoints, IpPoints, NamePoints
  <2>4. Apart(p)' /\ \A j \in Inum : Holds(p, j)' <=> FALSE
    BY <1>1, <1>2, <1>3, <1>12, <2>2, <1>6 DEF Goes, Apart, Holds, HoldsAt, HoldsIp, HoldsPut
  <2>5. \A j \in Inum : Own(p, j)' = One(cwd[p] = j) + One(file[p] = j) + One(l[p].at = j) + One(l[p].ip = j)
    BY <1>1, <1>2, <1>3, <1>12, Typed DEF Goes, Own, One, TypeOK, Shape, AtPoints, IpPoints
  <2>6. Counted(p)
    BY <1>8, <1>9, <2>1, <2>5, OneInt DEF Counted
  <2>7. Locked(p)
    BY <1>1, <1>4, <1>5, <1>12, <2>1, <2>4, <1>6 DEF Locked
  <2>. QED  BY <1>1, <1>12, <2>1, <2>3, <2>4, <2>6, <2>7, ProcStep DEF Goes, TypeOK
<1>. QED  BY <1>10, <1>11, <1>12, WalkEndsDoes

LEMMA PutDropsDoes ==
  ASSUME IInv, NEW p \in Proc, PutDrops(p)
  PROVE  LET i == l[p].put IN
         /\ i \in Inum /\ l[p].pc \in {"put", "drop"} /\ (l[p].pc = "put" => ~LastRef(i))
         /\ l[p].then \in Thens
         /\ inode' = [inode EXCEPT ![i].ref = inode[i].ref - 1]
         /\ UNCHANGED <<disk, cwd, file>> /\ l' \in [Proc -> Local]
         /\ \/ /\ l[p].then = "end"
               /\ Goes(p, "idle", None, <<>>, 0, 0, 0, "end")
            \/ /\ l[p].then # "end"
               /\ Goes(p, l[p].then, l[p].call, l[p].names, l[p].at, l[p].ip, 0, l[p].then)
<1>. DEFINE i == l[p].put
<1>1. l[p].pc \in {"put", "drop"} /\ (l[p].pc = "put" => ~LastRef(i)) /\ UNCHANGED <<disk, cwd, file>>
      /\ inode' = [inode EXCEPT ![i].ref = @ - 1]
  BY DEF PutDrops
<1>2. i \in Inum /\ i \in Index /\ TypeOK /\ l \in [Proc -> Local] /\ 0 \in Index
  BY <1>1, Typed DEF IInv, ShapeOK, Shape, Putting, Paused, TypeOK
<1>3. inode' = [inode EXCEPT ![i].ref = inode[i].ref - 1]
  BY <1>1, <1>2 DEF TypeOK, Table
<1>4. l[p].then \in Thens
  BY <1>2, Typed
<1>5. CASE l[p].then = "end" /\ Ends(p)
  BY <1>1, <1>2, <1>3, <1>4, <1>5, EndIs
<1>6. CASE l[p].then # "end" /\ Step(p, [pc |-> l[p].then, put |-> 0])
  <2>1. l[p].then \in Points \cup Paused
    BY <1>4, <1>6 DEF Thens, Points
  <2>. QED  BY <1>1, <1>2, <1>3, <1>4, <1>6, <2>1, StepPut
<1>. QED  BY <1>5, <1>6 DEF PutDrops

LEMMA PutDropsInv ==
  ASSUME IInv, NEW p \in Proc, PutDrops(p)
  PROVE  IInv'
<1>. DEFINE i == l[p].put
<1>1. /\ i \in Inum /\ l[p].pc \in {"put", "drop"} /\ (l[p].pc = "put" => ~LastRef(i))
      /\ l[p].then \in Thens
      /\ inode' = [inode EXCEPT ![i].ref = inode[i].ref - 1]
      /\ UNCHANGED <<disk, cwd, file>> /\ l' \in [Proc -> Local]
  BY PutDropsDoes
<1>2. TypeOK /\ Shape(p) /\ Apart(p)
  BY DEF IInv, ShapeOK
<1>3. Cont(p) = l[p].then /\ Putting(p) = TRUE
  BY <1>1, <1>2, Typed DEF Cont, Putting, Paused, Shape
<1>4. \A j \in Inum : Holds(p, j) <=> ((l[p].then = "unlockdp" /\ j = l[p].at) \/ (l[p].then \in {"unlinked", "created"} /\ j = l[p].ip))
  BY <1>1, <1>2, <1>3 DEF Holds, HoldsAt, HoldsIp, HoldsPut, Thens, Paused
<1>5. \A j \in Inum : inode[j].lock = p <=> Holds(p, j)
  BY DEF IInv, LockOK
<1>6. inode' \in Table /\ \A j \in Inum : inode'[j].ref = inode[j].ref - One(i = j) /\ inode'[j].lock = inode[j].lock
  <2>1. inode \in Table /\ i \in Inum /\ inode' = [inode EXCEPT ![i].ref = inode[i].ref - 1]
    BY <1>1, <1>2 DEF TypeOK
  <2>. HIDE DEF i
  <2>. QED  BY <2>1 DEF Table, One
<1>8. \A j \in Inum : Own(p, j) = One(cwd[p] = j) + One(file[p] = j) + One(l[p].at = j) + One(l[p].ip = j) + One(l[p].put = j)
  BY <1>1, <1>2, <1>3, Typed DEF Own, One, Shape, AtPoints, IpPoints
<1>9. \A j \in Inum : inode[j].ref \in Int
  BY <1>2 DEF TypeOK, Table
<1>10. CASE /\ l[p].then = "end"
            /\ Goes(p, "idle", None, <<>>, 0, 0, 0, "end")
  <2>1. /\ TypeOK'
        /\ \A j \in Inum : inode'[j].ref = inode[j].ref - One(i = j) /\ inode'[j].lock = inode[j].lock
    <3>1. inode \in Table /\ disk \in Disk
      BY <1>2 DEF TypeOK
    <3>2. inode' \in Table /\ \A j \in Inum : inode'[j].ref = inode[j].ref - One(i = j) /\ inode'[j].lock = inode[j].lock
      BY <1>6
    <3>3. disk' \in Disk
      BY <1>1, <1>10, <3>1
    <3>. QED  BY <1>1, <1>2, <1>10, <3>2, <3>3, Typed DEF TypeOK
  <2>2. Cont(p)' = "idle" /\ Putting(p)' = FALSE
    BY <1>1, <1>2, <1>3, <1>10 DEF Goes, Cont, Putting, Paused, Points, Thens
  <2>3. Shape(p)'
    BY <1>1, <1>2, <1>3, <1>10, <2>2, Typed DEF Goes, Shape, OpOK, Op, AtPoints, IpPoints, NamePoints
  <2>4. Apart(p)' /\ \A j \in Inum : Holds(p, j)' <=> FALSE
    BY <1>1, <1>2, <1>3, <1>10, <2>2 DEF Goes, Apart, Holds, HoldsAt, HoldsIp, HoldsPut, Thens, Paused
  <2>5. \A j \in Inum : Own(p, j)' = One(cwd[p] = j) + One(file[p] = j)
                                 /\ One(l[p].at = j) = 0
                                 /\ One(l[p].ip = j) = 0
    BY <1>1, <1>2, <1>3, <1>10, Typed DEF Goes, Own, One, TypeOK, Shape, AtPoints, IpPoints
  <2>6. Counted(p)
    BY <1>8, <1>9, <2>1, <2>5, OneInt DEF Counted
  <2>7. Locked(p)
    BY <1>1, <1>4, <1>5, <1>10, <2>1, <2>4 DEF Locked
  <2>. QED  BY <1>1, <1>10, <2>1, <2>3, <2>4, <2>6, <2>7, ProcStep DEF Goes, TypeOK
<1>11. CASE /\ l[p].then # "end"
            /\ Goes(p, l[p].then, l[p].call, l[p].names, l[p].at, l[p].ip, 0, l[p].then)
  <2>1. /\ TypeOK'
        /\ \A j \in Inum : inode'[j].ref = inode[j].ref - One(i = j) /\ inode'[j].lock = inode[j].lock
    <3>1. inode \in Table /\ disk \in Disk
      BY <1>2 DEF TypeOK
    <3>2. inode' \in Table /\ \A j \in Inum : inode'[j].ref = inode[j].ref - One(i = j) /\ inode'[j].lock = inode[j].lock
      BY <1>6
    <3>3. disk' \in Disk
      BY <1>1, <1>11, <3>1
    <3>. QED  BY <1>1, <1>2, <1>11, <3>2, <3>3, Typed DEF TypeOK
  <2>2. Cont(p)' = l[p].then /\ Putting(p)' = FALSE
    BY <1>1, <1>2, <1>3, <1>11 DEF Goes, Cont, Putting, Paused, Points, Thens
  <2>3. Shape(p)'
    BY <1>1, <1>2, <1>3, <1>11, <2>2, Typed DEF Goes, Shape, OpOK, Op, AtPoints, IpPoints, NamePoints
  <2>4. Apart(p)' /\ \A j \in Inum : Holds(p, j)' <=> ((l[p].then = "unlockdp" /\ j = l[p].at) \/ (l[p].then \in {"unlinked", "created"} /\ j = l[p].ip))
    BY <1>1, <1>2, <1>3, <1>11, <2>2 DEF Goes, Apart, Holds, HoldsAt, HoldsIp, HoldsPut, Thens, Paused
  <2>5. \A j \in Inum : Own(p, j)' = One(cwd[p] = j) + One(file[p] = j) + One(l[p].at = j) + One(l[p].ip = j)
    BY <1>1, <1>2, <1>3, <1>11, Typed DEF Goes, Own, One, TypeOK, Shape, AtPoints, IpPoints
  <2>6. Counted(p)
    BY <1>8, <1>9, <2>1, <2>5, OneInt DEF Counted
  <2>7. Locked(p)
    BY <1>1, <1>4, <1>5, <1>11, <2>1, <2>4 DEF Locked
  <2>. QED  BY <1>1, <1>11, <2>1, <2>3, <2>4, <2>6, <2>7, ProcStep DEF Goes, TypeOK
<1>. QED  BY <1>10, <1>11, PutDropsDoes

LEMMA PutLocksDoes ==
  ASSUME IInv, NEW p \in Proc, PutLocks(p)
  PROVE  LET i == l[p].put IN
         /\ i \in Inum /\ l[p].pc = "put" /\ LastRef(i) /\ inode[i].lock = None
         /\ l[p].then \in Thens
         /\ UNCHANGED <<disk, cwd, file>> /\ l' \in [Proc -> Local]
         /\ inode' = [inode EXCEPT ![i].lock = p]
         /\ Goes(p, "trunc", l[p].call, l[p].names, l[p].at, l[p].ip, l[p].put, l[p].then)
<1>. DEFINE i == l[p].put
<1>1. l[p].pc = "put" /\ LastRef(i) /\ inode[i].lock = None /\ UNCHANGED <<disk, cwd, file>>
      /\ inode' = [inode EXCEPT ![i].lock = p] /\ Step(p, [pc |-> "trunc"])
  BY DEF PutLocks, CanLock
<1>2. i \in Inum /\ i \in Index /\ TypeOK /\ l \in [Proc -> Local] /\ 0 \in Index
  BY <1>1, Typed DEF IInv, ShapeOK, Shape, Putting, Paused, TypeOK
<1>3. "trunc" \in Points \cup Paused
  BY DEF Paused
<1>. QED  BY <1>1, <1>2, <1>3, Typed, StepPc

LEMMA PutLocksInv ==
  ASSUME IInv, NEW p \in Proc, PutLocks(p)
  PROVE  IInv'
<1>. DEFINE i == l[p].put
<1>1. /\ i \in Inum /\ l[p].pc = "put" /\ LastRef(i) /\ inode[i].lock = None
      /\ l[p].then \in Thens
      /\ UNCHANGED <<disk, cwd, file>> /\ l' \in [Proc -> Local]
  BY PutLocksDoes
<1>2. TypeOK /\ Shape(p) /\ Apart(p)
  BY DEF IInv, ShapeOK
<1>3. Cont(p) = l[p].then /\ Putting(p) = TRUE
  BY <1>1, <1>2, Typed DEF Cont, Putting, Paused, Shape
<1>4. \A j \in Inum : Holds(p, j) <=> ((l[p].then = "unlockdp" /\ j = l[p].at) \/ (l[p].then \in {"unlinked", "created"} /\ j = l[p].ip))
  BY <1>1, <1>2, <1>3 DEF Holds, HoldsAt, HoldsIp, HoldsPut, Thens, Paused
<1>5. \A j \in Inum : inode[j].lock = p <=> Holds(p, j)
  BY DEF IInv, LockOK
<1>6. ~Holds(p, i)
  BY <1>1, <1>5, InodesAssumption
<1>7. (l[p].then = "unlockdp" => l[p].at # i) /\ (l[p].then \in {"unlinked", "created"} => l[p].ip # i)
  BY <1>1, <1>4, <1>6
<1>8. \A j \in Inum : Own(p, j) = One(cwd[p] = j) + One(file[p] = j) + One(l[p].at = j) + One(l[p].ip = j) + One(l[p].put = j)
  BY <1>1, <1>2, <1>3, Typed DEF Own, One, Shape, AtPoints, IpPoints
<1>9. \A j \in Inum : inode[j].ref \in Int
  BY <1>2 DEF TypeOK, Table
<1>10. CASE /\ inode' = [inode EXCEPT ![i].lock = p]
            /\ Goes(p, "trunc", l[p].call, l[p].names, l[p].at, l[p].ip, l[p].put, l[p].then)
  <2>1. /\ TypeOK'
        /\ \A j \in Inum : inode'[j].ref = inode[j].ref /\ inode'[j].lock = (IF j = i THEN p ELSE inode[j].lock)
    <3>1. inode \in Table /\ disk \in Disk
      BY <1>2 DEF TypeOK
    <3>2. inode' \in Table /\ \A j \in Inum : inode'[j].ref = inode[j].ref /\ inode'[j].lock = (IF j = i THEN p ELSE inode[j].lock)
      BY <1>1, <1>10, <3>1 DEF Table
    <3>3. disk' \in Disk
      BY <1>1, <1>10, <3>1
    <3>. QED  BY <1>1, <1>2, <1>10, <3>2, <3>3, Typed DEF TypeOK
  <2>2. Cont(p)' = l[p].then /\ Putting(p)' = TRUE
    BY <1>1, <1>2, <1>3, <1>10, <1>6 DEF Goes, Cont, Putting, Paused, Points, Thens
  <2>3. Shape(p)'
    BY <1>1, <1>2, <1>3, <1>10, <2>2, Typed, <1>6 DEF Goes, Shape, OpOK, Op, AtPoints, IpPoints, NamePoints
  <2>4. Apart(p)' /\ \A j \in Inum : Holds(p, j)' <=> (((l[p].then = "unlockdp" /\ j = l[p].at) \/ (l[p].then \in {"unlinked", "created"} /\ j = l[p].ip)) \/ j = i)
    BY <1>1, <1>2, <1>3, <1>10, <2>2, <1>6 DEF Goes, Apart, Holds, HoldsAt, HoldsIp, HoldsPut, Thens, Paused
  <2>5. \A j \in Inum : Own(p, j)' = One(cwd[p] = j) + One(file[p] = j) + One(l[p].at = j) + One(l[p].ip = j) + One(l[p].put = j)
    BY <1>1, <1>2, <1>3, <1>10, Typed DEF Goes, Own, One, TypeOK, Shape, AtPoints, IpPoints
  <2>6. Counted(p)
    BY <1>8, <1>9, <2>1, <2>5, OneInt DEF Counted
  <2>7. Locked(p)
    BY <1>1, <1>4, <1>5, <1>10, <2>1, <2>4, <1>6 DEF Locked
  <2>. QED  BY <1>1, <1>10, <2>1, <2>3, <2>4, <2>6, <2>7, ProcStep DEF Goes, TypeOK
<1>. QED  BY <1>10, PutLocksDoes

LEMMA PutFreesDoes ==
  ASSUME IInv, NEW p \in Proc, PutFrees(p)
  PROVE  LET i == l[p].put IN
         /\ i \in Inum /\ l[p].pc = "trunc"
         /\ l[p].then \in Thens
         /\ disk' = [disk EXCEPT ![i] = [type |-> "none", nlink |-> 0, ent |-> Empty]]
         /\ UNCHANGED <<cwd, file>> /\ l' \in [Proc -> Local]
         /\ inode' = [inode EXCEPT ![i].type = "none"]
         /\ Goes(p, "freed", l[p].call, l[p].names, l[p].at, l[p].ip, l[p].put, l[p].then)
<1>. DEFINE i == l[p].put
<1>1. l[p].pc = "trunc" /\ UNCHANGED <<cwd, file>>
      /\ disk' = [disk EXCEPT ![i] = [type |-> "none", nlink |-> 0, ent |-> Empty]]
      /\ inode' = [inode EXCEPT ![i].type = "none"] /\ Step(p, [pc |-> "freed"])
  BY DEF PutFrees
<1>2. i \in Inum /\ i \in Index /\ TypeOK /\ l \in [Proc -> Local] /\ 0 \in Index
  BY <1>1, Typed DEF IInv, ShapeOK, Shape, Putting, Paused, TypeOK
<1>3. "freed" \in Points \cup Paused
  BY DEF Paused
<1>. QED  BY <1>1, <1>2, <1>3, Typed, StepPc

LEMMA PutFreesInv ==
  ASSUME IInv, NEW p \in Proc, PutFrees(p)
  PROVE  IInv'
<1>. DEFINE i == l[p].put
<1>1. /\ i \in Inum /\ l[p].pc = "trunc"
      /\ l[p].then \in Thens
      /\ disk' = [disk EXCEPT ![i] = [type |-> "none", nlink |-> 0, ent |-> Empty]]
      /\ UNCHANGED <<cwd, file>> /\ l' \in [Proc -> Local]
  BY PutFreesDoes
<1>2. TypeOK /\ Shape(p) /\ Apart(p)
  BY DEF IInv, ShapeOK
<1>3. Cont(p) = l[p].then /\ Putting(p) = TRUE
  BY <1>1, <1>2, Typed DEF Cont, Putting, Paused, Shape
<1>4. \A j \in Inum : Holds(p, j) <=> (((l[p].then = "unlockdp" /\ j = l[p].at) \/ (l[p].then \in {"unlinked", "created"} /\ j = l[p].ip)) \/ j = i)
  BY <1>1, <1>2, <1>3 DEF Holds, HoldsAt, HoldsIp, HoldsPut, Thens, Paused
<1>5. \A j \in Inum : inode[j].lock = p <=> Holds(p, j)
  BY DEF IInv, LockOK
<1>8. \A j \in Inum : Own(p, j) = One(cwd[p] = j) + One(file[p] = j) + One(l[p].at = j) + One(l[p].ip = j) + One(l[p].put = j)
  BY <1>1, <1>2, <1>3, Typed DEF Own, One, Shape, AtPoints, IpPoints
<1>9. \A j \in Inum : inode[j].ref \in Int
  BY <1>2 DEF TypeOK, Table
<1>10. CASE /\ inode' = [inode EXCEPT ![i].type = "none"]
            /\ Goes(p, "freed", l[p].call, l[p].names, l[p].at, l[p].ip, l[p].put, l[p].then)
  <2>1. /\ TypeOK'
        /\ \A j \in Inum : inode'[j].ref = inode[j].ref /\ inode'[j].lock = inode[j].lock
    <3>1. inode \in Table /\ disk \in Disk
      BY <1>2 DEF TypeOK
    <3>2. inode' \in Table /\ \A j \in Inum : inode'[j].ref = inode[j].ref /\ inode'[j].lock = inode[j].lock
      BY <1>1, <1>10, <3>1 DEF Kinds, Table
    <3>3. disk' \in Disk
      BY <1>1, <1>10, <3>1, FreeInode DEF Disk
    <3>. QED  BY <1>1, <1>2, <1>10, <3>2, <3>3, Typed DEF TypeOK
  <2>2. Cont(p)' = l[p].then /\ Putting(p)' = TRUE
    BY <1>1, <1>2, <1>3, <1>10 DEF Goes, Cont, Putting, Paused, Points, Thens
  <2>3. Shape(p)'
    BY <1>1, <1>2, <1>3, <1>10, <2>2, Typed DEF Goes, Shape, OpOK, Op, AtPoints, IpPoints, NamePoints
  <2>4. Apart(p)' /\ \A j \in Inum : Holds(p, j)' <=> (((l[p].then = "unlockdp" /\ j = l[p].at) \/ (l[p].then \in {"unlinked", "created"} /\ j = l[p].ip)) \/ j = i)
    BY <1>1, <1>2, <1>3, <1>10, <2>2 DEF Goes, Apart, Holds, HoldsAt, HoldsIp, HoldsPut, Thens, Paused
  <2>5. \A j \in Inum : Own(p, j)' = One(cwd[p] = j) + One(file[p] = j) + One(l[p].at = j) + One(l[p].ip = j) + One(l[p].put = j)
    BY <1>1, <1>2, <1>3, <1>10, Typed DEF Goes, Own, One, TypeOK, Shape, AtPoints, IpPoints
  <2>6. Counted(p)
    BY <1>8, <1>9, <2>1, <2>5, OneInt DEF Counted
  <2>7. Locked(p)
    BY <1>1, <1>4, <1>5, <1>10, <2>1, <2>4 DEF Locked
  <2>. QED  BY <1>1, <1>10, <2>1, <2>3, <2>4, <2>6, <2>7, ProcStep DEF Goes, TypeOK
<1>. QED  BY <1>10, PutFreesDoes

LEMMA PutUnlocksDoes ==
  ASSUME IInv, NEW p \in Proc, PutUnlocks(p)
  PROVE  LET i == l[p].put IN
         /\ i \in Inum /\ l[p].pc = "freed"
         /\ l[p].then \in Thens
         /\ UNCHANGED <<disk, cwd, file>> /\ l' \in [Proc -> Local]
         /\ inode' = [inode EXCEPT ![i] = Invalidated(@)]
         /\ Goes(p, "drop", l[p].call, l[p].names, l[p].at, l[p].ip, l[p].put, l[p].then)
<1>. DEFINE i == l[p].put
<1>1. l[p].pc = "freed" /\ UNCHANGED <<disk, cwd, file>>
      /\ inode' = [inode EXCEPT ![i] = Invalidated(@)] /\ Step(p, [pc |-> "drop"])
  BY DEF PutUnlocks
<1>2. i \in Inum /\ i \in Index /\ TypeOK /\ l \in [Proc -> Local] /\ 0 \in Index
  BY <1>1, Typed DEF IInv, ShapeOK, Shape, Putting, Paused, TypeOK
<1>3. "drop" \in Points \cup Paused
  BY DEF Paused
<1>. QED  BY <1>1, <1>2, <1>3, Typed, StepPc

LEMMA PutUnlocksInv ==
  ASSUME IInv, NEW p \in Proc, PutUnlocks(p)
  PROVE  IInv'
<1>. DEFINE i == l[p].put
<1>1. /\ i \in Inum /\ l[p].pc = "freed"
      /\ l[p].then \in Thens
      /\ UNCHANGED <<disk, cwd, file>> /\ l' \in [Proc -> Local]
  BY PutUnlocksDoes
<1>2. TypeOK /\ Shape(p) /\ Apart(p)
  BY DEF IInv, ShapeOK
<1>3. Cont(p) = l[p].then /\ Putting(p) = TRUE
  BY <1>1, <1>2, Typed DEF Cont, Putting, Paused, Shape
<1>4. \A j \in Inum : Holds(p, j) <=> (((l[p].then = "unlockdp" /\ j = l[p].at) \/ (l[p].then \in {"unlinked", "created"} /\ j = l[p].ip)) \/ j = i)
  BY <1>1, <1>2, <1>3 DEF Holds, HoldsAt, HoldsIp, HoldsPut, Thens, Paused
<1>5. \A j \in Inum : inode[j].lock = p <=> Holds(p, j)
  BY DEF IInv, LockOK
<1>6. (l[p].then = "unlockdp" => l[p].at # i) /\ (l[p].then \in {"unlinked", "created"} => l[p].ip # i)
  BY <1>1, <1>2, <1>3 DEF Apart, HoldsPut, HoldsAt, HoldsIp
<1>8. \A j \in Inum : Own(p, j) = One(cwd[p] = j) + One(file[p] = j) + One(l[p].at = j) + One(l[p].ip = j) + One(l[p].put = j)
  BY <1>1, <1>2, <1>3, Typed DEF Own, One, Shape, AtPoints, IpPoints
<1>9. \A j \in Inum : inode[j].ref \in Int
  BY <1>2 DEF TypeOK, Table
<1>10. CASE /\ inode' = [inode EXCEPT ![i] = Invalidated(@)]
            /\ Goes(p, "drop", l[p].call, l[p].names, l[p].at, l[p].ip, l[p].put, l[p].then)
  <2>1. /\ TypeOK'
        /\ \A j \in Inum : inode'[j].ref = inode[j].ref /\ inode'[j].lock = (IF j = i THEN None ELSE inode[j].lock)
    <3>1. inode \in Table /\ disk \in Disk
      BY <1>2 DEF TypeOK
    <3>2. inode' \in Table /\ \A j \in Inum : inode'[j].ref = inode[j].ref /\ inode'[j].lock = (IF j = i THEN None ELSE inode[j].lock)
      BY <1>1, <1>10, <3>1 DEF Table, Invalidated
    <3>3. disk' \in Disk
      BY <1>1, <1>10, <3>1
    <3>. QED  BY <1>1, <1>2, <1>10, <3>2, <3>3, Typed DEF TypeOK
  <2>2. Cont(p)' = l[p].then /\ Putting(p)' = TRUE
    BY <1>1, <1>2, <1>3, <1>10, <1>6 DEF Goes, Cont, Putting, Paused, Points, Thens
  <2>3. Shape(p)'
    BY <1>1, <1>2, <1>3, <1>10, <2>2, Typed, <1>6 DEF Goes, Shape, OpOK, Op, AtPoints, IpPoints, NamePoints
  <2>4. Apart(p)' /\ \A j \in Inum : Holds(p, j)' <=> ((l[p].then = "unlockdp" /\ j = l[p].at) \/ (l[p].then \in {"unlinked", "created"} /\ j = l[p].ip))
    BY <1>1, <1>2, <1>3, <1>10, <2>2, <1>6 DEF Goes, Apart, Holds, HoldsAt, HoldsIp, HoldsPut, Thens, Paused
  <2>5. \A j \in Inum : Own(p, j)' = One(cwd[p] = j) + One(file[p] = j) + One(l[p].at = j) + One(l[p].ip = j) + One(l[p].put = j)
    BY <1>1, <1>2, <1>3, <1>10, Typed DEF Goes, Own, One, TypeOK, Shape, AtPoints, IpPoints
  <2>6. Counted(p)
    BY <1>8, <1>9, <2>1, <2>5, OneInt DEF Counted
  <2>7. Locked(p)
    BY <1>1, <1>4, <1>5, <1>10, <2>1, <2>4, <1>6 DEF Locked
  <2>. QED  BY <1>1, <1>10, <2>1, <2>3, <2>4, <2>6, <2>7, ProcStep DEF Goes, TypeOK
<1>. QED  BY <1>10, PutUnlocksDoes

LEMMA OpenDoes ==
  ASSUME IInv, NEW p \in Proc, Open(p)
  PROVE  LET d == l[p].at IN
         /\ d \in Inum /\ l[p].pc \in {"open", "existing"} /\ inode[d].lock = None
         /\ Loaded(d)[d].type # "none"
         /\ inode' = Loaded(d) /\ UNCHANGED <<disk, cwd>> /\ l' \in [Proc -> Local]
         /\ \/ /\ file[p] = 0 /\ file' = [file EXCEPT ![p] = d]
               /\ l[p].pc = "existing" => Loaded(d)[d].type = "FILE"
               /\ Goes(p, "idle", None, <<>>, 0, 0, 0, "end")
            \/ /\ UNCHANGED file
               /\ Goes(p, "put", None, <<>>, 0, 0, d, "end")
<1>. DEFINE d == l[p].at
<1>1. l[p].pc \in {"open", "existing"} /\ inode[d].lock = None /\ Loaded(d)[d].type # "none"
      /\ inode' = Loaded(d) /\ UNCHANGED <<disk, cwd>>
  BY EntersAt DEF Open
<1>2. Cont(p) = l[p].pc /\ d # 0 
  BY <1>1 DEF IInv, ShapeOK, Shape, Cont, Putting, Paused, AtPoints, IpPoints, NamePoints
<1>3. TypeOK /\ d \in Inum /\ d \in Index /\ l \in [Proc -> Local] /\ 0 \in Index
  BY <1>2, Typed DEF IInv, TypeOK
<1>4. CASE /\ file[p] = 0 /\ (l[p].pc = "existing" => Op(p) = "creat" /\ Loaded(d)[d].type = "FILE")
           /\ file' = [file EXCEPT ![p] = d] /\ Ends(p)
  BY <1>1, <1>3, <1>4, EndIs
<1>5. CASE PutLast(p, d) /\ UNCHANGED file
  BY <1>1, <1>3, <1>5, PutEnd
<1>. QED  BY <1>4, <1>5 DEF Open

LEMMA OpenInv ==
  ASSUME IInv, NEW p \in Proc, Open(p)
  PROVE  IInv'
<1>. DEFINE d == l[p].at
<1>1. /\ d \in Inum /\ l[p].pc \in {"open", "existing"} /\ inode[d].lock = None
      /\ Loaded(d)[d].type # "none"
      /\ inode' = Loaded(d) /\ UNCHANGED <<disk, cwd>> /\ l' \in [Proc -> Local]
  BY OpenDoes
<1>2. TypeOK /\ Shape(p) /\ Apart(p)
  BY DEF IInv, ShapeOK
<1>3. Cont(p) = l[p].pc /\ Putting(p) = FALSE
  BY <1>1, <1>2 DEF Cont, Putting, Paused, Shape
<1>4. \A j \in Inum : Holds(p, j) <=> FALSE
  BY <1>1, <1>2, <1>3 DEF Holds, HoldsAt, HoldsIp, HoldsPut
<1>5. \A j \in Inum : inode[j].lock = p <=> Holds(p, j)
  BY DEF IInv, LockOK
<1>8. \A j \in Inum : Own(p, j) = One(cwd[p] = j) + One(file[p] = j) + One(l[p].at = j)
  BY <1>1, <1>2, <1>3, Typed DEF Own, One, Shape, AtPoints, IpPoints
<1>9. \A j \in Inum : inode[j].ref \in Int
  BY <1>2 DEF TypeOK, Table
<1>10. CASE /\ file[p] = 0 /\ file' = [file EXCEPT ![p] = d]
            /\ l[p].pc = "existing" => Loaded(d)[d].type = "FILE"
            /\ Goes(p, "idle", None, <<>>, 0, 0, 0, "end")
  <2>1. /\ TypeOK'
        /\ \A j \in Inum : inode'[j].ref = inode[j].ref /\ inode'[j].lock = inode[j].lock
    <3>1. inode \in Table /\ disk \in Disk
      BY <1>2 DEF TypeOK
    <3>2. inode' \in Table /\ \A j \in Inum : inode'[j].ref = inode[j].ref /\ inode'[j].lock = inode[j].lock
      BY <1>1, <1>2, <1>10, <3>1, LoadedIs
    <3>3. disk' \in Disk
      BY <1>1, <1>10, <3>1
    <3>. QED  BY <1>1, <1>2, <1>10, <3>2, <3>3, Typed DEF TypeOK
  <2>2. Cont(p)' = "idle" /\ Putting(p)' = FALSE
    BY <1>1, <1>2, <1>3, <1>10 DEF Goes, Cont, Putting, Paused, Points, Thens
  <2>3. Shape(p)'
    BY <1>1, <1>2, <1>3, <1>10, <2>2, Typed DEF Goes, Shape, OpOK, Op, AtPoints, IpPoints, NamePoints
  <2>4. Apart(p)' /\ \A j \in Inum : Holds(p, j)' <=> FALSE
    BY <1>1, <1>2, <1>3, <1>10, <2>2 DEF Goes, Apart, Holds, HoldsAt, HoldsIp, HoldsPut
  <2>5. \A j \in Inum : Own(p, j)' = One(cwd[p] = j) + One(d = j)
                                 /\ One(file[p] = j) = 0
    BY <1>1, <1>2, <1>3, <1>10, Typed DEF Goes, Own, One, TypeOK, Shape, AtPoints, IpPoints
  <2>6. Counted(p)
    BY <1>8, <1>9, <2>1, <2>5, OneInt DEF Counted
  <2>7. Locked(p)
    BY <1>1, <1>4, <1>5, <1>10, <2>1, <2>4 DEF Locked
  <2>. QED  BY <1>1, <1>10, <2>1, <2>3, <2>4, <2>6, <2>7, ProcStep DEF Goes, TypeOK
<1>11. CASE /\ UNCHANGED file
            /\ Goes(p, "put", None, <<>>, 0, 0, d, "end")
  <2>1. /\ TypeOK'
        /\ \A j \in Inum : inode'[j].ref = inode[j].ref /\ inode'[j].lock = inode[j].lock
    <3>1. inode \in Table /\ disk \in Disk
      BY <1>2 DEF TypeOK
    <3>2. inode' \in Table /\ \A j \in Inum : inode'[j].ref = inode[j].ref /\ inode'[j].lock = inode[j].lock
      BY <1>1, <1>2, <1>11, <3>1, LoadedIs
    <3>3. disk' \in Disk
      BY <1>1, <1>11, <3>1
    <3>. QED  BY <1>1, <1>2, <1>11, <3>2, <3>3, Typed DEF TypeOK
  <2>2. Cont(p)' = "end" /\ Putting(p)' = TRUE
    BY <1>1, <1>2, <1>3, <1>11 DEF Goes, Cont, Putting, Paused, Points, Thens
  <2>3. Shape(p)'
    BY <1>1, <1>2, <1>3, <1>11, <2>2, Typed DEF Goes, Shape, OpOK, Op, AtPoints, IpPoints, NamePoints
  <2>4. Apart(p)' /\ \A j \in Inum : Holds(p, j)' <=> FALSE
    BY <1>1, <1>2, <1>3, <1>11, <2>2 DEF Goes, Apart, Holds, HoldsAt, HoldsIp, HoldsPut
  <2>5. \A j \in Inum : Own(p, j)' = One(cwd[p] = j) + One(file[p] = j) + One(d = j)
    BY <1>1, <1>2, <1>3, <1>11, Typed DEF Goes, Own, One, TypeOK, Shape, AtPoints, IpPoints
  <2>6. Counted(p)
    BY <1>8, <1>9, <2>1, <2>5, OneInt DEF Counted
  <2>7. Locked(p)
    BY <1>1, <1>4, <1>5, <1>11, <2>1, <2>4 DEF Locked
  <2>. QED  BY <1>1, <1>11, <2>1, <2>3, <2>4, <2>6, <2>7, ProcStep DEF Goes, TypeOK
<1>. QED  BY <1>10, <1>11, OpenDoes

LEMMA ChdirDoes ==
  ASSUME IInv, NEW p \in Proc, Chdir(p)
  PROVE  LET d == l[p].at IN
         /\ d \in Inum /\ l[p].pc = "chdir" /\ inode[d].lock = None /\ cwd[p] \in Inum
         /\ Loaded(d)[d].type # "none"
         /\ inode' = Loaded(d) /\ UNCHANGED <<disk, file>> /\ l' \in [Proc -> Local]
         /\ \/ /\ Loaded(d)[d].type = "DIR" /\ cwd' = [cwd EXCEPT ![p] = d]
               /\ Goes(p, "put", None, <<>>, 0, 0, cwd[p], "end")
            \/ /\ UNCHANGED cwd
               /\ Goes(p, "put", None, <<>>, 0, 0, d, "end")
<1>. DEFINE d == l[p].at
<1>1. l[p].pc = "chdir" /\ inode[d].lock = None /\ Loaded(d)[d].type # "none"
      /\ inode' = Loaded(d) /\ UNCHANGED <<disk, file>>
  BY EntersAt DEF Chdir
<1>2. Cont(p) = l[p].pc /\ d # 0 
  BY <1>1 DEF IInv, ShapeOK, Shape, Cont, Putting, Paused, AtPoints, IpPoints, NamePoints
<1>3. TypeOK /\ d \in Inum /\ d \in Index /\ l \in [Proc -> Local] /\ 0 \in Index
  BY <1>2, Typed DEF IInv, TypeOK
<1>4. cwd[p] \in Inum /\ cwd[p] \in Index /\ cwd \in [Proc -> Inum]
  BY <1>3, Typed DEF TypeOK
<1>5. CASE Loaded(d)[d].type = "DIR"
  <2>1. cwd' = [cwd EXCEPT ![p] = d] /\ PutLast(p, cwd[p])
    BY <1>5 DEF Chdir
  <2>. QED  BY <1>1, <1>3, <1>4, <1>5, <2>1, PutEnd
<1>6. CASE Loaded(d)[d].type # "DIR"
  <2>1. cwd' = [cwd EXCEPT ![p] = cwd[p]] /\ PutLast(p, d)
    BY <1>4, <1>6 DEF Chdir
  <2>2. UNCHANGED cwd
    BY <1>4, <2>1
  <2>. QED  BY <1>1, <1>3, <1>4, <2>1, <2>2, PutEnd
<1>. QED  BY <1>5, <1>6

LEMMA ChdirInv ==
  ASSUME IInv, NEW p \in Proc, Chdir(p)
  PROVE  IInv'
<1>. DEFINE d == l[p].at
<1>1. /\ d \in Inum /\ l[p].pc = "chdir" /\ inode[d].lock = None /\ cwd[p] \in Inum
      /\ Loaded(d)[d].type # "none"
      /\ inode' = Loaded(d) /\ UNCHANGED <<disk, file>> /\ l' \in [Proc -> Local]
  BY ChdirDoes
<1>2. TypeOK /\ Shape(p) /\ Apart(p)
  BY DEF IInv, ShapeOK
<1>3. Cont(p) = "chdir" /\ Putting(p) = FALSE
  BY <1>1, <1>2 DEF Cont, Putting, Paused, Shape
<1>4. \A j \in Inum : Holds(p, j) <=> FALSE
  BY <1>1, <1>2, <1>3 DEF Holds, HoldsAt, HoldsIp, HoldsPut
<1>5. \A j \in Inum : inode[j].lock = p <=> Holds(p, j)
  BY DEF IInv, LockOK
<1>8. \A j \in Inum : Own(p, j) = One(cwd[p] = j) + One(file[p] = j) + One(l[p].at = j)
  BY <1>1, <1>2, <1>3, Typed DEF Own, One, Shape, AtPoints, IpPoints
<1>9. \A j \in Inum : inode[j].ref \in Int
  BY <1>2 DEF TypeOK, Table
<1>10. CASE /\ Loaded(d)[d].type = "DIR" /\ cwd' = [cwd EXCEPT ![p] = d]
            /\ Goes(p, "put", None, <<>>, 0, 0, cwd[p], "end")
  <2>1. /\ TypeOK'
        /\ \A j \in Inum : inode'[j].ref = inode[j].ref /\ inode'[j].lock = inode[j].lock
    <3>1. inode \in Table /\ disk \in Disk
      BY <1>2 DEF TypeOK
    <3>2. inode' \in Table /\ \A j \in Inum : inode'[j].ref = inode[j].ref /\ inode'[j].lock = inode[j].lock
      BY <1>1, <1>2, <1>10, <3>1, LoadedIs
    <3>3. disk' \in Disk
      BY <1>1, <1>10, <3>1
    <3>. QED  BY <1>1, <1>2, <1>10, <3>2, <3>3, Typed DEF TypeOK
  <2>2. Cont(p)' = "end" /\ Putting(p)' = TRUE
    BY <1>1, <1>2, <1>3, <1>10 DEF Goes, Cont, Putting, Paused, Points, Thens
  <2>3. Shape(p)'
    BY <1>1, <1>2, <1>3, <1>10, <2>2, Typed DEF Goes, Shape, OpOK, Op, AtPoints, IpPoints, NamePoints
  <2>4. Apart(p)' /\ \A j \in Inum : Holds(p, j)' <=> FALSE
    BY <1>1, <1>2, <1>3, <1>10, <2>2 DEF Goes, Apart, Holds, HoldsAt, HoldsIp, HoldsPut
  <2>5. \A j \in Inum : Own(p, j)' = One(d = j) + One(file[p] = j) + One(cwd[p] = j)
    BY <1>1, <1>2, <1>3, <1>10, Typed DEF Goes, Own, One, TypeOK, Shape, AtPoints, IpPoints
  <2>6. Counted(p)
    BY <1>8, <1>9, <2>1, <2>5, OneInt DEF Counted
  <2>7. Locked(p)
    BY <1>1, <1>4, <1>5, <1>10, <2>1, <2>4 DEF Locked
  <2>. QED  BY <1>1, <1>10, <2>1, <2>3, <2>4, <2>6, <2>7, ProcStep DEF Goes, TypeOK
<1>11. CASE /\ UNCHANGED cwd
            /\ Goes(p, "put", None, <<>>, 0, 0, d, "end")
  <2>1. /\ TypeOK'
        /\ \A j \in Inum : inode'[j].ref = inode[j].ref /\ inode'[j].lock = inode[j].lock
    <3>1. inode \in Table /\ disk \in Disk
      BY <1>2 DEF TypeOK
    <3>2. inode' \in Table /\ \A j \in Inum : inode'[j].ref = inode[j].ref /\ inode'[j].lock = inode[j].lock
      BY <1>1, <1>2, <1>11, <3>1, LoadedIs
    <3>3. disk' \in Disk
      BY <1>1, <1>11, <3>1
    <3>. QED  BY <1>1, <1>2, <1>11, <3>2, <3>3, Typed DEF TypeOK
  <2>2. Cont(p)' = "end" /\ Putting(p)' = TRUE
    BY <1>1, <1>2, <1>3, <1>11 DEF Goes, Cont, Putting, Paused, Points, Thens
  <2>3. Shape(p)'
    BY <1>1, <1>2, <1>3, <1>11, <2>2, Typed DEF Goes, Shape, OpOK, Op, AtPoints, IpPoints, NamePoints
  <2>4. Apart(p)' /\ \A j \in Inum : Holds(p, j)' <=> FALSE
    BY <1>1, <1>2, <1>3, <1>11, <2>2 DEF Goes, Apart, Holds, HoldsAt, HoldsIp, HoldsPut
  <2>5. \A j \in Inum : Own(p, j)' = One(cwd[p] = j) + One(file[p] = j) + One(d = j)
    BY <1>1, <1>2, <1>3, <1>11, Typed DEF Goes, Own, One, TypeOK, Shape, AtPoints, IpPoints
  <2>6. Counted(p)
    BY <1>8, <1>9, <2>1, <2>5, OneInt DEF Counted
  <2>7. Locked(p)
    BY <1>1, <1>4, <1>5, <1>11, <2>1, <2>4 DEF Locked
  <2>. QED  BY <1>1, <1>11, <2>1, <2>3, <2>4, <2>6, <2>7, ProcStep DEF Goes, TypeOK
<1>. QED  BY <1>10, <1>11, ChdirDoes

LEMMA CloseDoes ==
  ASSUME IInv, NEW p \in Proc, Close(p)
  PROVE  /\ l[p].pc = "idle" /\ file[p] \in Inum
         /\ file' = [file EXCEPT ![p] = 0] /\ UNCHANGED <<disk, inode, cwd>> /\ l' \in [Proc -> Local]
         /\ Goes(p, "put", None, <<>>, 0, 0, file[p], "end")
<1>1. l[p].pc = "idle" /\ file[p] # 0 /\ PutLast(p, file[p]) /\ file' = [file EXCEPT ![p] = 0]
      /\ UNCHANGED <<disk, inode, cwd>>
  BY DEF Close
<1>2. file[p] \in Inum /\ file[p] \in Index /\ l \in [Proc -> Local]
  BY <1>1, Typed DEF IInv, TypeOK
<1>. QED  BY <1>1, <1>2, PutEnd

LEMMA CloseInv ==
  ASSUME IInv, NEW p \in Proc, Close(p)
  PROVE  IInv'
<1>1. /\ l[p].pc = "idle" /\ file[p] \in Inum
      /\ file' = [file EXCEPT ![p] = 0] /\ UNCHANGED <<disk, inode, cwd>> /\ l' \in [Proc -> Local]
  BY CloseDoes
<1>2. TypeOK /\ Shape(p) /\ Apart(p)
  BY DEF IInv, ShapeOK
<1>3. Cont(p) = "idle" /\ Putting(p) = FALSE
  BY <1>1, <1>2 DEF Cont, Putting, Paused, Shape
<1>4. \A j \in Inum : Holds(p, j) <=> FALSE
  BY <1>1, <1>2, <1>3 DEF Holds, HoldsAt, HoldsIp, HoldsPut
<1>5. \A j \in Inum : inode[j].lock = p <=> Holds(p, j)
  BY DEF IInv, LockOK
<1>8. \A j \in Inum : Own(p, j) = One(cwd[p] = j) + One(file[p] = j)
  BY <1>1, <1>2, <1>3, Typed DEF Own, One, Shape, AtPoints, IpPoints
<1>9. \A j \in Inum : inode[j].ref \in Int
  BY <1>2 DEF TypeOK, Table
<1>10. CASE /\ Goes(p, "put", None, <<>>, 0, 0, file[p], "end")
  <2>1. /\ TypeOK'
        /\ \A j \in Inum : inode'[j].ref = inode[j].ref /\ inode'[j].lock = inode[j].lock
    <3>1. inode \in Table /\ disk \in Disk
      BY <1>2 DEF TypeOK
    <3>2. inode' \in Table /\ \A j \in Inum : inode'[j].ref = inode[j].ref /\ inode'[j].lock = inode[j].lock
      BY <1>1, <1>10, <3>1
    <3>3. disk' \in Disk
      BY <1>1, <1>10, <3>1
    <3>. QED  BY <1>1, <1>2, <1>10, <3>2, <3>3, Typed DEF TypeOK
  <2>2. Cont(p)' = "end" /\ Putting(p)' = TRUE
    BY <1>1, <1>2, <1>3, <1>10 DEF Goes, Cont, Putting, Paused, Points, Thens
  <2>3. Shape(p)'
    BY <1>1, <1>2, <1>3, <1>10, <2>2, Typed DEF Goes, Shape, OpOK, Op, AtPoints, IpPoints, NamePoints
  <2>4. Apart(p)' /\ \A j \in Inum : Holds(p, j)' <=> FALSE
    BY <1>1, <1>2, <1>3, <1>10, <2>2 DEF Goes, Apart, Holds, HoldsAt, HoldsIp, HoldsPut
  <2>5. \A j \in Inum : Own(p, j)' = One(cwd[p] = j) + One(file[p] = j)
    BY <1>1, <1>2, <1>3, <1>10, Typed DEF Goes, Own, One, TypeOK, Shape, AtPoints, IpPoints
  <2>6. Counted(p)
    BY <1>8, <1>9, <2>1, <2>5, OneInt DEF Counted
  <2>7. Locked(p)
    BY <1>1, <1>4, <1>5, <1>10, <2>1, <2>4 DEF Locked
  <2>. QED  BY <1>1, <1>10, <2>1, <2>3, <2>4, <2>6, <2>7, ProcStep DEF Goes, TypeOK
<1>. QED  BY <1>10, CloseDoes

LEMMA LinkDoes ==
  ASSUME IInv, NEW p \in Proc, Link(p)
  PROVE  LET d == l[p].at
             path == l[p].call.new
             e == Start(p, path)
             T == [Loaded(d) EXCEPT ![d].nlink = Loaded(d)[d].nlink + 1] IN
         /\ d \in Inum /\ l[p].pc = "link" /\ inode[d].lock = None
         /\ Loaded(d)[d].type # "none"
         /\ UNCHANGED <<cwd, file>> /\ l' \in [Proc -> Local]
         /\ \/ /\ Loaded(d)[d].type = "DIR" /\ inode' = Loaded(d) /\ UNCHANGED disk
               /\ Goes(p, "put", None, <<>>, 0, 0, d, "end")
            \/ /\ Loaded(d)[d].type # "DIR"
               /\ e \in Inum /\ path.names \in Seq(Elements) /\ l[p].call \in Calls
               /\ inode' = Iget(T, e)
               /\ disk' = [disk EXCEPT ![d].nlink = Loaded(d)[d].nlink + 1]
               /\ Goes(p, Loop(path.names), l[p].call, path.names, e, d, l[p].put, l[p].then)
<1>. DEFINE d == l[p].at
<1>1. l[p].pc = "link" /\ inode[d].lock = None /\ Loaded(d)[d].type # "none"
      /\ UNCHANGED <<cwd, file>>
  BY EntersAt DEF Link
<1>2. Cont(p) = l[p].pc /\ d # 0 
  BY <1>1 DEF IInv, ShapeOK, Shape, Cont, Putting, Paused, AtPoints, IpPoints, NamePoints
<1>3. TypeOK /\ d \in Inum /\ d \in Index /\ l \in [Proc -> Local] /\ 0 \in Index
  BY <1>2, Typed DEF IInv, TypeOK
<1>. DEFINE path == l[p].call.new
            e == Start(p, path)
            T == [Loaded(d) EXCEPT ![d].nlink = Loaded(d)[d].nlink + 1]
<1>4. CASE Loaded(d)[d].type = "DIR" /\ inode' = Loaded(d) /\ PutLast(p, d) /\ UNCHANGED disk
  BY SMTT(30), <1>1, <1>3, <1>4, PutEnd
<1>5. CASE /\ Loaded(d)[d].type # "DIR"
           /\ inode' = Iget([Loaded(d) EXCEPT ![d].nlink = @ + 1], e)
           /\ disk' = [disk EXCEPT ![d].nlink = Loaded(d)[d].nlink + 1]
           /\ Step(p, [pc |-> Loop(path.names), ip |-> d, at |-> e, names |-> path.names])
  <2>1. l[p].call \in Calls /\ Op(p) = "link"
    BY <1>1, <1>2 DEF IInv, ShapeOK, Shape, OpOK
  <2>2. path \in Path
    BY <2>1, InodesAssumption DEF Op
  <2>3. path.names \in Seq(Elements) /\ e \in Inum
    BY <1>3, <2>2, Typed DEF Path, Elements, Start
  <2>4. Loop(path.names) \in Points \cup Paused /\ e \in Index
    BY <2>3, LoopIn, Typed, <1>3 DEF Points
  <2>5. l' \in [Proc -> Local] /\ Goes(p, Loop(path.names), l[p].call, path.names, e, d, l[p].put, l[p].then)
    BY <1>3, <1>5, <2>3, <2>4, StepLink
  <2>6. Loaded(d) \in Table
    BY <1>3, LoadedIs
  <2>7. inode' = Iget(T, e)
    BY <1>3, <1>5, <2>6 DEF Table
  <2>. QED  BY <1>1, <1>3, <1>5, <2>1, <2>3, <2>5, <2>7
<1>. QED  BY SMTT(30), <1>4, <1>5 DEF Link

LEMMA LinkInv ==
  ASSUME IInv, NEW p \in Proc, Link(p)
  PROVE  IInv'
<1>. DEFINE d == l[p].at
            path == l[p].call.new
            e == Start(p, path)
            T == [Loaded(d) EXCEPT ![d].nlink = Loaded(d)[d].nlink + 1]
<1>1. /\ d \in Inum /\ l[p].pc = "link" /\ inode[d].lock = None
      /\ Loaded(d)[d].type # "none"
      /\ UNCHANGED <<cwd, file>> /\ l' \in [Proc -> Local]
  BY LinkDoes
<1>2. TypeOK /\ Shape(p) /\ Apart(p)
  BY DEF IInv, ShapeOK
<1>3. Cont(p) = "link" /\ Putting(p) = FALSE
  BY <1>1, <1>2 DEF Cont, Putting, Paused, Shape
<1>4. \A j \in Inum : Holds(p, j) <=> FALSE
  BY <1>1, <1>2, <1>3 DEF Holds, HoldsAt, HoldsIp, HoldsPut
<1>5. \A j \in Inum : inode[j].lock = p <=> Holds(p, j)
  BY DEF IInv, LockOK
<1>6. /\ T \in Table /\ Loaded(d)[d].nlink \in Int
      /\ \A j \in Inum : T[j].ref = inode[j].ref /\ T[j].lock = inode[j].lock
  <2>1. Loaded(d) \in Table /\ Loaded(d)[d].nlink \in Int
    BY <1>1, <1>2, LoadedIs DEF Table
  <2>2. T \in Table /\ \A j \in Inum : T[j].ref = Loaded(d)[j].ref /\ T[j].lock = Loaded(d)[j].lock
    BY <1>1, <2>1 DEF Table
  <2>. QED  BY <1>1, <1>2, <2>1, <2>2, LoadedIs
<1>66. \A x \in Inum : /\ Iget(T, x) \in Table
                       /\ \A j \in Inum : /\ Iget(T, x)[j].ref = (T[j].ref + One(x = j))
                                          /\ Iget(T, x)[j].lock = T[j].lock
  <2>1. T \in Table
    BY <1>6
  <2>. HIDE DEF T
  <2>. QED  BY <2>1, IgetIs
<1>67. /\ e \in Inum /\ inode' = Iget(T, e) =>
           /\ inode' \in Table
           /\ \A j \in Inum : inode'[j].ref = (inode[j].ref + One(e = j)) /\ inode'[j].lock = inode[j].lock
       /\ Loaded(d)[d].nlink + 1 \in Int
  <2>1. \A j \in Inum : T[j].ref = inode[j].ref /\ T[j].lock = inode[j].lock
    BY <1>6
  <2>. HIDE DEF T, e
  <2>. QED  BY <1>6, <1>66, <2>1
<1>7. /\ path.names \in Seq(Elements) => Loop(path.names) \in {"found", "walk"}
      /\ Loop(path.names) = "walk" => path.names # <<>>
      /\ Op(p) = "link"
  BY <1>1, <1>2, <1>3, LoopIn DEF Shape, OpOK, Loop
<1>8. \A j \in Inum : Own(p, j) = One(cwd[p] = j) + One(file[p] = j) + One(l[p].at = j)
  BY <1>1, <1>2, <1>3, Typed DEF Own, One, Shape, AtPoints, IpPoints
<1>9. \A j \in Inum : inode[j].ref \in Int
  BY <1>2 DEF TypeOK, Table
<1>10. CASE /\ Loaded(d)[d].type = "DIR" /\ inode' = Loaded(d) /\ UNCHANGED disk
            /\ Goes(p, "put", None, <<>>, 0, 0, d, "end")
  <2>1. /\ TypeOK'
        /\ \A j \in Inum : inode'[j].ref = inode[j].ref /\ inode'[j].lock = inode[j].lock
    <3>1. inode \in Table /\ disk \in Disk
      BY <1>2 DEF TypeOK
    <3>2. inode' \in Table /\ \A j \in Inum : inode'[j].ref = inode[j].ref /\ inode'[j].lock = inode[j].lock
      BY <1>1, <1>2, <1>10, <3>1, LoadedIs
    <3>3. disk' \in Disk
      BY <1>1, <1>10, <3>1
    <3>. QED  BY <1>1, <1>2, <1>10, <3>2, <3>3, Typed DEF TypeOK
  <2>2. Cont(p)' = "end" /\ Putting(p)' = TRUE
    BY <1>1, <1>2, <1>3, <1>10 DEF Goes, Cont, Putting, Paused, Points, Thens
  <2>3. Shape(p)'
    BY <1>1, <1>2, <1>3, <1>10, <2>2, Typed DEF Goes, Shape, OpOK, Op, AtPoints, IpPoints, NamePoints
  <2>4. Apart(p)' /\ \A j \in Inum : Holds(p, j)' <=> FALSE
    BY <1>1, <1>2, <1>3, <1>10, <2>2 DEF Goes, Apart, Holds, HoldsAt, HoldsIp, HoldsPut
  <2>5. \A j \in Inum : Own(p, j)' = One(cwd[p] = j) + One(file[p] = j) + One(d = j)
    BY <1>1, <1>2, <1>3, <1>10, Typed DEF Goes, Own, One, TypeOK, Shape, AtPoints, IpPoints
  <2>6. Counted(p)
    BY <1>8, <1>9, <2>1, <2>5, OneInt DEF Counted
  <2>7. Locked(p)
    BY SMTT(30), <1>1, <1>4, <1>5, <1>10, <2>1, <2>4 DEF Locked
  <2>. QED  BY <1>1, <1>10, <2>1, <2>3, <2>4, <2>6, <2>7, ProcStep DEF Goes, TypeOK
<1>11. CASE /\ Loaded(d)[d].type # "DIR"
            /\ e \in Inum /\ path.names \in Seq(Elements) /\ l[p].call \in Calls
            /\ inode' = Iget(T, e)
            /\ disk' = [disk EXCEPT ![d].nlink = Loaded(d)[d].nlink + 1]
            /\ Goes(p, Loop(path.names), l[p].call, path.names, e, d, l[p].put, l[p].then)
  <2>1. /\ TypeOK'
        /\ \A j \in Inum : inode'[j].ref = (inode[j].ref + One(e = j)) /\ inode'[j].lock = inode[j].lock
    <3>1. inode \in Table /\ disk \in Disk
      BY <1>2 DEF TypeOK
    <3>2. inode' \in Table /\ \A j \in Inum : inode'[j].ref = (inode[j].ref + One(e = j)) /\ inode'[j].lock = inode[j].lock
      BY Zenon, <1>67, <1>11
    <3>3. disk' \in Disk
      BY Zenon, <1>1, <1>11, <3>1, <1>67, DiskNlink
    <3>. QED  BY Zenon, <1>1, <1>2, <1>11, <3>2, <3>3, Typed DEF TypeOK
  <2>2. Cont(p)' = Loop(path.names) /\ Putting(p)' = FALSE
    BY SMTT(30), <1>1, <1>2, <1>3, <1>11, <1>7 DEF Goes, Cont, Putting, Paused, Points, Thens
  <2>3. Shape(p)'
    BY SMTT(30), <1>1, <1>2, <1>3, <1>11, <2>2, Typed, <1>7 DEF Goes, Shape, OpOK, Op, AtPoints, IpPoints, NamePoints
  <2>4. Apart(p)' /\ \A j \in Inum : Holds(p, j)' <=> FALSE
    BY <1>1, <1>2, <1>3, <1>11, <2>2, <1>7 DEF Goes, Apart, Holds, HoldsAt, HoldsIp, HoldsPut
  <2>5. \A j \in Inum : Own(p, j)' = One(cwd[p] = j) + One(file[p] = j) + One(e = j) + One(d = j)
    BY <1>1, <1>2, <1>3, <1>11, Typed DEF Goes, Own, One, TypeOK, Shape, AtPoints, IpPoints
  <2>6. Counted(p)
    BY SMTT(30), <1>8, <1>9, <2>1, <2>5, OneInt DEF Counted
  <2>7. Locked(p)
    BY Zenon, <1>1, <1>4, <1>5, <1>11, <2>1, <2>4, <1>7 DEF Locked
  <2>. QED  BY Zenon, <1>1, <1>11, <2>1, <2>3, <2>4, <2>6, <2>7, ProcStep DEF Goes, TypeOK
<1>. QED  BY <1>10, <1>11, LinkDoes

LEMMA LinkToDoes ==
  ASSUME IInv, NEW p \in Proc, LinkTo(p)
  PROVE  LET d == l[p].at IN
         /\ d \in Inum /\ l[p].pc = "linkto" /\ inode[d].lock = None /\ l[p].names # <<>>
         /\ Loaded(d)[d].type # "none" /\ Head(l[p].names) \in Elements /\ l[p].ip \in Inum
         /\ inode' = Loaded(d) /\ UNCHANGED <<cwd, file>> /\ l' \in [Proc -> Local]
         /\ \/ /\ Entry(p, d) = 0
               /\ disk' = [disk EXCEPT ![d].ent[Head(l[p].names)] = l[p].ip]
               /\ Goes(p, "put", l[p].call, l[p].names, 0, l[p].ip, d, "putip")
            \/ /\ UNCHANGED disk
               /\ Goes(p, "put", l[p].call, l[p].names, 0, l[p].ip, d, "linkbad")
<1>. DEFINE d == l[p].at
<1>1. l[p].pc = "linkto" /\ inode[d].lock = None /\ Loaded(d)[d].type # "none"
      /\ inode' = Loaded(d) /\ UNCHANGED <<cwd, file>>
  BY EntersAt DEF LinkTo
<1>2. Cont(p) = l[p].pc /\ d # 0 /\ l[p].names # <<>> /\ l[p].ip # 0
  BY <1>1 DEF IInv, ShapeOK, Shape, Cont, Putting, Paused, AtPoints, IpPoints, NamePoints
<1>3. TypeOK /\ d \in Inum /\ d \in Index /\ l \in [Proc -> Local] /\ 0 \in Index
  BY <1>2, Typed DEF IInv, TypeOK
<1>4. Head(l[p].names) \in Elements /\ l[p].ip \in Inum
  BY <1>2, <1>3, Lookup, Typed
<1>5. "linkbad" \in Thens /\ "putip" \in Thens
  BY DEF Thens
<1>6. CASE /\ Entry(p, d) = 0 /\ disk' = [disk EXCEPT ![d].ent[Head(l[p].names)] = l[p].ip]
           /\ Put(p, d, "putip", [at |-> 0])
  BY <1>1, <1>2, <1>3, <1>4, <1>5, <1>6, PutAt
<1>7. CASE Put(p, d, "linkbad", [at |-> 0]) /\ UNCHANGED disk
  BY <1>1, <1>2, <1>3, <1>4, <1>5, <1>7, PutAt
<1>. QED  BY SMTT(30), <1>6, <1>7 DEF LinkTo

LEMMA LinkToInv ==
  ASSUME IInv, NEW p \in Proc, LinkTo(p)
  PROVE  IInv'
<1>. DEFINE d == l[p].at
<1>1. /\ d \in Inum /\ l[p].pc = "linkto" /\ inode[d].lock = None /\ l[p].names # <<>>
      /\ Loaded(d)[d].type # "none" /\ Head(l[p].names) \in Elements /\ l[p].ip \in Inum
      /\ inode' = Loaded(d) /\ UNCHANGED <<cwd, file>> /\ l' \in [Proc -> Local]
  BY LinkToDoes
<1>2. TypeOK /\ Shape(p) /\ Apart(p)
  BY DEF IInv, ShapeOK
<1>3. Cont(p) = "linkto" /\ Putting(p) = FALSE
  BY <1>1, <1>2 DEF Cont, Putting, Paused, Shape
<1>4. \A j \in Inum : Holds(p, j) <=> FALSE
  BY <1>1, <1>2, <1>3 DEF Holds, HoldsAt, HoldsIp, HoldsPut
<1>5. \A j \in Inum : inode[j].lock = p <=> Holds(p, j)
  BY DEF IInv, LockOK
<1>8. \A j \in Inum : Own(p, j) = One(cwd[p] = j) + One(file[p] = j) + One(l[p].at = j) + One(l[p].ip = j)
  BY <1>1, <1>2, <1>3, Typed DEF Own, One, Shape, AtPoints, IpPoints
<1>9. \A j \in Inum : inode[j].ref \in Int
  BY <1>2 DEF TypeOK, Table
<1>10. CASE /\ Entry(p, d) = 0
            /\ disk' = [disk EXCEPT ![d].ent[Head(l[p].names)] = l[p].ip]
            /\ Goes(p, "put", l[p].call, l[p].names, 0, l[p].ip, d, "putip")
  <2>1. /\ TypeOK'
        /\ \A j \in Inum : inode'[j].ref = inode[j].ref /\ inode'[j].lock = inode[j].lock
    <3>1. inode \in Table /\ disk \in Disk
      BY <1>2 DEF TypeOK
    <3>2. inode' \in Table /\ \A j \in Inum : inode'[j].ref = inode[j].ref /\ inode'[j].lock = inode[j].lock
      BY SMTT(30), <1>1, <1>2, <1>10, <3>1, LoadedIs
    <3>3. disk' \in Disk
      BY <1>1, <1>2, <1>10, <3>1, Typed, DiskEnt
    <3>. QED  BY <1>1, <1>2, <1>10, <3>2, <3>3, Typed DEF TypeOK
  <2>2. Cont(p)' = "putip" /\ Putting(p)' = TRUE
    BY <1>1, <1>2, <1>3, <1>10 DEF Goes, Cont, Putting, Paused, Points, Thens
  <2>3. Shape(p)'
    BY <1>1, <1>2, <1>3, <1>10, <2>2, Typed DEF Goes, Shape, OpOK, Op, AtPoints, IpPoints, NamePoints
  <2>4. Apart(p)' /\ \A j \in Inum : Holds(p, j)' <=> FALSE
    BY <1>1, <1>2, <1>3, <1>10, <2>2 DEF Goes, Apart, Holds, HoldsAt, HoldsIp, HoldsPut
  <2>5. \A j \in Inum : Own(p, j)' = One(cwd[p] = j) + One(file[p] = j) + One(l[p].ip = j) + One(d = j)
    BY <1>1, <1>2, <1>3, <1>10, Typed DEF Goes, Own, One, TypeOK, Shape, AtPoints, IpPoints
  <2>6. Counted(p)
    BY <1>8, <1>9, <2>1, <2>5, OneInt DEF Counted
  <2>7. Locked(p)
    BY <1>1, <1>4, <1>5, <1>10, <2>1, <2>4 DEF Locked
  <2>. QED  BY <1>1, <1>10, <2>1, <2>3, <2>4, <2>6, <2>7, ProcStep DEF Goes, TypeOK
<1>11. CASE /\ UNCHANGED disk
            /\ Goes(p, "put", l[p].call, l[p].names, 0, l[p].ip, d, "linkbad")
  <2>1. /\ TypeOK'
        /\ \A j \in Inum : inode'[j].ref = inode[j].ref /\ inode'[j].lock = inode[j].lock
    <3>1. inode \in Table /\ disk \in Disk
      BY <1>2 DEF TypeOK
    <3>2. inode' \in Table /\ \A j \in Inum : inode'[j].ref = inode[j].ref /\ inode'[j].lock = inode[j].lock
      BY <1>1, <1>2, <1>11, <3>1, LoadedIs
    <3>3. disk' \in Disk
      BY <1>1, <1>11, <3>1
    <3>. QED  BY <1>1, <1>2, <1>11, <3>2, <3>3, Typed DEF TypeOK
  <2>2. Cont(p)' = "linkbad" /\ Putting(p)' = TRUE
    BY <1>1, <1>2, <1>3, <1>11 DEF Goes, Cont, Putting, Paused, Points, Thens
  <2>3. Shape(p)'
    BY <1>1, <1>2, <1>3, <1>11, <2>2, Typed DEF Goes, Shape, OpOK, Op, AtPoints, IpPoints, NamePoints
  <2>4. Apart(p)' /\ \A j \in Inum : Holds(p, j)' <=> FALSE
    BY <1>1, <1>2, <1>3, <1>11, <2>2 DEF Goes, Apart, Holds, HoldsAt, HoldsIp, HoldsPut
  <2>5. \A j \in Inum : Own(p, j)' = One(cwd[p] = j) + One(file[p] = j) + One(l[p].ip = j) + One(d = j)
    BY <1>1, <1>2, <1>3, <1>11, Typed DEF Goes, Own, One, TypeOK, Shape, AtPoints, IpPoints
  <2>6. Counted(p)
    BY <1>8, <1>9, <2>1, <2>5, OneInt DEF Counted
  <2>7. Locked(p)
    BY <1>1, <1>4, <1>5, <1>11, <2>1, <2>4 DEF Locked
  <2>. QED  BY <1>1, <1>11, <2>1, <2>3, <2>4, <2>6, <2>7, ProcStep DEF Goes, TypeOK
<1>. QED  BY <1>10, <1>11, LinkToDoes

LEMMA PutIpDoes ==
  ASSUME IInv, NEW p \in Proc, PutIp(p)
  PROVE  LET i == l[p].ip IN
         /\ i \in Inum /\ l[p].pc = "putip"
         /\ UNCHANGED <<disk, inode, cwd, file>> /\ l' \in [Proc -> Local]
         /\ Goes(p, "put", None, <<>>, 0, 0, i, "end")
<1>1. l[p].pc = "putip" /\ PutLast(p, l[p].ip) /\ UNCHANGED <<disk, inode, cwd, file>>
  BY DEF PutIp
<1>2. l[p].ip \in Inum /\ l[p].ip \in Index /\ l \in [Proc -> Local]
  BY <1>1, Typed DEF IInv, TypeOK, ShapeOK, Shape, Cont, Putting, Paused, IpPoints
<1>. QED  BY <1>1, <1>2, PutEnd

LEMMA PutIpInv ==
  ASSUME IInv, NEW p \in Proc, PutIp(p)
  PROVE  IInv'
<1>. DEFINE i == l[p].ip
<1>1. /\ i \in Inum /\ l[p].pc = "putip"
      /\ UNCHANGED <<disk, inode, cwd, file>> /\ l' \in [Proc -> Local]
  BY PutIpDoes
<1>2. TypeOK /\ Shape(p) /\ Apart(p)
  BY DEF IInv, ShapeOK
<1>3. Cont(p) = "putip" /\ Putting(p) = FALSE
  BY <1>1, <1>2 DEF Cont, Putting, Paused, Shape
<1>4. \A j \in Inum : Holds(p, j) <=> FALSE
  BY <1>1, <1>2, <1>3 DEF Holds, HoldsAt, HoldsIp, HoldsPut
<1>5. \A j \in Inum : inode[j].lock = p <=> Holds(p, j)
  BY DEF IInv, LockOK
<1>8. \A j \in Inum : Own(p, j) = One(cwd[p] = j) + One(file[p] = j) + One(l[p].ip = j)
  BY <1>1, <1>2, <1>3, Typed DEF Own, One, Shape, AtPoints, IpPoints
<1>9. \A j \in Inum : inode[j].ref \in Int
  BY <1>2 DEF TypeOK, Table
<1>10. CASE /\ Goes(p, "put", None, <<>>, 0, 0, i, "end")
  <2>1. /\ TypeOK'
        /\ \A j \in Inum : inode'[j].ref = inode[j].ref /\ inode'[j].lock = inode[j].lock
    <3>1. inode \in Table /\ disk \in Disk
      BY <1>2 DEF TypeOK
    <3>2. inode' \in Table /\ \A j \in Inum : inode'[j].ref = inode[j].ref /\ inode'[j].lock = inode[j].lock
      BY <1>1, <1>10, <3>1
    <3>3. disk' \in Disk
      BY <1>1, <1>10, <3>1
    <3>. QED  BY <1>1, <1>2, <1>10, <3>2, <3>3, Typed DEF TypeOK
  <2>2. Cont(p)' = "end" /\ Putting(p)' = TRUE
    BY <1>1, <1>2, <1>3, <1>10 DEF Goes, Cont, Putting, Paused, Points, Thens
  <2>3. Shape(p)'
    BY <1>1, <1>2, <1>3, <1>10, <2>2, Typed DEF Goes, Shape, OpOK, Op, AtPoints, IpPoints, NamePoints
  <2>4. Apart(p)' /\ \A j \in Inum : Holds(p, j)' <=> FALSE
    BY <1>1, <1>2, <1>3, <1>10, <2>2 DEF Goes, Apart, Holds, HoldsAt, HoldsIp, HoldsPut
  <2>5. \A j \in Inum : Own(p, j)' = One(cwd[p] = j) + One(file[p] = j) + One(i = j)
    BY <1>1, <1>2, <1>3, <1>10, Typed DEF Goes, Own, One, TypeOK, Shape, AtPoints, IpPoints
  <2>6. Counted(p)
    BY <1>8, <1>9, <2>1, <2>5, OneInt DEF Counted
  <2>7. Locked(p)
    BY <1>1, <1>4, <1>5, <1>10, <2>1, <2>4 DEF Locked
  <2>. QED  BY <1>1, <1>10, <2>1, <2>3, <2>4, <2>6, <2>7, ProcStep DEF Goes, TypeOK
<1>. QED  BY <1>10, PutIpDoes

LEMMA LinkBadDoes ==
  ASSUME IInv, NEW p \in Proc, LinkBad(p)
  PROVE  LET i == l[p].ip IN
         /\ i \in Inum /\ l[p].pc = "linkbad" /\ inode[i].lock = None
         /\ Loaded(i)[i].type # "none" /\ Loaded(i) \in Table
         /\ disk' = [disk EXCEPT ![i].nlink = disk[i].nlink - 1]
         /\ UNCHANGED <<cwd, file>> /\ l' \in [Proc -> Local]
         /\ inode' = [Loaded(i) EXCEPT ![i].nlink = Loaded(i)[i].nlink - 1]
         /\ Goes(p, "put", None, <<>>, 0, 0, i, "end")
<1>. DEFINE i == l[p].ip
<1>1. l[p].pc = "linkbad" /\ inode[i].lock = None /\ Loaded(i)[i].type # "none"
  BY EntersIp DEF LinkBad
<1>2. i \in Inum /\ i \in Index /\ l \in [Proc -> Local] /\ TypeOK
  BY <1>1, Typed DEF IInv, TypeOK, ShapeOK, Shape, Cont, Putting, Paused, IpPoints
<1>3. Loaded(i) \in Table
  BY <1>2, LoadedIs
<1>4. /\ inode' = [Loaded(i) EXCEPT ![i].nlink = Loaded(i)[i].nlink - 1]
      /\ disk' = [disk EXCEPT ![i].nlink = disk[i].nlink - 1]
      /\ PutLast(p, i) /\ UNCHANGED <<cwd, file>>
  BY <1>2, <1>3 DEF LinkBad, TypeOK, Table, Disk
<1>. QED  BY <1>1, <1>2, <1>3, <1>4, PutEnd

LEMMA LinkBadInv ==
  ASSUME IInv, NEW p \in Proc, LinkBad(p)
  PROVE  IInv'
<1>. DEFINE i == l[p].ip
<1>1. /\ i \in Inum /\ l[p].pc = "linkbad" /\ inode[i].lock = None
      /\ Loaded(i)[i].type # "none" /\ Loaded(i) \in Table
      /\ disk' = [disk EXCEPT ![i].nlink = disk[i].nlink - 1]
      /\ UNCHANGED <<cwd, file>> /\ l' \in [Proc -> Local]
  BY LinkBadDoes
<1>2. TypeOK /\ Shape(p) /\ Apart(p)
  BY DEF IInv, ShapeOK
<1>3. Cont(p) = "linkbad" /\ Putting(p) = FALSE
  BY <1>1, <1>2 DEF Cont, Putting, Paused, Shape
<1>4. \A j \in Inum : Holds(p, j) <=> FALSE
  BY <1>1, <1>2, <1>3 DEF Holds, HoldsAt, HoldsIp, HoldsPut
<1>5. \A j \in Inum : inode[j].lock = p <=> Holds(p, j)
  BY DEF IInv, LockOK
<1>6. LET U == [Loaded(i) EXCEPT ![i].nlink = Loaded(i)[i].nlink - 1]
      IN  U \in Table /\ \A j \in Inum : U[j].ref = inode[j].ref /\ U[j].lock = inode[j].lock
  <2>. DEFINE T == Loaded(i)
  <2>1. T \in Table /\ i \in Inum /\ \A j \in Inum : T[j].ref = inode[j].ref /\ T[j].lock = inode[j].lock
    BY <1>1, <1>2, LoadedIs
  <2>. HIDE DEF T, i
  <2>2. LET U == [T EXCEPT ![i].nlink = T[i].nlink - 1]
        IN  U \in Table /\ \A j \in Inum : U[j].ref = inode[j].ref /\ U[j].lock = inode[j].lock
    BY <2>1 DEF Table
  <2>. QED  BY <2>2 DEF T
<1>7. disk[i].nlink - 1 \in Int
  BY <1>1, <1>2 DEF TypeOK, Disk
<1>8. \A j \in Inum : Own(p, j) = One(cwd[p] = j) + One(file[p] = j) + One(l[p].ip = j)
  BY SMTT(30), <1>1, <1>2, <1>3, Typed DEF Own, One, Shape, AtPoints, IpPoints
<1>9. \A j \in Inum : inode[j].ref \in Int
  BY <1>2 DEF TypeOK, Table
<1>10. CASE /\ inode' = [Loaded(i) EXCEPT ![i].nlink = Loaded(i)[i].nlink - 1]
            /\ Goes(p, "put", None, <<>>, 0, 0, i, "end")
  <2>1. /\ TypeOK'
        /\ \A j \in Inum : inode'[j].ref = inode[j].ref /\ inode'[j].lock = inode[j].lock
    <3>1. inode \in Table /\ disk \in Disk
      BY <1>2 DEF TypeOK
    <3>2. inode' \in Table /\ \A j \in Inum : inode'[j].ref = inode[j].ref /\ inode'[j].lock = inode[j].lock
      BY SMTT(30), <1>6, <1>10
    <3>3. disk' \in Disk
      BY <1>1, <1>10, <3>1, <1>7, DiskNlink
    <3>. QED  BY <1>1, <1>2, <1>10, <3>2, <3>3, Typed DEF TypeOK
  <2>2. Cont(p)' = "end" /\ Putting(p)' = TRUE
    BY <1>1, <1>2, <1>3, <1>10 DEF Goes, Cont, Putting, Paused, Points, Thens
  <2>3. Shape(p)'
    BY <1>1, <1>2, <1>3, <1>10, <2>2, Typed DEF Goes, Shape, OpOK, Op, AtPoints, IpPoints, NamePoints
  <2>4. Apart(p)' /\ \A j \in Inum : Holds(p, j)' <=> FALSE
    BY <1>1, <1>2, <1>3, <1>10, <2>2 DEF Goes, Apart, Holds, HoldsAt, HoldsIp, HoldsPut
  <2>5. \A j \in Inum : Own(p, j)' = One(cwd[p] = j) + One(file[p] = j) + One(i = j)
    BY <1>1, <1>2, <1>3, <1>10, Typed DEF Goes, Own, One, TypeOK, Shape, AtPoints, IpPoints
  <2>6. Counted(p)
    BY <1>8, <1>9, <2>1, <2>5, OneInt DEF Counted
  <2>7. Locked(p)
    BY <1>1, <1>4, <1>5, <1>10, <2>1, <2>4 DEF Locked
  <2>. QED  BY SMTT(30), <1>1, <1>10, <2>1, <2>3, <2>4, <2>6, <2>7, ProcStep DEF Goes, TypeOK
<1>. QED  BY <1>10, LinkBadDoes

LEMMA UnlinkDoes ==
  ASSUME IInv, NEW p \in Proc, Unlink(p)
  PROVE  LET d == l[p].at
             e == Entry(p, d)
             T == [Loaded(d) EXCEPT ![d].lock = p] IN
         /\ d \in Inum /\ l[p].pc = "unlink" /\ inode[d].lock = None /\ l[p].names # <<>>
         /\ Loaded(d)[d].type # "none"
         /\ UNCHANGED <<disk, cwd, file>> /\ l' \in [Proc -> Local]
         /\ \/ /\ inode' = Loaded(d)
               /\ Goes(p, "put", None, <<>>, 0, 0, d, "end")
            \/ /\ e \in Inum /\ Head(l[p].names) # ".."
               /\ inode' = Iget(T, e)
               /\ Goes(p, "unlinkip", l[p].call, l[p].names, l[p].at, e, l[p].put, l[p].then)
<1>. DEFINE d == l[p].at
<1>1. l[p].pc = "unlink" /\ inode[d].lock = None /\ Loaded(d)[d].type # "none"
      /\ UNCHANGED <<disk, cwd, file>>
  BY EntersAt DEF Unlink
<1>2. Cont(p) = l[p].pc /\ d # 0 /\ l[p].names # <<>>
  BY <1>1 DEF IInv, ShapeOK, Shape, Cont, Putting, Paused, AtPoints, IpPoints, NamePoints
<1>3. TypeOK /\ d \in Inum /\ d \in Index /\ l \in [Proc -> Local] /\ 0 \in Index
  BY <1>2, Typed DEF IInv, TypeOK
<1>. DEFINE e == Entry(p, d)
            T == [Loaded(d) EXCEPT ![d].lock = p]
<1>4. CASE inode' = Loaded(d) /\ PutLast(p, d)
  BY <1>1, <1>2, <1>3, <1>4, PutEnd
<1>5. CASE /\ Head(l[p].names) # ".." /\ Entry(p, d) # 0
           /\ inode' = Iget(T, e) /\ Step(p, [pc |-> "unlinkip", ip |-> e])
  <2>1. e \in Index /\ e \in Inum
    BY <1>2, <1>3, <1>5, Lookup, Typed
  <2>2. "unlinkip" \in Points \cup Paused
    BY DEF Points
  <2>3. l' \in [Proc -> Local] /\ Goes(p, "unlinkip", l[p].call, l[p].names, l[p].at, e, l[p].put, l[p].then)
    BY <1>3, <1>5, <2>1, <2>2, StepIp
  <2>. QED  BY <1>1, <1>2, <1>3, <1>5, <2>1, <2>3
<1>. QED  BY <1>4, <1>5 DEF Unlink

LEMMA UnlinkInv ==
  ASSUME IInv, NEW p \in Proc, Unlink(p)
  PROVE  IInv'
<1>. DEFINE d == l[p].at
            e == Entry(p, d)
            T == [Loaded(d) EXCEPT ![d].lock = p]
<1>1. /\ d \in Inum /\ l[p].pc = "unlink" /\ inode[d].lock = None /\ l[p].names # <<>>
      /\ Loaded(d)[d].type # "none"
      /\ UNCHANGED <<disk, cwd, file>> /\ l' \in [Proc -> Local]
  BY UnlinkDoes
<1>2. TypeOK /\ Shape(p) /\ Apart(p)
  BY DEF IInv, ShapeOK
<1>3. Cont(p) = "unlink" /\ Putting(p) = FALSE
  BY <1>1, <1>2 DEF Cont, Putting, Paused, Shape
<1>4. \A j \in Inum : Holds(p, j) <=> FALSE
  BY <1>1, <1>2, <1>3 DEF Holds, HoldsAt, HoldsIp, HoldsPut
<1>5. \A j \in Inum : inode[j].lock = p <=> Holds(p, j)
  BY DEF IInv, LockOK
<1>6. /\ T \in Table
      /\ \A j \in Inum : T[j].ref = inode[j].ref /\ T[j].lock = IF j = d THEN p ELSE inode[j].lock
  <2>1. Loaded(d) \in Table
    BY <1>1, <1>2, LoadedIs
  <2>2. T \in Table /\ \A j \in Inum : T[j].ref = Loaded(d)[j].ref /\ T[j].lock = IF j = d THEN p ELSE Loaded(d)[j].lock
    BY <1>1, <2>1 DEF Table
  <2>. QED  BY <1>1, <1>2, <2>1, <2>2, LoadedIs
<1>7. e \in Inum /\ inode' = Iget(T, e) =>
          /\ inode' \in Table
          /\ \A j \in Inum : inode'[j].ref = (inode[j].ref + One(e = j)) /\ inode'[j].lock = (IF j = d THEN p ELSE inode[j].lock)
  <2>. HIDE DEF T, e
  <2>1. e \in Inum => /\ Iget(T, e) \in Table
                      /\ \A j \in Inum : Iget(T, e)[j].ref = (T[j].ref + One(e = j)) /\ Iget(T, e)[j].lock = T[j].lock
    BY <1>6, IgetIs
  <2>. QED  BY <1>6, <2>1
<1>8. \A j \in Inum : Own(p, j) = One(cwd[p] = j) + One(file[p] = j) + One(l[p].at = j)
  BY <1>1, <1>2, <1>3, Typed DEF Own, One, Shape, AtPoints, IpPoints
<1>9. \A j \in Inum : inode[j].ref \in Int
  BY <1>2 DEF TypeOK, Table
<1>10. CASE /\ inode' = Loaded(d)
            /\ Goes(p, "put", None, <<>>, 0, 0, d, "end")
  <2>1. /\ TypeOK'
        /\ \A j \in Inum : inode'[j].ref = inode[j].ref /\ inode'[j].lock = inode[j].lock
    <3>1. inode \in Table /\ disk \in Disk
      BY <1>2 DEF TypeOK
    <3>2. inode' \in Table /\ \A j \in Inum : inode'[j].ref = inode[j].ref /\ inode'[j].lock = inode[j].lock
      BY <1>1, <1>2, <1>10, <3>1, LoadedIs
    <3>3. disk' \in Disk
      BY <1>1, <1>10, <3>1
    <3>. QED  BY <1>1, <1>2, <1>10, <3>2, <3>3, Typed DEF TypeOK
  <2>2. Cont(p)' = "end" /\ Putting(p)' = TRUE
    BY <1>1, <1>2, <1>3, <1>10 DEF Goes, Cont, Putting, Paused, Points, Thens
  <2>3. Shape(p)'
    BY <1>1, <1>2, <1>3, <1>10, <2>2, Typed DEF Goes, Shape, OpOK, Op, AtPoints, IpPoints, NamePoints
  <2>4. Apart(p)' /\ \A j \in Inum : Holds(p, j)' <=> FALSE
    BY <1>1, <1>2, <1>3, <1>10, <2>2 DEF Goes, Apart, Holds, HoldsAt, HoldsIp, HoldsPut
  <2>5. \A j \in Inum : Own(p, j)' = One(cwd[p] = j) + One(file[p] = j) + One(d = j)
    BY <1>1, <1>2, <1>3, <1>10, Typed DEF Goes, Own, One, TypeOK, Shape, AtPoints, IpPoints
  <2>6. Counted(p)
    BY <1>8, <1>9, <2>1, <2>5, OneInt DEF Counted
  <2>7. Locked(p)
    BY SMTT(30), <1>1, <1>4, <1>5, <1>10, <2>1, <2>4 DEF Locked
  <2>. QED  BY <1>1, <1>10, <2>1, <2>3, <2>4, <2>6, <2>7, ProcStep DEF Goes, TypeOK
<1>11. CASE /\ e \in Inum /\ Head(l[p].names) # ".."
            /\ inode' = Iget(T, e)
            /\ Goes(p, "unlinkip", l[p].call, l[p].names, l[p].at, e, l[p].put, l[p].then)
  <2>1. /\ TypeOK'
        /\ \A j \in Inum : inode'[j].ref = (inode[j].ref + One(e = j)) /\ inode'[j].lock = (IF j = d THEN p ELSE inode[j].lock)
    <3>1. inode \in Table /\ disk \in Disk
      BY <1>2 DEF TypeOK
    <3>2. inode' \in Table /\ \A j \in Inum : inode'[j].ref = (inode[j].ref + One(e = j)) /\ inode'[j].lock = (IF j = d THEN p ELSE inode[j].lock)
      BY <1>7, <1>11
    <3>3. disk' \in Disk
      BY <1>1, <1>11, <3>1
    <3>. QED  BY SMTT(30), <1>1, <1>2, <1>11, <3>2, <3>3, Typed DEF TypeOK
  <2>2. Cont(p)' = "unlinkip" /\ Putting(p)' = FALSE
    BY <1>1, <1>2, <1>3, <1>11 DEF Goes, Cont, Putting, Paused, Points, Thens
  <2>3. Shape(p)'
    BY <1>1, <1>2, <1>3, <1>11, <2>2, Typed DEF Goes, Shape, OpOK, Op, AtPoints, IpPoints, NamePoints
  <2>4. Apart(p)' /\ \A j \in Inum : Holds(p, j)' <=> j = d
    BY <1>1, <1>2, <1>3, <1>11, <2>2 DEF Goes, Apart, Holds, HoldsAt, HoldsIp, HoldsPut
  <2>5. \A j \in Inum : Own(p, j)' = One(cwd[p] = j) + One(file[p] = j) + One(l[p].at = j) + One(e = j)
    BY <1>1, <1>2, <1>3, <1>11, Typed DEF Goes, Own, One, TypeOK, Shape, AtPoints, IpPoints
  <2>6. Counted(p)
    BY <1>8, <1>9, <2>1, <2>5, OneInt DEF Counted
  <2>7. Locked(p)
    BY SMTT(30), <1>1, <1>4, <1>5, <1>11, <2>1, <2>4 DEF Locked
  <2>. QED  BY SMTT(30), <1>1, <1>11, <2>1, <2>3, <2>4, <2>6, <2>7, ProcStep DEF Goes, TypeOK
<1>. QED  BY <1>10, <1>11, UnlinkDoes

LEMMA UnlinkEntryDoes ==
  ASSUME IInv, NEW p \in Proc, UnlinkEntry(p)
  PROVE  LET d == l[p].at
             i == l[p].ip
             dir == Loaded(i)[i].type = "DIR"
             less == IF dir THEN 1 ELSE 0 IN
         /\ d \in Inum /\ i \in Inum /\ i # d /\ l[p].pc = "unlinkip" /\ inode[i].lock = None /\ inode[d].lock = p
         /\ Loaded(i)[i].type # "none" /\ Loaded(i)[i].nlink >= 1 /\ l[p].names # <<>> /\ Head(l[p].names) \in Elements
         /\ UNCHANGED <<cwd, file>> /\ l' \in [Proc -> Local]
         /\ \/ /\ dir /\ ~IsDirEmpty(i) /\ inode' = Loaded(i) /\ UNCHANGED disk
               /\ Goes(p, "put", l[p].call, l[p].names, l[p].at, 0, i, "unlockdp")
            \/ /\ dir => IsDirEmpty(i)
               /\ inode' = Unlinked(Loaded(i), i, d, p, less)
               /\ disk' = [disk EXCEPT ![d].ent[Head(l[p].names)] = 0, ![d].nlink = @ - less]
               /\ Goes(p, "put", l[p].call, l[p].names, 0, l[p].ip, d, "unlinked")
<1>. DEFINE d == l[p].at
            i == l[p].ip
<1>1. l[p].pc = "unlinkip" /\ inode[i].lock = None /\ Loaded(i)[i].type # "none"
  BY Zenon, EntersIp DEF UnlinkEntry
<1>2. TypeOK /\ Shape(p) /\ Cont(p) = "unlinkip"
  BY <1>1 DEF IInv, ShapeOK, Cont, Putting, Paused
<1>3. d \in Inum /\ i \in Inum /\ d \in Index /\ i \in Index /\ l[p].names # <<>>
  BY <1>2, Typed DEF Shape, AtPoints, IpPoints, NamePoints
<1>4. Head(l[p].names) \in Elements /\ l \in [Proc -> Local] /\ 0 \in Index
  BY <1>2, <1>3, Lookup, Typed DEF TypeOK
<1>5. inode[d].lock = p /\ i # d
  <2>1. Holds(p, d)
    BY <1>2 DEF Holds, HoldsAt
  <2>2. inode[d].lock = p
    BY <1>3, <2>1 DEF IInv, LockOK
  <2>. QED  BY <1>1, <2>2, InodesAssumption
<1>6. "unlockdp" \in Thens /\ "unlinked" \in Thens /\ "created" \in Thens
  BY SMTT(30) DEF Thens
<1>. DEFINE dir == Loaded(i)[i].type = "DIR"
            less == IF dir THEN 1 ELSE 0
<1>7. Loaded(i)[i].nlink >= 1 /\ UNCHANGED <<cwd, file>>
  BY Zenon DEF UnlinkEntry
<1>8. CASE dir /\ ~IsDirEmpty(i) /\ inode' = Loaded(i) /\ Put(p, i, "unlockdp", [ip |-> 0]) /\ UNCHANGED disk
  BY <1>1, <1>3, <1>4, <1>5, <1>6, <1>7, <1>8, PutHeld
<1>9. CASE /\ ~(dir /\ ~IsDirEmpty(i))
           /\ inode' = Unlinked(Loaded(i), i, d, p, less)
           /\ disk' = [disk EXCEPT ![d].ent[Head(l[p].names)] = 0, ![d].nlink = @ - less]
           /\ Put(p, d, "unlinked", [at |-> 0])
  BY SMTT(30), <1>1, <1>3, <1>4, <1>5, <1>6, <1>7, <1>9, PutAt
<1>. QED  BY Zenon, <1>8, <1>9 DEF UnlinkEntry, Unlinked

LEMMA UnlinkEntryInv ==
  ASSUME IInv, NEW p \in Proc, UnlinkEntry(p)
  PROVE  IInv'
<1>. DEFINE d == l[p].at
            i == l[p].ip
            dir == Loaded(i)[i].type = "DIR"
            less == IF dir THEN 1 ELSE 0
<1>1. /\ d \in Inum /\ i \in Inum /\ i # d /\ l[p].pc = "unlinkip" /\ inode[i].lock = None /\ inode[d].lock = p
      /\ Loaded(i)[i].type # "none" /\ Loaded(i)[i].nlink >= 1 /\ l[p].names # <<>> /\ Head(l[p].names) \in Elements
      /\ UNCHANGED <<cwd, file>> /\ l' \in [Proc -> Local]
  BY UnlinkEntryDoes
<1>2. TypeOK /\ Shape(p) /\ Apart(p)
  BY DEF IInv, ShapeOK
<1>3. Cont(p) = "unlinkip" /\ Putting(p) = FALSE
  BY <1>1, <1>2 DEF Cont, Putting, Paused, Shape
<1>4. \A j \in Inum : Holds(p, j) <=> j = d
  BY <1>1, <1>2, <1>3 DEF Holds, HoldsAt, HoldsIp, HoldsPut
<1>5. \A j \in Inum : inode[j].lock = p <=> Holds(p, j)
  BY DEF IInv, LockOK
<1>6. Op(p) = "unlink"
  BY <1>2, <1>3 DEF Shape, OpOK
<1>7. inode' = Unlinked(Loaded(i), i, d, p, less) =>
        /\ inode' \in Table
        /\ \A j \in Inum : /\ inode'[j].ref = inode[j].ref
                           /\ inode'[j].lock = (IF j = i THEN p ELSE IF j = d THEN None ELSE inode[j].lock)
  <2>1. less \in {0, 1}
    OBVIOUS
  <2>. HIDE DEF less, i, d
  <2>. QED  BY <1>1, <1>2, <2>1, UnlinkTable
<1>8. \A j \in Inum : Own(p, j) = One(cwd[p] = j) + One(file[p] = j) + One(l[p].at = j) + One(l[p].ip = j)
  BY <1>1, <1>2, <1>3, Typed DEF Own, One, Shape, AtPoints, IpPoints
<1>9. \A j \in Inum : inode[j].ref \in Int
  BY <1>2 DEF TypeOK, Table
<1>10. CASE /\ dir /\ ~IsDirEmpty(i) /\ inode' = Loaded(i) /\ UNCHANGED disk
            /\ Goes(p, "put", l[p].call, l[p].names, l[p].at, 0, i, "unlockdp")
  <2>1. /\ TypeOK'
        /\ \A j \in Inum : inode'[j].ref = inode[j].ref /\ inode'[j].lock = inode[j].lock
    <3>1. inode \in Table /\ disk \in Disk
      BY <1>2 DEF TypeOK
    <3>2. inode' \in Table /\ \A j \in Inum : inode'[j].ref = inode[j].ref /\ inode'[j].lock = inode[j].lock
      BY <1>1, <1>2, <1>10, <3>1, LoadedIs
    <3>3. disk' \in Disk
      BY <1>1, <1>10, <3>1
    <3>. QED  BY <1>1, <1>2, <1>10, <3>2, <3>3, Typed DEF TypeOK
  <2>2. Cont(p)' = "unlockdp" /\ Putting(p)' = TRUE
    BY <1>1, <1>2, <1>3, <1>10, <1>6 DEF Goes, Cont, Putting, Paused, Points, Thens
  <2>3. Shape(p)'
    BY <1>1, <1>2, <1>3, <1>10, <2>2, Typed, <1>6 DEF Goes, Shape, OpOK, Op, AtPoints, IpPoints, NamePoints
  <2>4. Apart(p)' /\ \A j \in Inum : Holds(p, j)' <=> j = d
    BY <1>1, <1>2, <1>3, <1>10, <2>2, <1>6 DEF Goes, Apart, Holds, HoldsAt, HoldsIp, HoldsPut
  <2>5. \A j \in Inum : Own(p, j)' = One(cwd[p] = j) + One(file[p] = j) + One(l[p].at = j) + One(i = j)
    BY <1>1, <1>2, <1>3, <1>10, Typed DEF Goes, Own, One, TypeOK, Shape, AtPoints, IpPoints
  <2>6. Counted(p)
    BY <1>8, <1>9, <2>1, <2>5, OneInt DEF Counted
  <2>7. Locked(p)
    BY SMTT(30), <1>1, <1>4, <1>5, <1>10, <2>1, <2>4, <1>6 DEF Locked
  <2>. QED  BY <1>1, <1>10, <2>1, <2>3, <2>4, <2>6, <2>7, ProcStep DEF Goes, TypeOK
<1>11. CASE /\ dir => IsDirEmpty(i)
            /\ inode' = Unlinked(Loaded(i), i, d, p, less)
            /\ disk' = [disk EXCEPT ![d].ent[Head(l[p].names)] = 0, ![d].nlink = @ - less]
            /\ Goes(p, "put", l[p].call, l[p].names, 0, l[p].ip, d, "unlinked")
  <2>1. /\ TypeOK'
        /\ \A j \in Inum : inode'[j].ref = inode[j].ref /\ inode'[j].lock = (IF j = i THEN p ELSE IF j = d THEN None ELSE inode[j].lock)
    <3>1. inode \in Table /\ disk \in Disk
      BY <1>2 DEF TypeOK
    <3>2. inode' \in Table /\ \A j \in Inum : inode'[j].ref = inode[j].ref /\ inode'[j].lock = (IF j = i THEN p ELSE IF j = d THEN None ELSE inode[j].lock)
      BY Zenon, <1>7, <1>11
    <3>3. disk' \in Disk
      BY Zenon, <1>1, <1>11, <3>1, UnlinkDisk
    <3>. QED  BY Zenon, <1>1, <1>2, <1>11, <3>2, <3>3, Typed DEF TypeOK
  <2>2. Cont(p)' = "unlinked" /\ Putting(p)' = TRUE
    BY <1>1, <1>2, <1>3, <1>11, <1>6 DEF Goes, Cont, Putting, Paused, Points, Thens
  <2>3. Shape(p)'
    BY <1>1, <1>2, <1>3, <1>11, <2>2, Typed, <1>6 DEF Goes, Shape, OpOK, Op, AtPoints, IpPoints, NamePoints
  <2>4. Apart(p)' /\ \A j \in Inum : Holds(p, j)' <=> j = i
    BY <1>1, <1>2, <1>3, <1>11, <2>2, <1>6 DEF Goes, Apart, Holds, HoldsAt, HoldsIp, HoldsPut
  <2>5. \A j \in Inum : Own(p, j)' = One(cwd[p] = j) + One(file[p] = j) + One(l[p].ip = j) + One(d = j)
    BY <1>1, <1>2, <1>3, <1>11, Typed DEF Goes, Own, One, TypeOK, Shape, AtPoints, IpPoints
  <2>6. Counted(p)
    BY SMTT(30), <1>8, <1>9, <2>1, <2>5, OneInt DEF Counted
  <2>7. Locked(p)
    BY Zenon, <1>1, <1>4, <1>5, <1>11, <2>1, <2>4, <1>6 DEF Locked
  <2>. QED  BY Zenon, <1>1, <1>11, <2>1, <2>3, <2>4, <2>6, <2>7, ProcStep DEF Goes, TypeOK
<1>. QED  BY <1>10, <1>11, UnlinkEntryDoes

LEMMA UnlinkInodeDoes ==
  ASSUME IInv, NEW p \in Proc, UnlinkInode(p)
  PROVE  LET i == l[p].ip IN
         /\ i \in Inum /\ l[p].pc = "unlinked"
         /\ inode' = [inode EXCEPT ![i].nlink = inode[i].nlink - 1, ![i].lock = None]
         /\ disk' = [disk EXCEPT ![i].nlink = disk[i].nlink - 1]
         /\ UNCHANGED <<cwd, file>> /\ l' \in [Proc -> Local]
         /\ Goes(p, "put", None, <<>>, 0, 0, i, "end")
<1>. DEFINE i == l[p].ip
<1>1. l[p].pc = "unlinked"
  BY DEF UnlinkInode
<1>2. i \in Inum /\ i \in Index /\ l \in [Proc -> Local] /\ TypeOK
  BY <1>1, Typed DEF IInv, TypeOK, ShapeOK, Shape, Cont, Putting, Paused, IpPoints
<1>4. /\ inode' = [inode EXCEPT ![i].nlink = inode[i].nlink - 1, ![i].lock = None]
      /\ disk' = [disk EXCEPT ![i].nlink = disk[i].nlink - 1]
      /\ PutLast(p, i) /\ UNCHANGED <<cwd, file>>
  BY <1>2 DEF UnlinkInode, TypeOK, Table, Disk
<1>. QED  BY <1>1, <1>2, <1>4, PutEnd

LEMMA UnlinkInodeInv ==
  ASSUME IInv, NEW p \in Proc, UnlinkInode(p)
  PROVE  IInv'
<1>. DEFINE i == l[p].ip
<1>1. /\ i \in Inum /\ l[p].pc = "unlinked"
      /\ inode' = [inode EXCEPT ![i].nlink = inode[i].nlink - 1, ![i].lock = None]
      /\ disk' = [disk EXCEPT ![i].nlink = disk[i].nlink - 1]
      /\ UNCHANGED <<cwd, file>> /\ l' \in [Proc -> Local]
  BY UnlinkInodeDoes
<1>2. TypeOK /\ Shape(p) /\ Apart(p)
  BY DEF IInv, ShapeOK
<1>3. Cont(p) = "unlinked" /\ Putting(p) = FALSE
  BY <1>1, <1>2 DEF Cont, Putting, Paused, Shape
<1>4. \A j \in Inum : Holds(p, j) <=> j = i
  BY <1>1, <1>2, <1>3 DEF Holds, HoldsAt, HoldsIp, HoldsPut
<1>5. \A j \in Inum : inode[j].lock = p <=> Holds(p, j)
  BY DEF IInv, LockOK
<1>6. inode' \in Table /\ \A j \in Inum : inode'[j].ref = inode[j].ref /\ inode'[j].lock = (IF j = i THEN None ELSE inode[j].lock)
  <2>. DEFINE T == [inode EXCEPT ![i].nlink = inode[i].nlink - 1]
  <2>1. inode \in Table /\ i \in Inum
    BY <1>1, <1>2 DEF TypeOK
  <2>2. inode' = [T EXCEPT ![i].lock = None]
    BY <1>1, <2>1 DEF Table
  <2>3. T \in Table /\ \A j \in Inum : T[j].ref = inode[j].ref /\ T[j].lock = inode[j].lock
    <3>. HIDE DEF i
    <3>. QED  BY <2>1 DEF Table
  <2>. HIDE DEF T, i
  <2>. QED  BY <2>1, <2>2, <2>3 DEF Table
<1>7. disk[i].nlink - 1 \in Int
  BY <1>1, <1>2 DEF TypeOK, Disk
<1>8. \A j \in Inum : Own(p, j) = One(cwd[p] = j) + One(file[p] = j) + One(l[p].ip = j)
  BY SMTT(30), <1>1, <1>2, <1>3, Typed DEF Own, One, Shape, AtPoints, IpPoints
<1>9. \A j \in Inum : inode[j].ref \in Int
  BY <1>2 DEF TypeOK, Table
<1>10. CASE /\ Goes(p, "put", None, <<>>, 0, 0, i, "end")
  <2>1. /\ TypeOK'
        /\ \A j \in Inum : inode'[j].ref = inode[j].ref /\ inode'[j].lock = (IF j = i THEN None ELSE inode[j].lock)
    <3>1. inode \in Table /\ disk \in Disk
      BY <1>2 DEF TypeOK
    <3>2. inode' \in Table /\ \A j \in Inum : inode'[j].ref = inode[j].ref /\ inode'[j].lock = (IF j = i THEN None ELSE inode[j].lock)
      BY <1>6
    <3>3. disk' \in Disk
      BY <1>1, <1>10, <3>1, <1>7, DiskNlink
    <3>. QED  BY <1>1, <1>2, <1>10, <3>2, <3>3, Typed DEF TypeOK
  <2>2. Cont(p)' = "end" /\ Putting(p)' = TRUE
    BY <1>1, <1>2, <1>3, <1>10 DEF Goes, Cont, Putting, Paused, Points, Thens
  <2>3. Shape(p)'
    BY <1>1, <1>2, <1>3, <1>10, <2>2, Typed DEF Goes, Shape, OpOK, Op, AtPoints, IpPoints, NamePoints
  <2>4. Apart(p)' /\ \A j \in Inum : Holds(p, j)' <=> FALSE
    BY <1>1, <1>2, <1>3, <1>10, <2>2 DEF Goes, Apart, Holds, HoldsAt, HoldsIp, HoldsPut
  <2>5. \A j \in Inum : Own(p, j)' = One(cwd[p] = j) + One(file[p] = j) + One(i = j)
    BY <1>1, <1>2, <1>3, <1>10, Typed DEF Goes, Own, One, TypeOK, Shape, AtPoints, IpPoints
  <2>6. Counted(p)
    BY SMTT(30), <1>8, <1>9, <2>1, <2>5, OneInt DEF Counted
  <2>7. Locked(p)
    BY <1>1, <1>4, <1>5, <1>10, <2>1, <2>4 DEF Locked
  <2>. QED  BY SMTT(30), <1>1, <1>10, <2>1, <2>3, <2>4, <2>6, <2>7, ProcStep DEF Goes, TypeOK
<1>. QED  BY <1>10, UnlinkInodeDoes

LEMMA UnlockDpDoes ==
  ASSUME IInv, NEW p \in Proc, UnlockDp(p)
  PROVE  LET d == l[p].at IN
         /\ d \in Inum /\ l[p].pc = "unlockdp"
         /\ inode' = [inode EXCEPT ![d].lock = None]
         /\ UNCHANGED <<disk, cwd, file>> /\ l' \in [Proc -> Local]
         /\ Goes(p, "put", None, <<>>, 0, 0, d, "end")
<1>. DEFINE d == l[p].at
<1>1. /\ l[p].pc = "unlockdp" /\ inode' = [inode EXCEPT ![d].lock = None] /\ PutLast(p, d)
      /\ UNCHANGED <<disk, cwd, file>>
  BY DEF UnlockDp
<1>2. d \in Inum /\ d \in Index /\ l \in [Proc -> Local]
  BY <1>1, Typed DEF IInv, TypeOK, ShapeOK, Shape, Cont, Putting, Paused, AtPoints
<1>. QED  BY <1>1, <1>2, PutEnd

LEMMA UnlockDpInv ==
  ASSUME IInv, NEW p \in Proc, UnlockDp(p)
  PROVE  IInv'
<1>. DEFINE d == l[p].at
<1>1. /\ d \in Inum /\ l[p].pc = "unlockdp"
      /\ inode' = [inode EXCEPT ![d].lock = None]
      /\ UNCHANGED <<disk, cwd, file>> /\ l' \in [Proc -> Local]
  BY UnlockDpDoes
<1>2. TypeOK /\ Shape(p) /\ Apart(p)
  BY DEF IInv, ShapeOK
<1>3. Cont(p) = "unlockdp" /\ Putting(p) = FALSE
  BY <1>1, <1>2 DEF Cont, Putting, Paused, Shape
<1>4. \A j \in Inum : Holds(p, j) <=> j = d
  BY <1>1, <1>2, <1>3 DEF Holds, HoldsAt, HoldsIp, HoldsPut
<1>5. \A j \in Inum : inode[j].lock = p <=> Holds(p, j)
  BY DEF IInv, LockOK
<1>8. \A j \in Inum : Own(p, j) = One(cwd[p] = j) + One(file[p] = j) + One(l[p].at = j)
  BY <1>1, <1>2, <1>3, Typed DEF Own, One, Shape, AtPoints, IpPoints
<1>9. \A j \in Inum : inode[j].ref \in Int
  BY <1>2 DEF TypeOK, Table
<1>10. CASE /\ Goes(p, "put", None, <<>>, 0, 0, d, "end")
  <2>1. /\ TypeOK'
        /\ \A j \in Inum : inode'[j].ref = inode[j].ref /\ inode'[j].lock = (IF j = d THEN None ELSE inode[j].lock)
    <3>1. inode \in Table /\ disk \in Disk
      BY <1>2 DEF TypeOK
    <3>2. inode' \in Table /\ \A j \in Inum : inode'[j].ref = inode[j].ref /\ inode'[j].lock = (IF j = d THEN None ELSE inode[j].lock)
      BY <1>1, <1>10, <3>1 DEF Table
    <3>3. disk' \in Disk
      BY <1>1, <1>10, <3>1
    <3>. QED  BY <1>1, <1>2, <1>10, <3>2, <3>3, Typed DEF TypeOK
  <2>2. Cont(p)' = "end" /\ Putting(p)' = TRUE
    BY <1>1, <1>2, <1>3, <1>10 DEF Goes, Cont, Putting, Paused, Points, Thens
  <2>3. Shape(p)'
    BY <1>1, <1>2, <1>3, <1>10, <2>2, Typed DEF Goes, Shape, OpOK, Op, AtPoints, IpPoints, NamePoints
  <2>4. Apart(p)' /\ \A j \in Inum : Holds(p, j)' <=> FALSE
    BY <1>1, <1>2, <1>3, <1>10, <2>2 DEF Goes, Apart, Holds, HoldsAt, HoldsIp, HoldsPut
  <2>5. \A j \in Inum : Own(p, j)' = One(cwd[p] = j) + One(file[p] = j) + One(d = j)
    BY <1>1, <1>2, <1>3, <1>10, Typed DEF Goes, Own, One, TypeOK, Shape, AtPoints, IpPoints
  <2>6. Counted(p)
    BY <1>8, <1>9, <2>1, <2>5, OneInt DEF Counted
  <2>7. Locked(p)
    BY <1>1, <1>4, <1>5, <1>10, <2>1, <2>4 DEF Locked
  <2>. QED  BY <1>1, <1>10, <2>1, <2>3, <2>4, <2>6, <2>7, ProcStep DEF Goes, TypeOK
<1>. QED  BY <1>10, UnlockDpDoes

LEMMA CreateDoes ==
  ASSUME IInv, NEW p \in Proc, Create(p)
  PROVE  LET d == l[p].at
             e == Entry(p, d)
             T == [Loaded(d) EXCEPT ![d].lock = p] IN
         /\ d \in Inum /\ l[p].pc = "create" /\ inode[d].lock = None /\ l[p].names # <<>>
         /\ Loaded(d)[d].type # "none"
         /\ UNCHANGED <<cwd, file>> /\ l' \in [Proc -> Local]
         /\ \/ /\ e \in Inum /\ inode' = Iget(Loaded(d), e) /\ UNCHANGED disk
               /\ Goes(p, "put", l[p].call, l[p].names, e, l[p].ip, d, "existing")
            \/ \E i \in Free :
               /\ e = 0 /\ i \in Inum
               /\ disk' = [disk EXCEPT ![i] = [type |-> Type(p), nlink |-> 0, ent |-> Empty]]
               /\ inode' = Iget(T, i)
               /\ Goes(p, "init", l[p].call, l[p].names, l[p].at, i, l[p].put, l[p].then)
            \/ /\ inode' = Loaded(d) /\ UNCHANGED disk
               /\ Goes(p, "put", None, <<>>, 0, 0, d, "end")
<1>. DEFINE d == l[p].at
<1>1. l[p].pc = "create" /\ inode[d].lock = None /\ Loaded(d)[d].type # "none"
      /\ UNCHANGED <<cwd, file>>
  BY EntersAt DEF Create
<1>2. Cont(p) = l[p].pc /\ d # 0 /\ l[p].names # <<>>
  BY <1>1 DEF IInv, ShapeOK, Shape, Cont, Putting, Paused, AtPoints, IpPoints, NamePoints
<1>3. TypeOK /\ d \in Inum /\ d \in Index /\ l \in [Proc -> Local] /\ 0 \in Index
  BY <1>2, Typed DEF IInv, TypeOK
<1>. DEFINE e == Entry(p, d)
            T == [Loaded(d) EXCEPT ![d].lock = p]
<1>4. "existing" \in Thens /\ "init" \in Points \cup Paused
  BY DEF Thens, Points
<1>5. CASE /\ e # 0 /\ inode' = Iget(Loaded(d), e) /\ Put(p, d, "existing", [at |-> e]) /\ UNCHANGED disk
  <2>1. e \in Index /\ e \in Inum
    BY <1>2, <1>3, <1>5, Lookup, Typed
  <2>2. l' \in [Proc -> Local] /\ Goes(p, "put", l[p].call, l[p].names, e, l[p].ip, d, "existing")
    BY <1>3, <1>4, <1>5, <2>1, PutAt
  <2>. QED  BY <1>1, <1>2, <1>3, <1>5, <2>1, <2>2
<1>6. ASSUME NEW i \in Free, e = 0,
             disk' = [disk EXCEPT ![i] = [type |-> Type(p), nlink |-> 0, ent |-> Empty]],
             inode' = Iget(T, i), Step(p, [pc |-> "init", ip |-> i])
      PROVE  /\ i \in Inum /\ l' \in [Proc -> Local]
             /\ Goes(p, "init", l[p].call, l[p].names, d, i, l[p].put, l[p].then)
  <2>1. i \in Inum /\ i \in Index
    BY <1>3, Typed DEF Free
  <2>2. l' \in [Proc -> Local] /\ Goes(p, "init", l[p].call, l[p].names, l[p].at, i, l[p].put, l[p].then)
    BY <1>3, <1>4, <1>6, <2>1, StepIp
  <2>. QED  BY <2>1, <2>2
<1>7. CASE inode' = Loaded(d) /\ PutLast(p, d) /\ UNCHANGED disk
  BY <1>1, <1>2, <1>3, <1>7, PutEnd
<1>8. CASE \E i \in Free :
              /\ e = 0 /\ disk' = [disk EXCEPT ![i] = [type |-> Type(p), nlink |-> 0, ent |-> Empty]]
              /\ inode' = Iget(T, i) /\ Step(p, [pc |-> "init", ip |-> i])
  <2>1. PICK i \in Free :
              /\ e = 0 /\ disk' = [disk EXCEPT ![i] = [type |-> Type(p), nlink |-> 0, ent |-> Empty]]
              /\ inode' = Iget(T, i) /\ Step(p, [pc |-> "init", ip |-> i])
    BY <1>8
  <2>2. /\ i \in Inum /\ l' \in [Proc -> Local]
        /\ Goes(p, "init", l[p].call, l[p].names, d, i, l[p].put, l[p].then)
    <3>. HIDE DEF T, e, d
    <3>. QED  BY <1>6, <2>1
  <2>3. \E j \in Free :
          /\ e = 0 /\ j \in Inum
          /\ disk' = [disk EXCEPT ![j] = [type |-> Type(p), nlink |-> 0, ent |-> Empty]]
          /\ inode' = Iget(T, j)
          /\ Goes(p, "init", l[p].call, l[p].names, d, j, l[p].put, l[p].then)
    BY Zenon, <2>1, <2>2
  <2>. QED  BY Zenon, <1>1, <1>2, <1>3, <2>2, <2>3
<1>9. \/ e # 0 /\ inode' = Iget(Loaded(d), e) /\ Put(p, d, "existing", [at |-> e]) /\ UNCHANGED disk
      \/ \E i \in Free :
              /\ e = 0 /\ disk' = [disk EXCEPT ![i] = [type |-> Type(p), nlink |-> 0, ent |-> Empty]]
              /\ inode' = Iget(T, i) /\ Step(p, [pc |-> "init", ip |-> i])
      \/ inode' = Loaded(d) /\ PutLast(p, d) /\ UNCHANGED disk
  BY Zenon DEF Create
<1>. QED  BY Zenon, <1>5, <1>7, <1>8, <1>9

LEMMA CreateInv ==
  ASSUME IInv, NEW p \in Proc, Create(p)
  PROVE  IInv'
<1>. DEFINE d == l[p].at
            e == Entry(p, d)
            T == [Loaded(d) EXCEPT ![d].lock = p]
<1>1. /\ d \in Inum /\ l[p].pc = "create" /\ inode[d].lock = None /\ l[p].names # <<>>
      /\ Loaded(d)[d].type # "none"
      /\ UNCHANGED <<cwd, file>> /\ l' \in [Proc -> Local]
  BY CreateDoes
<1>2. TypeOK /\ Shape(p) /\ Apart(p)
  BY DEF IInv, ShapeOK
<1>3. Cont(p) = "create" /\ Putting(p) = FALSE
  BY <1>1, <1>2 DEF Cont, Putting, Paused, Shape
<1>4. \A j \in Inum : Holds(p, j) <=> FALSE
  BY <1>1, <1>2, <1>3 DEF Holds, HoldsAt, HoldsIp, HoldsPut
<1>5. \A j \in Inum : inode[j].lock = p <=> Holds(p, j)
  BY DEF IInv, LockOK
<1>6. /\ T \in Table
      /\ \A j \in Inum : T[j].ref = inode[j].ref /\ T[j].lock = IF j = d THEN p ELSE inode[j].lock
  <2>1. Loaded(d) \in Table
    BY <1>1, <1>2, LoadedIs
  <2>2. T \in Table /\ \A j \in Inum : T[j].ref = Loaded(d)[j].ref /\ T[j].lock = IF j = d THEN p ELSE Loaded(d)[j].lock
    BY <1>1, <2>1 DEF Table
  <2>. QED  BY <1>1, <1>2, <2>1, <2>2, LoadedIs
<1>7. ASSUME NEW i \in Inum, inode' = Iget(T, i)
      PROVE  /\ inode' \in Table
             /\ \A j \in Inum : /\ inode'[j].ref = (inode[j].ref + One(i = j))
                               /\ inode'[j].lock = (IF j = d THEN p ELSE inode[j].lock)
  <2>. HIDE DEF T
  <2>1. /\ Iget(T, i) \in Table
        /\ \A j \in Inum : Iget(T, i)[j].ref = (T[j].ref + One(i = j)) /\ Iget(T, i)[j].lock = T[j].lock
    BY <1>6, IgetIs
  <2>. QED  BY <1>6, <1>7, <2>1
<1>81. Op(p) \in {"creat", "mkdir"}
  BY <1>2, <1>3 DEF Shape, OpOK
<1>8. \A j \in Inum : Own(p, j) = One(cwd[p] = j) + One(file[p] = j) + One(l[p].at = j)
  BY <1>1, <1>2, <1>3, Typed DEF Own, One, Shape, AtPoints, IpPoints
<1>9. \A j \in Inum : inode[j].ref \in Int
  BY <1>2 DEF TypeOK, Table
<1>10. CASE /\ e \in Inum /\ inode' = Iget(Loaded(d), e) /\ UNCHANGED disk
            /\ Goes(p, "put", l[p].call, l[p].names, e, l[p].ip, d, "existing")
  <2>1. /\ TypeOK'
        /\ \A j \in Inum : inode'[j].ref = (inode[j].ref + One(e = j)) /\ inode'[j].lock = inode[j].lock
    <3>1. inode \in Table /\ disk \in Disk
      BY <1>2 DEF TypeOK
    <3>2. inode' \in Table /\ \A j \in Inum : inode'[j].ref = (inode[j].ref + One(e = j)) /\ inode'[j].lock = inode[j].lock
      BY <1>1, <1>2, <1>10, <3>1, LoadGet
    <3>3. disk' \in Disk
      BY <1>1, <1>10, <3>1
    <3>. QED  BY <1>1, <1>2, <1>10, <3>2, <3>3, Typed DEF TypeOK
  <2>2. Cont(p)' = "existing" /\ Putting(p)' = TRUE
    BY <1>1, <1>2, <1>3, <1>10, <1>81 DEF Goes, Cont, Putting, Paused, Points, Thens
  <2>3. Shape(p)'
    BY <1>1, <1>2, <1>3, <1>10, <2>2, Typed, <1>81 DEF Goes, Shape, OpOK, Op, AtPoints, IpPoints, NamePoints
  <2>4. Apart(p)' /\ \A j \in Inum : Holds(p, j)' <=> FALSE
    BY <1>1, <1>2, <1>3, <1>10, <2>2, <1>81 DEF Goes, Apart, Holds, HoldsAt, HoldsIp, HoldsPut
  <2>5. \A j \in Inum : Own(p, j)' = One(cwd[p] = j) + One(file[p] = j) + One(e = j) + One(d = j)
    BY <1>1, <1>2, <1>3, <1>10, Typed DEF Goes, Own, One, TypeOK, Shape, AtPoints, IpPoints
  <2>6. Counted(p)
    BY <1>8, <1>9, <2>1, <2>5, OneInt DEF Counted
  <2>7. Locked(p)
    BY <1>1, <1>4, <1>5, <1>10, <2>1, <2>4, <1>81 DEF Locked
  <2>. QED  BY <1>1, <1>10, <2>1, <2>3, <2>4, <2>6, <2>7, ProcStep DEF Goes, TypeOK
<1>11. ASSUME NEW i \in Free, e = 0, i \in Inum,
              disk' = [disk EXCEPT ![i] = [type |-> Type(p), nlink |-> 0, ent |-> Empty]],
              inode' = Iget(T, i),
              Goes(p, "init", l[p].call, l[p].names, l[p].at, i, l[p].put, l[p].then)
       PROVE  IInv'
  <2>1. /\ TypeOK'
        /\ \A j \in Inum : inode'[j].ref = (inode[j].ref + One(i = j)) /\ inode'[j].lock = (IF j = d THEN p ELSE inode[j].lock)
    <3>1. inode \in Table /\ disk \in Disk
      BY <1>2 DEF TypeOK
    <3>2. inode' \in Table /\ \A j \in Inum : inode'[j].ref = (inode[j].ref + One(i = j)) /\ inode'[j].lock = (IF j = d THEN p ELSE inode[j].lock)
      BY <1>7, <1>11
    <3>3. disk' \in Disk
      BY <1>1, <1>11, <3>1, NewInode DEF Disk
    <3>. QED  BY <1>1, <1>2, <1>11, <3>2, <3>3, Typed DEF TypeOK
  <2>2. Cont(p)' = "init" /\ Putting(p)' = FALSE
    BY <1>1, <1>2, <1>3, <1>11, <1>81 DEF Goes, Cont, Putting, Paused, Points, Thens
  <2>3. Shape(p)'
    BY <1>1, <1>2, <1>3, <1>11, <2>2, Typed, <1>81 DEF Goes, Shape, OpOK, Op, AtPoints, IpPoints, NamePoints
  <2>4. Apart(p)' /\ \A j \in Inum : Holds(p, j)' <=> j = d
    BY <1>1, <1>2, <1>3, <1>11, <2>2, <1>81 DEF Goes, Apart, Holds, HoldsAt, HoldsIp, HoldsPut
  <2>5. \A j \in Inum : Own(p, j)' = One(cwd[p] = j) + One(file[p] = j) + One(l[p].at = j) + One(i = j)
    BY <1>1, <1>2, <1>3, <1>11, Typed DEF Goes, Own, One, TypeOK, Shape, AtPoints, IpPoints
  <2>6. Counted(p)
    BY <1>8, <1>9, <2>1, <2>5, OneInt DEF Counted
  <2>7. Locked(p)
    BY <1>1, <1>4, <1>5, <1>11, <2>1, <2>4, <1>81 DEF Locked
  <2>. QED  BY <1>1, <1>11, <2>1, <2>3, <2>4, <2>6, <2>7, ProcStep DEF Goes, TypeOK
<1>12. CASE /\ inode' = Loaded(d) /\ UNCHANGED disk
            /\ Goes(p, "put", None, <<>>, 0, 0, d, "end")
  <2>1. /\ TypeOK'
        /\ \A j \in Inum : inode'[j].ref = inode[j].ref /\ inode'[j].lock = inode[j].lock
    <3>1. inode \in Table /\ disk \in Disk
      BY <1>2 DEF TypeOK
    <3>2. inode' \in Table /\ \A j \in Inum : inode'[j].ref = inode[j].ref /\ inode'[j].lock = inode[j].lock
      BY <1>1, <1>2, <1>12, <3>1, LoadedIs
    <3>3. disk' \in Disk
      BY <1>1, <1>12, <3>1
    <3>. QED  BY <1>1, <1>2, <1>12, <3>2, <3>3, Typed DEF TypeOK
  <2>2. Cont(p)' = "end" /\ Putting(p)' = TRUE
    BY <1>1, <1>2, <1>3, <1>12, <1>81 DEF Goes, Cont, Putting, Paused, Points, Thens
  <2>3. Shape(p)'
    BY <1>1, <1>2, <1>3, <1>12, <2>2, Typed, <1>81 DEF Goes, Shape, OpOK, Op, AtPoints, IpPoints, NamePoints
  <2>4. Apart(p)' /\ \A j \in Inum : Holds(p, j)' <=> FALSE
    BY <1>1, <1>2, <1>3, <1>12, <2>2, <1>81 DEF Goes, Apart, Holds, HoldsAt, HoldsIp, HoldsPut
  <2>5. \A j \in Inum : Own(p, j)' = One(cwd[p] = j) + One(file[p] = j) + One(d = j)
    BY <1>1, <1>2, <1>3, <1>12, Typed DEF Goes, Own, One, TypeOK, Shape, AtPoints, IpPoints
  <2>6. Counted(p)
    BY <1>8, <1>9, <2>1, <2>5, OneInt DEF Counted
  <2>7. Locked(p)
    BY SMTT(30), <1>1, <1>4, <1>5, <1>12, <2>1, <2>4, <1>81 DEF Locked
  <2>. QED  BY <1>1, <1>12, <2>1, <2>3, <2>4, <2>6, <2>7, ProcStep DEF Goes, TypeOK
<1>. QED  BY <1>10, <1>11, <1>12, CreateDoes

LEMMA CreateInitDoes ==
  ASSUME IInv, NEW p \in Proc, CreateInit(p)
  PROVE  LET d == l[p].at
             i == l[p].ip
             dir == Type(p) = "DIR"
             more == IF dir THEN 1 ELSE 0 IN
         /\ d \in Inum /\ i \in Inum /\ i # d /\ l[p].pc = "init" /\ inode[i].lock = None /\ inode[d].lock = p
         /\ Loaded(i)[i].type # "none" /\ l[p].names # <<>> /\ Head(l[p].names) \in Elements
         /\ UNCHANGED <<cwd, file>> /\ l' \in [Proc -> Local]
         /\ \/ /\ disk' = Made(i, d, Head(l[p].names), IF dir THEN d ELSE 0, more)
               /\ inode' = Linked(Loaded(i), i, d, p, more)
               /\ Goes(p, "put", l[p].call, l[p].names, 0, l[p].ip, d, "created")
            \/ /\ inode' = Loaded(i) /\ UNCHANGED disk
               /\ Goes(p, "put", l[p].call, l[p].names, l[p].at, 0, i, "unlockdp")
<1>. DEFINE d == l[p].at
            i == l[p].ip
<1>1. l[p].pc = "init" /\ inode[i].lock = None /\ Loaded(i)[i].type # "none"
  BY Zenon, EntersIp DEF CreateInit
<1>2. TypeOK /\ Shape(p) /\ Cont(p) = "init"
  BY <1>1 DEF IInv, ShapeOK, Cont, Putting, Paused
<1>3. d \in Inum /\ i \in Inum /\ d \in Index /\ i \in Index /\ l[p].names # <<>>
  BY <1>2, Typed DEF Shape, AtPoints, IpPoints, NamePoints
<1>4. Head(l[p].names) \in Elements /\ l \in [Proc -> Local] /\ 0 \in Index
  BY <1>2, <1>3, Lookup, Typed DEF TypeOK
<1>5. inode[d].lock = p /\ i # d
  <2>1. Holds(p, d)
    BY SMTT(30), <1>2 DEF Holds, HoldsAt
  <2>2. inode[d].lock = p
    BY <1>3, <2>1 DEF IInv, LockOK
  <2>. QED  BY <1>1, <2>2, InodesAssumption
<1>6. "unlockdp" \in Thens /\ "unlinked" \in Thens /\ "created" \in Thens
  BY DEF Thens
<1>. DEFINE dir == Type(p) = "DIR"
            more == IF dir THEN 1 ELSE 0
<1>7. UNCHANGED <<cwd, file>>
  BY Zenon DEF CreateInit
<1>8. CASE inode' = Loaded(i) /\ Put(p, i, "unlockdp", [ip |-> 0]) /\ UNCHANGED disk
  BY <1>1, <1>3, <1>4, <1>5, <1>6, <1>7, <1>8, PutHeld
<1>9. CASE /\ disk' = Made(i, d, Head(l[p].names), IF dir THEN d ELSE 0, more)
           /\ inode' = Linked(Loaded(i), i, d, p, more)
           /\ Put(p, d, "created", [at |-> 0])
  BY <1>1, <1>3, <1>4, <1>5, <1>6, <1>7, <1>9, PutAt
<1>. QED  BY Zenon, <1>8, <1>9 DEF CreateInit, Linked, Made

LEMMA CreateInitInv ==
  ASSUME IInv, NEW p \in Proc, CreateInit(p)
  PROVE  IInv'
<1>. DEFINE d == l[p].at
            i == l[p].ip
            dir == Type(p) = "DIR"
            more == IF dir THEN 1 ELSE 0
<1>1. /\ d \in Inum /\ i \in Inum /\ i # d /\ l[p].pc = "init" /\ inode[i].lock = None /\ inode[d].lock = p
      /\ Loaded(i)[i].type # "none" /\ l[p].names # <<>> /\ Head(l[p].names) \in Elements
      /\ UNCHANGED <<cwd, file>> /\ l' \in [Proc -> Local]
  BY CreateInitDoes
<1>2. TypeOK /\ Shape(p) /\ Apart(p)
  BY DEF IInv, ShapeOK
<1>3. Cont(p) = "init" /\ Putting(p) = FALSE
  BY <1>1, <1>2 DEF Cont, Putting, Paused, Shape
<1>4. \A j \in Inum : Holds(p, j) <=> j = d
  BY <1>1, <1>2, <1>3 DEF Holds, HoldsAt, HoldsIp, HoldsPut
<1>5. \A j \in Inum : inode[j].lock = p <=> Holds(p, j)
  BY DEF IInv, LockOK
<1>6. Op(p) \in {"creat", "mkdir"}
  BY <1>2, <1>3 DEF Shape, OpOK
<1>7. (IF dir THEN d ELSE 0) \in Index
  BY <1>1, <1>2, Typed
<1>77. inode' = Linked(Loaded(i), i, d, p, more) =>
        /\ inode' \in Table
        /\ \A j \in Inum : /\ inode'[j].ref = inode[j].ref
                           /\ inode'[j].lock = (IF j = i THEN p ELSE IF j = d THEN None ELSE inode[j].lock)
  <2>1. more \in {0, 1}
    OBVIOUS
  <2>. HIDE DEF more, i, d
  <2>. QED  BY <1>1, <1>2, <2>1, CreateTable
<1>8. \A j \in Inum : Own(p, j) = One(cwd[p] = j) + One(file[p] = j) + One(l[p].at = j) + One(l[p].ip = j)
  BY <1>1, <1>2, <1>3, Typed DEF Own, One, Shape, AtPoints, IpPoints
<1>9. \A j \in Inum : inode[j].ref \in Int
  BY <1>2 DEF TypeOK, Table
<1>10. CASE /\ disk' = Made(i, d, Head(l[p].names), IF dir THEN d ELSE 0, more)
            /\ inode' = Linked(Loaded(i), i, d, p, more)
            /\ Goes(p, "put", l[p].call, l[p].names, 0, l[p].ip, d, "created")
  <2>1. /\ TypeOK'
        /\ \A j \in Inum : inode'[j].ref = inode[j].ref /\ inode'[j].lock = (IF j = i THEN p ELSE IF j = d THEN None ELSE inode[j].lock)
    <3>1. inode \in Table /\ disk \in Disk
      BY <1>2 DEF TypeOK
    <3>2. inode' \in Table /\ \A j \in Inum : inode'[j].ref = inode[j].ref /\ inode'[j].lock = (IF j = i THEN p ELSE IF j = d THEN None ELSE inode[j].lock)
      BY SMTT(30), <1>77, <1>10
    <3>3. disk' \in Disk
      BY <1>1, <1>10, <3>1, <1>7, CreateDisk DEF IsMade
    <3>. QED  BY <1>1, <1>2, <1>10, <3>2, <3>3, Typed DEF TypeOK
  <2>2. Cont(p)' = "created" /\ Putting(p)' = TRUE
    BY <1>1, <1>2, <1>3, <1>10, <1>6 DEF Goes, Cont, Putting, Paused, Points, Thens
  <2>3. Shape(p)'
    BY <1>1, <1>2, <1>3, <1>10, <2>2, Typed, <1>6 DEF Goes, Shape, OpOK, Op, AtPoints, IpPoints, NamePoints
  <2>4. Apart(p)' /\ \A j \in Inum : Holds(p, j)' <=> j = i
    BY <1>1, <1>2, <1>3, <1>10, <2>2, <1>6 DEF Goes, Apart, Holds, HoldsAt, HoldsIp, HoldsPut
  <2>9. Goes(p, "put", l[p].call, l[p].names, 0, l[p].ip, d, "created")
    BY <1>10
  <2>5. \A j \in Inum : Own(p, j)' = One(cwd[p] = j) + One(file[p] = j) + One(l[p].ip = j) + One(d = j)
    BY <1>1, <1>2, <1>3, <2>9, Typed DEF Goes, Own, One, TypeOK, Shape, AtPoints, IpPoints
  <2>6. Counted(p)
    BY <1>8, <1>9, <2>1, <2>5, OneInt DEF Counted
  <2>7. Locked(p)
    BY <1>1, <1>4, <1>5, <1>10, <2>1, <2>4, <1>6 DEF Locked
  <2>. QED  BY <1>1, <1>10, <2>1, <2>3, <2>4, <2>6, <2>7, ProcStep DEF Goes, TypeOK
<1>11. CASE /\ inode' = Loaded(i) /\ UNCHANGED disk
            /\ Goes(p, "put", l[p].call, l[p].names, l[p].at, 0, i, "unlockdp")
  <2>1. /\ TypeOK'
        /\ \A j \in Inum : inode'[j].ref = inode[j].ref /\ inode'[j].lock = inode[j].lock
    <3>1. inode \in Table /\ disk \in Disk
      BY <1>2 DEF TypeOK
    <3>2. inode' \in Table /\ \A j \in Inum : inode'[j].ref = inode[j].ref /\ inode'[j].lock = inode[j].lock
      BY <1>1, <1>2, <1>11, <3>1, LoadedIs
    <3>3. disk' \in Disk
      BY <1>1, <1>11, <3>1
    <3>. QED  BY <1>1, <1>2, <1>11, <3>2, <3>3, Typed DEF TypeOK
  <2>2. Cont(p)' = "unlockdp" /\ Putting(p)' = TRUE
    BY <1>1, <1>2, <1>3, <1>11, <1>6 DEF Goes, Cont, Putting, Paused, Points, Thens
  <2>3. Shape(p)'
    BY <1>1, <1>2, <1>3, <1>11, <2>2, Typed, <1>6 DEF Goes, Shape, OpOK, Op, AtPoints, IpPoints, NamePoints
  <2>4. Apart(p)' /\ \A j \in Inum : Holds(p, j)' <=> j = d
    BY <1>1, <1>2, <1>3, <1>11, <2>2, <1>6 DEF Goes, Apart, Holds, HoldsAt, HoldsIp, HoldsPut
  <2>5. \A j \in Inum : Own(p, j)' = One(cwd[p] = j) + One(file[p] = j) + One(l[p].at = j) + One(i = j)
    BY <1>1, <1>2, <1>3, <1>11, Typed DEF Goes, Own, One, TypeOK, Shape, AtPoints, IpPoints
  <2>6. Counted(p)
    BY <1>8, <1>9, <2>1, <2>5, OneInt DEF Counted
  <2>7. Locked(p)
    BY <1>1, <1>4, <1>5, <1>11, <2>1, <2>4, <1>6 DEF Locked
  <2>. QED  BY <1>1, <1>11, <2>1, <2>3, <2>4, <2>6, <2>7, ProcStep DEF Goes, TypeOK
<1>. QED  BY <1>10, <1>11, CreateInitDoes

LEMMA CreatedDoes ==
  ASSUME IInv, NEW p \in Proc, Created(p)
  PROVE  LET i == l[p].ip IN
         /\ i \in Inum /\ l[p].pc = "created"
         /\ inode' = [inode EXCEPT ![i].lock = None] /\ UNCHANGED <<disk, cwd>> /\ l' \in [Proc -> Local]
         /\ \/ /\ file[p] = 0 /\ file' = [file EXCEPT ![p] = i]
               /\ Goes(p, "idle", None, <<>>, 0, 0, 0, "end")
            \/ /\ UNCHANGED file
               /\ Goes(p, "put", None, <<>>, 0, 0, i, "end")
<1>. DEFINE i == l[p].ip
<1>1. l[p].pc = "created" /\ inode' = [inode EXCEPT ![i].lock = None] /\ UNCHANGED <<disk, cwd>>
  BY DEF Created
<1>2. i \in Inum /\ i \in Index /\ l \in [Proc -> Local]
  BY <1>1, Typed DEF IInv, TypeOK, ShapeOK, Shape, Cont, Putting, Paused, IpPoints
<1>3. CASE file[p] = 0 /\ file' = [file EXCEPT ![p] = i] /\ Ends(p)
  BY <1>1, <1>2, <1>3, EndIs
<1>4. CASE PutLast(p, i) /\ UNCHANGED file
  BY <1>1, <1>2, <1>4, PutEnd
<1>. QED  BY <1>3, <1>4 DEF Created

LEMMA CreatedInv ==
  ASSUME IInv, NEW p \in Proc, Created(p)
  PROVE  IInv'
<1>. DEFINE i == l[p].ip
<1>1. /\ i \in Inum /\ l[p].pc = "created"
      /\ inode' = [inode EXCEPT ![i].lock = None] /\ UNCHANGED <<disk, cwd>> /\ l' \in [Proc -> Local]
  BY CreatedDoes
<1>2. TypeOK /\ Shape(p) /\ Apart(p)
  BY DEF IInv, ShapeOK
<1>3. Cont(p) = "created" /\ Putting(p) = FALSE
  BY <1>1, <1>2 DEF Cont, Putting, Paused, Shape
<1>4. \A j \in Inum : Holds(p, j) <=> j = i
  BY <1>1, <1>2, <1>3 DEF Holds, HoldsAt, HoldsIp, HoldsPut
<1>5. \A j \in Inum : inode[j].lock = p <=> Holds(p, j)
  BY DEF IInv, LockOK
<1>8. \A j \in Inum : Own(p, j) = One(cwd[p] = j) + One(file[p] = j) + One(l[p].ip = j)
  BY <1>1, <1>2, <1>3, Typed DEF Own, One, Shape, AtPoints, IpPoints
<1>9. \A j \in Inum : inode[j].ref \in Int
  BY <1>2 DEF TypeOK, Table
<1>10. CASE /\ file[p] = 0 /\ file' = [file EXCEPT ![p] = i]
            /\ Goes(p, "idle", None, <<>>, 0, 0, 0, "end")
  <2>1. /\ TypeOK'
        /\ \A j \in Inum : inode'[j].ref = inode[j].ref /\ inode'[j].lock = (IF j = i THEN None ELSE inode[j].lock)
    <3>1. inode \in Table /\ disk \in Disk
      BY <1>2 DEF TypeOK
    <3>2. inode' \in Table /\ \A j \in Inum : inode'[j].ref = inode[j].ref /\ inode'[j].lock = (IF j = i THEN None ELSE inode[j].lock)
      BY <1>1, <1>10, <3>1 DEF Table
    <3>3. disk' \in Disk
      BY <1>1, <1>10, <3>1
    <3>. QED  BY <1>1, <1>2, <1>10, <3>2, <3>3, Typed DEF TypeOK
  <2>2. Cont(p)' = "idle" /\ Putting(p)' = FALSE
    BY <1>1, <1>2, <1>3, <1>10 DEF Goes, Cont, Putting, Paused, Points, Thens
  <2>3. Shape(p)'
    BY <1>1, <1>2, <1>3, <1>10, <2>2, Typed DEF Goes, Shape, OpOK, Op, AtPoints, IpPoints, NamePoints
  <2>4. Apart(p)' /\ \A j \in Inum : Holds(p, j)' <=> FALSE
    BY <1>1, <1>2, <1>3, <1>10, <2>2 DEF Goes, Apart, Holds, HoldsAt, HoldsIp, HoldsPut
  <2>5. \A j \in Inum : Own(p, j)' = One(cwd[p] = j) + One(i = j)
                                 /\ One(file[p] = j) = 0
    BY <1>1, <1>2, <1>3, <1>10, Typed DEF Goes, Own, One, TypeOK, Shape, AtPoints, IpPoints
  <2>6. Counted(p)
    BY <1>8, <1>9, <2>1, <2>5, OneInt DEF Counted
  <2>7. Locked(p)
    BY <1>1, <1>4, <1>5, <1>10, <2>1, <2>4 DEF Locked
  <2>. QED  BY <1>1, <1>10, <2>1, <2>3, <2>4, <2>6, <2>7, ProcStep DEF Goes, TypeOK
<1>11. CASE /\ UNCHANGED file
            /\ Goes(p, "put", None, <<>>, 0, 0, i, "end")
  <2>1. /\ TypeOK'
        /\ \A j \in Inum : inode'[j].ref = inode[j].ref /\ inode'[j].lock = (IF j = i THEN None ELSE inode[j].lock)
    <3>1. inode \in Table /\ disk \in Disk
      BY <1>2 DEF TypeOK
    <3>2. inode' \in Table /\ \A j \in Inum : inode'[j].ref = inode[j].ref /\ inode'[j].lock = (IF j = i THEN None ELSE inode[j].lock)
      BY <1>1, <1>11, <3>1 DEF Table
    <3>3. disk' \in Disk
      BY <1>1, <1>11, <3>1
    <3>. QED  BY <1>1, <1>2, <1>11, <3>2, <3>3, Typed DEF TypeOK
  <2>2. Cont(p)' = "end" /\ Putting(p)' = TRUE
    BY <1>1, <1>2, <1>3, <1>11 DEF Goes, Cont, Putting, Paused, Points, Thens
  <2>3. Shape(p)'
    BY <1>1, <1>2, <1>3, <1>11, <2>2, Typed DEF Goes, Shape, OpOK, Op, AtPoints, IpPoints, NamePoints
  <2>4. Apart(p)' /\ \A j \in Inum : Holds(p, j)' <=> FALSE
    BY <1>1, <1>2, <1>3, <1>11, <2>2 DEF Goes, Apart, Holds, HoldsAt, HoldsIp, HoldsPut
  <2>5. \A j \in Inum : Own(p, j)' = One(cwd[p] = j) + One(file[p] = j) + One(i = j)
    BY <1>1, <1>2, <1>3, <1>11, Typed DEF Goes, Own, One, TypeOK, Shape, AtPoints, IpPoints
  <2>6. Counted(p)
    BY <1>8, <1>9, <2>1, <2>5, OneInt DEF Counted
  <2>7. Locked(p)
    BY <1>1, <1>4, <1>5, <1>11, <2>1, <2>4 DEF Locked
  <2>. QED  BY <1>1, <1>11, <2>1, <2>3, <2>4, <2>6, <2>7, ProcStep DEF Goes, TypeOK
<1>. QED  BY <1>10, <1>11, CreatedDoes

-----------------------------------------------------------------------------
(* References are exact, and iput() never blocks *)

Boots ==
  /\ inode = Booted
  /\ cwd = [p \in Proc |-> Root] /\ file = [p \in Proc |-> 0]
  /\ l = [p \in Proc |-> Idle]

LEMMA BootInv == disk \in Disk /\ Boots => IInv
<1>. SUFFICES ASSUME disk \in Disk, Boots PROVE IInv
  OBVIOUS
<1>1. Root \in Inum /\ 0 \in Index /\ 0 \notin Inum /\ None \notin Proc /\ IsFiniteSet(Proc)
  BY InodesAssumption DEF Root, Inum, Index
<1>2. Cardinality(Proc) \in Nat
  BY <1>1, FS_CardinalityType
<1>3. inode \in Table
  BY <1>2 DEF Boots, Booted, Table, Kinds
<1>4. TypeOK
  BY <1>1, <1>3, IdleIs DEF TypeOK, Boots
<1>5. /\ Idle.pc = "idle" /\ Idle.put = 0 /\ Idle.then = "end" /\ Idle.call = None /\ Idle.ip = 0
      /\ Idle.at = 0 /\ Idle.names = <<>>
  BY DEF Idle
<1>6. \A p \in Proc : l[p] = Idle /\ ~Putting(p) /\ Cont(p) = "idle"
  BY <1>5 DEF Boots, Putting, Paused, Cont
<1>7. ShapeOK
  BY <1>5, <1>6 DEF ShapeOK, Shape, Apart, HoldsPut, AtPoints, IpPoints, NamePoints
<1>8. LockOK
  <2>1. \A p \in Proc, i \in Inum : ~Holds(p, i)
    BY <1>5, <1>6 DEF Holds, HoldsAt, HoldsIp, HoldsPut
  <2>2. \A i \in Inum : inode[i].lock = None
    BY DEF Boots, Booted
  <2>. QED  BY <1>1, <2>1, <2>2 DEF LockOK
<1>9. RefsExact
  <2>1. ASSUME NEW i \in Inum PROVE inode[i].ref = Refs(i)
    <3>1. {q \in Proc : cwd[q] = i} = IF i = Root THEN Proc ELSE {}
      BY DEF Boots
    <3>2. /\ {q \in Proc : file[q] = i} = {} /\ {q \in Proc : l[q].at = i} = {}
          /\ {q \in Proc : l[q].ip = i} = {} /\ {q \in Proc : l[q].put = i} = {}
      BY <1>1, <1>5, <1>6 DEF Boots
    <3>3. inode[i].ref = IF i = Root THEN Cardinality(Proc) ELSE 0
      BY DEF Boots, Booted
    <3>4. Cardinality({}) = 0
      BY FS_EmptySet
    <3>5. Refs(i) = Cardinality(IF i = Root THEN Proc ELSE {}) + 0 + 0 + 0 + 0
      BY <3>1, <3>2, <3>4 DEF Refs
    <3>. QED  BY <1>2, <3>3, <3>4, <3>5
  <2>. QED  BY <2>1, RefsAre
<1>. QED  BY <1>4, <1>7, <1>8, <1>9 DEF IInv

LEMMA InitInv == Init => IInv
<1>. SUFFICES ASSUME Init PROVE IInv
  OBVIOUS
<1>1. Root \in Index /\ 0 \in Index
  BY InodesAssumption DEF Root, Inum, Index
<1>2. /\ Empty \in [Elements -> Index]
      /\ [Empty EXCEPT ![".."] = Root] \in [Elements -> Index]
  BY <1>1 DEF Empty, Elements
<1>3. disk \in Disk
  BY <1>2 DEF Init, Disk, Kinds
<1>4. Boots
  BY DEF Init, Boots
<1>. QED  BY <1>3, <1>4, BootInv

LEMMA CrashInv ==
  ASSUME IInv, Crash
  PROVE  IInv'
<1>1. (disk \in Disk)' /\ Boots'
  BY DEF IInv, TypeOK, Crash, Boots
<1>2. (disk \in Disk /\ Boots => IInv)'
  BY BootInv, PTL
<1>. QED  BY <1>1, <1>2

LEMMA StutterInv ==
  ASSUME IInv, UNCHANGED vars
  PROVE  IInv'
<1>1. disk' = disk /\ inode' = inode /\ cwd' = cwd /\ file' = file /\ l' = l
  BY DEF vars
<1>2. TypeOK'
  BY <1>1 DEF IInv, TypeOK
<1>3. ShapeOK'
  BY <1>1 DEF IInv, ShapeOK, Shape, Apart, OpOK, Op, Cont, Putting, HoldsAt, HoldsIp, HoldsPut
<1>4. LockOK'
  BY <1>1 DEF IInv, LockOK, Holds, Cont, Putting, HoldsAt, HoldsIp, HoldsPut
<1>5. RefsExact'
  BY <1>1 DEF IInv, RefsExact
<1>. QED  BY <1>2, <1>3, <1>4, <1>5 DEF IInv

LEMMA StepInv == IInv /\ [Next]_vars => IInv'
<1>. SUFFICES ASSUME IInv, [Next]_vars PROVE IInv'
  OBVIOUS
<1>1. CASE UNCHANGED vars
  BY <1>1, StutterInv
<1>2. CASE Crash
  BY <1>2, CrashInv
<1>3. ASSUME NEW p \in Proc, NEW c \in Calls, Begin(p, c) PROVE IInv'
  BY <1>3, BeginInv
<1>4. ASSUME NEW p \in Proc, Walk(p) \/ WalkEnds(p) PROVE IInv'
  BY <1>4, WalkInv, WalkEndsInv
<1>5. ASSUME NEW p \in Proc, PutDrops(p) \/ PutLocks(p) \/ PutFrees(p) \/ PutUnlocks(p) PROVE IInv'
  BY <1>5, PutDropsInv, PutLocksInv, PutFreesInv, PutUnlocksInv
<1>6. ASSUME NEW p \in Proc, Open(p) \/ Chdir(p) \/ Close(p) PROVE IInv'
  BY <1>6, OpenInv, ChdirInv, CloseInv
<1>7. ASSUME NEW p \in Proc, Link(p) \/ LinkTo(p) \/ PutIp(p) \/ LinkBad(p) PROVE IInv'
  BY <1>7, LinkInv, LinkToInv, PutIpInv, LinkBadInv
<1>8. ASSUME NEW p \in Proc, Unlink(p) \/ UnlinkEntry(p) \/ UnlinkInode(p) \/ UnlockDp(p) PROVE IInv'
  BY <1>8, UnlinkInv, UnlinkEntryInv, UnlinkInodeInv, UnlockDpInv
<1>9. ASSUME NEW p \in Proc, Create(p) \/ CreateInit(p) \/ Created(p) PROVE IInv'
  BY <1>9, CreateInv, CreateInitInv, CreatedInv
<1>. QED  BY <1>1, <1>2, <1>3, <1>4, <1>5, <1>6, <1>7, <1>8, <1>9 DEF Next

\* Types, the local variables in use at each point of a call, the holders of the
\* sleep-locks and the references are as the code means them, through every
\* interleaving, error path and crash.
THEOREM Inductive == Spec => []IInv
<1>. QED  BY InitInv, StepInv, PTL DEF Spec

\* ip->ref is the number of pointers to the entry, in current directories, open
\* files and calls under way (fs.c:132-137), whatever fails in them.
THEOREM ReferencesExact == Spec => []RefsExact
<1>1. IInv => RefsExact
  BY DEF IInv
<1>. QED  BY Inductive, <1>1, PTL

\* Whoever has the only reference to an inode has it alone.
LEMMA Alone ==
  ASSUME IInv, NEW p \in Proc, NEW i \in Inum, inode[i].ref = 1, l[p].put = i
  PROVE  \A q \in Proc : /\ cwd[q] # i /\ file[q] # i /\ l[q].at # i /\ l[q].ip # i
                         /\ q # p => l[q].put # i
<1>. DEFINE C == {q \in Proc : cwd[q] = i}
            F == {q \in Proc : file[q] = i}
            A == {q \in Proc : l[q].at = i}
            I == {q \in Proc : l[q].ip = i}
            P == {q \in Proc : l[q].put = i}
<1>1. Cardinality(C) + Cardinality(F) + Cardinality(A) + Cardinality(I) + Cardinality(P) = 1
  BY DEF IInv, RefsExact
<1>2. p \in P /\ (\A q \in Proc : q \in P <=> l[q].put = i)
  OBVIOUS
<1>3. IsFiniteSet(C) /\ IsFiniteSet(F) /\ IsFiniteSet(A) /\ IsFiniteSet(I) /\ IsFiniteSet(P)
  BY FinitelyMany
<1>4. \A q \in Proc : /\ q \in C <=> cwd[q] = i
                      /\ q \in F <=> file[q] = i
                      /\ q \in A <=> l[q].at = i
                      /\ q \in I <=> l[q].ip = i
  OBVIOUS
<1>. HIDE DEF C, F, A, I, P
<1>5. /\ Cardinality(C) \in Nat /\ Cardinality(F) \in Nat /\ Cardinality(A) \in Nat
      /\ Cardinality(I) \in Nat /\ Cardinality(P) \in Nat
  BY <1>3, FS_CardinalityType
<1>6. Cardinality(P) # 0
  BY <1>2, <1>3, FS_EmptySet
<1>7. Cardinality(C) = 0 /\ Cardinality(F) = 0 /\ Cardinality(A) = 0 /\ Cardinality(I) = 0 /\ Cardinality(P) = 1
  BY <1>1, <1>5, <1>6
<1>8. C = {} /\ F = {} /\ A = {} /\ I = {}
  BY <1>3, <1>7, FS_EmptySet
<1>9. \E x : P = {x}
  BY <1>3, <1>7, FS_Singleton
<1>. QED  BY <1>2, <1>4, <1>8, <1>9

\* iput() of the last reference finds the sleep-lock free, so that it does not
\* sleep with itable.lock held (fs.c:343-345).
THEOREM IputDoesNotBlock == Spec => []IputNeverBlocks
<1>1. ASSUME IInv, NEW p \in Proc, l[p].pc = "put", LastRef(l[p].put)
      PROVE  CanLock(l[p].put)
  <2>. DEFINE i == l[p].put
  <2>1. i \in Inum
    BY <1>1, Typed DEF IInv, ShapeOK, Shape, Putting, Paused
  <2>2. inode[i].ref = 1
    BY <1>1 DEF LastRef
  <2>3. ASSUME NEW q \in Proc, inode[i].lock = q PROVE FALSE
    <3>1. Holds(q, i)
      BY <1>1, <2>1, <2>3 DEF IInv, LockOK
    <3>2. l[q].at # i /\ l[q].ip # i /\ (q # p => l[q].put # i)
      BY <1>1, <2>1, <2>2, Alone
    <3>3. HoldsPut(q) /\ q = p
      BY <3>1, <3>2 DEF Holds
    <3>. QED  BY <1>1, <3>3 DEF HoldsPut
  <2>4. inode[i].lock \in Proc \cup {None}
    BY <1>1, <2>1 DEF IInv, TypeOK, Table
  <2>. QED  BY <2>3, <2>4 DEF CanLock
<1>2. IInv => IputNeverBlocks
  BY <1>1 DEF IputNeverBlocks
<1>. QED  BY Inductive, <1>2, PTL
-----------------------------------------------------------------------------
(* What is on the disk.  A removed directory keeps its "..", which may lead to *)
(* an inode that is free or something else; no path of the calls uses it.      *)

NoDotDot ==
  \A c \in Calls : c.path.names \in Seq(Name) /\ (c.op = "link" => c.new.names \in Seq(Name))

\* A valid copy is what is on the disk, but for one that iput() has just freed.
Freed(i) == \E p \in Proc : l[p].pc = "freed" /\ l[p].put = i
Copy(e, i) == e.type = disk[i].type /\ e.nlink = disk[i].nlink /\ disk[i].type # "none"
CopyOK == \A i \in Inum : inode[i].valid => Copy(inode[i], i) \/ Freed(i)

\* Only directories have entries; one has a single name, and its ".." agrees.
DiskOK ==
  /\ \A i \in Inum : disk[i].type = "none" => disk[i].nlink = 0
  /\ \A d \in Inum, n \in Elements : disk[d].ent[n] # 0 => disk[d].type = "DIR"
  /\ \A d, e, i \in Inum, n, m \in Name :
       disk[d].ent[n] = i /\ disk[i].type = "DIR" =>
         disk[i].ent[".."] = d /\ (disk[e].ent[m] = i => e = d /\ m = n)
  /\ disk[Root].type = "DIR" /\ disk[Root].ent[".."] = Root
  /\ \A d \in Inum, n \in Name : disk[d].ent[n] # Root

\* link() counts a link before there is an entry for it, unlink() takes it away
\* after the entry.
Owing == {"walk", "found", "linkto", "linkbad", "unlinked"}
Owes(p, i) == l[p].ip = i /\ Cont(p) \in Owing
Owe(i) == Cardinality({p \in Proc : Owes(p, i)})
LinkCount == \A i \in Inum : Links(i) + Owe(i) <= disk[i].nlink

\* The inodes that a process needs, and those of them that it has had locked.
Uses(p, i) ==
  \/ cwd[p] = i \/ file[p] = i \/ l[p].at = i \/ l[p].ip = i
  \/ l[p].put = i /\ l[p].pc \in {"put", "trunc"}
Knows(p, i) ==
  \/ cwd[p] = i \/ file[p] = i \/ (l[p].put = i /\ l[p].pc \in {"put", "trunc"})
  \/ l[p].ip = i /\ Cont(p) \notin {"init", "unlinkip"}
  \/ l[p].at = i /\ (HoldsAt(p) \/ (Cont(p) = "found" /\ Parent(p)))

\* What a process relies on, whatever the others do meanwhile.
Relies(p) ==
  /\ l[p].names \in Seq(Name)
  /\ \A i \in Inum : Uses(p, i) => disk[i].type # "none"
  /\ \A i \in Inum : Knows(p, i) => i = Root \/ inode[i].valid
  /\ disk[cwd[p]].type = "DIR"
  /\ Cont(p) \in {"linkto", "create", "unlink", "init"} => disk[l[p].at].type = "DIR"
  /\ Cont(p) \in Owing \cup {"putip"} /\ Op(p) = "link" /\ l[p].ip # 0 => disk[l[p].ip].type = "FILE"
  /\ Cont(p) = "unlinkip" => disk[l[p].at].ent[Head(l[p].names)] = l[p].ip
  /\ Cont(p) = "init" =>
       /\ disk[l[p].at].ent[Head(l[p].names)] = 0
       /\ disk[l[p].ip] = [type |-> Type(p), nlink |-> 0, ent |-> Empty]

\* Who has an inode for himself: iput() one that it frees, and create() a new one,
\* but for those who have yet to drop the inode that it was before.
TruncOK(p) == l[p].pc = "trunc" => inode[l[p].put].ref = 1 /\ disk[l[p].put].nlink = 0
FreedOK(p) ==
  l[p].pc = "freed" =>
    /\ disk[l[p].put].nlink = 0
    /\ \A q \in Proc :
         /\ cwd[q] # l[p].put /\ file[q] # l[p].put /\ l[q].at # l[p].put
         /\ (l[q].ip = l[p].put => l[q].pc = "init")
         /\ q # p /\ l[q].put = l[p].put => l[q].pc = "drop"
NewOK(p) ==
  l[p].pc = "init" =>
    \A q \in Proc : cwd[q] # l[p].ip /\ l[q].at # l[p].ip /\ (q # p => l[q].ip # l[p].ip)
Exclusive(p) == TruncOK(p) /\ FreedOK(p) /\ NewOK(p)

DInv ==
  /\ CopyOK /\ DiskOK /\ LinkCount
  /\ \A p \in Proc : Relies(p) /\ Exclusive(p)
-----------------------------------------------------------------------------
(* Links *)

EntriesOf(i) == {x \in Inum \X Name : disk[x[1]].ent[x[2]] = i}
Below(i) == {d \in Inum \cap Named : disk[d].ent[".."] = i}
Owers(i) == {p \in Proc : Owes(p, i)}

LEMMA LinkSets ==
  ASSUME NEW i
  PROVE  /\ Links(i) = Cardinality(EntriesOf(i)) + Cardinality(Below(i)) /\ Owe(i) = Cardinality(Owers(i))
         /\ IsFiniteSet(EntriesOf(i)) /\ IsFiniteSet(Below(i)) /\ IsFiniteSet(Owers(i))
         /\ Cardinality(EntriesOf(i)) \in Nat /\ Cardinality(Below(i)) \in Nat /\ Cardinality(Owers(i)) \in Nat
<1>1. IsFiniteSet(Inum) /\ IsFiniteSet(Name) /\ IsFiniteSet(Proc)
  BY InodesAssumption, FS_Interval DEF Inum
<1>2. IsFiniteSet(Inum \X Name)
  BY <1>1, FS_Product
<1>3. /\ EntriesOf(i) \subseteq Inum \X Name /\ Below(i) \subseteq Inum /\ Owers(i) \subseteq Proc
  BY DEF EntriesOf, Below, Owers
<1>4. IsFiniteSet(EntriesOf(i)) /\ IsFiniteSet(Below(i)) /\ IsFiniteSet(Owers(i))
  BY <1>1, <1>2, <1>3, FS_Subset
<1>5. Cardinality(EntriesOf(i)) \in Nat /\ Cardinality(Below(i)) \in Nat /\ Cardinality(Owers(i)) \in Nat
  BY <1>4, FS_CardinalityType
<1>6. Links(i) = Cardinality(EntriesOf(i)) + Cardinality(Below(i)) /\ Owe(i) = Cardinality(Owers(i))
  BY DEF Links, EntriesOf, Below, Owe, Owers
<1>. QED  BY <1>4, <1>5, <1>6

\* An inode without links has no name.
LEMMA NoLinks ==
  ASSUME TypeOK, LinkCount, DiskOK, NEW i \in Inum, disk[i].nlink <= 0
  PROVE  /\ i # Root /\ disk[i].nlink = 0
         /\ \A d \in Inum, n \in Name : disk[d].ent[n] # i
         /\ \A d \in Inum \cap Named : disk[d].ent[".."] # i
         /\ \A q \in Proc : ~Owes(q, i)
<1>1. Links(i) + Owe(i) <= disk[i].nlink /\ disk[i].nlink \in Int
  BY DEF LinkCount, TypeOK, Disk
<1>2. Cardinality(EntriesOf(i)) = 0 /\ Cardinality(Below(i)) = 0 /\ Cardinality(Owers(i)) = 0 /\ disk[i].nlink = 0
  BY <1>1, LinkSets
<1>3. EntriesOf(i) = {} /\ Below(i) = {} /\ Owers(i) = {}
  BY <1>2, LinkSets, FS_EmptySet
<1>4. \A q \in Proc : ~Owes(q, i)
  BY <1>3 DEF Owers
<1>5. \A d \in Inum \cap Named : disk[d].ent[".."] # i
  BY <1>3 DEF Below
<1>6. ASSUME NEW d \in Inum, NEW n \in Name, disk[d].ent[n] = i PROVE FALSE
  <2>1. <<d, n>> \in EntriesOf(i)
    BY <1>6 DEF EntriesOf
  <2>. QED  BY <1>3, <2>1
<1>7. Root \in Inum \cap Named
  BY InodesAssumption DEF Root, Inum, Named
<1>8. i # Root
  BY <1>5, <1>7 DEF DiskOK
<1>. QED  BY <1>2, <1>4, <1>5, <1>6, <1>8

LEMMA NamedIs ==
  ASSUME TypeOK, LinkCount, DiskOK, NEW d \in Inum, NEW n \in Name, disk[d].ent[n] # 0
  PROVE  disk[d].ent[n] \in Inum /\ disk[disk[d].ent[n]].nlink >= 1 /\ disk[disk[d].ent[n]].type # "none"
<1>. DEFINE i == disk[d].ent[n]
<1>1. i \in Inum
  BY DEF TypeOK, Disk, Index, Elements
<1>2. disk[i].nlink \in Int
  BY <1>1 DEF TypeOK, Disk
<1>3. ~(disk[i].nlink <= 0)
  BY <1>1, NoLinks
<1>. QED  BY <1>1, <1>2, <1>3 DEF DiskOK

LEMMA RootLinked ==
  ASSUME TypeOK, LinkCount, DiskOK
  PROVE  Root \in Inum /\ disk[Root].nlink >= 1 /\ disk[Root].type = "DIR"
<1>1. Root \in Inum
  BY InodesAssumption DEF Root, Inum
<1>2. disk[Root].nlink \in Int
  BY <1>1 DEF TypeOK, Disk
<1>3. ~(disk[Root].nlink <= 0)
  BY <1>1, NoLinks
<1>. QED  BY <1>1, <1>2, <1>3 DEF DiskOK
-----------------------------------------------------------------------------
(* References and copies *)

LEMMA Referred ==
  ASSUME IInv, NEW q \in Proc, NEW i \in Inum,
         cwd[q] = i \/ file[q] = i \/ l[q].at = i \/ l[q].ip = i \/ l[q].put = i
  PROVE  inode[i].ref > 0
<1>. DEFINE C == {r \in Proc : cwd[r] = i}
            F == {r \in Proc : file[r] = i}
            A == {r \in Proc : l[r].at = i}
            I == {r \in Proc : l[r].ip = i}
            P == {r \in Proc : l[r].put = i}
<1>1. inode[i].ref = Cardinality(C) + Cardinality(F) + Cardinality(A) + Cardinality(I) + Cardinality(P)
  BY DEF IInv, RefsExact
<1>2. q \in C \/ q \in F \/ q \in A \/ q \in I \/ q \in P
  OBVIOUS
<1>3. IsFiniteSet(C) /\ IsFiniteSet(F) /\ IsFiniteSet(A) /\ IsFiniteSet(I) /\ IsFiniteSet(P)
  BY FinitelyMany
<1>. HIDE DEF C, F, A, I, P
<1>4. /\ Cardinality(C) \in Nat /\ Cardinality(F) \in Nat /\ Cardinality(A) \in Nat
      /\ Cardinality(I) \in Nat /\ Cardinality(P) \in Nat
  BY <1>3, FS_CardinalityType
<1>5. Cardinality(C) # 0 \/ Cardinality(F) # 0 \/ Cardinality(A) # 0 \/ Cardinality(I) # 0 \/ Cardinality(P) # 0
  BY <1>2, <1>3, FS_EmptySet
<1>. QED  BY <1>1, <1>4, <1>5

\* A table whose copies are right, and that has lost none in use.
Sound(T) ==
  /\ T \in Table
  /\ \A i \in Inum : /\ T[i].valid => Copy(T[i], i) \/ Freed(i)
                     /\ inode[i].valid /\ inode[i].ref > 0 => T[i].valid

LEMMA SoundNow == TypeOK /\ CopyOK => Sound(inode)
BY DEF TypeOK, CopyOK, Sound

LEMMA SoundLoaded ==
  ASSUME TypeOK, CopyOK, NEW d \in Inum, disk[d].type # "none"
  PROVE  Sound(Loaded(d)) /\ Loaded(d)[d].valid /\ \A j \in Inum : Loaded(d)[j].ref = inode[j].ref
<1>1. Loaded(d) \in Table
  BY LoadedIs
<1>2. ASSUME NEW i \in Inum
      PROVE  /\ Loaded(d)[i].valid => Copy(Loaded(d)[i], i) \/ Freed(i)
             /\ inode[i].valid /\ inode[i].ref > 0 => Loaded(d)[i].valid
  <2>1. CASE i # d
    BY <1>2, <2>1, LoadedIs DEF CopyOK
  <2>2. CASE i = d /\ inode[i].valid
    BY <1>2, <2>2, LoadedIs DEF CopyOK, Copy
  <2>3. CASE i = d /\ ~inode[i].valid
    BY <1>2, <2>3, LoadedIs DEF Copy
  <2>. QED  BY <2>1, <2>2, <2>3
<1>. QED  BY <1>1, <1>2, LoadedIs DEF Sound

LEMMA SoundGet ==
  ASSUME NEW T, Sound(T), NEW e \in Inum, T[e].ref = inode[e].ref
  PROVE  Sound(Iget(T, e)) /\ \A j \in Inum : inode[j].ref > 0 /\ T[j].valid => Iget(T, e)[j].valid
<1>1. T \in Table
  BY DEF Sound
<1>2. Iget(T, e) \in Table
  BY <1>1, IgetIs
<1>3. ASSUME NEW i \in Inum
      PROVE  /\ Iget(T, e)[i].valid => T[i].valid
             /\ Iget(T, e)[i].type = T[i].type /\ Iget(T, e)[i].nlink = T[i].nlink
             /\ T[i].valid /\ inode[i].ref > 0 => Iget(T, e)[i].valid
  <2>1. CASE i = e
    BY Zenon, <1>1, <2>1, IgetIs
  <2>2. CASE i # e
    <3>1. Iget(T, e)[i] = T[i]
      BY <1>1, <2>2, IgetIs
    <3>. QED  BY <3>1
  <2>. QED  BY <2>1, <2>2
<1>. QED  BY <1>2, <1>3 DEF Sound, Copy

LEMMA SoundLock ==
  ASSUME NEW T, Sound(T), NEW i \in Inum, NEW k \in Proc \cup {None}, NEW U, U = [T EXCEPT ![i].lock = k]
  PROVE  Sound(U) /\ \A j \in Inum : U[j].ref = T[j].ref /\ U[j].valid = T[j].valid
<1>1. T \in Table
  BY DEF Sound
<1>2. U \in Table /\ \A j \in Inum : /\ U[j].ref = T[j].ref /\ U[j].valid = T[j].valid
                                     /\ U[j].type = T[j].type /\ U[j].nlink = T[j].nlink
  BY <1>1 DEF Table
<1>3. \A j \in Inum : Copy(U[j], j) <=> Copy(T[j], j)
  BY <1>2 DEF Copy
<1>. QED  BY <1>2, <1>3 DEF Sound

\* Whoever gets the lock of an inode in use finds in the copy what is on the disk.
LEMMA LoadedCopy ==
  ASSUME IInv, CopyOK, NEW i \in Inum, inode[i].lock = None
  PROVE  /\ ~Freed(i)
         /\ Loaded(i)[i].type = disk[i].type /\ Loaded(i)[i].nlink = disk[i].nlink
<1>1. ~Freed(i)
  <2>1. ASSUME NEW p \in Proc, l[p].pc = "freed", l[p].put = i PROVE FALSE
    <3>1. inode[i].lock = p
      BY <2>1 DEF IInv, LockOK, Holds, HoldsPut
    <3>. QED  BY <3>1, InodesAssumption
  <2>. QED  BY <2>1 DEF Freed
<1>2. TypeOK
  BY DEF IInv
<1>. QED  BY <1>1, <1>2, LoadedIs DEF CopyOK, Copy
-----------------------------------------------------------------------------
(* What an action of p does to the others *)

\* Copies in use stay; iput() alone gives one up.
Valids(p) ==
  \A i \in Inum : inode[i].valid /\ inode[i].ref > 0 /\ ~(l[p].pc = "freed" /\ l[p].put = i) => inode'[i].valid

\* An inode changes on the disk when it is taken, when it is freed, or with its lock.
Touches(p) ==
  \A i \in Inum :
    \/ disk'[i] = disk[i]
    \/ disk[i].type = "none" /\ disk'[i].nlink = 0 /\ l'[p].ip = i
    \/ l[p].pc = "trunc" /\ l[p].put = i /\ disk'[i].nlink = 0
    \/ disk'[i].type = disk[i].type /\ inode[i].lock \in {None, p} /\ (l[p].at = i \/ l[p].ip = i)

\* An inode without links comes from a local variable, but for a new one.
FromIp(p, i) == l[p].ip = i /\ (l[p].pc = "init" => inode[i].lock = None)
Gets(p) ==
  \A i \in Inum : disk[i].nlink = 0 =>
    /\ cwd'[p] = i \/ l'[p].at = i => cwd[p] = i \/ l[p].at = i
    /\ l'[p].ip = i => l[p].at = i \/ FromIp(p, i) \/ (disk[i].type = "none" /\ l'[p].pc = "init")
    /\ file'[p] = i \/ l'[p].put = i =>
         \/ cwd[p] = i \/ file[p] = i \/ l[p].at = i \/ FromIp(p, i)
         \/ l[p].put = i /\ l[p].pc \in {"put", "trunc", "freed"}

LEMMA InitCont ==
  ASSUME TypeOK, NEW q \in Proc
  PROVE  (Cont(q) = "init" <=> l[q].pc = "init") /\ (Cont(q) = "unlinkip" <=> l[q].pc = "unlinkip")
BY Typed DEF Cont, Putting, Paused, Thens

\* Nobody has a freed inode, except to drop it.
LEMMA FreedNotUsed ==
  ASSUME TypeOK, NEW p \in Proc, NEW q \in Proc, FreedOK(p), l[p].pc = "freed"
  PROVE  ~Knows(q, l[p].put)
BY InitCont DEF FreedOK, Knows

LEMMA OthersRely ==
  ASSUME IInv, DInv, NEW p \in Proc, Rest(p), Valids(p), Touches(p), NEW q \in Proc, q # p
  PROVE  Relies(q)'
<1>1. TypeOK /\ Relies(q) /\ Exclusive(q) /\ Exclusive(p)
  BY DEF IInv, DInv
<1>2. cwd'[q] = cwd[q] /\ file'[q] = file[q] /\ l'[q] = l[q]
  BY DEF Rest
<1>3. Cont(q)' = Cont(q) /\ HoldsAt(q)' = HoldsAt(q) /\ Parent(q)' = Parent(q) /\ Op(q)' = Op(q) /\ Type(q)' = Type(q)
  BY <1>2 DEF Cont, Putting, HoldsAt, Parent, Linking, Op, Type
<1>4. ASSUME NEW i \in Inum, l[p].pc = "trunc", l[p].put = i PROVE ~Uses(q, i)
  <2>1. inode[i].ref = 1
    BY <1>1, <1>4 DEF Exclusive, TruncOK
  <2>. QED  BY <1>4, <2>1, Alone DEF Uses
<1>5. ASSUME NEW i \in Inum, Uses(q, i) PROVE disk'[i].type = disk[i].type /\ disk[i].type # "none"
  BY <1>1, <1>4, <1>5 DEF Relies, Touches
<1>6. ASSUME NEW i \in Inum, Uses(q, i), inode[i].lock = q PROVE disk'[i] = disk[i]
  BY <1>1, <1>4, <1>6, InodesAssumption DEF Relies, Touches
<1>7. \A i \in Inum : Uses(q, i)' <=> Uses(q, i)
  BY <1>2 DEF Uses
<1>8. \A i \in Inum : Knows(q, i)' <=> Knows(q, i)
  BY <1>2, <1>3 DEF Knows
<1>9. ASSUME NEW i \in Inum, Knows(q, i) PROVE i = Root \/ inode'[i].valid
  <2>1. inode[i].ref > 0
    BY <1>9, Referred DEF Knows
  <2>2. i = Root \/ inode[i].valid
    BY <1>1, <1>9 DEF Relies
  <2>3. ~(l[p].pc = "freed" /\ l[p].put = i)
    BY <1>1, <1>9, FreedNotUsed DEF Exclusive
  <2>. QED  BY <2>1, <2>2, <2>3 DEF Valids
<1>10. l[q].names \in Seq(Name) => l'[q].names \in Seq(Name)
  BY <1>2
<1>11. disk'[cwd'[q]].type = "DIR"
  <2>1. Uses(q, cwd[q]) /\ cwd[q] \in Inum
    BY <1>1, Typed DEF Uses
  <2>. QED  BY <1>1, <1>2, <1>5, <2>1 DEF Relies
<1>12. Cont(q) \in {"linkto", "create", "unlink", "init"} => disk'[l[q].at].type = "DIR"
  <2>1. ASSUME Cont(q) \in {"linkto", "create", "unlink", "init"} PROVE disk'[l[q].at].type = "DIR"
    <3>1. l[q].at \in Inum /\ Uses(q, l[q].at)
      BY <1>1, <2>1, Typed DEF IInv, ShapeOK, Shape, AtPoints, Uses
    <3>. QED  BY <1>1, <1>5, <2>1, <3>1 DEF Relies
  <2>. QED  BY <2>1
<1>13. Cont(q) \in Owing \cup {"putip"} /\ Op(q) = "link" /\ l[q].ip # 0 => disk'[l[q].ip].type = "FILE"
  <2>1. ASSUME Cont(q) \in Owing \cup {"putip"}, Op(q) = "link", l[q].ip # 0 PROVE disk'[l[q].ip].type = "FILE"
    <3>1. l[q].ip \in Inum /\ Uses(q, l[q].ip)
      BY <1>1, <2>1, Typed DEF Uses
    <3>. QED  BY <1>1, <1>5, <2>1, <3>1 DEF Relies
  <2>. QED  BY <2>1
<1>14. ASSUME HoldsAt(q) PROVE l[q].at \in Inum /\ disk'[l[q].at] = disk[l[q].at]
  <2>1. l[q].at \in Inum /\ Uses(q, l[q].at)
    BY <1>1, <1>14, Typed DEF IInv, ShapeOK, Shape, AtPoints, Uses, HoldsAt
  <2>2. inode[l[q].at].lock = q
    BY <1>14, <2>1 DEF IInv, LockOK, Holds
  <2>. QED  BY <1>6, <2>1, <2>2
<1>15. Cont(q) = "unlinkip" => disk'[l[q].at].ent[Head(l[q].names)] = l[q].ip
  BY <1>1, <1>14 DEF HoldsAt, Relies
<1>16. ASSUME Cont(q) = "init"
       PROVE  /\ disk'[l[q].at].ent[Head(l[q].names)] = 0
              /\ disk'[l[q].ip] = [type |-> Type(q), nlink |-> 0, ent |-> Empty]
  <2>1. disk'[l[q].at].ent[Head(l[q].names)] = 0
    BY <1>1, <1>14, <1>16 DEF HoldsAt, Relies
  <2>2. l[q].ip \in Inum /\ Uses(q, l[q].ip)
    BY <1>1, <1>16, Typed DEF IInv, ShapeOK, Shape, IpPoints, Uses
  <2>3. disk[l[q].ip].type # "none"
    BY <1>5, <2>2
  <2>4. l[p].at # l[q].ip /\ l[p].ip # l[q].ip
    BY <1>1, <1>16, InitCont DEF Exclusive, NewOK
  <2>5. disk'[l[q].ip] = disk[l[q].ip]
    BY <1>4, <2>2, <2>3, <2>4 DEF Touches
  <2>. QED  BY <1>1, <1>16, <2>1, <2>5 DEF Relies
<1>17. \A i \in Inum : Uses(q, i)' => disk'[i].type # "none"
  BY <1>5, <1>7
<1>18. \A i \in Inum : Knows(q, i)' => i = Root \/ inode'[i].valid
  BY <1>8, <1>9
<1>. QED  BY <1>1, <1>2, <1>3, <1>10, <1>11, <1>12, <1>13, <1>15, <1>16, <1>17, <1>18 DEF Relies

LEMMA OthersExclusive ==
  ASSUME IInv, DInv, TypeOK', RefsExact', NEW p \in Proc, Rest(p), Touches(p), Gets(p),
         NEW q \in Proc, q # p
  PROVE  Exclusive(q)'
<1>1. TypeOK /\ ShapeOK /\ Relies(q) /\ Exclusive(q) /\ Exclusive(p)
  BY DEF IInv, DInv
<1>2. \A r \in Proc : r # p => cwd'[r] = cwd[r] /\ file'[r] = file[r] /\ l'[r] = l[r]
  BY DEF Rest
<1>3. ASSUME NEW i \in Inum, l[q].pc = "trunc", l[q].put = i PROVE inode'[i].ref = 1 /\ disk'[i].nlink = 0
  <2>2. inode[i].ref = 1 /\ disk[i].nlink = 0 /\ disk[i].type # "none"
    BY <1>1, <1>3 DEF Exclusive, TruncOK, Relies, Uses
  <2>3. cwd[p] # i /\ file[p] # i /\ l[p].at # i /\ l[p].ip # i /\ l[p].put # i
    BY <1>3, <2>2, Alone
  <2>4. cwd'[p] # i /\ file'[p] # i /\ l'[p].at # i /\ l'[p].ip # i /\ l'[p].put # i
    BY <2>2, <2>3 DEF Gets, FromIp
  <2>5. disk'[i].nlink = 0
    BY <2>2, <2>3 DEF Touches
  <2>6. Own(p, i) = 0 /\ Own(p, i)' = 0
    BY <2>3, <2>4 DEF Own, One
  <2>7. Refs(i) \in Int /\ Refs(i)' \in Int /\ Refs(i)' - Own(p, i)' = Refs(i) - Own(p, i)
    BY <1>2, RefsStep
  <2>8. inode[i].ref = Refs(i)
    BY RefsAre DEF IInv
  <2>9. inode'[i].ref = Refs(i)'
    BY DEF RefsExact, Refs
  <2>10. inode'[i].ref = 1
    BY <2>2, <2>6, <2>7, <2>8, <2>9
  <2>. QED  BY <2>5, <2>10
<1>4. ASSUME l[q].pc = "freed"
      PROVE  /\ disk'[l[q].put].nlink = 0
             /\ \A r \in Proc :
                  /\ cwd'[r] # l[q].put /\ file'[r] # l[q].put /\ l'[r].at # l[q].put
                  /\ (l'[r].ip = l[q].put => l'[r].pc = "init")
                  /\ r # q /\ l'[r].put = l[q].put => l'[r].pc = "drop"
  <2>. DEFINE i == l[q].put
  <2>1. i \in Inum
    BY <1>1, <1>4, Typed DEF ShapeOK, Shape, Putting, Paused
  <2>2. /\ disk[i].nlink = 0
        /\ \A r \in Proc :
             /\ cwd[r] # i /\ file[r] # i /\ l[r].at # i /\ (l[r].ip = i => l[r].pc = "init")
             /\ r # q /\ l[r].put = i => l[r].pc = "drop"
    BY <1>1, <1>4 DEF Exclusive, FreedOK
  <2>3. inode[i].lock = q /\ q # None
    BY <1>4, <2>1, InodesAssumption DEF IInv, LockOK, Holds, HoldsPut
  <2>4. ~FromIp(p, i)
    BY <2>2, <2>3 DEF FromIp
  <2>5. /\ cwd'[p] # i /\ file'[p] # i /\ l'[p].at # i /\ (l'[p].ip = i => l'[p].pc = "init")
        /\ l'[p].put # i
    BY <2>1, <2>2, <2>4 DEF Gets
  <2>6. disk'[i].nlink = 0
    BY <2>1, <2>2, <2>3 DEF Touches
  <2>. QED  BY <1>2, <2>2, <2>5, <2>6
<1>5. ASSUME l[q].pc = "init"
      PROVE  \A r \in Proc : cwd'[r] # l[q].ip /\ l'[r].at # l[q].ip /\ (r # q => l'[r].ip # l[q].ip)
  <2>. DEFINE i == l[q].ip
  <2>1. Cont(q) = "init"
    BY <1>1, <1>5, InitCont
  <2>2. i \in Inum
    BY <1>1, <2>1, Typed DEF ShapeOK, Shape, IpPoints
  <2>3. disk[i].nlink = 0 /\ disk[i].type # "none"
    BY <1>1, <2>1, <2>2 DEF Relies, Uses
  <2>4. \A r \in Proc : cwd[r] # i /\ l[r].at # i /\ (r # q => l[r].ip # i)
    BY <1>1, <1>5 DEF Exclusive, NewOK
  <2>5. cwd'[p] # i /\ l'[p].at # i /\ l'[p].ip # i
    BY <2>2, <2>3, <2>4 DEF Gets, FromIp
  <2>. QED  BY <1>2, <2>4, <2>5
<1>6. l'[q] = l[q]
  BY <1>2
<1>7. TruncOK(q)'
  <2>1. l[q].pc = "trunc" => l[q].put \in Inum
    BY <1>1, Typed DEF ShapeOK, Shape, Putting, Paused
  <2>. QED  BY <1>3, <1>6, <2>1 DEF TruncOK
<1>8. FreedOK(q)'
  BY <1>4, <1>6 DEF FreedOK
<1>9. NewOK(q)'
  BY <1>5, <1>6 DEF NewOK
<1>. QED  BY <1>7, <1>8, <1>9 DEF Exclusive

LEMMA DiskStep ==
  ASSUME IInv, DInv, TypeOK', RefsExact', NEW p \in Proc, Rest(p), Valids(p), Touches(p), Gets(p),
         CopyOK', DiskOK', LinkCount', Relies(p)', Exclusive(p)'
  PROVE  DInv' /\ Touches(p)
<1>1. \A q \in Proc : q # p => Relies(q)'
  BY OthersRely
<1>2. \A q \in Proc : q # p => Exclusive(q)'
  BY OthersExclusive
<1>. QED  BY <1>1, <1>2 DEF DInv

\* A process that owes no more than before, over a disk that does not change.
LEMMA SameLinks ==
  ASSUME IInv, DInv, NEW p \in Proc, Rest(p), disk' = disk,
         \A i \in Inum : Owes(p, i)' => Owes(p, i)
  PROVE  DiskOK' /\ LinkCount' /\ Touches(p)
<1>1. DiskOK' /\ Touches(p)
  BY DEF DInv, DiskOK, Touches
<1>2. ASSUME NEW i \in Inum PROVE Links(i)' + Owe(i)' <= disk[i].nlink
  <2>1. Links(i)' = Links(i)
    BY DEF Links, Named
  <2>2. ASSUME NEW q \in Proc, Owes(q, i)' PROVE Owes(q, i)
    BY <2>2 DEF Rest, Owes, Cont, Putting
  <2>3. Owers(i)' \subseteq Owers(i)
    BY <2>2 DEF Owers
  <2>4. Owe(i) = Cardinality(Owers(i)) /\ IsFiniteSet(Owers(i)) /\ Links(i) \in Int
    BY LinkSets
  <2>5. Owe(i)' = Cardinality(Owers(i)')
    BY DEF Owe, Owers
  <2>6. Cardinality(Owers(i)') <= Cardinality(Owers(i)) /\ IsFiniteSet(Owers(i)')
    BY <2>3, <2>4, FS_Subset
  <2>7. Cardinality(Owers(i)') \in Int /\ Cardinality(Owers(i)) \in Int
    BY <2>4, <2>6, FS_CardinalityType
  <2>8. Links(i) + Owe(i) <= disk[i].nlink /\ disk[i].nlink \in Int
    BY DEF DInv, LinkCount, IInv, TypeOK, Disk
  <2>. QED  BY <2>1, <2>4, <2>5, <2>6, <2>7, <2>8
<1>. QED  BY <1>1, <1>2 DEF LinkCount
-----------------------------------------------------------------------------
(* What it has to show of itself *)

LEMMA SoundStep ==
  ASSUME Sound(inode'), disk' = disk, NEW p \in Proc, Rest(p), l[p].pc # "freed"
  PROVE  Valids(p) /\ CopyOK'
<1>1. \A i : Freed(i) => Freed(i)'
  BY DEF Freed, Rest
<1>2. \A i \in Inum : Copy(inode'[i], i) => Copy(inode[i], i)'
  BY DEF Copy
<1>. QED  BY <1>1, <1>2 DEF Sound, Valids, CopyOK

LEMMA NothingNew ==
  ASSUME NEW p \in Proc, l'[p].pc \notin {"trunc", "freed", "init"}
  PROVE  Exclusive(p)'
BY DEF Exclusive, TruncOK, FreedOK, NewOK

\* What p has had, it keeps.
LEMMA Kept ==
  ASSUME IInv, DInv, NEW p \in Proc, Valids(p), Touches(p), l[p].pc \notin {"trunc", "freed"}, NEW i \in Inum
  PROVE  /\ Uses(p, i) => disk'[i].type = disk[i].type /\ disk[i].type # "none"
         /\ Knows(p, i) => i = Root \/ inode'[i].valid
<1>1. Relies(p)
  BY DEF DInv
<1>2. Uses(p, i) => disk'[i].type = disk[i].type /\ disk[i].type # "none"
  BY <1>1 DEF Relies, Touches
<1>3. Knows(p, i) => inode[i].ref > 0
  BY Referred DEF Knows
<1>. QED  BY <1>1, <1>2, <1>3 DEF Relies, Valids

LEMMA OwnRelies ==
  ASSUME IInv, DInv, NEW p \in Proc, Valids(p), Touches(p), l[p].pc \notin {"trunc", "freed"},
         l'[p].names \in Seq(Name),
         \A i \in Inum : Uses(p, i)' => Uses(p, i) \/ disk'[i].type # "none",
         \A i \in Inum : Knows(p, i)' => Knows(p, i) \/ i = Root \/ inode'[i].valid,
         cwd'[p] = cwd[p] \/ disk'[cwd'[p]].type = "DIR",
         Cont(p)' \in {"linkto", "create", "unlink", "init"} => disk'[l'[p].at].type = "DIR",
         Cont(p)' \in Owing \cup {"putip"} /\ Op(p)' = "link" /\ l'[p].ip # 0 => disk'[l'[p].ip].type = "FILE",
         Cont(p)' = "unlinkip" => disk'[l'[p].at].ent[Head(l'[p].names)] = l'[p].ip,
         Cont(p)' = "init" => /\ disk'[l'[p].at].ent[Head(l'[p].names)] = 0
                              /\ disk'[l'[p].ip] = [type |-> Type(p)', nlink |-> 0, ent |-> Empty]
  PROVE  Relies(p)'
<1>1. Relies(p) /\ TypeOK
  BY DEF DInv, IInv
<1>2. \A i \in Inum : Uses(p, i)' => disk'[i].type # "none"
  BY Kept
<1>3. \A i \in Inum : Knows(p, i)' => i = Root \/ inode'[i].valid
  BY Kept
<1>4. disk'[cwd'[p]].type = "DIR"
  <2>1. cwd[p] \in Inum /\ Uses(p, cwd[p])
    BY <1>1, Typed DEF Uses
  <2>2. disk'[cwd[p]].type = "DIR"
    BY <1>1, <2>1, Kept DEF Relies
  <2>. QED  BY <2>2
<1>. QED  BY <1>2, <1>3, <1>4 DEF Relies

\* The end of a call, but for iput().
LEMMA EndsWell ==
  ASSUME IInv, DInv, NEW p \in Proc, Valids(p), Touches(p), l[p].pc \notin {"trunc", "freed"}, NEW i,
         \/ Goes(p, "put", None, <<>>, 0, 0, i, "end") /\ i \in Inum
         \/ Goes(p, "idle", None, <<>>, 0, 0, 0, "end") /\ i = 0,
         i \in Inum => disk'[i].type # "none" /\ (i = Root \/ inode'[i].valid),
         \/ cwd'[p] = cwd[p]
         \/ cwd'[p] \in Inum /\ disk'[cwd'[p]].type = "DIR" /\ (cwd'[p] = Root \/ inode'[cwd'[p]].valid),
         \/ file'[p] \in {0, file[p]}
         \/ file'[p] \in Inum /\ disk'[file'[p]].type # "none" /\ (file'[p] = Root \/ inode'[file'[p]].valid)
  PROVE  Relies(p)' /\ Exclusive(p)' /\ \A j \in Inum : ~Owes(p, j)'
<1>1. /\ l'[p].pc \in {"put", "idle"} /\ l'[p].names = <<>> /\ l'[p].at = 0 /\ l'[p].ip = 0 /\ l'[p].then = "end"
      /\ l'[p].put = i /\ (i \in Inum \/ i = 0)
  BY DEF Goes
<1>2. Cont(p)' \in {"end", "idle"}
  BY <1>1 DEF Cont, Putting, Paused
<1>3. 0 \notin Inum
  BY DEF Inum
<1>4. \A j \in Inum : Uses(p, j)' => Uses(p, j) \/ disk'[j].type # "none"
  BY <1>1, <1>3 DEF Uses
<1>5. \A j \in Inum : Knows(p, j)' => Knows(p, j) \/ j = Root \/ inode'[j].valid
  BY <1>1, <1>3 DEF Knows
<1>6. <<>> \in Seq(Name)
  OBVIOUS
<1>7. Relies(p)'
  BY <1>1, <1>2, <1>4, <1>5, <1>6, OwnRelies DEF Owing
<1>8. Exclusive(p)'
  BY <1>1, NothingNew
<1>. QED  BY <1>2, <1>7, <1>8 DEF Owes, Owing
-----------------------------------------------------------------------------
(* Actions that leave the disk alone *)

LEMMA OneLeft ==
  ASSUME NEW S, NEW s \in Seq(S), s # <<>>, Tail(s) = <<>>
  PROVE  Len(s) = 1
<1>1. Len(Tail(s)) = Len(s) - 1 /\ Len(s) \in Nat
  OBVIOUS
<1>2. Len(<<>>) = 0
  OBVIOUS
<1>3. Len(Tail(s)) = 0
  BY <1>2, Zenon
<1>. QED  BY <1>1, <1>3

\* A call that ends with iput() of what it has locked.
LEMMA GivesUp ==
  ASSUME IInv, DInv, TypeOK', RefsExact', NEW p \in Proc, NEW d \in Inum, l[p].at = d, disk' = disk,
         l[p].pc \notin {"trunc", "freed"}, inode' = Loaded(d),
         Goes(p, "put", None, <<>>, 0, 0, d, "end"), cwd' = cwd, file' = file
  PROVE  DInv' /\ Touches(p)
<1>1. TypeOK /\ CopyOK /\ disk[d].type # "none"
  BY DEF IInv, DInv, Relies, Uses
<1>0. 0 \notin Inum
  BY DEF Inum
<1>2. Sound(inode') /\ inode'[d].valid
  BY <1>1, SoundLoaded
<1>3. Rest(p)
  BY DEF Rest, Goes
<1>4. Valids(p) /\ CopyOK'
  BY <1>2, <1>3, SoundStep
<1>5. Touches(p) /\ Gets(p)
  BY <1>0, <1>1 DEF Touches, Gets, Goes
<1>6. Relies(p)' /\ Exclusive(p)' /\ \A j \in Inum : ~Owes(p, j)'
  BY <1>1, <1>2, <1>4, <1>5, EndsWell
<1>7. DiskOK' /\ LinkCount'
  BY <1>3, <1>6, SameLinks
<1>. QED  BY <1>3, <1>4, <1>5, <1>6, <1>7, DiskStep

LEMMA WalkKeeps ==
  ASSUME IInv, DInv, NEW p \in Proc, Walk(p)
  PROVE  DInv' /\ Touches(p)
<1>. DEFINE d == l[p].at
<1>1. /\ d \in Inum /\ inode[d].lock = None /\ l[p].pc = "walk" /\ l[p].names # <<>>
      /\ disk' = disk /\ cwd' = cwd /\ file' = file /\ l[p].pc # "freed"
  BY WalkDoes
<1>2. /\ TypeOK /\ ShapeOK /\ CopyOK /\ DiskOK /\ LinkCount
      /\ Relies(p) /\ Exclusive(p) /\ Shape(p)
  BY DEF IInv, DInv, ShapeOK
<1>3. TypeOK' /\ RefsExact'
  BY WalkInv DEF IInv
<1>4. /\ disk[d].type # "none" /\ Cont(p) = "walk" /\ Loaded(d)[d].type = disk[d].type
      /\ Sound(Loaded(d)) /\ Loaded(d)[d].valid /\ \A j \in Inum : Loaded(d)[j].ref = inode[j].ref
      /\ inode[d].ref > 0
  <2>1. disk[d].type # "none" /\ Cont(p) = "walk"
    BY <1>1, <1>2 DEF Relies, Uses, Cont, Putting, Paused
  <2>. QED  BY <1>1, <1>2, <2>1, SoundLoaded, LoadedCopy, Referred
<1>5. /\ Head(l[p].names) \in Name /\ Tail(l[p].names) \in Seq(Name) /\ Loop(Tail(l[p].names)) \in {"found", "walk"}
      /\ (Loop(Tail(l[p].names)) = "found" => Last(p))
  <2>1. l[p].names \in Seq(Name) /\ l[p].names # <<>>
    BY <1>1, <1>2 DEF Relies
  <2>3. Tail(l[p].names) = <<>> => Last(p)
    BY <2>1, OneLeft DEF Last
  <2>. QED  BY <2>1, <2>3 DEF Loop
<1>6. /\ Parent(p) => Found(p) \in {"linkto", "unlink", "create"}
      /\ Found(p) = "create" => Op(p) \in {"creat", "mkdir"}
      /\ (Found(p) = "linkto" <=> l[p].ip # 0) /\ (Linking(p) <=> l[p].ip # 0)
  BY SMTT(30), <1>1, <1>2, <1>4, FoundIn
<1>7. Entry(p, d) # 0 => disk[Entry(p, d)].nlink >= 1 /\ disk[Entry(p, d)].type # "none"
  BY Zenon, <1>1, <1>2, <1>5, NamedIs DEF Entry
<1>10. CASE /\ Loaded(d)[d].type = "DIR" /\ Parent(p) /\ inode' = Loaded(d)
            /\ Goes(p, Found(p), l[p].call, l[p].names, d, l[p].ip, l[p].put, l[p].then)
  <2>1. Sound(inode')
    BY <1>4, <1>10
  <2>2. Rest(p)
    BY <1>1, <1>10 DEF Rest, Goes
  <2>3. Valids(p) /\ CopyOK'
    BY <1>1, <1>10, <2>1, <2>2, SoundStep
  <2>4. Cont(p)' = Found(p) /\ Op(p)' = Op(p)
    BY <1>1, <1>2, <1>10, <1>6 DEF Goes, Cont, Putting, Paused, HoldsAt, Op, Parent, Linking
  <2>5. \A j \in Inum : Owes(p, j)' => Owes(p, j)
    BY <1>1, <1>2, <1>10, <2>4, <1>4 DEF Goes, Owes, Owing
  <2>6. DiskOK' /\ LinkCount' /\ Touches(p)
    BY <1>1, <1>10, <2>2, <2>5, SameLinks
  <2>7. Gets(p)
    BY <1>1, <1>2, <1>10 DEF Goes, Gets, FromIp, Shape, Putting, Paused, Inum
  <2>8. Relies(p)'
    <3>1. l'[p].names \in Seq(Name)
      BY <1>1, <1>2, <1>10 DEF Goes, Relies
    <3>2. \A j \in Inum : Uses(p, j)' => Uses(p, j) \/ disk'[j].type # "none"
      BY <1>1, <1>2, <1>10 DEF Goes, Uses, Shape, Putting, Paused, Inum
    <3>3. \A j \in Inum : Knows(p, j)' => Knows(p, j) \/ j = Root \/ inode'[j].valid
      BY <1>1, <1>2, <1>10, <2>4, <1>4, <1>6 DEF Goes, Knows, HoldsAt
    <3>4. /\ cwd'[p] = cwd[p]
          /\ Cont(p)' \in {"linkto", "create", "unlink", "init"} => disk'[l'[p].at].type = "DIR"
          /\ Cont(p)' \in Owing \cup {"putip"} /\ Op(p)' = "link" /\ l'[p].ip # 0 => disk'[l'[p].ip].type = "FILE"
          /\ Cont(p)' = "unlinkip" => disk'[l'[p].at].ent[Head(l'[p].names)] = l'[p].ip
          /\ Cont(p)' # "init"
      BY <1>1, <1>2, <1>10, <2>4, <1>4, <1>6 DEF Goes, Owing, Relies
    <3>. QED  BY <1>1, <2>3, <2>6, <3>1, <3>2, <3>3, <3>4, OwnRelies
  <2>9. Exclusive(p)'
    BY <1>1, <1>2, <1>10, <1>6, NothingNew DEF Goes
  <2>. QED  BY <1>3, <2>2, <2>3, <2>6, <2>7, <2>8, <2>9, DiskStep
<1>11. CASE /\ Entry(p, d) \in Inum /\ inode' = Iget(Loaded(d), Entry(p, d)) /\ ~(Parent(p) /\ Last(p))
            /\ Goes(p, "put", l[p].call, Tail(l[p].names), Entry(p, d), l[p].ip, d, Loop(Tail(l[p].names)))
  <2>1. Sound(inode')
    BY <1>4, <1>11, SoundGet
  <2>2. Rest(p)
    BY <1>1, <1>11 DEF Rest, Goes
  <2>3. Valids(p) /\ CopyOK'
    BY <1>1, <1>11, <2>1, <2>2, SoundStep
  <2>4. Cont(p)' = Loop(Tail(l[p].names)) /\ Op(p)' = Op(p) /\ Parent(p)' = Parent(p)
    BY <1>1, <1>2, <1>11, <1>5 DEF Goes, Cont, Putting, Paused, HoldsAt, Op, Parent, Linking
  <2>5. \A j \in Inum : Owes(p, j)' => Owes(p, j)
    BY <1>1, <1>2, <1>11, <2>4, <1>4 DEF Goes, Owes, Owing
  <2>6. DiskOK' /\ LinkCount' /\ Touches(p)
    BY <1>1, <1>11, <2>2, <2>5, SameLinks
  <2>7. Gets(p)
    BY <1>1, <1>2, <1>11, <1>7, <1>5 DEF Goes, Gets, FromIp, Shape, Putting, Paused, Inum
  <2>8. Relies(p)'
    <3>1. l'[p].names \in Seq(Name)
      BY <1>1, <1>2, <1>11, <1>5 DEF Goes, Relies
    <3>2. \A j \in Inum : Uses(p, j)' => Uses(p, j) \/ disk'[j].type # "none"
      BY <1>1, <1>2, <1>11, <1>7 DEF Goes, Uses, Shape, Putting, Paused, Inum
    <3>3. \A j \in Inum : Knows(p, j)' => Knows(p, j) \/ j = Root \/ inode'[j].valid
      BY <1>1, <1>2, <1>11, <2>4, <1>4, <1>5, SoundGet DEF Goes, Knows, HoldsAt
    <3>4. /\ cwd'[p] = cwd[p]
          /\ Cont(p)' \in {"linkto", "create", "unlink", "init"} => disk'[l'[p].at].type = "DIR"
          /\ Cont(p)' \in Owing \cup {"putip"} /\ Op(p)' = "link" /\ l'[p].ip # 0 => disk'[l'[p].ip].type = "FILE"
          /\ Cont(p)' = "unlinkip" => disk'[l'[p].at].ent[Head(l'[p].names)] = l'[p].ip
          /\ Cont(p)' # "init"
      BY <1>1, <1>2, <1>11, <2>4, <1>4, <1>5 DEF Goes, Owing, Relies
    <3>. QED  BY <1>1, <2>3, <2>6, <3>1, <3>2, <3>3, <3>4, OwnRelies
  <2>9. Exclusive(p)'
    BY <1>1, <1>2, <1>11, NothingNew DEF Goes
  <2>. QED  BY <1>3, <2>2, <2>3, <2>6, <2>7, <2>8, <2>9, DiskStep
<1>12. CASE /\ Linking(p) /\ inode' = Loaded(d)
            /\ Goes(p, "put", l[p].call, l[p].names, 0, l[p].ip, d, "linkbad")
  <2>1. Sound(inode')
    BY <1>4, <1>12
  <2>2. Rest(p)
    BY <1>1, <1>12 DEF Rest, Goes
  <2>3. Valids(p) /\ CopyOK'
    BY <1>1, <1>12, <2>1, <2>2, SoundStep
  <2>4. Cont(p)' = "linkbad" /\ Op(p)' = Op(p)
    BY <1>1, <1>2, <1>12 DEF Goes, Cont, Putting, Paused, HoldsAt, Op, Parent, Linking
  <2>5. \A j \in Inum : Owes(p, j)' => Owes(p, j)
    BY <1>1, <1>2, <1>12, <2>4, <1>4 DEF Goes, Owes, Owing
  <2>6. DiskOK' /\ LinkCount' /\ Touches(p)
    BY <1>1, <1>12, <2>2, <2>5, SameLinks
  <2>7. Gets(p)
    BY <1>1, <1>2, <1>12 DEF Goes, Gets, FromIp, Shape, Putting, Paused, Inum
  <2>8. Relies(p)'
    <3>1. l'[p].names \in Seq(Name)
      BY <1>1, <1>2, <1>12 DEF Goes, Relies
    <3>2. \A j \in Inum : Uses(p, j)' => Uses(p, j) \/ disk'[j].type # "none"
      BY <1>1, <1>2, <1>12 DEF Goes, Uses, Shape, Putting, Paused, Inum
    <3>3. \A j \in Inum : Knows(p, j)' => Knows(p, j) \/ j = Root \/ inode'[j].valid
      BY <1>1, <1>2, <1>12, <2>4, <1>4 DEF Goes, Knows, HoldsAt
    <3>4. /\ cwd'[p] = cwd[p]
          /\ Cont(p)' \in {"linkto", "create", "unlink", "init"} => disk'[l'[p].at].type = "DIR"
          /\ Cont(p)' \in Owing \cup {"putip"} /\ Op(p)' = "link" /\ l'[p].ip # 0 => disk'[l'[p].ip].type = "FILE"
          /\ Cont(p)' = "unlinkip" => disk'[l'[p].at].ent[Head(l'[p].names)] = l'[p].ip
          /\ Cont(p)' # "init"
      BY <1>1, <1>2, <1>12, <2>4, <1>4 DEF Goes, Owing, Relies
    <3>. QED  BY <1>1, <2>3, <2>6, <3>1, <3>2, <3>3, <3>4, OwnRelies
  <2>9. Exclusive(p)'
    BY <1>1, <1>2, <1>12, NothingNew DEF Goes
  <2>. QED  BY <1>3, <2>2, <2>3, <2>6, <2>7, <2>8, <2>9, DiskStep
<1>13. CASE inode' = Loaded(d) /\ Goes(p, "put", None, <<>>, 0, 0, d, "end")
  BY <1>1, <1>3, <1>13, GivesUp
<1>. QED  BY <1>10, <1>11, <1>12, <1>13, WalkDoes

\* A call that ends, over an unchanged disk, but for iput() of i.
LEMMA CallEnds ==
  ASSUME IInv, DInv, TypeOK', RefsExact', NEW p \in Proc, NEW i, disk' = disk,
         l[p].pc \notin {"trunc", "freed"}, Sound(inode'), Rest(p), Gets(p),
         \/ Goes(p, "put", None, <<>>, 0, 0, i, "end") /\ i \in Inum
         \/ Goes(p, "idle", None, <<>>, 0, 0, 0, "end") /\ i = 0,
         i \in Inum => disk[i].type # "none" /\ (i = Root \/ inode'[i].valid),
         \/ cwd'[p] = cwd[p]
         \/ cwd'[p] \in Inum /\ disk[cwd'[p]].type = "DIR" /\ (cwd'[p] = Root \/ inode'[cwd'[p]].valid),
         \/ file'[p] \in {0, file[p]}
         \/ file'[p] \in Inum /\ disk[file'[p]].type # "none" /\ (file'[p] = Root \/ inode'[file'[p]].valid)
  PROVE  DInv' /\ Touches(p)
<1>1. Valids(p) /\ CopyOK'
  BY SoundStep
<1>2. Touches(p)
  BY DEF Touches
<1>3. Relies(p)' /\ Exclusive(p)' /\ \A j \in Inum : ~Owes(p, j)'
  BY <1>1, <1>2, EndsWell
<1>4. DiskOK' /\ LinkCount'
  BY <1>3, SameLinks
<1>. QED  BY <1>1, <1>2, <1>3, <1>4, DiskStep

LEMMA BeginKeeps ==
  ASSUME IInv, DInv, NEW p \in Proc, NoDotDot, NEW c \in Calls, Begin(p, c)
  PROVE  DInv' /\ Touches(p)
<1>. DEFINE d == Start(p, c.path)
<1>1. /\ d \in Inum /\ l[p].pc = "idle"
      /\ disk' = disk /\ cwd' = cwd /\ file' = file /\ inode' = Iget(inode, d) /\ l[p].pc # "freed"
  BY BeginDoes
<1>2. /\ TypeOK /\ ShapeOK /\ CopyOK /\ DiskOK /\ LinkCount
      /\ Relies(p) /\ Exclusive(p) /\ Shape(p)
  BY DEF IInv, DInv, ShapeOK
<1>3. TypeOK' /\ RefsExact'
  BY BeginInv DEF IInv
<1>4. (d = Root \/ d = cwd[p]) /\ Cont(p) = "idle" /\ l[p].at = 0 /\ l[p].ip = 0 /\ l[p].put = 0
  BY <1>1, <1>2 DEF Start, Shape, Cont, Putting, Paused, AtPoints, IpPoints
<1>5. disk[d].type # "none" /\ (d = Root => disk[d].nlink # 0)
  BY <1>1, <1>2, <1>4, RootLinked DEF Relies, Uses
<1>6. c.path.names \in Seq(Name) /\ Loop(c.path.names) \in {"found", "walk"}
  BY DEF NoDotDot, Loop
<1>7. 0 \notin Inum
  BY DEF Inum
<1>10. /\ Goes(p, Loop(c.path.names), c, c.path.names, d, l[p].ip, l[p].put, l[p].then)
  BY BeginDoes
<1>. QED
  <2>1. Sound(inode')
    BY <1>1, <1>2, SoundNow, SoundGet
  <2>2. Rest(p)
    BY <1>1, <1>10 DEF Rest, Goes
  <2>3. Valids(p) /\ CopyOK'
    BY <1>1, <1>10, <2>1, <2>2, SoundStep
  <2>4. Cont(p)' = Loop(c.path.names)
    BY <1>1, <1>2, <1>10, <1>6 DEF Goes, Cont, Putting, Paused, HoldsAt, Op, Parent, Linking
  <2>5. \A j \in Inum : Owes(p, j)' => Owes(p, j)
    BY <1>1, <1>2, <1>10, <2>4, <1>4, <1>7 DEF Goes, Owes, Owing
  <2>6. DiskOK' /\ LinkCount' /\ Touches(p)
    BY <1>1, <1>10, <2>2, <2>5, SameLinks
  <2>7. Gets(p)
    BY <1>1, <1>2, <1>10, <1>4, <1>5 DEF Goes, Gets, FromIp, Shape, Putting, Paused, Inum
  <2>8. Relies(p)'
    <3>1. l'[p].names \in Seq(Name)
      BY <1>1, <1>2, <1>10, <1>6 DEF Goes, Relies
    <3>2. \A j \in Inum : Uses(p, j)' => Uses(p, j) \/ disk'[j].type # "none"
      BY <1>1, <1>2, <1>10, <1>5 DEF Goes, Uses, Shape, Putting, Paused, Inum
    <3>3. \A j \in Inum : Knows(p, j)' => Knows(p, j) \/ j = Root \/ inode'[j].valid
      BY <1>1, <1>2, <1>10, <2>4, <1>4, <1>6 DEF Goes, Knows, HoldsAt
    <3>4. /\ cwd'[p] = cwd[p]
          /\ Cont(p)' \in {"linkto", "create", "unlink", "init"} => disk'[l'[p].at].type = "DIR"
          /\ Cont(p)' \in Owing \cup {"putip"} /\ Op(p)' = "link" /\ l'[p].ip # 0 => disk'[l'[p].ip].type = "FILE"
          /\ Cont(p)' = "unlinkip" => disk'[l'[p].at].ent[Head(l'[p].names)] = l'[p].ip
          /\ Cont(p)' # "init"
      BY <1>1, <1>2, <1>10, <2>4, <1>4, <1>6 DEF Goes, Owing, Relies
    <3>. QED  BY <1>1, <2>3, <2>6, <3>1, <3>2, <3>3, <3>4, OwnRelies
  <2>9. Exclusive(p)'
    BY <1>1, <1>2, <1>10, <1>6, NothingNew DEF Goes
  <2>. QED  BY <1>3, <2>2, <2>3, <2>6, <2>7, <2>8, <2>9, DiskStep

LEMMA WalkEndsKeeps ==
  ASSUME IInv, DInv, NEW p \in Proc, WalkEnds(p)
  PROVE  DInv' /\ Touches(p)
<1>. DEFINE d == l[p].at
<1>1. /\ d \in Inum /\ l[p].pc = "found"
      /\ disk' = disk /\ cwd' = cwd /\ file' = file /\ inode' = inode /\ l[p].pc # "freed"
  BY WalkEndsDoes
<1>2. /\ TypeOK /\ ShapeOK /\ CopyOK /\ DiskOK /\ LinkCount
      /\ Relies(p) /\ Exclusive(p) /\ Shape(p)
  BY DEF IInv, DInv, ShapeOK
<1>3. TypeOK' /\ RefsExact'
  BY WalkEndsInv DEF IInv
<1>4. Cont(p) = "found" /\ disk[d].type # "none" /\ Sound(inode)
  BY <1>1, <1>2, SoundNow DEF Cont, Putting, Paused, Relies, Uses
<1>5. /\ Found(p) \in {"open", "chdir", "link", "linkto", "unlink", "create"} /\ (Linking(p) <=> l[p].ip # 0)
      /\ (~Parent(p) => Found(p) \in {"open", "chdir", "link"}) /\ (~Parent(p) => l[p].ip = 0)
  BY <1>1, <1>2, <1>4, FoundIn DEF Parent
<1>6. Parent(p) => d = Root \/ inode[d].valid
  BY <1>1, <1>2, <1>4 DEF Relies, Knows
<1>10. CASE /\ Parent(p) /\ Linking(p)
            /\ Goes(p, "put", l[p].call, l[p].names, 0, l[p].ip, d, "linkbad")
  <2>1. Sound(inode')
    BY <1>1, <1>4
  <2>2. Rest(p)
    BY <1>1, <1>10 DEF Rest, Goes
  <2>3. Valids(p) /\ CopyOK'
    BY <1>1, <1>10, <2>1, <2>2, SoundStep
  <2>4. Cont(p)' = "linkbad" /\ Op(p)' = Op(p)
    BY <1>1, <1>2, <1>10 DEF Goes, Cont, Putting, Paused, HoldsAt, Op, Parent, Linking
  <2>5. \A j \in Inum : Owes(p, j)' => Owes(p, j)
    BY <1>1, <1>2, <1>10, <2>4, <1>4 DEF Goes, Owes, Owing
  <2>6. DiskOK' /\ LinkCount' /\ Touches(p)
    BY <1>1, <1>10, <2>2, <2>5, SameLinks
  <2>7. Gets(p)
    BY <1>1, <1>2, <1>10 DEF Goes, Gets, FromIp, Shape, Putting, Paused, Inum
  <2>8. Relies(p)'
    <3>1. l'[p].names \in Seq(Name)
      BY <1>1, <1>2, <1>10 DEF Goes, Relies
    <3>2. \A j \in Inum : Uses(p, j)' => Uses(p, j) \/ disk'[j].type # "none"
      BY <1>1, <1>2, <1>10 DEF Goes, Uses, Shape, Putting, Paused, Inum
    <3>3. \A j \in Inum : Knows(p, j)' => Knows(p, j) \/ j = Root \/ inode'[j].valid
      BY <1>1, <1>2, <1>10, <2>4, <1>4, <1>6 DEF Goes, Knows, HoldsAt
    <3>4. /\ cwd'[p] = cwd[p]
          /\ Cont(p)' \in {"linkto", "create", "unlink", "init"} => disk'[l'[p].at].type = "DIR"
          /\ Cont(p)' \in Owing \cup {"putip"} /\ Op(p)' = "link" /\ l'[p].ip # 0 => disk'[l'[p].ip].type = "FILE"
          /\ Cont(p)' = "unlinkip" => disk'[l'[p].at].ent[Head(l'[p].names)] = l'[p].ip
          /\ Cont(p)' # "init"
      BY <1>1, <1>2, <1>10, <2>4, <1>4 DEF Goes, Owing, Relies
    <3>. QED  BY <1>1, <2>3, <2>6, <3>1, <3>2, <3>3, <3>4, OwnRelies
  <2>9. Exclusive(p)'
    BY <1>1, <1>2, <1>10, NothingNew DEF Goes
  <2>. QED  BY <1>3, <2>2, <2>3, <2>6, <2>7, <2>8, <2>9, DiskStep
<1>11. CASE Parent(p) /\ Goes(p, "put", None, <<>>, 0, 0, d, "end")
  <2>1. Rest(p) /\ Sound(inode')
    BY <1>1, <1>4, <1>11 DEF Rest, Goes
  <2>2. Gets(p)
    BY <1>1, <1>11 DEF Goes, Gets, Inum
  <2>. QED  BY <1>1, <1>3, <1>4, <1>6, <1>11, <2>1, <2>2, CallEnds
<1>12. CASE /\ ~Parent(p)
            /\ Goes(p, Found(p), l[p].call, l[p].names, d, l[p].ip, l[p].put, l[p].then)
  <2>1. Sound(inode')
    BY <1>1, <1>4
  <2>2. Rest(p)
    BY <1>1, <1>12 DEF Rest, Goes
  <2>3. Valids(p) /\ CopyOK'
    BY <1>1, <1>12, <2>1, <2>2, SoundStep
  <2>4. Cont(p)' = Found(p) /\ Op(p)' = Op(p)
    BY <1>1, <1>2, <1>12, <1>5 DEF Goes, Cont, Putting, Paused, HoldsAt, Op, Parent, Linking
  <2>5. \A j \in Inum : Owes(p, j)' => Owes(p, j)
    BY <1>1, <1>2, <1>12, <2>4, <1>4, <1>5 DEF Goes, Owes, Owing
  <2>6. DiskOK' /\ LinkCount' /\ Touches(p)
    BY <1>1, <1>12, <2>2, <2>5, SameLinks
  <2>7. Gets(p)
    BY <1>1, <1>2, <1>12 DEF Goes, Gets, FromIp, Shape, Putting, Paused, Inum
  <2>8. Relies(p)'
    <3>1. l'[p].names \in Seq(Name)
      BY <1>1, <1>2, <1>12 DEF Goes, Relies
    <3>2. \A j \in Inum : Uses(p, j)' => Uses(p, j) \/ disk'[j].type # "none"
      BY <1>1, <1>2, <1>12 DEF Goes, Uses, Shape, Putting, Paused, Inum
    <3>3. \A j \in Inum : Knows(p, j)' => Knows(p, j) \/ j = Root \/ inode'[j].valid
      BY <1>1, <1>2, <1>12, <2>4, <1>4, <1>5 DEF Goes, Knows, HoldsAt
    <3>4. /\ cwd'[p] = cwd[p]
          /\ Cont(p)' \in {"linkto", "create", "unlink", "init"} => disk'[l'[p].at].type = "DIR"
          /\ Cont(p)' \in Owing \cup {"putip"} /\ Op(p)' = "link" /\ l'[p].ip # 0 => disk'[l'[p].ip].type = "FILE"
          /\ Cont(p)' = "unlinkip" => disk'[l'[p].at].ent[Head(l'[p].names)] = l'[p].ip
          /\ Cont(p)' # "init"
      BY <1>1, <1>2, <1>12, <2>4, <1>4, <1>5 DEF Goes, Owing, Relies
    <3>. QED  BY <1>1, <2>3, <2>6, <3>1, <3>2, <3>3, <3>4, OwnRelies
  <2>9. Exclusive(p)'
    BY <1>1, <1>2, <1>12, <1>5, NothingNew DEF Goes
  <2>. QED  BY <1>3, <2>2, <2>3, <2>6, <2>7, <2>8, <2>9, DiskStep
<1>. QED  BY <1>10, <1>11, <1>12, WalkEndsDoes

\* iput() goes on to no point that needs a directory as it was.
LEMMA ThenOut ==
  ASSUME NEW t \in Thens
  PROVE  t \notin {"init", "unlinkip", "linkto", "create", "unlink", "trunc", "freed"}
BY DEF Thens

LEMMA LocksSound ==
  ASSUME TypeOK, CopyOK, NEW i \in Inum, NEW k \in Proc \cup {None}, inode' = [inode EXCEPT ![i].lock = k]
  PROVE  Sound(inode') /\ \A j \in Inum : inode'[j].ref = inode[j].ref /\ inode'[j].valid = inode[j].valid
<1>1. inode' \in Table /\ \A j \in Inum : /\ inode'[j].ref = inode[j].ref /\ inode'[j].valid = inode[j].valid
                                           /\ inode'[j].type = inode[j].type /\ inode'[j].nlink = inode[j].nlink
  BY DEF TypeOK, Table
<1>. QED  BY <1>1 DEF Sound, Copy, CopyOK

LEMMA PutDropsKeeps ==
  ASSUME IInv, DInv, NEW p \in Proc, PutDrops(p)
  PROVE  DInv' /\ Touches(p)
<1>. DEFINE i == l[p].put
<1>1. /\ i \in Inum /\ l[p].pc \in {"put", "drop"} /\ l[p].then \in Thens
      /\ disk' = disk /\ cwd' = cwd /\ file' = file /\ inode' = [inode EXCEPT ![i].ref = inode[i].ref - 1]
  BY PutDropsDoes
<1>2. /\ TypeOK /\ ShapeOK /\ CopyOK /\ DiskOK /\ LinkCount
      /\ Relies(p) /\ Exclusive(p) /\ Shape(p)
  BY DEF IInv, DInv, ShapeOK
<1>3. TypeOK' /\ RefsExact'
  BY PutDropsInv DEF IInv
<1>4. Sound(inode')
  <2>1. inode \in Table /\ inode[i].ref - 1 \in Int
    BY <1>1, <1>2 DEF TypeOK, Table
  <2>2. inode' \in Table /\ \A j \in Inum : /\ inode'[j].valid = inode[j].valid
                                            /\ inode'[j].type = inode[j].type /\ inode'[j].nlink = inode[j].nlink
    BY <1>1, <2>1 DEF Table
  <2>. QED  BY <1>2, <2>2 DEF Sound, Copy, CopyOK
<1>5. Cont(p) = l[p].then
  BY <1>1 DEF Cont, Putting, Paused
<1>8. 0 \notin Inum
  BY DEF Inum
<1>6. CASE Goes(p, "idle", None, <<>>, 0, 0, 0, "end")
  <2>1. Rest(p) /\ 0 \notin Inum
    BY <1>1, <1>6 DEF Rest, Goes, Inum
  <2>2. Gets(p)
    BY <1>1, <1>6, <2>1 DEF Goes, Gets
  <2>. QED  BY <1>1, <1>3, <1>4, <1>6, <2>1, <2>2, CallEnds
<1>7. CASE /\ Goes(p, l[p].then, l[p].call, l[p].names, l[p].at, l[p].ip, 0, l[p].then)
  <2>1. Sound(inode')
    BY <1>4
  <2>2. Rest(p)
    BY <1>1, <1>7 DEF Rest, Goes
  <2>3. Valids(p) /\ CopyOK'
    BY <1>1, <1>7, <2>1, <2>2, SoundStep
  <2>4. Cont(p)' = Cont(p) /\ Op(p)' = Op(p) /\ Parent(p)' = Parent(p)
    BY <1>1, <1>2, <1>7, <1>5, ThenOut DEF Goes, Cont, Putting, Paused, HoldsAt, Op, Parent, Linking
  <2>5. \A j \in Inum : Owes(p, j)' => Owes(p, j)
    BY <1>1, <1>2, <1>7, <2>4, <1>5 DEF Goes, Owes, Owing
  <2>6. DiskOK' /\ LinkCount' /\ Touches(p)
    BY <1>1, <1>7, <2>2, <2>5, SameLinks
  <2>7. Gets(p)
    BY <1>1, <1>2, <1>7 DEF Goes, Gets, FromIp, Shape, Putting, Paused, Inum
  <2>8. Relies(p)'
    <3>1. l'[p].names \in Seq(Name)
      BY <1>1, <1>2, <1>7 DEF Goes, Relies
    <3>2. \A j \in Inum : Uses(p, j)' => Uses(p, j) \/ disk'[j].type # "none"
      BY <1>1, <1>2, <1>7 DEF Goes, Uses, Shape, Putting, Paused, Inum
    <3>3. \A j \in Inum : Knows(p, j)' => Knows(p, j) \/ j = Root \/ inode'[j].valid
      BY <1>1, <1>2, <1>7, <2>4, <1>5, <1>8 DEF Goes, Knows, HoldsAt
    <3>4. /\ cwd'[p] = cwd[p]
          /\ Cont(p)' \in {"linkto", "create", "unlink", "init"} => disk'[l'[p].at].type = "DIR"
          /\ Cont(p)' \in Owing \cup {"putip"} /\ Op(p)' = "link" /\ l'[p].ip # 0 => disk'[l'[p].ip].type = "FILE"
          /\ Cont(p)' = "unlinkip" => disk'[l'[p].at].ent[Head(l'[p].names)] = l'[p].ip
          /\ Cont(p)' # "init"
      BY <1>1, <1>2, <1>7, <2>4, <1>5, ThenOut DEF Goes, Owing, Relies
    <3>. QED  BY <1>1, <2>3, <2>6, <3>1, <3>2, <3>3, <3>4, OwnRelies
  <2>9. Exclusive(p)'
    BY <1>1, <1>2, <1>7, ThenOut, NothingNew DEF Goes
  <2>. QED  BY <1>3, <2>2, <2>3, <2>6, <2>7, <2>8, <2>9, DiskStep
<1>. QED  BY <1>6, <1>7, PutDropsDoes

LEMMA PutLocksKeeps ==
  ASSUME IInv, DInv, NEW p \in Proc, PutLocks(p)
  PROVE  DInv' /\ Touches(p)
<1>. DEFINE i == l[p].put
<1>1. /\ i \in Inum /\ l[p].pc = "put" /\ l[p].then \in Thens /\ LastRef(i) /\ inode[i].lock = None
      /\ disk' = disk /\ cwd' = cwd /\ file' = file /\ inode' = [inode EXCEPT ![i].lock = p]
  BY PutLocksDoes
<1>2. /\ TypeOK /\ ShapeOK /\ CopyOK /\ DiskOK /\ LinkCount
      /\ Relies(p) /\ Exclusive(p) /\ Shape(p)
  BY DEF IInv, DInv, ShapeOK
<1>3. TypeOK' /\ RefsExact'
  BY PutLocksInv DEF IInv
<1>4. Sound(inode') /\ inode'[i].ref = 1
  <2>1. Sound(inode) /\ p \in Proc \cup {None}
    BY <1>2, SoundNow
  <2>2. inode[i].ref = 1
    BY <1>1 DEF LastRef
  <2>3. i \in Inum /\ inode' = [inode EXCEPT ![i].lock = p]
    BY <1>1
  <2>. QED  BY <1>2, <2>1, <2>2, <2>3, LocksSound
<1>5. Cont(p) = l[p].then
  BY <1>1 DEF Cont, Putting, Paused
<1>6. disk[i].nlink = 0
  BY <1>1, <1>2, LoadedCopy DEF LastRef, CopyOK, Copy
<1>7. /\ Goes(p, "trunc", l[p].call, l[p].names, l[p].at, l[p].ip, l[p].put, l[p].then)
  BY PutLocksDoes
<1>. QED
  <2>1. Sound(inode')
    BY <1>4
  <2>2. Rest(p)
    BY <1>1, <1>7 DEF Rest, Goes
  <2>3. Valids(p) /\ CopyOK'
    BY <1>1, <1>7, <2>1, <2>2, SoundStep
  <2>4. Cont(p)' = Cont(p) /\ Op(p)' = Op(p) /\ Parent(p)' = Parent(p)
    BY <1>1, <1>2, <1>7, <1>5 DEF Goes, Cont, Putting, Paused, HoldsAt, Op, Parent, Linking
  <2>5. \A j \in Inum : Owes(p, j)' => Owes(p, j)
    BY <1>1, <1>2, <1>7, <2>4, <1>5 DEF Goes, Owes, Owing
  <2>6. DiskOK' /\ LinkCount' /\ Touches(p)
    BY <1>1, <1>7, <2>2, <2>5, SameLinks
  <2>7. Gets(p)
    BY SMTT(30), <1>1, <1>2, <1>7 DEF Goes, Gets, FromIp, Shape, Putting, Paused, Inum
  <2>8. Relies(p)'
    <3>1. l'[p].names \in Seq(Name)
      BY <1>1, <1>2, <1>7 DEF Goes, Relies
    <3>2. \A j \in Inum : Uses(p, j)' => Uses(p, j) \/ disk'[j].type # "none"
      BY <1>1, <1>2, <1>7 DEF Goes, Uses, Shape, Putting, Paused, Inum
    <3>3. \A j \in Inum : Knows(p, j)' => Knows(p, j) \/ j = Root \/ inode'[j].valid
      BY <1>1, <1>2, <1>7, <2>4, <1>5 DEF Goes, Knows, HoldsAt
    <3>4. /\ cwd'[p] = cwd[p]
          /\ Cont(p)' \in {"linkto", "create", "unlink", "init"} => disk'[l'[p].at].type = "DIR"
          /\ Cont(p)' \in Owing \cup {"putip"} /\ Op(p)' = "link" /\ l'[p].ip # 0 => disk'[l'[p].ip].type = "FILE"
          /\ Cont(p)' = "unlinkip" => disk'[l'[p].at].ent[Head(l'[p].names)] = l'[p].ip
          /\ Cont(p)' # "init"
      BY <1>1, <1>2, <1>7, <2>4, <1>5, ThenOut DEF Goes, Owing, Relies
    <3>. QED  BY <1>1, <2>3, <2>6, <3>1, <3>2, <3>3, <3>4, OwnRelies
  <2>9. Exclusive(p)'
    BY <1>1, <1>4, <1>6, <1>7 DEF Goes, Exclusive, TruncOK, FreedOK, NewOK
  <2>. QED  BY <1>3, <2>2, <2>3, <2>6, <2>7, <2>8, <2>9, DiskStep

LEMMA PutUnlocksKeeps ==
  ASSUME IInv, DInv, NEW p \in Proc, PutUnlocks(p)
  PROVE  DInv' /\ Touches(p)
<1>. DEFINE i == l[p].put
<1>1. /\ i \in Inum /\ l[p].pc = "freed" /\ l[p].then \in Thens
      /\ disk' = disk /\ cwd' = cwd /\ file' = file /\ inode' = [inode EXCEPT ![i] = Invalidated(@)]
      /\ Goes(p, "drop", l[p].call, l[p].names, l[p].at, l[p].ip, l[p].put, l[p].then)
  BY PutUnlocksDoes
<1>2. /\ TypeOK /\ ShapeOK /\ CopyOK /\ DiskOK /\ LinkCount
      /\ Relies(p) /\ Exclusive(p) /\ Shape(p)
  BY DEF IInv, DInv, ShapeOK
<1>3. TypeOK' /\ RefsExact'
  BY PutUnlocksInv DEF IInv
<1>4. Cont(p) = l[p].then /\ Cont(p)' = Cont(p)
  BY <1>1 DEF Cont, Putting, Paused, Goes
<1>5. ~inode'[i].valid /\ \A j \in Inum : j # i => inode'[j] = inode[j]
  BY <1>1, <1>2 DEF Invalidated, TypeOK, Table
<1>6. Rest(p)
  BY <1>1 DEF Rest, Goes
<1>7. Valids(p)
  BY <1>1, <1>5 DEF Valids
<1>8. CopyOK'
  <2>1. ASSUME NEW j \in Inum, inode'[j].valid PROVE Copy(inode[j], j)' \/ Freed(j)'
    <3>1. j # i /\ inode[j].valid /\ inode'[j] = inode[j]
      BY <1>5, <2>1
    <3>2. Freed(j) => Freed(j)'
      BY <1>6, <3>1 DEF Freed, Rest
    <3>3. Copy(inode[j], j) => Copy(inode[j], j)'
      BY <1>1, <3>1 DEF Copy
    <3>. QED  BY <1>2, <3>1, <3>2, <3>3 DEF CopyOK
  <2>. QED  BY <2>1 DEF CopyOK
<1>9. DiskOK' /\ LinkCount' /\ Touches(p)
  <2>1. \A j \in Inum : Owes(p, j)' => Owes(p, j)
    BY <1>1, <1>4 DEF Owes, Goes
  <2>. QED  BY <1>1, <1>6, <2>1, SameLinks
<1>10. Gets(p)
  BY SMTT(30), <1>1 DEF Goes, Gets, FromIp
<1>11. Relies(p)'
  <2>1. Op(p)' = Op(p) /\ Type(p)' = Type(p) /\ Parent(p)' = Parent(p) /\ HoldsAt(p)' = HoldsAt(p)
    BY <1>1, <1>4 DEF Goes, Op, Type, Parent, Linking, HoldsAt
  <2>2. ASSUME NEW j \in Inum, Uses(p, j)' PROVE disk'[j].type # "none"
    BY <1>1, <1>2, <2>2 DEF Goes, Uses, Relies
  <2>3. ASSUME NEW j \in Inum, Knows(p, j)' PROVE j = Root \/ inode'[j].valid
    <3>1. Knows(p, j)
      BY <1>1, <1>4, <2>1, <2>3 DEF Goes, Knows
    <3>2. j # i
      BY <1>1, <1>2, <3>1, FreedNotUsed DEF Exclusive
    <3>. QED  BY <1>2, <1>5, <3>1, <3>2 DEF Relies
  <2>. QED  BY <1>1, <1>2, <1>4, <2>1, <2>2, <2>3 DEF Goes, Relies
<1>12. Exclusive(p)'
  BY <1>1, NothingNew DEF Goes
<1>. QED  BY <1>3, <1>6, <1>7, <1>8, <1>9, <1>10, <1>11, <1>12, DiskStep

LEMMA OpenKeeps ==
  ASSUME IInv, DInv, NEW p \in Proc, Open(p)
  PROVE  DInv' /\ Touches(p)
<1>. DEFINE d == l[p].at
<1>1. /\ d \in Inum /\ l[p].pc \in {"open", "existing"}
      /\ disk' = disk /\ cwd' = cwd /\ inode' = Loaded(d)
  BY OpenDoes
<1>2. /\ TypeOK /\ ShapeOK /\ CopyOK /\ DiskOK /\ LinkCount
      /\ Relies(p) /\ Exclusive(p) /\ Shape(p)
  BY DEF IInv, DInv, ShapeOK
<1>3. TypeOK' /\ RefsExact'
  BY OpenInv DEF IInv
<1>4. disk[d].type # "none" /\ Sound(Loaded(d)) /\ Loaded(d)[d].valid
  <2>1. disk[d].type # "none"
    BY <1>1, <1>2 DEF Relies, Uses
  <2>. QED  BY <1>1, <1>2, <2>1, SoundLoaded

<1>5. CASE file[p] = 0 /\ file' = [file EXCEPT ![p] = d] /\ Goes(p, "idle", None, <<>>, 0, 0, 0, "end")
  <2>1. Rest(p) /\ 0 \notin Inum /\ file'[p] = d
    BY <1>1, <1>2, <1>5, Typed DEF Rest, Goes, Inum, TypeOK
  <2>2. Gets(p)
    BY <1>1, <1>5, <2>1 DEF Goes, Gets
  <2>. QED  BY <1>1, <1>3, <1>4, <1>5, <2>1, <2>2, CallEnds
<1>6. CASE UNCHANGED file /\ Goes(p, "put", None, <<>>, 0, 0, d, "end")
  BY <1>1, <1>3, <1>6, GivesUp
<1>. QED  BY <1>5, <1>6, OpenDoes

LEMMA ChdirKeeps ==
  ASSUME IInv, DInv, NEW p \in Proc, Chdir(p)
  PROVE  DInv' /\ Touches(p)
<1>. DEFINE d == l[p].at
<1>1. /\ d \in Inum /\ l[p].pc = "chdir" /\ inode[d].lock = None /\ cwd[p] \in Inum
      /\ disk' = disk /\ file' = file /\ inode' = Loaded(d)
  BY ChdirDoes
<1>2. /\ TypeOK /\ ShapeOK /\ CopyOK /\ DiskOK /\ LinkCount
      /\ Relies(p) /\ Exclusive(p) /\ Shape(p)
  BY DEF IInv, DInv, ShapeOK
<1>3. TypeOK' /\ RefsExact'
  BY ChdirInv DEF IInv
<1>4. disk[d].type # "none" /\ Sound(Loaded(d)) /\ Loaded(d)[d].valid
  <2>1. disk[d].type # "none"
    BY <1>1, <1>2 DEF Relies, Uses
  <2>. QED  BY <1>1, <1>2, <2>1, SoundLoaded

<1>5. Loaded(d)[d].type = disk[d].type
  BY <1>1, <1>2, LoadedCopy
<1>6. CASE Loaded(d)[d].type = "DIR" /\ cwd' = [cwd EXCEPT ![p] = d] /\ Goes(p, "put", None, <<>>, 0, 0, cwd[p], "end")
  <2>1. Rest(p) /\ 0 \notin Inum /\ cwd'[p] = d
    BY <1>1, <1>2, <1>6 DEF Rest, Goes, Inum, TypeOK
  <2>2. Gets(p)
    BY <1>1, <1>6, <2>1 DEF Goes, Gets
  <2>3. disk[cwd[p]].type # "none" /\ (cwd[p] = Root \/ inode[cwd[p]].valid)
    BY <1>1, <1>2 DEF Relies, Uses, Knows
  <2>4. inode[cwd[p]].ref > 0
    BY <1>1, Referred
  <2>5. cwd[p] = Root \/ inode'[cwd[p]].valid
    BY <1>1, <1>4, <2>3, <2>4 DEF Sound
  <2>. QED  BY <1>1, <1>3, <1>4, <1>5, <1>6, <2>1, <2>2, <2>3, <2>5, CallEnds
<1>7. CASE UNCHANGED cwd /\ Goes(p, "put", None, <<>>, 0, 0, d, "end")
  BY <1>1, <1>3, <1>7, GivesUp
<1>. QED  BY <1>6, <1>7, ChdirDoes

LEMMA CloseKeeps ==
  ASSUME IInv, DInv, NEW p \in Proc, Close(p)
  PROVE  DInv' /\ Touches(p)
<1>. DEFINE i == file[p]
<1>1. /\ i \in Inum /\ l[p].pc = "idle" /\ file' = [file EXCEPT ![p] = 0]
      /\ disk' = disk /\ cwd' = cwd /\ inode' = inode
      /\ Goes(p, "put", None, <<>>, 0, 0, i, "end")
  BY CloseDoes
<1>2. /\ TypeOK /\ ShapeOK /\ CopyOK /\ DiskOK /\ LinkCount
      /\ Relies(p) /\ Exclusive(p) /\ Shape(p)
  BY DEF IInv, DInv, ShapeOK
<1>3. TypeOK' /\ RefsExact'
  BY CloseInv DEF IInv
<1>4. Rest(p) /\ 0 \notin Inum /\ file'[p] = 0
  BY <1>1, <1>2 DEF Rest, Goes, Inum, TypeOK
<1>5. Gets(p)
  BY <1>1, <1>4 DEF Goes, Gets
<1>6. disk[i].type # "none" /\ (i = Root \/ inode'[i].valid)
  BY <1>1, <1>2 DEF Relies, Uses, Knows
<1>7. Sound(inode')
  BY <1>1, <1>2, SoundNow
<1>. QED  BY <1>1, <1>3, <1>4, <1>5, <1>6, <1>7, CallEnds

LEMMA PutIpKeeps ==
  ASSUME IInv, DInv, NEW p \in Proc, PutIp(p)
  PROVE  DInv' /\ Touches(p)
<1>. DEFINE i == l[p].ip
<1>1. /\ i \in Inum /\ l[p].pc = "putip"
      /\ disk' = disk /\ cwd' = cwd /\ inode' = inode /\ file' = file
      /\ Goes(p, "put", None, <<>>, 0, 0, i, "end")
  BY PutIpDoes
<1>2. /\ TypeOK /\ ShapeOK /\ CopyOK /\ DiskOK /\ LinkCount
      /\ Relies(p) /\ Exclusive(p) /\ Shape(p)
  BY DEF IInv, DInv, ShapeOK
<1>3. TypeOK' /\ RefsExact'
  BY PutIpInv DEF IInv
<1>4. Rest(p) /\ 0 \notin Inum /\ Cont(p) = "putip"
  BY <1>1, <1>2 DEF Rest, Goes, Inum, Cont, Putting, Paused
<1>5. Gets(p)
  BY <1>1, <1>4 DEF Goes, Gets, FromIp
<1>6. disk[i].type # "none" /\ (i = Root \/ inode'[i].valid)
  BY <1>1, <1>2, <1>4 DEF Relies, Uses, Knows
<1>7. Sound(inode')
  BY <1>1, <1>2, SoundNow
<1>. QED  BY <1>1, <1>3, <1>4, <1>5, <1>6, <1>7, CallEnds

LEMMA UnlockDpKeeps ==
  ASSUME IInv, DInv, NEW p \in Proc, UnlockDp(p)
  PROVE  DInv' /\ Touches(p)
<1>. DEFINE d == l[p].at
<1>1. /\ d \in Inum /\ l[p].pc = "unlockdp"
      /\ disk' = disk /\ cwd' = cwd /\ inode' = [inode EXCEPT ![d].lock = None] /\ file' = file
      /\ Goes(p, "put", None, <<>>, 0, 0, d, "end")
  BY UnlockDpDoes
<1>2. /\ TypeOK /\ ShapeOK /\ CopyOK /\ DiskOK /\ LinkCount
      /\ Relies(p) /\ Exclusive(p) /\ Shape(p)
  BY DEF IInv, DInv, ShapeOK
<1>3. TypeOK' /\ RefsExact'
  BY UnlockDpInv DEF IInv
<1>4. Rest(p) /\ 0 \notin Inum /\ Cont(p) = "unlockdp"
  BY <1>1, <1>2 DEF Rest, Goes, Inum, Cont, Putting, Paused
<1>5. Gets(p)
  BY <1>1, <1>4 DEF Goes, Gets, FromIp
<1>6. Sound(inode') /\ inode'[d].valid = inode[d].valid
  BY <1>1, <1>2, LocksSound
<1>7. disk[d].type # "none" /\ (d = Root \/ inode'[d].valid)
  BY <1>1, <1>2, <1>4, <1>6 DEF Relies, Uses, Knows, HoldsAt
<1>. QED  BY <1>1, <1>3, <1>4, <1>5, <1>6, <1>7, CallEnds

LEMMA CreatedKeeps ==
  ASSUME IInv, DInv, NEW p \in Proc, Created(p)
  PROVE  DInv' /\ Touches(p)
<1>. DEFINE i == l[p].ip
<1>1. /\ i \in Inum /\ l[p].pc = "created"
      /\ disk' = disk /\ cwd' = cwd /\ inode' = [inode EXCEPT ![i].lock = None]
  BY CreatedDoes
<1>2. /\ TypeOK /\ ShapeOK /\ CopyOK /\ DiskOK /\ LinkCount
      /\ Relies(p) /\ Exclusive(p) /\ Shape(p)
  BY DEF IInv, DInv, ShapeOK
<1>3. TypeOK' /\ RefsExact'
  BY CreatedInv DEF IInv
<1>4. 0 \notin Inum /\ Cont(p) = "created"
  BY <1>1, <1>2 DEF Inum, Cont, Putting, Paused
<1>5. Sound(inode') /\ inode'[i].valid = inode[i].valid
  BY <1>1, <1>2, LocksSound
<1>6. disk[i].type # "none" /\ (i = Root \/ inode'[i].valid)
  BY <1>1, <1>2, <1>4, <1>5 DEF Relies, Uses, Knows
<1>7. CASE file[p] = 0 /\ file' = [file EXCEPT ![p] = i] /\ Goes(p, "idle", None, <<>>, 0, 0, 0, "end")
  <2>1. Rest(p) /\ file'[p] = i
    BY <1>1, <1>2, <1>7 DEF Rest, Goes, TypeOK
  <2>2. Gets(p)
    BY <1>1, <1>4, <1>7, <2>1 DEF Goes, Gets, FromIp
  <2>. QED  BY <1>1, <1>3, <1>4, <1>5, <1>6, <1>7, <2>1, <2>2, CallEnds
<1>8. CASE UNCHANGED file /\ Goes(p, "put", None, <<>>, 0, 0, i, "end")
  <2>1. Rest(p)
    BY <1>1, <1>8 DEF Rest, Goes
  <2>2. Gets(p)
    BY <1>1, <1>4, <1>8 DEF Goes, Gets, FromIp
  <2>. QED  BY <1>1, <1>3, <1>4, <1>5, <1>6, <1>8, <2>1, <2>2, CallEnds
<1>. QED  BY <1>7, <1>8, CreatedDoes

LEMMA UnlinkKeeps ==
  ASSUME IInv, DInv, NEW p \in Proc, Unlink(p)
  PROVE  DInv' /\ Touches(p)
<1>. DEFINE d == l[p].at
<1>1. /\ d \in Inum /\ l[p].pc = "unlink" /\ inode[d].lock = None /\ l[p].names # <<>>
      /\ disk' = disk /\ cwd' = cwd /\ file' = file
  BY UnlinkDoes
<1>2. /\ TypeOK /\ ShapeOK /\ CopyOK /\ DiskOK /\ LinkCount
      /\ Relies(p) /\ Exclusive(p) /\ Shape(p)
  BY DEF IInv, DInv, ShapeOK
<1>3. TypeOK' /\ RefsExact'
  BY UnlinkInv DEF IInv
<1>4. disk[d].type # "none" /\ Sound(Loaded(d)) /\ Loaded(d)[d].valid /\ inode[d].ref > 0 /\ Cont(p) = "unlink"
      /\ \A j \in Inum : Loaded(d)[j].ref = inode[j].ref
  <2>1. disk[d].type # "none" /\ Cont(p) = "unlink"
    BY <1>1, <1>2 DEF Relies, Uses, Cont, Putting, Paused
  <2>. QED  BY <1>1, <1>2, <2>1, SoundLoaded, Referred
<1>5. Entry(p, d) # 0 => disk[Entry(p, d)].nlink >= 1 /\ disk[Entry(p, d)].type # "none"
  <2>1. l[p].names \in Seq(Name) /\ l[p].names # <<>>
    BY <1>1, <1>2 DEF Relies
  <2>2. Head(l[p].names) \in Name
    BY <2>1
  <2>. QED  BY Zenon, <1>1, <1>2, <2>2, NamedIs DEF Entry
<1>6. CASE inode' = Loaded(d) /\ Goes(p, "put", None, <<>>, 0, 0, d, "end")
  BY <1>1, <1>3, <1>6, GivesUp
<1>. DEFINE T == [Loaded(d) EXCEPT ![d].lock = p]
<1>7. ASSUME Entry(p, d) \in Inum PROVE Sound(Iget(T, Entry(p, d))) /\ Iget(T, Entry(p, d))[d].valid
  <2>1. p \in Proc \cup {None}
    OBVIOUS
  <2>2. Sound(T) /\ T[d].valid /\ \A j \in Inum : T[j].ref = inode[j].ref
    BY <1>1, <1>4, <2>1, SoundLock
  <2>. HIDE DEF T
  <2>. QED  BY <1>1, <1>4, <1>7, <2>2, SoundGet
<1>. HIDE DEF T
<1>8. CASE /\ Entry(p, d) \in Inum /\ inode' = Iget(T, Entry(p, d))
            /\ Goes(p, "unlinkip", l[p].call, l[p].names, d, Entry(p, d), l[p].put, l[p].then)
  <2>1. Sound(inode')
    BY <1>7, <1>8
  <2>2. Rest(p)
    BY <1>1, <1>8 DEF Rest, Goes
  <2>3. Valids(p) /\ CopyOK'
    BY <1>1, <1>8, <2>1, <2>2, SoundStep
  <2>4. Cont(p)' = "unlinkip" /\ Op(p)' = Op(p)
    BY <1>1, <1>2, <1>8 DEF Goes, Cont, Putting, Paused, HoldsAt, Op, Parent, Linking
  <2>5. \A j \in Inum : Owes(p, j)' => Owes(p, j)
    BY <1>1, <1>2, <1>8, <2>4, <1>4 DEF Goes, Owes, Owing
  <2>6. DiskOK' /\ LinkCount' /\ Touches(p)
    BY <1>1, <1>8, <2>2, <2>5, SameLinks
  <2>7. Gets(p)
    BY <1>1, <1>2, <1>8, <1>5 DEF Goes, Gets, FromIp, Shape, Putting, Paused, Inum
  <2>8. Relies(p)'
    <3>1. l'[p].names \in Seq(Name)
      BY <1>1, <1>2, <1>8 DEF Goes, Relies
    <3>2. \A j \in Inum : Uses(p, j)' => Uses(p, j) \/ disk'[j].type # "none"
      BY <1>1, <1>2, <1>8, <1>5 DEF Goes, Uses, Shape, Putting, Paused, Inum
    <3>3. \A j \in Inum : Knows(p, j)' => Knows(p, j) \/ j = Root \/ inode'[j].valid
      BY SMTT(30), <1>1, <1>2, <1>8, <2>4, <1>4, <1>7 DEF Goes, Knows, HoldsAt
    <3>4. /\ cwd'[p] = cwd[p]
          /\ Cont(p)' \in {"linkto", "create", "unlink", "init"} => disk'[l'[p].at].type = "DIR"
          /\ Cont(p)' \in Owing \cup {"putip"} /\ Op(p)' = "link" /\ l'[p].ip # 0 => disk'[l'[p].ip].type = "FILE"
          /\ Cont(p)' = "unlinkip" => disk'[l'[p].at].ent[Head(l'[p].names)] = l'[p].ip
          /\ Cont(p)' # "init"
      BY <1>1, <1>2, <1>8, <2>4, <1>4 DEF Goes, Owing, Relies, Entry
    <3>. QED  BY <1>1, <2>3, <2>6, <3>1, <3>2, <3>3, <3>4, OwnRelies
  <2>9. Exclusive(p)'
    BY <1>1, <1>2, <1>8, NothingNew DEF Goes
  <2>. QED  BY <1>3, <2>2, <2>3, <2>6, <2>7, <2>8, <2>9, DiskStep
<1>. QED  BY <1>6, <1>8, UnlinkDoes DEF T
-----------------------------------------------------------------------------
(* Actions that change the disk *)

\* One more, or one less.
LEMMA Counts ==
  ASSUME NEW S, IsFiniteSet(S), NEW T
  PROVE  /\ T \subseteq S => IsFiniteSet(T) /\ Cardinality(T) <= Cardinality(S)
         /\ \A x : T \subseteq S \cup {x} => IsFiniteSet(T) /\ Cardinality(T) <= Cardinality(S) + 1
         /\ \A x \in S : T \subseteq S \ {x} => IsFiniteSet(T) /\ Cardinality(T) <= Cardinality(S) - 1
<1>1. ASSUME T \subseteq S PROVE IsFiniteSet(T) /\ Cardinality(T) <= Cardinality(S)
  BY <1>1, FS_Subset
<1>2. ASSUME NEW x, T \subseteq S \cup {x} PROVE IsFiniteSet(T) /\ Cardinality(T) <= Cardinality(S) + 1
  <2>1. /\ IsFiniteSet(S \cup {x}) /\ Cardinality(S) \in Nat
        /\ (Cardinality(S \cup {x}) = Cardinality(S) \/ Cardinality(S \cup {x}) = Cardinality(S) + 1)
    BY FS_AddElement, FS_CardinalityType
  <2>2. IsFiniteSet(T) /\ Cardinality(T) <= Cardinality(S \cup {x}) /\ Cardinality(T) \in Nat
    BY <1>2, <2>1, FS_Subset, FS_CardinalityType
  <2>. QED  BY <2>1, <2>2
<1>3. ASSUME NEW x \in S, T \subseteq S \ {x} PROVE IsFiniteSet(T) /\ Cardinality(T) <= Cardinality(S) - 1
  <2>1. IsFiniteSet(S \ {x}) /\ Cardinality(S \ {x}) = Cardinality(S) - 1
    BY FS_RemoveElement
  <2>2. IsFiniteSet(T) /\ Cardinality(T) <= Cardinality(S \ {x})
    BY <1>3, <2>1, FS_Subset
  <2>. QED  BY <2>1, <2>2
<1>. QED  BY <1>1, <1>2, <1>3

\* Entries, ".." and owed links may grow by as many as the count of links.
LEMMA LinksMove ==
  ASSUME TypeOK, disk' \in Disk, LinkCount, NEW i \in Inum, NEW a \in Int, NEW b \in Int, NEW c \in Int,
         Cardinality(EntriesOf(i)') <= Cardinality(EntriesOf(i)) + a,
         Cardinality(Below(i)') <= Cardinality(Below(i)) + b,
         Cardinality(Owers(i)') <= Cardinality(Owers(i)) + c,
         IsFiniteSet(EntriesOf(i)'), IsFiniteSet(Below(i)'), IsFiniteSet(Owers(i)'),
         disk'[i].nlink >= disk[i].nlink + a + b + c
  PROVE  Links(i)' + Owe(i)' <= disk'[i].nlink
<1>1. Links(i)' = Cardinality(EntriesOf(i)') + Cardinality(Below(i)') /\ Owe(i)' = Cardinality(Owers(i)')
  BY DEF Links, EntriesOf, Below, Owe, Owers
<1>2. Cardinality(EntriesOf(i)') \in Nat /\ Cardinality(Below(i)') \in Nat /\ Cardinality(Owers(i)') \in Nat
  BY FS_CardinalityType
<1>3. Links(i) + Owe(i) <= disk[i].nlink /\ disk[i].nlink \in Int /\ disk'[i].nlink \in Int
  BY DEF LinkCount, TypeOK, Disk
<1>4. /\ Links(i) = Cardinality(EntriesOf(i)) + Cardinality(Below(i)) /\ Owe(i) = Cardinality(Owers(i))
      /\ Cardinality(EntriesOf(i)) \in Nat /\ Cardinality(Below(i)) \in Nat /\ Cardinality(Owers(i)) \in Nat
  BY LinkSets
<1>. QED  BY <1>1, <1>2, <1>3, <1>4

LEMMA LinksStay ==
  ASSUME TypeOK, disk' \in Disk, LinkCount, NEW i \in Inum,
         EntriesOf(i)' \subseteq EntriesOf(i), Below(i)' \subseteq Below(i), Owers(i)' \subseteq Owers(i),
         disk'[i].nlink = disk[i].nlink
  PROVE  Links(i)' + Owe(i)' <= disk'[i].nlink
<1>1. /\ IsFiniteSet(EntriesOf(i)') /\ IsFiniteSet(Below(i)') /\ IsFiniteSet(Owers(i)')
      /\ Cardinality(EntriesOf(i)') <= Cardinality(EntriesOf(i))
      /\ Cardinality(Below(i)') <= Cardinality(Below(i))
      /\ Cardinality(Owers(i)') <= Cardinality(Owers(i))
  BY LinkSets, Counts
<1>2. /\ Cardinality(EntriesOf(i)) + 0 = Cardinality(EntriesOf(i))
      /\ Cardinality(Below(i)) + 0 = Cardinality(Below(i))
      /\ Cardinality(Owers(i)) + 0 = Cardinality(Owers(i))
  BY LinkSets
<1>3. disk[i].nlink + 0 + 0 + 0 = disk[i].nlink /\ disk[i].nlink \in Int /\ 0 \in Int
  BY DEF TypeOK, Disk
<1>4. disk'[i].nlink >= disk[i].nlink + 0 + 0 + 0
  BY <1>3
<1>. QED  BY <1>1, <1>2, <1>3, <1>4, LinksMove

\* Copies, when disk and table change.
LEMMA CopyStep ==
  ASSUME NEW p \in Proc, Rest(p), l[p].pc # "freed",
         \A i \in Inum : /\ inode'[i].valid => Copy(inode[i], i)' \/ Freed(i) \/ Freed(i)'
                         /\ inode[i].valid /\ inode[i].ref > 0 => inode'[i].valid
  PROVE  Valids(p) /\ CopyOK'
<1>1. \A i : Freed(i) => Freed(i)'
  BY DEF Freed, Rest
<1>. QED  BY <1>1 DEF Valids, CopyOK

\* The inodes that are somewhere on the disk.
LEMMA NamedAre ==
  ASSUME TypeOK, NEW d \in Inum, d \in Named
  PROVE  d = Root \/ \E e \in Inum, n \in Name : disk[e].ent[n] = d
BY DEF Named

LEMMA PutFreesKeeps ==
  ASSUME IInv, DInv, NEW p \in Proc, PutFrees(p)
  PROVE  DInv' /\ Touches(p)
<1>. DEFINE i == l[p].put
<1>1. /\ i \in Inum /\ l[p].pc = "trunc" /\ l[p].then \in Thens /\ cwd' = cwd /\ file' = file
      /\ disk' = [disk EXCEPT ![i] = [type |-> "none", nlink |-> 0, ent |-> Empty]]
      /\ inode' = [inode EXCEPT ![i].type = "none"]
      /\ Goes(p, "freed", l[p].call, l[p].names, l[p].at, l[p].ip, l[p].put, l[p].then)
  BY PutFreesDoes
<1>2. /\ TypeOK /\ ShapeOK /\ CopyOK /\ DiskOK /\ LinkCount
      /\ Relies(p) /\ Exclusive(p) /\ Shape(p)
  BY DEF IInv, DInv, ShapeOK
<1>3. TypeOK' /\ RefsExact'
  BY PutFreesInv DEF IInv
<1>4. Rest(p) /\ Cont(p) = l[p].then /\ Cont(p)' = Cont(p) /\ 0 \notin Inum
  BY <1>1 DEF Rest, Goes, Cont, Putting, Paused, Inum
<1>5. inode[i].ref = 1 /\ disk[i].nlink = 0
  BY <1>1, <1>2 DEF Exclusive, TruncOK
<1>6. \A q \in Proc : /\ cwd[q] # i /\ file[q] # i /\ l[q].at # i /\ l[q].ip # i
                      /\ q # p => l[q].put # i
  BY <1>1, <1>5, Alone
<1>7. i # Root /\ \A d \in Inum, n \in Name : disk[d].ent[n] # i
  BY <1>1, <1>2, <1>5, NoLinks
<1>8. /\ disk'[i].type = "none" /\ disk'[i].nlink = 0 /\ \A n \in Elements : disk'[i].ent[n] = 0
      /\ \A j \in Inum : j # i => disk'[j] = disk[j]
  BY <1>1, <1>2 DEF TypeOK, Disk, Empty, Elements
<1>9. \A j \in Inum : /\ inode'[j].valid = inode[j].valid
                      /\ j # i => inode'[j] = inode[j]
  BY <1>1, <1>2 DEF TypeOK, Table
<1>10. Valids(p) /\ CopyOK'
  <2>1. \A j \in Inum : j = i => Freed(j)'
    BY <1>1 DEF Freed, Goes
  <2>2. \A j \in Inum : j # i /\ Copy(inode[j], j) => Copy(inode[j], j)'
    BY <1>8, <1>9 DEF Copy
  <2>3. ASSUME NEW j \in Inum, inode'[j].valid PROVE Copy(inode[j], j)' \/ Freed(j) \/ Freed(j)'
    <3>1. inode[j].valid
      BY <1>9, <2>3
    <3>2. CASE j = i
      BY <2>1, <3>2
    <3>3. CASE j # i
      BY <1>2, <2>2, <3>1, <3>3 DEF CopyOK
    <3>. QED  BY <3>2, <3>3
  <2>. QED  BY <1>1, <1>4, <1>9, <2>3, CopyStep
<1>11. Touches(p)
  BY <1>1, <1>8 DEF Touches
<1>12. Gets(p)
  BY <1>1, <1>4 DEF Goes, Gets, FromIp
<1>13. DiskOK'
  <2>1. \A j \in Inum : disk'[j].type = "none" => disk'[j].nlink = 0
    BY <1>2, <1>8 DEF DiskOK
  <2>2. \A d \in Inum, n \in Elements : disk'[d].ent[n] # 0 => disk'[d].type = "DIR"
    BY <1>2, <1>8 DEF DiskOK
  <2>3. ASSUME NEW d \in Inum, NEW e \in Inum, NEW j \in Inum, NEW n \in Name, NEW m \in Name,
               disk'[d].ent[n] = j, disk'[j].type = "DIR"
        PROVE  disk'[j].ent[".."] = d /\ (disk'[e].ent[m] = j => e = d /\ m = n)
    <3>1. n \in Elements /\ m \in Elements
      BY DEF Elements
    <3>2. d # i /\ j # i /\ j # 0
      BY <1>4, <1>8, <2>3, <3>1
    <3>3. disk[d].ent[n] = j /\ disk[j].type = "DIR" /\ disk'[j] = disk[j]
      BY <1>8, <2>3, <3>2
    <3>4. disk'[e].ent[m] = j => disk[e].ent[m] = j
      BY <1>8, <3>1, <3>2
    <3>. QED  BY <1>2, <3>3, <3>4 DEF DiskOK
  <2>4. Root \in Inum
    BY <1>2, RootLinked
  <2>5. disk'[Root].type = "DIR" /\ disk'[Root].ent[".."] = Root
    BY <1>2, <1>7, <1>8, <2>4 DEF DiskOK
  <2>6. \A d \in Inum, n \in Name : disk'[d].ent[n] # Root
    BY <1>2, <1>4, <1>8, <2>4 DEF DiskOK, Elements
  <2>. QED  BY <2>1, <2>2, <2>3, <2>5, <2>6 DEF DiskOK
<1>14. LinkCount'
  <2>1. ASSUME NEW j \in Inum PROVE Links(j)' + Owe(j)' <= disk'[j].nlink
    <3>1. EntriesOf(j)' \subseteq EntriesOf(j)
      BY <1>4, <1>8 DEF EntriesOf, Elements
    <3>2. Inum \cap Named' \subseteq Inum \cap Named
      BY <1>4, <1>8 DEF Named, Elements
    <3>3. Below(j)' \subseteq Below(j)
      BY <1>4, <1>8, <3>2 DEF Below, Elements
    <3>4. Owers(j)' \subseteq Owers(j)
      BY <1>1, <1>4 DEF Owers, Owes, Goes, Cont, Putting, Rest
    <3>5. disk'[j].nlink = disk[j].nlink /\ disk[j].nlink \in Int /\ disk' \in Disk
      BY <1>2, <1>3, <1>5, <1>8 DEF TypeOK, Disk
    <3>. QED  BY <1>2, <3>1, <3>3, <3>4, <3>5, LinksStay
  <2>. QED  BY <2>1 DEF LinkCount
<1>15. Relies(p)'
  <2>1. Op(p)' = Op(p) /\ Type(p)' = Type(p) /\ Parent(p)' = Parent(p) /\ HoldsAt(p)' = HoldsAt(p)
    BY <1>1, <1>4 DEF Goes, Op, Type, Parent, Linking, HoldsAt
  <2>2. ASSUME NEW j \in Inum, Uses(p, j)' PROVE Uses(p, j) /\ j # i
    BY <1>1, <1>6, <2>2 DEF Goes, Uses
  <2>3. ASSUME NEW j \in Inum, Knows(p, j)' PROVE Knows(p, j) /\ j # i
    BY <1>1, <1>4, <1>6, <2>1, <2>3 DEF Goes, Knows
  <2>4. \A j \in Inum : Uses(p, j)' => disk'[j].type # "none"
    BY <1>2, <1>8, <2>2 DEF Relies
  <2>5. \A j \in Inum : Knows(p, j)' => j = Root \/ inode'[j].valid
    BY <1>2, <1>9, <2>3 DEF Relies
  <2>6. cwd[p] \in Inum /\ disk'[cwd[p]] = disk[cwd[p]]
    BY <1>2, <1>6, <1>8, Typed
  <2>7. l[p].ip # 0 => disk'[l[p].ip] = disk[l[p].ip]
    BY <1>2, <1>6, <1>8, Typed DEF Index
  <2>. QED  BY <1>1, <1>2, <1>4, <2>1, <2>4, <2>5, <2>6, <2>7, ThenOut DEF Goes, Relies
<1>16. Exclusive(p)'
  BY <1>1, <1>6, <1>8 DEF Goes, Exclusive, TruncOK, FreedOK, NewOK
<1>. QED  BY <1>3, <1>4, <1>10, <1>11, <1>12, <1>13, <1>14, <1>15, <1>16, DiskStep

LEMMA SameEntries ==
  ASSUME NEW j, \A d \in Inum : disk'[d].ent = disk[d].ent
  PROVE  EntriesOf(j)' = EntriesOf(j) /\ Below(j)' = Below(j)
<1>1. Named' = Named
  BY DEF Named
<1>2. EntriesOf(j)' = EntriesOf(j)
  BY DEF EntriesOf
<1>. QED  BY <1>1, <1>2 DEF Below

LEMMA SameKinds ==
  ASSUME DiskOK,
         \A d \in Inum : /\ disk'[d].ent = disk[d].ent /\ disk'[d].type = disk[d].type
                         /\ disk'[d].type = "none" => disk'[d].nlink = 0
  PROVE  DiskOK'
<1>1. Root \in Inum
  BY InodesAssumption DEF Root, Inum
<1>. QED  BY <1>1 DEF DiskOK

LEMMA SameInode ==
  ASSUME disk \in Disk, disk' \in Disk, NEW j \in Inum,
         disk'[j].type = disk[j].type, disk'[j].nlink = disk[j].nlink, disk'[j].ent = disk[j].ent
  PROVE  disk'[j] = disk[j]
BY DEF Disk

\* One that p owes is counted already.
LEMMA LinksOwed ==
  ASSUME TypeOK, disk' \in Disk, LinkCount, NEW i \in Inum, NEW p,
         EntriesOf(i)' = EntriesOf(i), Below(i)' = Below(i), Owers(i)' \subseteq Owers(i) \cup {p},
         disk'[i].nlink = disk[i].nlink + 1
  PROVE  Links(i)' + Owe(i)' <= disk'[i].nlink
<1>1. /\ IsFiniteSet(EntriesOf(i)') /\ IsFiniteSet(Below(i)') /\ IsFiniteSet(Owers(i)')
      /\ Cardinality(EntriesOf(i)') <= Cardinality(EntriesOf(i))
      /\ Cardinality(Below(i)') <= Cardinality(Below(i))
      /\ Cardinality(Owers(i)') <= Cardinality(Owers(i)) + 1
  BY Zenon, LinkSets, Counts
<1>2. /\ Cardinality(EntriesOf(i)) + 0 = Cardinality(EntriesOf(i))
      /\ Cardinality(Below(i)) + 0 = Cardinality(Below(i))
  BY LinkSets
<1>3. disk[i].nlink \in Int /\ 0 \in Int /\ 1 \in Int
  BY DEF TypeOK, Disk
<1>4. disk'[i].nlink >= disk[i].nlink + 0 + 0 + 1
  BY <1>3
<1>. QED  BY <1>1, <1>2, <1>3, <1>4, LinksMove

\* One that p owed is no longer counted.
LEMMA LinksPaid ==
  ASSUME TypeOK, disk' \in Disk, LinkCount, NEW i \in Inum, NEW p \in Owers(i),
         EntriesOf(i)' = EntriesOf(i), Below(i)' = Below(i), Owers(i)' \subseteq Owers(i) \ {p},
         disk'[i].nlink = disk[i].nlink - 1
  PROVE  Links(i)' + Owe(i)' <= disk'[i].nlink
<1>1. /\ IsFiniteSet(EntriesOf(i)') /\ IsFiniteSet(Below(i)') /\ IsFiniteSet(Owers(i)')
      /\ Cardinality(EntriesOf(i)') <= Cardinality(EntriesOf(i))
      /\ Cardinality(Below(i)') <= Cardinality(Below(i))
      /\ Cardinality(Owers(i)') <= Cardinality(Owers(i)) - 1
  BY LinkSets, Counts
<1>2. /\ Cardinality(EntriesOf(i)) + 0 = Cardinality(EntriesOf(i))
      /\ Cardinality(Below(i)) + 0 = Cardinality(Below(i))
      /\ Cardinality(Owers(i)) - 1 = Cardinality(Owers(i)) + (-1)
  BY LinkSets
<1>3. disk[i].nlink \in Int /\ 0 \in Int /\ -1 \in Int
  BY DEF TypeOK, Disk
<1>4. disk'[i].nlink >= disk[i].nlink + 0 + 0 + (-1)
  BY <1>3
<1>. QED  BY <1>1, <1>2, <1>3, <1>4, LinksMove

LEMMA LinkKeeps ==
  ASSUME IInv, DInv, NEW p \in Proc, NoDotDot, Link(p)
  PROVE  DInv' /\ Touches(p)
<1>. DEFINE d == l[p].at
<1>1. /\ d \in Inum /\ l[p].pc = "link" /\ inode[d].lock = None /\ Loaded(d)[d].type # "none"
      /\ cwd' = cwd /\ file' = file /\ 0 \notin Inum
  <2>1. 0 \notin Inum
    BY DEF Inum
  <2>. QED  BY <2>1, LinkDoes
<1>2. /\ TypeOK /\ ShapeOK /\ CopyOK /\ DiskOK /\ LinkCount
      /\ Relies(p) /\ Exclusive(p) /\ Shape(p)
  BY DEF IInv, DInv, ShapeOK
<1>3. TypeOK' /\ RefsExact'
  BY LinkInv DEF IInv
<1>4. /\ disk[d].type # "none" /\ Sound(Loaded(d)) /\ Loaded(d)[d].valid /\ inode[d].ref > 0 /\ Cont(p) = "link"
      /\ \A j \in Inum : Loaded(d)[j].ref = inode[j].ref
  <2>1. disk[d].type # "none" /\ Cont(p) = "link"
    BY <1>1, <1>2 DEF Relies, Uses, Cont, Putting, Paused
  <2>. QED  BY <1>1, <1>2, <2>1, SoundLoaded, Referred
<1>5. Loaded(d)[d].type = disk[d].type /\ Loaded(d)[d].nlink = disk[d].nlink /\ disk[d].nlink \in Int
  BY <1>1, <1>2, LoadedCopy DEF TypeOK, Disk
<1>6. CASE inode' = Loaded(d) /\ UNCHANGED disk /\ Goes(p, "put", None, <<>>, 0, 0, d, "end")
  BY <1>1, <1>3, <1>6, GivesUp
<1>. DEFINE path == l[p].call.new
            e == Start(p, path)
            k == Loaded(d)[d].nlink + 1
            T == [Loaded(d) EXCEPT ![d].nlink = k]
<1>7. CASE /\ Loaded(d)[d].type # "DIR" /\ e \in Inum /\ l[p].call \in Calls
           /\ inode' = Iget(T, e) /\ disk' = [disk EXCEPT ![d].nlink = k]
           /\ Goes(p, Loop(path.names), l[p].call, path.names, e, d, l[p].put, l[p].then)
  <2>1. Op(p) = "link" /\ l[p].put = 0
    BY <1>1, <1>2, <1>4, <1>7 DEF Shape, OpOK, Putting, Paused
  <2>2. path.names \in Seq(Name) /\ Loop(path.names) \in {"found", "walk"}
    BY <1>7, <2>1 DEF NoDotDot, Loop, Op
  <2>3. e = Root \/ e = cwd[p]
    BY DEF Start
  <2>4. k \in Int /\ k = disk[d].nlink + 1
    BY <1>5
  <2>5. /\ disk'[d].nlink = k
        /\ \A j \in Inum : /\ disk'[j].ent = disk[j].ent /\ disk'[j].type = disk[j].type
                           /\ j # d => disk'[j].nlink = disk[j].nlink
    <3>. HIDE DEF k, T
    <3>. QED  BY <1>1, <1>2, <1>7, <2>4 DEF TypeOK, Disk
  <2>6. /\ \A j \in Inum : /\ inode'[j].valid => Loaded(d)[j].valid
                           /\ Loaded(d)[j].valid /\ inode[j].ref > 0 => inode'[j].valid
                           /\ inode'[j].type = Loaded(d)[j].type
                           /\ inode'[j].nlink = IF j = d THEN k ELSE Loaded(d)[j].nlink
    <3>1. Loaded(d) \in Table
      BY <1>4 DEF Sound
    <3>2. /\ T \in Table
          /\ \A j \in Inum : /\ T[j].ref = inode[j].ref /\ T[j].valid = Loaded(d)[j].valid
                             /\ T[j].type = Loaded(d)[j].type
                             /\ T[j].nlink = IF j = d THEN k ELSE Loaded(d)[j].nlink
      BY <1>1, <1>4, <2>4, <3>1 DEF Table
    <3>. HIDE DEF T, k
    <3>3. \A j \in Inum : /\ inode'[j].valid = (T[j].valid /\ (j = e => T[j].ref > 0))
                          /\ inode'[j].type = T[j].type /\ inode'[j].nlink = T[j].nlink
      BY <1>7, <3>2 DEF Iget, Table
    <3>. QED  BY Zenon, <3>2, <3>3
  <2>7. Rest(p)
    BY <1>1, <1>7 DEF Rest, Goes
  <2>8. Valids(p) /\ CopyOK'
    <3>1. ASSUME NEW j \in Inum, inode'[j].valid PROVE Copy(inode[j], j)' \/ Freed(j)
      <4>1. Loaded(d)[j].valid /\ (Copy(Loaded(d)[j], j) \/ Freed(j))
        BY <1>4, <2>6, <3>1 DEF Sound
      <4>. QED  BY <1>4, <1>5, <2>4, <2>5, <2>6, <4>1 DEF Copy
    <3>2. \A j \in Inum : inode[j].valid /\ inode[j].ref > 0 => inode'[j].valid
      BY <1>4, <2>6 DEF Sound
    <3>. QED  BY <1>1, <2>7, <3>1, <3>2, CopyStep
  <2>9. Touches(p)
    BY <1>1, <2>5, SameInode, <1>2, <1>3 DEF Touches, TypeOK
  <2>10. Gets(p)
    BY <1>1, <1>2, <1>7, <2>1, <2>3, RootLinked DEF Gets, Goes
  <2>11. DiskOK'
    BY <1>2, <1>4, <2>5, SameKinds DEF DiskOK
  <2>12. Cont(p)' = Loop(path.names) /\ Op(p)' = Op(p)
    BY <1>7, <2>2 DEF Goes, Cont, Putting, Paused, Op
  <2>13. LinkCount'
    <3>1. ASSUME NEW j \in Inum PROVE Links(j)' + Owe(j)' <= disk'[j].nlink
      <4>1. EntriesOf(j)' = EntriesOf(j) /\ Below(j)' = Below(j) /\ disk' \in Disk
        BY <1>3, <2>5, SameEntries DEF TypeOK
      <4>2. Owers(j)' \subseteq Owers(j) \cup {p} /\ (j # d => Owers(j)' \subseteq Owers(j))
        BY <1>7, <2>7 DEF Owers, Owes, Rest, Cont, Putting, Goes
      <4>3. CASE j # d
        BY <1>2, <2>5, <4>1, <4>2, <4>3, LinksStay
      <4>4. CASE j = d
        BY <1>2, <2>4, <2>5, <4>1, <4>2, <4>4, LinksOwed
      <4>. QED  BY <4>3, <4>4
    <3>. QED  BY <3>1 DEF LinkCount
  <2>14. Relies(p)'
    <3>1. l'[p].names \in Seq(Name)
      BY <1>7, <2>2 DEF Goes
    <3>2. \A j \in Inum : Uses(p, j)' => Uses(p, j) \/ disk'[j].type # "none"
      BY <1>1, <1>2, <1>7, <2>1, <2>3, <2>5, RootLinked DEF Goes, Uses
    <3>3. \A j \in Inum : Knows(p, j)' => Knows(p, j) \/ j = Root \/ inode'[j].valid
      <4>1. inode'[d].valid
        BY <1>1, <1>4, <2>6
      <4>2. ~HoldsAt(p)' /\ (e = Root \/ e = cwd[p])
        BY <2>2, <2>3, <2>12 DEF HoldsAt
      <4>. HIDE DEF e, T, path
      <4>. QED  BY <1>1, <1>7, <2>1, <4>1, <4>2 DEF Goes, Knows
    <3>4. /\ cwd'[p] = cwd[p] /\ Cont(p)' \notin {"linkto", "create", "unlink", "init", "unlinkip"}
      BY <1>1, <2>2, <2>12
    <3>5. disk'[l'[p].ip].type = "FILE"
      BY <1>1, <1>2, <1>4, <1>5, <1>7, <2>5 DEF Goes, TypeOK, Disk, Kinds
    <3>. QED  BY <1>1, <2>8, <2>9, <3>1, <3>2, <3>3, <3>4, <3>5, OwnRelies
  <2>15. Exclusive(p)'
    BY <1>7, <2>2, NothingNew DEF Goes
  <2>. QED  BY SMTT(30), <1>3, <2>7, <2>8, <2>9, <2>10, <2>11, <2>13, <2>14, <2>15, DiskStep
<1>. QED  BY <1>6, <1>7, LinkDoes

LEMMA LinkToKeeps ==
  ASSUME IInv, DInv, NEW p \in Proc, LinkTo(p)
  PROVE  DInv' /\ Touches(p)
<1>. DEFINE d == l[p].at
<1>1. /\ d \in Inum /\ l[p].ip \in Inum /\ l[p].pc = "linkto" /\ inode[d].lock = None /\ l[p].names # <<>>
      /\ inode' = Loaded(d) /\ cwd' = cwd /\ file' = file
  BY LinkToDoes
<1>2. /\ TypeOK /\ ShapeOK /\ CopyOK /\ DiskOK /\ LinkCount
      /\ Relies(p) /\ Exclusive(p) /\ Shape(p)
  BY DEF IInv, DInv, ShapeOK
<1>3. TypeOK' /\ RefsExact'
  BY LinkToInv DEF IInv
<1>4. disk[d].type = "DIR" /\ Sound(Loaded(d)) /\ Loaded(d)[d].valid /\ inode[d].ref > 0 /\ Cont(p) = "linkto"
  <2>1. Cont(p) = "linkto"
    BY <1>1, <1>2 DEF Cont, Putting, Paused
  <2>2. disk[d].type = "DIR"
    BY <1>1, <1>2, <2>1 DEF Relies
  <2>. QED  BY <1>1, <1>2, <2>1, <2>2, SoundLoaded, Referred
<1>5. CASE /\ UNCHANGED disk
            /\ Goes(p, "put", l[p].call, l[p].names, 0, l[p].ip, d, "linkbad")
  <2>1. Sound(inode')
    BY <1>1, <1>4
  <2>2. Rest(p)
    BY <1>1, <1>5 DEF Rest, Goes
  <2>3. Valids(p) /\ CopyOK'
    BY <1>1, <1>5, <2>1, <2>2, SoundStep
  <2>4. Cont(p)' = "linkbad" /\ Op(p)' = Op(p)
    BY <1>1, <1>2, <1>5 DEF Goes, Cont, Putting, Paused, HoldsAt, Op, Parent, Linking
  <2>5. \A j \in Inum : Owes(p, j)' => Owes(p, j)
    BY <1>1, <1>2, <1>5, <2>4, <1>4 DEF Goes, Owes, Owing
  <2>6. DiskOK' /\ LinkCount' /\ Touches(p)
    BY <1>1, <1>5, <2>2, <2>5, SameLinks
  <2>7. Gets(p)
    BY <1>1, <1>2, <1>5 DEF Goes, Gets, FromIp, Shape, Putting, Paused, Inum
  <2>8. Relies(p)'
    <3>1. l'[p].names \in Seq(Name)
      BY <1>1, <1>2, <1>5 DEF Goes, Relies
    <3>2. \A j \in Inum : Uses(p, j)' => Uses(p, j) \/ disk'[j].type # "none"
      BY <1>1, <1>2, <1>5 DEF Goes, Uses, Shape, Putting, Paused, Inum
    <3>3. \A j \in Inum : Knows(p, j)' => Knows(p, j) \/ j = Root \/ inode'[j].valid
      BY <1>1, <1>2, <1>5, <2>4, <1>4 DEF Goes, Knows, HoldsAt
    <3>4. /\ cwd'[p] = cwd[p]
          /\ Cont(p)' \in {"linkto", "create", "unlink", "init"} => disk'[l'[p].at].type = "DIR"
          /\ Cont(p)' \in Owing \cup {"putip"} /\ Op(p)' = "link" /\ l'[p].ip # 0 => disk'[l'[p].ip].type = "FILE"
          /\ Cont(p)' = "unlinkip" => disk'[l'[p].at].ent[Head(l'[p].names)] = l'[p].ip
          /\ Cont(p)' # "init"
      BY <1>1, <1>2, <1>5, <2>4, <1>4 DEF Goes, Owing, Relies
    <3>. QED  BY <1>1, <2>3, <2>6, <3>1, <3>2, <3>3, <3>4, OwnRelies
  <2>9. Exclusive(p)'
    BY <1>1, <1>2, <1>5, NothingNew DEF Goes
  <2>. QED  BY <1>3, <2>2, <2>3, <2>6, <2>7, <2>8, <2>9, DiskStep
<1>. DEFINE n == Head(l[p].names)
<1>6. CASE /\ Entry(p, d) = 0 /\ disk' = [disk EXCEPT ![d].ent[n] = l[p].ip]
           /\ Goes(p, "put", l[p].call, l[p].names, 0, l[p].ip, d, "putip")
  <2>1. n \in Name /\ n # ".."
    <3>1. l[p].names \in Seq(Name) /\ l[p].names # <<>>
      BY <1>1, <1>2 DEF Relies
    <3>2. n \in Name
      BY <3>1
    <3>. QED  BY <3>2, InodesAssumption
  <2>2. disk[d].ent[n] = 0 /\ d # l[p].ip /\ Op(p) = "link" /\ 0 \notin Inum
    <3>1. Op(p) = "link" /\ l[p].ip # 0
      BY <1>1, <1>2, <1>4 DEF Shape, OpOK, Inum
    <3>2. disk[l[p].ip].type = "FILE"
      BY <1>2, <1>4, <3>1 DEF Relies, Owing
    <3>. QED  BY <1>4, <1>6, <3>1, <3>2 DEF Entry, Inum
  <2>3. disk[l[p].ip].type = "FILE"
    BY SMTT(30), <1>1, <1>2, <1>4, <2>2 DEF Relies, Owing
  <2>4. /\ disk' \in Disk
        /\ disk'[d].ent = [disk[d].ent EXCEPT ![n] = l[p].ip]
        /\ \A j \in Inum : disk'[j].type = disk[j].type /\ disk'[j].nlink = disk[j].nlink
        /\ \A j \in Inum : j # d => disk'[j].ent = disk[j].ent
    <3>1. n \in Elements /\ l[p].ip \in Index /\ disk \in Disk
      BY <1>1, <1>2, <2>1 DEF Elements, Index, TypeOK
    <3>. HIDE DEF n
    <3>. QED  BY <1>1, <1>6, <3>1, DiskEnt
  <2>5. \A j \in Inum, m \in Elements :
          disk'[j].ent[m] = IF j = d /\ m = n THEN l[p].ip ELSE disk[j].ent[m]
    <3>1. disk[d].ent \in [Elements -> Index]
      BY <1>1, <1>2 DEF TypeOK, Disk
    <3>. HIDE DEF n
    <3>. QED  BY <2>4, <3>1
  <2>. HIDE DEF n
  <2>6. Rest(p)
    BY <1>1, <1>6 DEF Rest, Goes
  <2>7. Valids(p) /\ CopyOK'
    <3>1. \A j \in Inum : Copy(inode'[j], j) => Copy(inode[j], j)'
      BY <2>4 DEF Copy
    <3>. QED  BY <1>1, <1>4, <2>6, <3>1, CopyStep DEF Sound
  <2>8. Touches(p)
    BY <1>1, <1>2, <2>4, SameInode DEF Touches, TypeOK
  <2>9. Gets(p)
    BY <1>1, <1>6, <2>2, <1>4 DEF Gets, Goes, FromIp
  <2>10. DiskOK'
    <3>1. /\ \A j \in Inum : disk'[j].type = "none" => disk'[j].nlink = 0
          /\ \A j \in Inum, m \in Elements : disk'[j].ent[m] # 0 => disk'[j].type = "DIR"
      BY <1>2, <1>4, <2>4, <2>5 DEF DiskOK
    <3>2. Name \subseteq Elements /\ ".." \in Elements
      BY DEF Elements
    <3>3. ASSUME NEW b \in Inum, NEW e \in Inum, NEW j \in Inum, NEW k \in Name, NEW m \in Name,
                 disk'[b].ent[k] = j, disk'[j].type = "DIR"
          PROVE  disk'[j].ent[".."] = b /\ (disk'[e].ent[m] = j => e = b /\ m = k)
      <4>1. j # l[p].ip
        BY <2>3, <2>4, <3>3
      <4>2. disk[b].ent[k] = j /\ disk[j].type = "DIR" /\ disk'[j].ent[".."] = disk[j].ent[".."]
        BY <2>1, <2>4, <2>5, <3>2, <3>3, <4>1
      <4>3. disk'[e].ent[m] = j => disk[e].ent[m] = j
        BY <2>5, <3>2, <4>1
      <4>. QED  BY <1>2, <4>2, <4>3 DEF DiskOK
    <3>4. Root \in Inum
      BY <1>2, RootLinked
    <3>5. disk'[Root].type = "DIR" /\ disk'[Root].ent[".."] = Root
      BY <1>2, <2>1, <2>4, <2>5, <3>2, <3>4 DEF DiskOK
    <3>6. \A b \in Inum, m \in Name : disk'[b].ent[m] # Root
      BY <1>2, <2>3, <2>5, <3>2 DEF DiskOK
    <3>. QED  BY <3>1, <3>3, <3>5, <3>6 DEF DiskOK
  <2>11. Cont(p)' = "putip" /\ Op(p)' = Op(p)
    BY <1>6 DEF Goes, Cont, Putting, Paused, Op
  <2>12. LinkCount'
    <3>1. ASSUME NEW j \in Inum PROVE Links(j)' + Owe(j)' <= disk'[j].nlink
      <4>1. Name \subseteq Elements /\ ".." \in Elements
        BY DEF Elements
      <4>2. EntriesOf(j)' \subseteq EntriesOf(j) \cup {<<d, n>>} /\ (j # l[p].ip => EntriesOf(j)' \subseteq EntriesOf(j))
        <5>1. ASSUME NEW x \in EntriesOf(j)' PROVE x \in EntriesOf(j) \/ (x = <<d, n>> /\ j = l[p].ip)
          <6>1. x \in Inum \X Name /\ disk'[x[1]].ent[x[2]] = j
            BY <5>1 DEF EntriesOf
          <6>2. x = <<x[1], x[2]>> /\ x[1] \in Inum /\ x[2] \in Name
            BY <6>1
          <6>. QED  BY <2>5, <4>1, <6>1, <6>2 DEF EntriesOf
        <5>. QED  BY <5>1
      <4>3. Below(j)' \subseteq Below(j)
        <5>1. ASSUME NEW b \in Below(j)' PROVE b \in Below(j)
          <6>1. b \in Inum /\ b \in Named' /\ disk'[b].ent[".."] = j
            BY <5>1 DEF Below
          <6>2. disk[b].ent[".."] = j
            BY <2>1, <2>5, <4>1, <6>1
          <6>3. b # l[p].ip
            BY <1>2, <2>2, <2>3, <4>1, <6>1, <6>2 DEF DiskOK
          <6>4. b \in Named
            BY <2>5, <4>1, <6>1, <6>3 DEF Named
          <6>. QED  BY <6>1, <6>2, <6>4 DEF Below
        <5>. QED  BY <5>1
      <4>4. Owers(j)' \subseteq Owers(j) /\ p \notin Owers(j)' /\ p \in Owers(l[p].ip)
        BY <1>4, <2>6, <2>11 DEF Owers, Owes, Rest, Cont, Putting, Owing
      <4>5. CASE j # l[p].ip
        BY <1>2, <2>4, <4>2, <4>3, <4>4, <4>5, LinksStay
      <4>6. CASE j = l[p].ip
        <5>1. /\ IsFiniteSet(EntriesOf(j)') /\ IsFiniteSet(Below(j)') /\ IsFiniteSet(Owers(j)')
              /\ Cardinality(EntriesOf(j)') <= Cardinality(EntriesOf(j)) + 1
              /\ Cardinality(Below(j)') <= Cardinality(Below(j))
              /\ Cardinality(Owers(j)') <= Cardinality(Owers(j)) - 1
          <6>1. p \in Owers(j) /\ Owers(j)' \subseteq Owers(j) \ {p}
            BY <4>4, <4>6
          <6>2. IsFiniteSet(EntriesOf(j)) /\ IsFiniteSet(Below(j)) /\ IsFiniteSet(Owers(j))
            BY LinkSets
          <6>3. IsFiniteSet(EntriesOf(j)') /\ Cardinality(EntriesOf(j)') <= Cardinality(EntriesOf(j)) + 1
            BY <4>2, <6>2, Counts
          <6>4. IsFiniteSet(Below(j)') /\ Cardinality(Below(j)') <= Cardinality(Below(j))
            BY <4>3, <6>2, Counts
          <6>5. IsFiniteSet(Owers(j)') /\ Cardinality(Owers(j)') <= Cardinality(Owers(j)) - 1
            BY <6>1, <6>2, Counts
          <6>. QED  BY <6>3, <6>4, <6>5
        <5>2. /\ Cardinality(Below(j)) + 0 = Cardinality(Below(j))
              /\ Cardinality(Owers(j)) - 1 = Cardinality(Owers(j)) + (-1)
          BY LinkSets
        <5>3. disk[j].nlink \in Int /\ 0 \in Int /\ 1 \in Int /\ -1 \in Int
          BY <1>2 DEF TypeOK, Disk
        <5>4. disk'[j].nlink >= disk[j].nlink + 1 + 0 + (-1)
          BY <2>4, <5>3
        <5>. QED  BY <1>2, <2>4, <5>1, <5>2, <5>3, <5>4, LinksMove
      <4>. QED  BY <4>5, <4>6
    <3>. QED  BY <3>1 DEF LinkCount
  <2>13. Relies(p)'
    <3>1. l'[p].names \in Seq(Name)
      BY <1>2, <1>6 DEF Goes, Relies
    <3>2. \A j \in Inum : Uses(p, j)' => Uses(p, j) \/ disk'[j].type # "none"
      BY <1>1, <1>6, <2>2 DEF Goes, Uses
    <3>3. \A j \in Inum : Knows(p, j)' => Knows(p, j) \/ j = Root \/ inode'[j].valid
      BY <1>1, <1>4, <1>6, <2>2, <2>11 DEF Goes, Knows, HoldsAt
    <3>4. cwd'[p] = cwd[p] /\ Cont(p)' \notin {"linkto", "create", "unlink", "init", "unlinkip"} /\ disk'[l'[p].ip].type = "FILE"
      BY <1>1, <1>6, <2>3, <2>4, <2>11 DEF Goes
    <3>. QED  BY <1>1, <2>7, <2>8, <3>1, <3>2, <3>3, <3>4, OwnRelies
  <2>14. Exclusive(p)'
    BY <1>6, NothingNew DEF Goes
  <2>. QED  BY <1>3, <2>6, <2>7, <2>8, <2>9, <2>10, <2>12, <2>13, <2>14, DiskStep
<1>. QED  BY <1>5, <1>6, LinkToDoes

LEMMA LinkBadKeeps ==
  ASSUME IInv, DInv, NEW p \in Proc, LinkBad(p)
  PROVE  DInv' /\ Touches(p)
<1>. DEFINE i == l[p].ip
<1>1. /\ i \in Inum /\ l[p].pc = "linkbad"
      /\ disk' = [disk EXCEPT ![i].nlink = disk[i].nlink - 1] /\ cwd' = cwd /\ file' = file
      /\ Goes(p, "put", None, <<>>, 0, 0, i, "end")
  BY LinkBadDoes
<1>2. /\ TypeOK /\ ShapeOK /\ CopyOK /\ DiskOK /\ LinkCount
      /\ Relies(p) /\ Exclusive(p) /\ Shape(p)
  BY DEF IInv, DInv, ShapeOK
<1>3. TypeOK' /\ RefsExact'
  BY LinkBadInv DEF IInv
<1>4. Rest(p) /\ 0 \notin Inum /\ Cont(p) = "linkbad"
  BY <1>1 DEF Rest, Goes, Inum, Cont, Putting, Paused
<1>5. disk[i].type # "none" /\ (i = Root \/ inode[i].valid) /\ inode[i].ref > 0 /\ disk[i].nlink \in Int
  <2>1. disk[i].type # "none" /\ (i = Root \/ inode[i].valid)
    BY <1>1, <1>2, <1>4 DEF Relies, Uses, Knows
  <2>. QED  BY <1>1, <1>2, <2>1, Referred DEF TypeOK, Disk
<1>6. /\ disk' \in Disk /\ disk'[i].nlink = disk[i].nlink - 1
      /\ \A j \in Inum : /\ disk'[j].ent = disk[j].ent /\ disk'[j].type = disk[j].type
                         /\ j # i => disk'[j].nlink = disk[j].nlink
  <2>. HIDE DEF i
  <2>. QED  BY <1>1, <1>2, <1>5 DEF TypeOK, Disk

<1>7. /\ \A j \in Inum : /\ j # i => inode'[j].valid = inode[j].valid /\ inode'[j].type = inode[j].type
                                     /\ inode'[j].nlink = inode[j].nlink
      /\ inode'[i].valid /\ inode'[i].type = disk[i].type /\ inode'[i].nlink = disk[i].nlink - 1
  <2>1. inode[i].lock = None /\ Loaded(i) \in Table /\ inode' = [Loaded(i) EXCEPT ![i].nlink = Loaded(i)[i].nlink - 1]
    BY LinkBadDoes
  <2>2. Loaded(i)[i].valid /\ Loaded(i)[i].type = disk[i].type /\ Loaded(i)[i].nlink = disk[i].nlink
    BY <1>1, <1>2, <2>1, LoadedIs, LoadedCopy
  <2>3. \A j \in Inum : j # i => Loaded(i)[j] = inode[j]
    BY <1>1, <1>2, LoadedIs
  <2>. HIDE DEF i
  <2>. QED  BY <1>1, <2>1, <2>2, <2>3 DEF Table
<1>8. inode[i].lock = None
  BY LinkBadDoes

<1>9. Valids(p) /\ CopyOK'
  <2>1. ASSUME NEW j \in Inum, inode'[j].valid PROVE Copy(inode[j], j)' \/ Freed(j)
    <3>1. CASE j = i
      BY <1>5, <1>6, <1>7, <2>1, <3>1 DEF Copy
    <3>2. CASE j # i
      BY <1>2, <1>6, <1>7, <2>1, <3>2 DEF Copy, CopyOK
    <3>. QED  BY <3>1, <3>2
  <2>. QED  BY <1>1, <1>4, <1>7, <2>1, CopyStep
<1>10. Touches(p)
  BY <1>1, <1>2, <1>6, <1>8, SameInode DEF Touches, TypeOK
<1>11. Gets(p)
  BY <1>1, <1>4 DEF Gets, Goes, FromIp
<1>12. DiskOK'
  BY SMTT(30), <1>2, <1>5, <1>6, SameKinds DEF DiskOK
<1>13. Relies(p)' /\ Exclusive(p)' /\ \A j \in Inum : ~Owes(p, j)'
  BY <1>1, <1>5, <1>6, <1>7, <1>9, <1>10, EndsWell
<1>14. LinkCount'
  <2>1. ASSUME NEW j \in Inum PROVE Links(j)' + Owe(j)' <= disk'[j].nlink
    <3>1. EntriesOf(j)' = EntriesOf(j) /\ Below(j)' = Below(j)
      BY <1>6, SameEntries
    <3>2. Owers(j)' \subseteq Owers(j) \ {p} /\ p \in Owers(i)
      BY <1>4, <1>13 DEF Owers, Owes, Rest, Cont, Putting, Owing
    <3>3. CASE j # i
      BY <1>2, <1>6, <3>1, <3>2, <3>3, LinksStay
    <3>4. CASE j = i
      BY <1>2, <1>6, <3>1, <3>2, <3>4, LinksPaid
    <3>. QED  BY <3>3, <3>4
  <2>. QED  BY <2>1 DEF LinkCount
<1>. QED  BY <1>3, <1>4, <1>9, <1>10, <1>11, <1>12, <1>13, <1>14, DiskStep

LEMMA UnlinkInodeKeeps ==
  ASSUME IInv, DInv, NEW p \in Proc, UnlinkInode(p)
  PROVE  DInv' /\ Touches(p)
<1>. DEFINE i == l[p].ip
<1>1. /\ i \in Inum /\ l[p].pc = "unlinked"
      /\ disk' = [disk EXCEPT ![i].nlink = disk[i].nlink - 1] /\ cwd' = cwd /\ file' = file
      /\ Goes(p, "put", None, <<>>, 0, 0, i, "end")
  BY UnlinkInodeDoes
<1>2. /\ TypeOK /\ ShapeOK /\ CopyOK /\ DiskOK /\ LinkCount
      /\ Relies(p) /\ Exclusive(p) /\ Shape(p)
  BY DEF IInv, DInv, ShapeOK
<1>3. TypeOK' /\ RefsExact'
  BY UnlinkInodeInv DEF IInv
<1>4. Rest(p) /\ 0 \notin Inum /\ Cont(p) = "unlinked"
  BY <1>1 DEF Rest, Goes, Inum, Cont, Putting, Paused
<1>5. disk[i].type # "none" /\ (i = Root \/ inode[i].valid) /\ inode[i].ref > 0 /\ disk[i].nlink \in Int
  <2>1. disk[i].type # "none" /\ (i = Root \/ inode[i].valid)
    BY <1>1, <1>2, <1>4 DEF Relies, Uses, Knows
  <2>. QED  BY <1>1, <1>2, <2>1, Referred DEF TypeOK, Disk
<1>6. /\ disk' \in Disk /\ disk'[i].nlink = disk[i].nlink - 1
      /\ \A j \in Inum : /\ disk'[j].ent = disk[j].ent /\ disk'[j].type = disk[j].type
                         /\ j # i => disk'[j].nlink = disk[j].nlink
  <2>. HIDE DEF i
  <2>. QED  BY <1>1, <1>2, <1>5 DEF TypeOK, Disk

<1>8. inode[i].lock = p
  BY <1>1, <1>4 DEF IInv, LockOK, Holds, HoldsIp
<1>7. /\ \A j \in Inum : /\ j # i => inode'[j].valid = inode[j].valid /\ inode'[j].type = inode[j].type
                                     /\ inode'[j].nlink = inode[j].nlink
      /\ inode'[i].valid = inode[i].valid
      /\ inode[i].valid => inode'[i].type = disk[i].type /\ inode'[i].nlink = disk[i].nlink - 1
  <2>1. inode' = [inode EXCEPT ![i].nlink = inode[i].nlink - 1, ![i].lock = None]
    BY UnlinkInodeDoes
  <2>2. inode'[i].valid = inode[i].valid /\ inode'[i].type = inode[i].type /\ inode'[i].nlink = inode[i].nlink - 1
        /\ \A j \in Inum : j # i => inode'[j] = inode[j]
    <3>. HIDE DEF i
    <3>. QED  BY <1>1, <1>2, <2>1 DEF TypeOK, Table
  <2>3. ~Freed(i)
    BY <1>1, <1>8, <1>4, InodesAssumption DEF Freed, IInv, LockOK, Holds, HoldsPut
  <2>4. inode[i].valid => inode[i].type = disk[i].type /\ inode[i].nlink = disk[i].nlink
    BY <1>1, <1>2, <2>3 DEF CopyOK, Copy
  <2>. QED  BY <1>1, <2>2, <2>4

<1>9. Valids(p) /\ CopyOK'
  <2>1. ASSUME NEW j \in Inum, inode'[j].valid PROVE Copy(inode[j], j)' \/ Freed(j)
    <3>1. CASE j = i
      BY <1>5, <1>6, <1>7, <2>1, <3>1 DEF Copy
    <3>2. CASE j # i
      BY <1>2, <1>6, <1>7, <2>1, <3>2 DEF Copy, CopyOK
    <3>. QED  BY <3>1, <3>2
  <2>. QED  BY <1>1, <1>4, <1>7, <2>1, CopyStep
<1>10. Touches(p)
  BY <1>1, <1>2, <1>6, <1>8, SameInode DEF Touches, TypeOK
<1>11. Gets(p)
  BY SMTT(30), <1>1, <1>4 DEF Gets, Goes, FromIp
<1>12. DiskOK'
  BY <1>2, <1>5, <1>6, SameKinds DEF DiskOK
<1>13. Relies(p)' /\ Exclusive(p)' /\ \A j \in Inum : ~Owes(p, j)'
  BY <1>1, <1>5, <1>6, <1>7, <1>9, <1>10, EndsWell
<1>14. LinkCount'
  <2>1. ASSUME NEW j \in Inum PROVE Links(j)' + Owe(j)' <= disk'[j].nlink
    <3>1. EntriesOf(j)' = EntriesOf(j) /\ Below(j)' = Below(j)
      BY <1>6, SameEntries
    <3>2. Owers(j)' \subseteq Owers(j) \ {p} /\ p \in Owers(i)
      BY SMTT(30), <1>4, <1>13 DEF Owers, Owes, Rest, Cont, Putting, Owing
    <3>3. CASE j # i
      BY <1>2, <1>6, <3>1, <3>2, <3>3, LinksStay
    <3>4. CASE j = i
      BY <1>2, <1>6, <3>1, <3>2, <3>4, LinksPaid
    <3>. QED  BY <3>3, <3>4
  <2>. QED  BY <2>1 DEF LinkCount
<1>. QED  BY <1>3, <1>4, <1>9, <1>10, <1>11, <1>12, <1>13, <1>14, DiskStep

LEMMA UnlinkEntryKeeps ==
  ASSUME IInv, DInv, NEW p \in Proc, UnlinkEntry(p)
  PROVE  DInv' /\ Touches(p)
<1>. DEFINE d == l[p].at
            i == l[p].ip
            n == Head(l[p].names)
<1>1. /\ d \in Inum /\ i \in Inum /\ i # d /\ l[p].pc = "unlinkip" /\ inode[i].lock = None /\ inode[d].lock = p
      /\ cwd' = cwd /\ file' = file /\ l[p].names # <<>>
  BY UnlinkEntryDoes
<1>2. /\ TypeOK /\ ShapeOK /\ CopyOK /\ DiskOK /\ LinkCount
      /\ Relies(p) /\ Exclusive(p) /\ Shape(p)
  BY DEF IInv, DInv, ShapeOK
<1>3. TypeOK' /\ RefsExact'
  BY UnlinkEntryInv DEF IInv
<1>4. Cont(p) = "unlinkip" /\ 0 \notin Inum /\ Name \subseteq Elements /\ ".." \in Elements
  BY <1>1 DEF Cont, Putting, Paused, Inum, Elements
<1>5. n \in Name /\ n # ".." /\ disk[d].ent[n] = i
  <2>1. l[p].names \in Seq(Name) /\ l[p].names # <<>> /\ disk[d].ent[n] = i
    BY <1>1, <1>2, <1>4 DEF Relies
  <2>2. n \in Name
    BY <2>1
  <2>. QED  BY <2>1, <2>2, InodesAssumption
<1>6. disk[i].type # "none" /\ disk[d].type = "DIR" /\ (d = Root \/ inode[d].valid) /\ inode[d].ref > 0
  <2>1. disk[i].type # "none" /\ (d = Root \/ inode[d].valid)
    BY <1>1, <1>2, <1>4 DEF Relies, Uses, Knows, HoldsAt
  <2>2. disk[d].type = "DIR"
    BY <1>1, <1>2, <1>4, <1>5 DEF DiskOK
  <2>. QED  BY <1>1, <2>1, <2>2, Referred
<1>. HIDE DEF n
<1>7. /\ Sound(Loaded(i)) /\ Loaded(i)[i].valid
      /\ Loaded(i)[i].type = disk[i].type /\ Loaded(i)[i].nlink = disk[i].nlink
  BY <1>1, <1>2, <1>6, SoundLoaded, LoadedCopy
<1>8. disk[i].type = "DIR" => disk[i].ent[".."] = d /\ \A e \in Inum, m \in Name : disk[e].ent[m] = i => e = d /\ m = n
  BY <1>1, <1>2, <1>5 DEF DiskOK
<1>9. CASE /\ disk' = disk /\ inode' = Loaded(i)
            /\ Goes(p, "put", l[p].call, l[p].names, d, 0, i, "unlockdp")
  <2>1. Sound(inode')
    BY <1>7, <1>9
  <2>2. Rest(p)
    BY <1>1, <1>9 DEF Rest, Goes
  <2>3. Valids(p) /\ CopyOK'
    BY <1>1, <1>9, <2>1, <2>2, SoundStep
  <2>4. Cont(p)' = "unlockdp" /\ Op(p)' = Op(p)
    BY <1>1, <1>2, <1>9 DEF Goes, Cont, Putting, Paused, HoldsAt, Op, Parent, Linking
  <2>5. \A j \in Inum : Owes(p, j)' => Owes(p, j)
    BY <1>1, <1>2, <1>9, <2>4, <1>4 DEF Goes, Owes, Owing
  <2>6. DiskOK' /\ LinkCount' /\ Touches(p)
    BY <1>1, <1>9, <2>2, <2>5, SameLinks
  <2>7. Gets(p)
    BY <1>1, <1>2, <1>9 DEF Goes, Gets, FromIp, Shape, Putting, Paused, Inum
  <2>8. Relies(p)'
    <3>1. l'[p].names \in Seq(Name)
      BY <1>1, <1>2, <1>9 DEF Goes, Relies
    <3>2. \A j \in Inum : Uses(p, j)' => Uses(p, j) \/ disk'[j].type # "none"
      BY <1>1, <1>2, <1>9 DEF Goes, Uses, Shape, Putting, Paused, Inum
    <3>3. \A j \in Inum : Knows(p, j)' => Knows(p, j) \/ j = Root \/ inode'[j].valid
      BY <1>1, <1>2, <1>9, <2>4, <1>4, <1>7 DEF Goes, Knows, HoldsAt
    <3>4. /\ cwd'[p] = cwd[p]
          /\ Cont(p)' \in {"linkto", "create", "unlink", "init"} => disk'[l'[p].at].type = "DIR"
          /\ Cont(p)' \in Owing \cup {"putip"} /\ Op(p)' = "link" /\ l'[p].ip # 0 => disk'[l'[p].ip].type = "FILE"
          /\ Cont(p)' = "unlinkip" => disk'[l'[p].at].ent[Head(l'[p].names)] = l'[p].ip
          /\ Cont(p)' # "init"
      BY <1>1, <1>2, <1>9, <2>4, <1>4 DEF Goes, Owing, Relies
    <3>. QED  BY <1>1, <2>3, <2>6, <3>1, <3>2, <3>3, <3>4, OwnRelies
  <2>9. Exclusive(p)'
    BY <1>1, <1>2, <1>9, NothingNew DEF Goes
  <2>. QED  BY <1>3, <2>2, <2>3, <2>6, <2>7, <2>8, <2>9, DiskStep
<1>. DEFINE dir == Loaded(i)[i].type = "DIR"
            less == IF dir THEN 1 ELSE 0
<1>10. CASE /\ inode' = Unlinked(Loaded(i), i, d, p, less)
            /\ disk' = [disk EXCEPT ![d].ent[n] = 0, ![d].nlink = @ - less]
            /\ Goes(p, "put", l[p].call, l[p].names, 0, l[p].ip, d, "unlinked")
  <2>1. Rest(p)
    BY <1>1, <1>10 DEF Rest, Goes
  <2>2. Cont(p)' = "unlinked" /\ Op(p)' = Op(p) /\ Op(p) = "unlink"
    BY <1>1, <1>2, <1>4, <1>10 DEF Goes, Cont, Putting, Paused, Op, Shape, OpOK
  <2>3. less \in {0, 1} /\ (disk[i].type = "DIR" => less = 1) /\ (disk[i].type # "DIR" => less = 0)
    BY <1>7
  <2>. HIDE DEF less
  <2>4. \A j \in Inum : /\ inode'[j].valid = Loaded(i)[j].valid /\ inode'[j].type = Loaded(i)[j].type
                        /\ inode'[j].nlink = Loaded(i)[j].nlink - (IF j = d THEN less ELSE 0)
    <3>. HIDE DEF i, d
    <3>. QED  BY <1>1, <1>2, <1>10, <2>3, UnlinkTable
  <2>5. /\ disk' \in Disk
        /\ disk'[d].ent = [disk[d].ent EXCEPT ![n] = 0]
        /\ \A j \in Inum : disk'[j].type = disk[j].type
        /\ \A j \in Inum : disk'[j].nlink = disk[j].nlink - (IF j = d THEN less ELSE 0)
        /\ \A j \in Inum : j # d => disk'[j].ent = disk[j].ent
    <3>1. n \in Elements /\ disk \in Disk
      BY <1>2, <1>4, <1>5 DEF TypeOK
    <3>. HIDE DEF i, d
    <3>. QED  BY <1>1, <1>10, <2>3, <3>1, UnlinkDisk
  <2>6. \A j \in Inum, m \in Elements : disk'[j].ent[m] = IF j = d /\ m = n THEN 0 ELSE disk[j].ent[m]
    <3>1. disk[d].ent \in [Elements -> Index]
      BY <1>1, <1>2 DEF TypeOK, Disk
    <3>. HIDE DEF d
    <3>. QED  BY <2>5, <3>1
  <2>7. \A j \in Inum : disk[j].nlink \in Int
    BY <1>2 DEF TypeOK, Disk
  <2>8. Valids(p) /\ CopyOK'
    <3>1. ASSUME NEW j \in Inum, inode'[j].valid PROVE Copy(inode[j], j)' \/ Freed(j)
      <4>1. Loaded(i)[j].valid /\ (Copy(Loaded(i)[j], j) \/ Freed(j))
        BY <1>7, <2>4, <3>1 DEF Sound
      <4>. QED  BY <2>4, <2>5, <4>1 DEF Copy
    <3>2. \A j \in Inum : inode[j].valid /\ inode[j].ref > 0 => inode'[j].valid
      BY <1>7, <2>4 DEF Sound
    <3>. QED  BY <1>1, <2>1, <3>1, <3>2, CopyStep
  <2>9. Touches(p)
    <3>1. \A j \in Inum : j # d => disk'[j] = disk[j]
      BY <1>2, <2>5, <2>7, SameInode DEF TypeOK
    <3>. QED  BY <1>1, <2>5, <3>1 DEF Touches
  <2>10. Gets(p)
    BY <1>1, <1>4, <1>10 DEF Gets, Goes, FromIp
  <2>11. DiskOK'
    <3>1. \A j \in Inum : disk'[j].type = "none" => disk'[j].nlink = 0
      BY <1>2, <1>6, <2>5, <2>7 DEF DiskOK
    <3>2. \A j \in Inum, m \in Elements : disk'[j].ent[m] # 0 => disk'[j].type = "DIR"
      BY <1>2, <2>5, <2>6 DEF DiskOK
    <3>3. ASSUME NEW b \in Inum, NEW e \in Inum, NEW j \in Inum, NEW k \in Name, NEW m \in Name,
                 disk'[b].ent[k] = j, disk'[j].type = "DIR"
          PROVE  disk'[j].ent[".."] = b /\ (disk'[e].ent[m] = j => e = b /\ m = k)
      <4>1. disk[b].ent[k] = j /\ disk[j].type = "DIR" /\ disk'[j].ent[".."] = disk[j].ent[".."]
        BY <1>4, <1>5, <2>5, <2>6, <3>3
      <4>2. disk'[e].ent[m] = j => disk[e].ent[m] = j
        BY <1>4, <2>6
      <4>. QED  BY <1>2, <4>1, <4>2 DEF DiskOK
    <3>4. Root \in Inum
      BY <1>2, RootLinked
    <3>5. disk'[Root].type = "DIR" /\ disk'[Root].ent[".."] = Root
      BY <1>2, <1>4, <1>5, <2>5, <2>6, <3>4 DEF DiskOK
    <3>6. \A b \in Inum, m \in Name : disk'[b].ent[m] # Root
      BY <1>2, <1>4, <2>6, <3>4 DEF DiskOK
    <3>. QED  BY <3>1, <3>2, <3>3, <3>5, <3>6 DEF DiskOK
  <2>12. LinkCount'
    <3>1. ASSUME NEW j \in Inum PROVE Links(j)' + Owe(j)' <= disk'[j].nlink
      <4>1. EntriesOf(j)' \subseteq EntriesOf(j) /\ <<d, n>> \notin EntriesOf(j)'
        <5>1. ASSUME NEW x \in EntriesOf(j)' PROVE x \in EntriesOf(j) /\ x # <<d, n>>
          <6>1. x \in Inum \X Name /\ disk'[x[1]].ent[x[2]] = j
            BY <5>1 DEF EntriesOf
          <6>2. x = <<x[1], x[2]>> /\ x[1] \in Inum /\ x[2] \in Name
            BY <6>1
          <6>3. ~(x[1] = d /\ x[2] = n) /\ disk[x[1]].ent[x[2]] = j
            BY <1>4, <2>6, <6>1, <6>2
          <6>. QED  BY <6>1, <6>2, <6>3 DEF EntriesOf
        <5>. QED  BY <5>1
      <4>2. Below(j)' \subseteq Below(j) /\ (disk[i].type = "DIR" => i \notin Below(j)')
        <5>1. ASSUME NEW b \in Below(j)' PROVE b \in Below(j)
          <6>1. b \in Inum /\ b \in Named' /\ disk'[b].ent[".."] = j
            BY <5>1 DEF Below
          <6>2. disk[b].ent[".."] = j
            BY <1>4, <1>5, <2>6, <6>1
          <6>3. b \in Named
            BY <1>4, <2>6, <6>1 DEF Named
          <6>. QED  BY <6>1, <6>2, <6>3 DEF Below
        <5>2. ASSUME disk[i].type = "DIR", i \in Below(j)' PROVE FALSE
          <6>1. i \in Named'
            BY <5>2 DEF Below
          <6>2. i # Root
            BY <1>1, <1>2, <1>5 DEF DiskOK
          <6>3. \A b \in Inum, m \in Name : disk'[b].ent[m] # i
            BY <1>1, <1>4, <1>5, <1>8, <2>6, <5>2
          <6>. QED  BY <6>1, <6>2, <6>3 DEF Named
        <5>. QED  BY <5>1, <5>2
      <4>3. Owers(j)' \subseteq Owers(j) \cup {p} /\ (j # i => Owers(j)' \subseteq Owers(j))
        BY <1>10, <2>1 DEF Owers, Owes, Rest, Cont, Putting, Goes
      <4>. DEFINE a == IF j = i THEN -1 ELSE 0
                  b == IF j = d THEN -less ELSE 0
                  c == IF j = i THEN 1 ELSE 0
      <4>4. a \in Int /\ b \in Int /\ c \in Int
        BY <2>3
      <4>5. /\ IsFiniteSet(EntriesOf(j)) /\ IsFiniteSet(Below(j)) /\ IsFiniteSet(Owers(j))
            /\ Cardinality(EntriesOf(j)) \in Nat /\ Cardinality(Below(j)) \in Nat /\ Cardinality(Owers(j)) \in Nat
        BY LinkSets
      <4>6. IsFiniteSet(EntriesOf(j)') /\ Cardinality(EntriesOf(j)') <= Cardinality(EntriesOf(j)) + a
        <5>1. CASE j = i
          <6>1. <<d, n>> \in EntriesOf(j)
            BY <1>1, <1>5, <5>1 DEF EntriesOf
          <6>2. EntriesOf(j)' \subseteq EntriesOf(j) \ {<<d, n>>}
            BY <4>1
          <6>. QED  BY <4>5, <5>1, <6>1, <6>2, Counts
        <5>2. CASE j # i
          BY <4>1, <4>5, <5>2, Counts
        <5>. QED  BY <5>1, <5>2
      <4>7. IsFiniteSet(Below(j)') /\ Cardinality(Below(j)') <= Cardinality(Below(j)) + b
        <5>1. CASE j = d /\ disk[i].type = "DIR"
          <6>1. i \in Named
            BY <1>1, <1>5 DEF Named
          <6>2. i \in Below(j)
            BY <1>1, <1>8, <5>1, <6>1 DEF Below
          <6>3. Below(j)' \subseteq Below(j) \ {i}
            BY <4>2, <5>1
          <6>4. IsFiniteSet(Below(j)') /\ Cardinality(Below(j)') <= Cardinality(Below(j)) - 1
            BY <4>5, <6>2, <6>3, Counts
          <6>. QED  BY <2>3, <4>5, <5>1, <6>4
        <5>2. CASE ~(j = d /\ disk[i].type = "DIR")
          <6>1. b = 0
            BY <2>3, <5>2
          <6>. HIDE DEF b
          <6>. QED  BY <4>2, <4>5, <6>1, Counts
        <5>. QED  BY <5>1, <5>2
      <4>8. IsFiniteSet(Owers(j)') /\ Cardinality(Owers(j)') <= Cardinality(Owers(j)) + c
        <5>1. CASE j = i
          <6>1. IsFiniteSet(Owers(j)') /\ Cardinality(Owers(j)') <= Cardinality(Owers(j)) + 1
            BY <4>3, <4>5, Counts
          <6>. QED  BY <5>1, <6>1
        <5>2. CASE j # i
          <6>1. IsFiniteSet(Owers(j)') /\ Cardinality(Owers(j)') <= Cardinality(Owers(j))
            BY <4>3, <4>5, <5>2, Counts
          <6>. QED  BY <4>5, <5>2, <6>1
        <5>. QED  BY <5>1, <5>2
      <4>9. disk'[j].nlink >= disk[j].nlink + a + b + c
        BY <1>1, <2>3, <2>5, <2>7
      <4>. HIDE DEF a, b, c
      <4>. QED  BY <1>2, <2>5, <4>4, <4>6, <4>7, <4>8, <4>9, LinksMove
    <3>. QED  BY <3>1 DEF LinkCount
  <2>13. Relies(p)'
    <3>1. l'[p].names \in Seq(Name)
      BY <1>2, <1>10 DEF Goes, Relies
    <3>2. \A j \in Inum : Uses(p, j)' => Uses(p, j) \/ disk'[j].type # "none"
      BY <1>1, <1>4, <1>10 DEF Goes, Uses
    <3>3. \A j \in Inum : Knows(p, j)' => Knows(p, j) \/ j = Root \/ inode'[j].valid
      <4>1. inode'[i].valid
        BY <1>1, <1>7, <2>4
      <4>2. d = Root \/ inode'[d].valid
        BY <1>1, <1>6, <1>7, <2>4 DEF Sound
      <4>3. ~HoldsAt(p)'
        BY <2>2 DEF HoldsAt
      <4>. QED  BY <1>1, <1>4, <1>10, <2>2, <4>1, <4>2, <4>3 DEF Goes, Knows
    <3>4. cwd'[p] = cwd[p] /\ Cont(p)' \notin {"linkto", "create", "unlink", "init", "unlinkip"} /\ Op(p)' # "link"
      BY <1>1, <2>2
    <3>. QED  BY <1>1, <2>8, <2>9, <3>1, <3>2, <3>3, <3>4, OwnRelies
  <2>14. Exclusive(p)'
    BY <1>10, NothingNew DEF Goes
  <2>. QED  BY <1>3, <2>1, <2>8, <2>9, <2>10, <2>11, <2>12, <2>13, <2>14, DiskStep
<1>. QED  BY <1>9, <1>10, UnlinkEntryDoes DEF n

LEMMA CreateKeeps ==
  ASSUME IInv, DInv, NEW p \in Proc, Create(p)
  PROVE  DInv' /\ Touches(p)
<1>. DEFINE d == l[p].at
            n == Head(l[p].names)
<1>1. /\ d \in Inum /\ l[p].pc = "create" /\ inode[d].lock = None /\ l[p].names # <<>>
      /\ cwd' = cwd /\ file' = file
  BY CreateDoes
<1>2. /\ TypeOK /\ ShapeOK /\ CopyOK /\ DiskOK /\ LinkCount
      /\ Relies(p) /\ Exclusive(p) /\ Shape(p)
  BY DEF IInv, DInv, ShapeOK
<1>3. TypeOK' /\ RefsExact'
  BY CreateInv DEF IInv
<1>4. /\ Cont(p) = "create" /\ 0 \notin Inum /\ Name \subseteq Elements /\ ".." \in Elements
      /\ l[p].ip = 0 /\ l[p].put = 0 /\ Op(p) \in {"creat", "mkdir"}
  BY <1>1, <1>2 DEF Cont, Putting, Paused, Inum, Elements, Shape, IpPoints, OpOK
<1>5. n \in Name
  <2>1. l[p].names \in Seq(Name) /\ l[p].names # <<>>
    BY <1>1, <1>2 DEF Relies
  <2>. QED  BY <2>1
<1>. HIDE DEF n
<1>6. /\ disk[d].type = "DIR" /\ Sound(Loaded(d)) /\ Loaded(d)[d].valid /\ inode[d].ref > 0
      /\ \A j \in Inum : Loaded(d)[j].ref = inode[j].ref
  <2>1. disk[d].type = "DIR"
    BY SMTT(30), <1>2, <1>4 DEF Relies
  <2>. QED  BY <1>1, <1>2, <2>1, SoundLoaded, Referred
<1>7. Entry(p, d) # 0 => disk[Entry(p, d)].nlink >= 1 /\ disk[Entry(p, d)].type # "none"
  BY Zenon, <1>1, <1>2, <1>5, NamedIs DEF Entry, n
<1>8. CASE inode' = Loaded(d) /\ UNCHANGED disk /\ Goes(p, "put", None, <<>>, 0, 0, d, "end")
  BY <1>1, <1>3, <1>8, GivesUp
<1>9. CASE /\ disk' = disk /\ Entry(p, d) \in Inum /\ inode' = Iget(Loaded(d), Entry(p, d))
            /\ Goes(p, "put", l[p].call, l[p].names, Entry(p, d), l[p].ip, d, "existing")
  <2>1. Sound(inode')
    BY <1>6, <1>9, SoundGet
  <2>2. Rest(p)
    BY <1>1, <1>9 DEF Rest, Goes
  <2>3. Valids(p) /\ CopyOK'
    BY <1>1, <1>9, <2>1, <2>2, SoundStep
  <2>4. Cont(p)' = "existing" /\ Op(p)' = Op(p)
    BY <1>1, <1>2, <1>9 DEF Goes, Cont, Putting, Paused, HoldsAt, Op, Parent, Linking
  <2>5. \A j \in Inum : Owes(p, j)' => Owes(p, j)
    BY <1>1, <1>2, <1>9, <2>4, <1>4 DEF Goes, Owes, Owing
  <2>6. DiskOK' /\ LinkCount' /\ Touches(p)
    BY <1>1, <1>9, <2>2, <2>5, SameLinks
  <2>7. Gets(p)
    BY <1>1, <1>2, <1>9, <1>7, <1>4 DEF Goes, Gets, FromIp, Shape, Putting, Paused, Inum
  <2>8. Relies(p)'
    <3>1. l'[p].names \in Seq(Name)
      BY <1>1, <1>2, <1>9 DEF Goes, Relies
    <3>2. \A j \in Inum : Uses(p, j)' => Uses(p, j) \/ disk'[j].type # "none"
      BY <1>1, <1>2, <1>9, <1>7 DEF Goes, Uses, Shape, Putting, Paused, Inum
    <3>3. \A j \in Inum : Knows(p, j)' => Knows(p, j) \/ j = Root \/ inode'[j].valid
      BY <1>1, <1>2, <1>9, <2>4, <1>4, <1>6, SoundGet DEF Goes, Knows, HoldsAt
    <3>4. /\ cwd'[p] = cwd[p]
          /\ Cont(p)' \in {"linkto", "create", "unlink", "init"} => disk'[l'[p].at].type = "DIR"
          /\ Cont(p)' \in Owing \cup {"putip"} /\ Op(p)' = "link" /\ l'[p].ip # 0 => disk'[l'[p].ip].type = "FILE"
          /\ Cont(p)' = "unlinkip" => disk'[l'[p].at].ent[Head(l'[p].names)] = l'[p].ip
          /\ Cont(p)' # "init"
      BY <1>1, <1>2, <1>9, <2>4, <1>4 DEF Goes, Owing, Relies
    <3>. QED  BY <1>1, <2>3, <2>6, <3>1, <3>2, <3>3, <3>4, OwnRelies
  <2>9. Exclusive(p)'
    BY <1>1, <1>2, <1>9, NothingNew DEF Goes
  <2>. QED  BY <1>3, <2>2, <2>3, <2>6, <2>7, <2>8, <2>9, DiskStep
<1>. DEFINE T == [Loaded(d) EXCEPT ![d].lock = p]
<1>10. ASSUME NEW i \in Free, Entry(p, d) = 0, i \in Inum,
              disk' = [disk EXCEPT ![i] = [type |-> Type(p), nlink |-> 0, ent |-> Empty]],
              inode' = Iget(T, i),
              Goes(p, "init", l[p].call, l[p].names, d, i, l[p].put, l[p].then)
       PROVE  DInv' /\ Touches(p)
  <2>1. Rest(p) /\ disk[i].type = "none" /\ disk[i].nlink = 0 /\ i # d
    BY <1>1, <1>2, <1>6, <1>10 DEF Rest, Goes, Free, DiskOK
  <2>2. Cont(p)' = "init" /\ Op(p)' = Op(p) /\ Type(p)' = Type(p) /\ Type(p) \in {"FILE", "DIR"}
    BY <1>10 DEF Goes, Cont, Putting, Paused, Op, Type
  <2>3. Sound(inode') /\ inode'[d].valid
    <3>1. p \in Proc \cup {None}
      OBVIOUS
    <3>2. Sound(T) /\ T[d].valid /\ \A j \in Inum : T[j].ref = inode[j].ref
      BY <1>1, <1>6, <3>1, SoundLock
    <3>. HIDE DEF T
    <3>. QED  BY <1>1, <1>6, <1>10, <3>2, SoundGet
  <2>4. /\ disk'[i].type = Type(p) /\ disk'[i].nlink = 0 /\ \A m \in Elements : disk'[i].ent[m] = 0
        /\ \A j \in Inum : j # i => disk'[j] = disk[j]
        /\ disk'[i] = [type |-> Type(p), nlink |-> 0, ent |-> Empty]
    BY <1>2, <1>10 DEF TypeOK, Disk, Empty, Elements
  <2>5. \A m \in Elements : disk[i].ent[m] = 0
    BY <1>2, <1>10, <2>1 DEF DiskOK
  <2>6. \A j \in Inum, m \in Elements : disk'[j].ent[m] = disk[j].ent[m]
    BY <1>10, <2>4, <2>5
  <2>7. i # Root /\ \A b \in Inum, m \in Name : disk[b].ent[m] # i
    BY <1>2, <1>10, <2>1, NoLinks
  <2>8. \A q \in Proc : cwd[q] # i /\ file[q] # i /\ l[q].at # i /\ l[q].ip # i
    BY <1>10, <2>1 DEF DInv, Relies, Uses
  <2>9. Valids(p) /\ CopyOK'
    <3>1. ASSUME NEW j \in Inum, inode'[j].valid PROVE Copy(inode[j], j)' \/ Freed(j)
      <4>1. Copy(inode'[j], j) \/ Freed(j)
        BY <2>3, <3>1 DEF Sound
      <4>2. Copy(inode'[j], j) => j # i
        BY <2>1 DEF Copy
      <4>. QED  BY <2>4, <4>1, <4>2 DEF Copy
    <3>2. \A j \in Inum : inode[j].valid /\ inode[j].ref > 0 => inode'[j].valid
      BY <2>3 DEF Sound
    <3>. QED  BY <1>1, <2>1, <3>1, <3>2, CopyStep
  <2>10. Touches(p)
    BY <1>10, <2>1, <2>4 DEF Touches, Goes
  <2>11. Gets(p)
    BY <1>1, <1>4, <1>10, <2>1 DEF Gets, Goes
  <2>12. DiskOK'
    <3>1. \A j \in Inum : disk'[j].type = "none" => disk'[j].nlink = 0
      BY <1>2, <2>4 DEF DiskOK
    <3>2. \A j \in Inum, m \in Elements : disk'[j].ent[m] # 0 => disk'[j].type = "DIR"
      BY <1>2, <2>4 DEF DiskOK
    <3>3. ASSUME NEW b \in Inum, NEW e \in Inum, NEW j \in Inum, NEW k \in Name, NEW m \in Name,
                 disk'[b].ent[k] = j, disk'[j].type = "DIR"
          PROVE  disk'[j].ent[".."] = b /\ (disk'[e].ent[m] = j => e = b /\ m = k)
      <4>1. disk[b].ent[k] = j /\ j # i /\ disk[j].type = "DIR" /\ disk'[j].ent[".."] = disk[j].ent[".."]
        BY <1>4, <2>4, <2>6, <2>7, <3>3
      <4>2. disk'[e].ent[m] = j => disk[e].ent[m] = j
        BY <1>4, <2>6
      <4>. QED  BY <1>2, <4>1, <4>2 DEF DiskOK
    <3>4. Root \in Inum
      BY <1>2, RootLinked
    <3>5. disk'[Root].type = "DIR" /\ disk'[Root].ent[".."] = Root
      BY <1>2, <2>4, <2>7, <3>4 DEF DiskOK
    <3>6. \A b \in Inum, m \in Name : disk'[b].ent[m] # Root
      BY <1>2, <1>4, <2>6 DEF DiskOK
    <3>. QED  BY <3>1, <3>2, <3>3, <3>5, <3>6 DEF DiskOK
  <2>13. LinkCount'
    <3>1. ASSUME NEW j \in Inum PROVE Links(j)' + Owe(j)' <= disk'[j].nlink
      <4>1. EntriesOf(j)' \subseteq EntriesOf(j)
        <5>1. ASSUME NEW x \in EntriesOf(j)' PROVE x \in EntriesOf(j)
          <6>1. x \in Inum \X Name /\ disk'[x[1]].ent[x[2]] = j
            BY <5>1 DEF EntriesOf
          <6>2. x[1] \in Inum /\ x[2] \in Elements
            BY <1>4, <6>1
          <6>. QED  BY <2>6, <6>1, <6>2 DEF EntriesOf
        <5>. QED  BY <5>1
      <4>2. Below(j)' \subseteq Below(j)
        <5>1. Named' \subseteq Named
          BY <1>4, <2>6 DEF Named
        <5>. QED  BY <1>4, <2>6, <5>1 DEF Below
      <4>3. Owers(j)' \subseteq Owers(j)
        BY <2>1, <2>2 DEF Owers, Owes, Rest, Cont, Putting, Owing
      <4>4. disk'[j].nlink = disk[j].nlink /\ disk' \in Disk
        BY <1>3, <2>1, <2>4 DEF TypeOK
      <4>. QED  BY <1>2, <4>1, <4>2, <4>3, <4>4, LinksStay
    <3>. QED  BY <3>1 DEF LinkCount
  <2>14. Relies(p)'
    <3>1. l'[p].names \in Seq(Name)
      BY <1>2, <1>10 DEF Goes, Relies
    <3>2. \A j \in Inum : Uses(p, j)' => Uses(p, j) \/ disk'[j].type # "none"
      BY <1>1, <1>10, <2>2, <2>4 DEF Goes, Uses
    <3>3. \A j \in Inum : Knows(p, j)' => Knows(p, j) \/ j = Root \/ inode'[j].valid
      BY <1>1, <1>10, <2>2, <2>3 DEF Goes, Knows
    <3>4. cwd'[p] = cwd[p] /\ disk'[l'[p].at].type = "DIR"
      BY <1>1, <1>6, <1>10, <2>1, <2>4 DEF Goes
    <3>5. disk'[l'[p].at].ent[Head(l'[p].names)] = 0 /\ disk'[l'[p].ip] = [type |-> Type(p)', nlink |-> 0, ent |-> Empty]
      BY <1>1, <1>10, <2>1, <2>2, <2>4 DEF Goes, Entry
    <3>. QED  BY <1>1, <2>2, <2>9, <2>10, <3>1, <3>2, <3>3, <3>4, <3>5, OwnRelies DEF Owing
  <2>15. Exclusive(p)'
    <3>1. l'[p].pc = "init" /\ l'[p].ip = i /\ l'[p].at = d
      BY <1>10 DEF Goes
    <3>2. \A q \in Proc : cwd'[q] # i /\ l'[q].at # i /\ (q # p => l'[q].ip # i)
      BY <1>1, <2>1, <2>8, <3>1 DEF Rest
    <3>. QED  BY <3>1, <3>2 DEF Exclusive, TruncOK, FreedOK, NewOK
  <2>. QED  BY <1>3, <2>1, <2>9, <2>10, <2>11, <2>12, <2>13, <2>14, <2>15, DiskStep
<1>. QED  BY <1>8, <1>9, <1>10, CreateDoes

LEMMA CreateInitKeeps ==
  ASSUME IInv, DInv, NEW p \in Proc, CreateInit(p)
  PROVE  DInv' /\ Touches(p)
<1>. DEFINE d == l[p].at
            i == l[p].ip
            n == Head(l[p].names)
<1>1. /\ d \in Inum /\ i \in Inum /\ i # d /\ l[p].pc = "init" /\ inode[i].lock = None /\ inode[d].lock = p
      /\ cwd' = cwd /\ file' = file /\ l[p].names # <<>>
  BY CreateInitDoes
<1>2. /\ TypeOK /\ ShapeOK /\ CopyOK /\ DiskOK /\ LinkCount
      /\ Relies(p) /\ Exclusive(p) /\ Shape(p)
  BY DEF IInv, DInv, ShapeOK
<1>3. TypeOK' /\ RefsExact'
  BY CreateInitInv DEF IInv
<1>4. Cont(p) = "init" /\ 0 \notin Inum /\ Name \subseteq Elements /\ ".." \in Elements
  BY <1>1 DEF Cont, Putting, Paused, Inum, Elements
<1>5. n \in Name /\ n # ".."
  <2>1. l[p].names \in Seq(Name) /\ l[p].names # <<>>
    BY <1>1, <1>2, <1>4 DEF Relies
  <2>2. n \in Name
    BY <2>1
  <2>. QED  BY <2>2, InodesAssumption
<1>6. /\ disk[d].ent[n] = 0 /\ disk[i] = [type |-> Type(p), nlink |-> 0, ent |-> Empty]
      /\ disk[i].type # "none" /\ disk[d].type = "DIR" /\ (d = Root \/ inode[d].valid) /\ inode[d].ref > 0
  <2>1. /\ disk[d].ent[n] = 0 /\ disk[i] = [type |-> Type(p), nlink |-> 0, ent |-> Empty]
        /\ disk[i].type # "none" /\ disk[d].type = "DIR" /\ (d = Root \/ inode[d].valid)
    BY <1>1, <1>2, <1>4 DEF Relies, Uses, Knows, HoldsAt
  <2>. QED  BY <1>1, <2>1, Referred
<1>. HIDE DEF n
<1>7. /\ Sound(Loaded(i)) /\ Loaded(i)[i].valid
      /\ Loaded(i)[i].type = disk[i].type /\ Loaded(i)[i].nlink = disk[i].nlink
  BY <1>1, <1>2, <1>6, SoundLoaded, LoadedCopy
<1>8. /\ disk[i].type = Type(p) /\ disk[i].nlink = 0 /\ \A m \in Elements : disk[i].ent[m] = 0
      /\ i # Root /\ \A b \in Inum, m \in Name : disk[b].ent[m] # i
  <2>1. disk[i].type = Type(p) /\ disk[i].nlink = 0 /\ \A m \in Elements : disk[i].ent[m] = 0
    BY <1>6 DEF Empty, Elements
  <2>. QED  BY <1>1, <1>2, <2>1, NoLinks
<1>9. CASE /\ disk' = disk /\ inode' = Loaded(i)
            /\ Goes(p, "put", l[p].call, l[p].names, d, 0, i, "unlockdp")
  <2>1. Sound(inode')
    BY <1>7, <1>9
  <2>2. Rest(p)
    BY <1>1, <1>9 DEF Rest, Goes
  <2>3. Valids(p) /\ CopyOK'
    BY <1>1, <1>9, <2>1, <2>2, SoundStep
  <2>4. Cont(p)' = "unlockdp" /\ Op(p)' = Op(p)
    BY <1>1, <1>2, <1>9 DEF Goes, Cont, Putting, Paused, HoldsAt, Op, Parent, Linking
  <2>5. \A j \in Inum : Owes(p, j)' => Owes(p, j)
    BY <1>1, <1>2, <1>9, <2>4, <1>4 DEF Goes, Owes, Owing
  <2>6. DiskOK' /\ LinkCount' /\ Touches(p)
    BY <1>1, <1>9, <2>2, <2>5, SameLinks
  <2>7. Gets(p)
    BY <1>1, <1>2, <1>9 DEF Goes, Gets, FromIp, Shape, Putting, Paused, Inum
  <2>8. Relies(p)'
    <3>1. l'[p].names \in Seq(Name)
      BY <1>1, <1>2, <1>9 DEF Goes, Relies
    <3>2. \A j \in Inum : Uses(p, j)' => Uses(p, j) \/ disk'[j].type # "none"
      BY <1>1, <1>2, <1>9 DEF Goes, Uses, Shape, Putting, Paused, Inum
    <3>3. \A j \in Inum : Knows(p, j)' => Knows(p, j) \/ j = Root \/ inode'[j].valid
      BY <1>1, <1>2, <1>9, <2>4, <1>4, <1>7 DEF Goes, Knows, HoldsAt
    <3>4. /\ cwd'[p] = cwd[p]
          /\ Cont(p)' \in {"linkto", "create", "unlink", "init"} => disk'[l'[p].at].type = "DIR"
          /\ Cont(p)' \in Owing \cup {"putip"} /\ Op(p)' = "link" /\ l'[p].ip # 0 => disk'[l'[p].ip].type = "FILE"
          /\ Cont(p)' = "unlinkip" => disk'[l'[p].at].ent[Head(l'[p].names)] = l'[p].ip
          /\ Cont(p)' # "init"
      BY <1>1, <1>2, <1>9, <2>4, <1>4 DEF Goes, Owing, Relies
    <3>. QED  BY <1>1, <2>3, <2>6, <3>1, <3>2, <3>3, <3>4, OwnRelies
  <2>9. Exclusive(p)'
    BY <1>1, <1>2, <1>9, NothingNew DEF Goes
  <2>. QED  BY <1>3, <2>2, <2>3, <2>6, <2>7, <2>8, <2>9, DiskStep
<1>. DEFINE dir == Type(p) = "DIR"
            more == IF dir THEN 1 ELSE 0
            up == IF dir THEN d ELSE 0
<1>10. CASE /\ inode' = Linked(Loaded(i), i, d, p, more)
            /\ disk' = Made(i, d, n, up, more)
            /\ Goes(p, "put", l[p].call, l[p].names, 0, l[p].ip, d, "created")
  <2>1. Rest(p)
    BY <1>1, <1>10 DEF Rest, Goes
  <2>2. Cont(p)' = "created" /\ Op(p)' = Op(p) /\ Op(p) # "link"
    BY <1>1, <1>2, <1>4, <1>10 DEF Goes, Cont, Putting, Paused, Op, Shape, OpOK
  <2>3. /\ more \in {0, 1} /\ up \in Index
        /\ (disk[i].type = "DIR" => more = 1 /\ up = d) /\ (disk[i].type # "DIR" => more = 0 /\ up = 0)
    BY <1>1, <1>8 DEF Index
  <2>. HIDE DEF more, up
  <2>4. \A j \in Inum : /\ inode'[j].valid = Loaded(i)[j].valid /\ inode'[j].type = Loaded(i)[j].type
                        /\ inode'[j].nlink = IF j = i THEN 1 ELSE Loaded(i)[j].nlink + (IF j = d THEN more ELSE 0)
    <3>. HIDE DEF i, d
    <3>. QED  BY <1>1, <1>2, <1>10, <2>3, CreateTable
  <2>5. /\ disk' \in Disk
        /\ disk'[i].ent = [disk[i].ent EXCEPT ![".."] = up]
        /\ disk'[d].ent = [disk[d].ent EXCEPT ![n] = i]
        /\ \A j \in Inum : disk'[j].type = disk[j].type
        /\ \A j \in Inum : disk'[j].nlink = IF j = i THEN 1 ELSE disk[j].nlink + (IF j = d THEN more ELSE 0)
        /\ \A j \in Inum : j # d /\ j # i => disk'[j].ent = disk[j].ent
    <3>1. n \in Elements /\ disk \in Disk
      BY <1>2, <1>4, <1>5 DEF TypeOK
    <3>. HIDE DEF i, d
    <3>2. IsMade(i, d, n, up, more)
      BY <1>1, <1>10, <2>3, <3>1, CreateDisk
    <3>. QED  BY <3>2 DEF IsMade
  <2>6. \A j \in Inum, m \in Elements :
          disk'[j].ent[m] = IF j = d /\ m = n THEN i ELSE IF j = i /\ m = ".." THEN up ELSE disk[j].ent[m]
    <3>1. disk[d].ent \in [Elements -> Index] /\ disk[i].ent \in [Elements -> Index]
      BY <1>1, <1>2 DEF TypeOK, Disk
    <3>. HIDE DEF d, i
    <3>. QED  BY <1>1, <2>5, <3>1
  <2>7. \A j \in Inum : disk[j].nlink \in Int
    BY <1>2 DEF TypeOK, Disk
  <2>8. Valids(p) /\ CopyOK'
    <3>1. ASSUME NEW j \in Inum, inode'[j].valid PROVE Copy(inode[j], j)' \/ Freed(j)
      <4>1. Loaded(i)[j].valid /\ (Copy(Loaded(i)[j], j) \/ Freed(j))
        BY <1>7, <2>4, <3>1 DEF Sound
      <4>2. CASE j = i
        BY <1>1, <1>6, <1>7, <2>4, <2>5, <4>2 DEF Copy
      <4>3. CASE j # i
        BY <2>4, <2>5, <4>1, <4>3 DEF Copy
      <4>. QED  BY <4>2, <4>3
    <3>2. \A j \in Inum : inode[j].valid /\ inode[j].ref > 0 => inode'[j].valid
      BY <1>7, <2>4 DEF Sound
    <3>. QED  BY <1>1, <2>1, <3>1, <3>2, CopyStep
  <2>9. Touches(p)
    <3>1. \A j \in Inum : j # d /\ j # i => disk'[j] = disk[j]
      BY <1>2, <2>5, <2>7, SameInode DEF TypeOK
    <3>. QED  BY <1>1, <2>5, <3>1 DEF Touches
  <2>10. Gets(p)
    BY <1>1, <1>4, <1>10 DEF Gets, Goes, FromIp
  <2>11. DiskOK'
    <3>1. \A j \in Inum : disk'[j].type = "none" => disk'[j].nlink = 0
      BY <1>2, <1>6, <2>5, <2>7 DEF DiskOK
    <3>2. \A j \in Inum, m \in Elements : disk'[j].ent[m] # 0 => disk'[j].type = "DIR"
      BY <1>2, <1>6, <2>3, <2>5, <2>6 DEF DiskOK
    <3>3. ASSUME NEW b \in Inum, NEW e \in Inum, NEW j \in Inum, NEW k \in Name, NEW m \in Name,
                 disk'[b].ent[k] = j, disk'[j].type = "DIR"
          PROVE  disk'[j].ent[".."] = b /\ (disk'[e].ent[m] = j => e = b /\ m = k)
      <4>1. k # ".." /\ m # ".." /\ k \in Elements /\ m \in Elements
        BY <1>4, InodesAssumption
      <4>2. CASE j = i
        <5>1. b = d /\ k = n
          BY <1>8, <2>6, <3>3, <4>1, <4>2
        <5>2. disk'[e].ent[m] = j => e = d /\ m = n
          BY <1>8, <2>6, <4>1, <4>2
        <5>3. disk'[i].ent[".."] = up /\ up = d
          <6>1. disk'[i].ent[".."] = up
            BY <1>1, <1>4, <1>5, <2>6
          <6>2. disk[i].type = "DIR"
            BY <2>5, <3>3, <4>2
          <6>. QED  BY <2>3, <6>1, <6>2
        <5>. QED  BY <4>2, <5>1, <5>2, <5>3
      <4>3. CASE j # i
        <5>1. disk[b].ent[k] = j /\ disk[j].type = "DIR" /\ disk'[j].ent[".."] = disk[j].ent[".."]
          BY <1>4, <1>5, <2>5, <2>6, <3>3, <4>1, <4>3
        <5>2. disk'[e].ent[m] = j => disk[e].ent[m] = j
          BY <2>6, <4>1, <4>3
        <5>. QED  BY <1>2, <5>1, <5>2 DEF DiskOK
      <4>. QED  BY <4>2, <4>3
    <3>4. Root \in Inum
      BY <1>2, RootLinked
    <3>5. disk'[Root].type = "DIR" /\ disk'[Root].ent[".."] = Root
      BY <1>2, <1>4, <1>5, <1>8, <2>5, <2>6, <3>4 DEF DiskOK
    <3>6. \A b \in Inum, m \in Name : disk'[b].ent[m] # Root
      BY <1>2, <1>4, <1>8, <2>6, InodesAssumption DEF DiskOK
    <3>. QED  BY <3>1, <3>2, <3>3, <3>5, <3>6 DEF DiskOK
  <2>12. LinkCount'
    <3>1. ASSUME NEW j \in Inum PROVE Links(j)' + Owe(j)' <= disk'[j].nlink
      <4>0. \A k \in Name : k # ".." /\ k \in Elements
        BY <1>4, InodesAssumption
      <4>1. EntriesOf(j)' \subseteq EntriesOf(j) \cup {<<d, n>>} /\ (j # i => EntriesOf(j)' \subseteq EntriesOf(j))
        <5>1. ASSUME NEW x \in EntriesOf(j)' PROVE x \in EntriesOf(j) \/ (x = <<d, n>> /\ j = i)
          <6>1. x \in Inum \X Name /\ disk'[x[1]].ent[x[2]] = j
            BY <5>1 DEF EntriesOf
          <6>2. x = <<x[1], x[2]>> /\ x[1] \in Inum /\ x[2] \in Name
            BY <6>1
          <6>3. (x[1] = d /\ x[2] = n /\ j = i) \/ disk[x[1]].ent[x[2]] = j
            BY <2>6, <4>0, <6>1, <6>2
          <6>. QED  BY <6>1, <6>2, <6>3 DEF EntriesOf
        <5>. QED  BY <5>1
      <4>2. Below(j)' \subseteq Below(j) \cup {i} /\ (j # up => Below(j)' \subseteq Below(j))
        <5>1. ASSUME NEW b \in Below(j)' PROVE b \in Below(j) \/ (b = i /\ j = up)
          <6>1. b \in Inum /\ b \in Named' /\ disk'[b].ent[".."] = j
            BY <5>1 DEF Below
          <6>2. CASE b = i
            BY <1>1, <1>4, <1>5, <2>6, <6>1, <6>2
          <6>3. CASE b # i
            <7>1. disk[b].ent[".."] = j
              BY <1>4, <1>5, <2>6, <6>1, <6>3
            <7>2. b \in Named
              BY <2>6, <4>0, <6>1, <6>3 DEF Named
            <7>. QED  BY <6>1, <7>1, <7>2 DEF Below
          <6>. QED  BY <6>2, <6>3
        <5>. QED  BY <5>1
      <4>3. Owers(j)' \subseteq Owers(j)
        BY <2>1, <2>2 DEF Owers, Owes, Rest, Cont, Putting, Owing
      <4>. DEFINE a == IF j = i THEN 1 ELSE 0
                  b == IF j = up THEN 1 ELSE 0
      <4>4. a \in Int /\ b \in Int /\ 0 \in Int
        OBVIOUS
      <4>5. /\ IsFiniteSet(EntriesOf(j)) /\ IsFiniteSet(Below(j)) /\ IsFiniteSet(Owers(j))
            /\ Cardinality(EntriesOf(j)) \in Nat /\ Cardinality(Below(j)) \in Nat /\ Cardinality(Owers(j)) \in Nat
        BY LinkSets
      <4>6. IsFiniteSet(EntriesOf(j)') /\ Cardinality(EntriesOf(j)') <= Cardinality(EntriesOf(j)) + a
        <5>1. CASE j = i
          <6>1. IsFiniteSet(EntriesOf(j)') /\ Cardinality(EntriesOf(j)') <= Cardinality(EntriesOf(j)) + 1
            BY <4>1, <4>5, Counts
          <6>. QED  BY <5>1, <6>1
        <5>2. CASE j # i
          <6>1. IsFiniteSet(EntriesOf(j)') /\ Cardinality(EntriesOf(j)') <= Cardinality(EntriesOf(j))
            BY <4>1, <4>5, <5>2, Counts
          <6>. QED  BY <4>5, <5>2, <6>1
        <5>. QED  BY <5>1, <5>2
      <4>7. IsFiniteSet(Below(j)') /\ Cardinality(Below(j)') <= Cardinality(Below(j)) + b
        <5>1. CASE j = up
          <6>1. IsFiniteSet(Below(j)') /\ Cardinality(Below(j)') <= Cardinality(Below(j)) + 1
            BY <4>2, <4>5, Counts
          <6>. QED  BY <5>1, <6>1
        <5>2. CASE j # up
          <6>1. IsFiniteSet(Below(j)') /\ Cardinality(Below(j)') <= Cardinality(Below(j))
            BY <4>2, <4>5, <5>2, Counts
          <6>. QED  BY <4>5, <5>2, <6>1
        <5>. QED  BY <5>1, <5>2
      <4>8. IsFiniteSet(Owers(j)') /\ Cardinality(Owers(j)') <= Cardinality(Owers(j)) + 0
        <5>1. IsFiniteSet(Owers(j)') /\ Cardinality(Owers(j)') <= Cardinality(Owers(j))
          BY <4>3, <4>5, Counts
        <5>. QED  BY <4>5, <5>1
      <4>9. disk'[j].nlink >= disk[j].nlink + a + b + 0
        BY <1>1, <1>4, <1>8, <2>3, <2>5, <2>7
      <4>. HIDE DEF a, b
      <4>. QED  BY <1>2, <2>5, <4>4, <4>6, <4>7, <4>8, <4>9, LinksMove
    <3>. QED  BY <3>1 DEF LinkCount
  <2>13. Relies(p)'
    <3>1. l'[p].names \in Seq(Name)
      BY <1>2, <1>10 DEF Goes, Relies
    <3>2. \A j \in Inum : Uses(p, j)' => Uses(p, j) \/ disk'[j].type # "none"
      BY <1>1, <1>4, <1>10 DEF Goes, Uses
    <3>3. \A j \in Inum : Knows(p, j)' => Knows(p, j) \/ j = Root \/ inode'[j].valid
      <4>1. inode'[i].valid
        BY <1>1, <1>7, <2>4
      <4>2. d = Root \/ inode'[d].valid
        BY <1>1, <1>6, <1>7, <2>4 DEF Sound
      <4>3. ~HoldsAt(p)'
        BY <2>2 DEF HoldsAt
      <4>. QED  BY <1>1, <1>4, <1>10, <2>2, <4>1, <4>2, <4>3 DEF Goes, Knows
    <3>4. cwd'[p] = cwd[p] /\ Cont(p)' \notin {"linkto", "create", "unlink", "init", "unlinkip"} /\ Op(p)' # "link"
      BY <1>1, <2>2
    <3>. QED  BY <1>1, <2>8, <2>9, <3>1, <3>2, <3>3, <3>4, OwnRelies
  <2>14. Exclusive(p)'
    BY <1>10, NothingNew DEF Goes
  <2>. QED  BY <1>3, <2>1, <2>8, <2>9, <2>10, <2>11, <2>12, <2>13, <2>14, DiskStep
<1>. QED  BY <1>9, <1>10, CreateInitDoes DEF n
-----------------------------------------------------------------------------
(* At boot and in every step *)

LEMMA BootKeeps == IInv /\ Boots /\ DiskOK /\ (\A i \in Inum : Links(i) <= disk[i].nlink) => DInv
<1>. SUFFICES ASSUME IInv, Boots, DiskOK, \A i \in Inum : Links(i) <= disk[i].nlink PROVE DInv
  OBVIOUS
<1>1. TypeOK /\ Root \in Inum /\ 0 \notin Inum
  BY InodesAssumption DEF IInv, Root, Inum
<1>2. /\ Idle.pc = "idle" /\ Idle.names = <<>> /\ Idle.at = 0 /\ Idle.ip = 0 /\ Idle.put = 0
  BY DEF Idle
<1>3. \A p \in Proc : /\ l[p].pc = "idle" /\ l[p].names = <<>> /\ l[p].at = 0 /\ l[p].ip = 0 /\ l[p].put = 0
                      /\ Cont(p) = "idle" /\ cwd[p] = Root /\ file[p] = 0
  BY <1>2 DEF Boots, Cont, Putting, Paused
<1>4. CopyOK
  BY DEF CopyOK, Boots, Booted
<1>5. LinkCount
  <2>1. ASSUME NEW i \in Inum PROVE Links(i) + Owe(i) <= disk[i].nlink
    <3>1. Owers(i) = {}
      BY <1>3 DEF Owers, Owes, Owing
    <3>2. Owe(i) = 0
      BY <3>1, LinkSets, FS_EmptySet
    <3>3. Links(i) \in Int
      BY LinkSets
    <3>. QED  BY <2>1, <3>2, <3>3
  <2>. QED  BY <2>1 DEF LinkCount
<1>6. ASSUME NEW p \in Proc PROVE Relies(p) /\ Exclusive(p)
  <2>1. \A i \in Inum : Uses(p, i) \/ Knows(p, i) => i = Root
    BY <1>1, <1>3 DEF Uses, Knows
  <2>2. disk[Root].type = "DIR"
    BY DEF DiskOK
  <2>3. <<>> \in Seq(Name)
    OBVIOUS
  <2>4. Relies(p)
    BY <1>3, <2>1, <2>2, <2>3 DEF Relies, Owing
  <2>. QED  BY <1>3, <2>4 DEF Exclusive, TruncOK, FreedOK, NewOK
<1>. QED  BY <1>4, <1>5, <1>6 DEF DInv

\* The disk as mkfs makes it.
LEMMA InitKeeps == Init => DInv
<1>. SUFFICES ASSUME Init PROVE DInv
  OBVIOUS
<1>1. IInv /\ Boots
  BY InitInv DEF Init, Boots
<1>2. Root \in Inum /\ 0 \notin Inum /\ ".." \notin Name
  BY InodesAssumption DEF Root, Inum
<1>3. \A i \in Inum, n \in Name : disk[i].ent[n] = 0
  BY <1>2 DEF Init, Empty
<1>4. \A i \in Inum : /\ i # Root => disk[i].type = "none" /\ disk[i].nlink = 0 /\ disk[i].ent[".."] = 0
                      /\ i = Root => disk[i].type = "DIR" /\ disk[i].nlink = 1 /\ disk[i].ent[".."] = Root
  BY DEF Init, Empty
<1>5. DiskOK
  <2>1. \A d \in Inum, n \in Elements : disk[d].ent[n] # 0 => disk[d].type = "DIR"
    BY <1>3, <1>4 DEF Elements
  <2>. QED  BY <1>2, <1>3, <1>4, <2>1 DEF DiskOK
<1>6. ASSUME NEW i \in Inum PROVE Links(i) <= disk[i].nlink
  <2>1. EntriesOf(i) = {}
    BY <1>2, <1>3 DEF EntriesOf
  <2>2. Cardinality(EntriesOf(i)) = 0
    BY <2>1, FS_EmptySet
  <2>3. CASE i = Root
    <3>1. Below(i) = {Root}
      BY <1>2, <1>4, <2>3 DEF Below, Named
    <3>2. Cardinality(Below(i)) = 1
      BY <3>1, FS_Singleton
    <3>. QED  BY <1>4, <2>2, <2>3, <3>2, LinkSets
  <2>4. CASE i # Root
    <3>1. Below(i) = {}
      BY <1>2, <1>4, <2>4 DEF Below
    <3>2. Cardinality(Below(i)) = 0
      BY <3>1, FS_EmptySet
    <3>. QED  BY <1>4, <2>2, <2>4, <3>2, LinkSets
  <2>. QED  BY <2>3, <2>4
<1>. QED  BY <1>1, <1>5, <1>6, BootKeeps

\* Between two calls nobody owes a link, and what is on the disk stands alone.
LEMMA Covered ==
  ASSUME TypeOK, LinkCount, NEW i \in Inum
  PROVE  Links(i) <= disk[i].nlink
<1>1. Links(i) + Owe(i) <= disk[i].nlink
  BY DEF LinkCount
<1>2. Links(i) \in Nat /\ Owe(i) \in Nat /\ disk[i].nlink \in Int
  BY LinkSets DEF TypeOK, Disk
<1>. QED  BY <1>1, <1>2

LEMMA CrashKeeps ==
  ASSUME IInv, DInv, Crash
  PROVE  DInv'
<1>1. disk' = disk /\ Boots'
  BY DEF Crash, Boots
<1>2. IInv'
  BY CrashInv
<1>3. TypeOK /\ LinkCount /\ DiskOK
  BY DEF IInv, DInv
<1>4. DiskOK'
  BY <1>1, <1>3 DEF DiskOK
<1>5. \A i \in Inum : Links(i)' <= disk'[i].nlink
  <2>1. \A i \in Inum : Links(i)' = Links(i)
    BY <1>1 DEF Links, Named
  <2>. QED  BY <1>1, <1>3, <2>1, Covered
<1>6. (IInv /\ Boots /\ DiskOK /\ (\A i \in Inum : Links(i) <= disk[i].nlink) => DInv)'
  BY BootKeeps, PTL
<1>. QED  BY <1>2, <1>1, <1>4, <1>5, <1>6

LEMMA StutterKeeps ==
  ASSUME DInv, UNCHANGED vars
  PROVE  DInv'
<1>1. disk' = disk /\ inode' = inode /\ cwd' = cwd /\ file' = file /\ l' = l
  BY DEF vars
<1>2. CopyOK' /\ DiskOK'
  BY <1>1 DEF DInv, CopyOK, Copy, Freed, DiskOK
<1>3. \A p \in Proc : \A i : Owes(p, i)' = Owes(p, i)
  BY <1>1 DEF Owes, Cont, Putting
<1>4. LinkCount'
  <2>1. \A i \in Inum : Links(i)' = Links(i)
    BY <1>1 DEF Links, Named
  <2>2. \A i \in Inum : Owe(i)' = Owe(i)
    BY <1>3 DEF Owe
  <2>. QED  BY <1>1, <2>1, <2>2 DEF DInv, LinkCount
<1>5. ASSUME NEW p \in Proc PROVE Relies(p)' /\ Exclusive(p)'
  <2>1. /\ Cont(p)' = Cont(p) /\ Op(p)' = Op(p) /\ Type(p)' = Type(p)
        /\ HoldsAt(p)' = HoldsAt(p) /\ Parent(p)' = Parent(p)
    BY <1>1 DEF Cont, Putting, Op, Type, HoldsAt, Parent, Linking
  <2>2. \A i \in Inum : Uses(p, i)' = Uses(p, i) /\ Knows(p, i)' = Knows(p, i)
    BY <1>1, <2>1 DEF Uses, Knows
  <2>3. Relies(p)'
    BY <1>1, <2>1, <2>2 DEF DInv, Relies
  <2>4. Exclusive(p)'
    BY <1>1 DEF DInv, Exclusive, TruncOK, FreedOK, NewOK
  <2>. QED  BY <2>3, <2>4
<1>. QED  BY <1>2, <1>4, <1>5 DEF DInv

LEMMA StepKeeps ==
  ASSUME NoDotDot
  PROVE  IInv /\ DInv /\ [Next]_vars => DInv'
<1>. SUFFICES ASSUME IInv, DInv, [Next]_vars PROVE DInv'
  OBVIOUS
<1>1. CASE UNCHANGED vars
  BY <1>1, StutterKeeps
<1>2. CASE Crash
  BY <1>2, CrashKeeps
<1>3. ASSUME NEW p \in Proc, NEW c \in Calls, Begin(p, c) PROVE DInv'
  BY <1>3, BeginKeeps
<1>4. ASSUME NEW p \in Proc, Walk(p) \/ WalkEnds(p) PROVE DInv'
  BY <1>4, WalkKeeps, WalkEndsKeeps
<1>5. ASSUME NEW p \in Proc, PutDrops(p) \/ PutLocks(p) \/ PutFrees(p) \/ PutUnlocks(p) PROVE DInv'
  BY <1>5, PutDropsKeeps, PutLocksKeeps, PutFreesKeeps, PutUnlocksKeeps
<1>6. ASSUME NEW p \in Proc, Open(p) \/ Chdir(p) \/ Close(p) PROVE DInv'
  BY <1>6, OpenKeeps, ChdirKeeps, CloseKeeps
<1>7. ASSUME NEW p \in Proc, Link(p) \/ LinkTo(p) \/ PutIp(p) \/ LinkBad(p) PROVE DInv'
  BY <1>7, LinkKeeps, LinkToKeeps, PutIpKeeps, LinkBadKeeps
<1>8. ASSUME NEW p \in Proc, Unlink(p) \/ UnlinkEntry(p) \/ UnlinkInode(p) \/ UnlockDp(p) PROVE DInv'
  BY <1>8, UnlinkKeeps, UnlinkEntryKeeps, UnlinkInodeKeeps, UnlockDpKeeps
<1>9. ASSUME NEW p \in Proc, Create(p) \/ CreateInit(p) \/ Created(p) PROVE DInv'
  BY <1>9, CreateKeeps, CreateInitKeeps, CreatedKeeps
<1>. QED  BY <1>1, <1>2, <1>3, <1>4, <1>5, <1>6, <1>7, <1>8, <1>9 DEF Next

\* What is on the disk is what the calls under way take it for, as long as no path
\* of theirs has a ".." in it.
THEOREM OnTheDisk ==
  ASSUME NoDotDot
  PROVE  Spec => []DInv
<1>1. IInv /\ DInv /\ [Next]_vars => DInv'
  BY StepKeeps
<1>. QED  BY <1>1, InitKeeps, Inductive, PTL DEF Spec

\* A current directory stays a directory and an open file stays allocated, whoever
\* removes their names (fs.c:337-362).
THEOREM OpenStays ==
  ASSUME NoDotDot
  PROVE  Spec => []HeldStays
<1>1. ASSUME IInv, DInv, NEW p \in Proc
      PROVE  disk[cwd[p]].type = "DIR" /\ (file[p] # 0 => disk[file[p]].type # "none")
  <2>1. TypeOK /\ Relies(p)
    BY <1>1 DEF IInv, DInv
  <2>2. file[p] # 0 => file[p] \in Inum
    BY <2>1, Typed
  <2>. QED  BY <2>1, <2>2 DEF Relies, Uses
<1>2. IInv /\ DInv => HeldStays
  BY <1>1 DEF HeldStays
<1>3. Spec => []DInv
  BY OnTheDisk
<1>. QED  BY <1>2, <1>3, Inductive, PTL

\* What a crash leaves has at least as many links as entries: the entries and the
\* counts, which change in different steps, agree when no call is under way.
THEOREM NamesCounted ==
  ASSUME NoDotDot
  PROVE  Spec => []LinksCover
<1>1. IInv /\ DInv => LinksCover
  BY Covered DEF IInv, DInv, LinksCover
<1>2. Spec => []DInv
  BY OnTheDisk
<1>. QED  BY <1>1, <1>2, Inductive, PTL

\* The panics of ilock(), unlink() and dirlookup() never happen: no name and no
\* variable leads to a free inode, no name to one without links, and a name is
\* looked for in a directory (fs.c:315, sysfile.c:216, fs.c:557).
THEOREM AssertionsHold ==
  ASSUME NoDotDot
  PROVE  Spec => []NoPanic
<1>1. ASSUME IInv, DInv, NEW p \in Proc, Panics(p) PROVE FALSE
  <2>. DEFINE i == Locking(p)
  <2>1. /\ i # 0 /\ inode[i].lock = None
        /\ \/ Loaded(i)[i].type = "none"
           \/ l[p].pc = "unlinkip" /\ Loaded(i)[i].nlink < 1
           \/ l[p].pc \in {"linkto", "create", "unlink"} /\ Loaded(i)[i].type # "DIR"
    BY <1>1 DEF Panics, CanLock
  <2>2. TypeOK /\ CopyOK /\ LinkCount /\ DiskOK /\ Relies(p) /\ Shape(p)
    BY <1>1 DEF IInv, DInv, ShapeOK
  <2>3. /\ l[p].at = i \/ l[p].ip = i
        /\ l[p].pc = "unlinkip" => l[p].ip = i
        /\ l[p].pc \in {"linkto", "create", "unlink"} => l[p].at = i
    BY <2>1 DEF Locking
  <2>. HIDE DEF i
  <2>4. i \in Inum
    BY <2>1, <2>2, <2>3, Typed
  <2>5. disk[i].type # "none"
    BY <2>2, <2>3, <2>4 DEF Relies, Uses
  <2>6. Loaded(i)[i].type = disk[i].type /\ Loaded(i)[i].nlink = disk[i].nlink
    BY <1>1, <2>1, <2>2, <2>4, LoadedCopy
  <2>0. CASE l[p].pc \in {"linkto", "create", "unlink"} /\ disk[i].type # "DIR"
    <3>1. Cont(p) \in {"linkto", "create", "unlink"}
      BY <2>0 DEF Cont, Putting, Paused
    <3>. QED  BY <2>0, <2>2, <2>3, <3>1 DEF Relies
  <2>. SUFFICES ASSUME ~(l[p].pc \in {"linkto", "create", "unlink"} /\ disk[i].type # "DIR") PROVE FALSE
    BY <2>0
  <2>7. l[p].pc = "unlinkip" /\ disk[i].nlink < 1
    BY <2>1, <2>5, <2>6
  <2>8. Cont(p) = "unlinkip"
    BY <2>7 DEF Cont, Putting, Paused
  <2>9. l[p].at \in Inum /\ l[p].names # <<>>
    BY <2>2, <2>8, Typed DEF Shape, AtPoints, NamePoints
  <2>10. Head(l[p].names) \in Name
    BY <2>2, <2>9 DEF Relies
  <2>11. disk[l[p].at].ent[Head(l[p].names)] = i
    BY <2>2, <2>3, <2>7, <2>8 DEF Relies
  <2>12. i # 0
    BY <2>4 DEF Inum
  <2>13. disk[i].nlink >= 1
    BY <2>2, <2>9, <2>10, <2>11, <2>12, NamedIs
  <2>14. disk[i].nlink \in Int
    BY <2>2, <2>4 DEF TypeOK, Disk
  <2>. QED  BY <2>7, <2>13, <2>14
<1>2. IInv /\ DInv => NoPanic
  BY <1>1 DEF NoPanic
<1>3. Spec => []DInv
  BY OnTheDisk
<1>. QED  BY <1>2, <1>3, Inductive, PTL
-----------------------------------------------------------------------------
(* Which steps leave an inode that nobody will free *)

LEMMA RefNat ==
  ASSUME IInv, NEW i \in Inum
  PROVE  inode[i].ref \in Nat
<1>. DEFINE C == {r \in Proc : cwd[r] = i}
            F == {r \in Proc : file[r] = i}
            A == {r \in Proc : l[r].at = i}
            I == {r \in Proc : l[r].ip = i}
            P == {r \in Proc : l[r].put = i}
<1>1. inode[i].ref = Cardinality(C) + Cardinality(F) + Cardinality(A) + Cardinality(I) + Cardinality(P)
  BY DEF IInv, RefsExact
<1>2. IsFiniteSet(C) /\ IsFiniteSet(F) /\ IsFiniteSet(A) /\ IsFiniteSet(I) /\ IsFiniteSet(P)
  BY FinitelyMany
<1>. HIDE DEF C, F, A, I, P
<1>3. /\ Cardinality(C) \in Nat /\ Cardinality(F) \in Nat /\ Cardinality(A) \in Nat
      /\ Cardinality(I) \in Nat /\ Cardinality(P) \in Nat
  BY <1>2, FS_CardinalityType
<1>. QED  BY <1>1, <1>3

IpReferred == \A q \in Proc, i \in Inum : l[q].ip = i => inode[i].ref > 0

LEMMA IpIsReferred == IInv => IpReferred
BY Referred DEF IpReferred

LEMMA NoNewOrphan ==
  ASSUME IInv, IInv', NEW p \in Proc, Touches(p), NEW i \in Inum, inode'[i].ref >= inode[i].ref,
         Orphan(i)'
  PROVE  Orphan(i)
<1>1. disk'[i].type # "none" /\ disk'[i].nlink = 0 /\ inode'[i].ref = 0
  BY DEF Orphan
<1>2. inode[i].ref = 0
  BY <1>1, RefNat
<1>3. l[p].at # i /\ l[p].ip # i /\ l[p].put # i
  BY <1>2, Referred
<1>4. l'[p].ip # i
  <2>1. (IInv => IpReferred)'
    BY IpIsReferred, PTL
  <2>. QED  BY <1>1, <2>1 DEF IpReferred
<1>5. disk'[i] = disk[i]
  BY <1>3, <1>4 DEF Touches
<1>. QED  BY <1>1, <1>2, <1>5 DEF Orphan

\* No action but iput() takes a reference away.
Grows == \A j \in Inum : inode'[j].ref >= inode[j].ref

LEMMA GrowsAs ==
  ASSUME TypeOK, \A j \in Inum : inode'[j].ref = inode[j].ref
  PROVE  Grows
BY DEF TypeOK, Table, Grows

LEMMA GrowsGet ==
  ASSUME TypeOK, NEW T \in Table, \A j \in Inum : T[j].ref = inode[j].ref, NEW e \in Inum,
         inode' = Iget(T, e)
  PROVE  Grows
<1>1. \A j \in Inum : inode'[j].ref = inode[j].ref + One(e = j)
  BY IgetIs
<1>2. \A j \in Inum : One(e = j) \in {0, 1} /\ inode[j].ref \in Int
  BY DEF One, TypeOK, Table
<1>. QED  BY <1>1, <1>2 DEF Grows

\* ilock(), and then perhaps iget().
LEMMA LoadGrows ==
  ASSUME TypeOK, NEW d \in Inum,
         \/ inode' = Loaded(d)
         \/ \E e \in Inum : inode' = Iget(Loaded(d), e)
         \/ \E e \in Inum, k \in Proc : inode' = Iget([Loaded(d) EXCEPT ![d].lock = k], e)
         \/ \E e \in Inum, n \in Int : inode' = Iget([Loaded(d) EXCEPT ![d].nlink = n], e)
  PROVE  Grows
<1>1. Loaded(d) \in Table /\ \A j \in Inum : Loaded(d)[j].ref = inode[j].ref
  BY LoadedIs
<1>2. ASSUME NEW T \in Table, \A j \in Inum : T[j].ref = Loaded(d)[j].ref,
             NEW e \in Inum, inode' = Iget(T, e)
      PROVE  Grows
  BY <1>1, <1>2, GrowsGet
<1>3. CASE inode' = Loaded(d)
  BY <1>1, <1>3, GrowsAs
<1>4. ASSUME NEW e \in Inum, NEW k \in Proc, inode' = Iget([Loaded(d) EXCEPT ![d].lock = k], e)
      PROVE  Grows
  <2>1. PICK T : T = [Loaded(d) EXCEPT ![d].lock = k]
    OBVIOUS
  <2>2. T \in Table /\ \A j \in Inum : T[j].ref = Loaded(d)[j].ref
    BY <1>1, <2>1 DEF Table
  <2>. QED  BY <1>2, <1>4, <2>1, <2>2
<1>5. ASSUME NEW e \in Inum, NEW n \in Int, inode' = Iget([Loaded(d) EXCEPT ![d].nlink = n], e)
      PROVE  Grows
  <2>1. PICK T : T = [Loaded(d) EXCEPT ![d].nlink = n]
    OBVIOUS
  <2>2. T \in Table /\ \A j \in Inum : T[j].ref = Loaded(d)[j].ref
    BY <1>1, <2>1 DEF Table
  <2>. QED  BY <1>2, <1>5, <2>1, <2>2
<1>. QED  BY <1>1, <1>2, <1>3, <1>4, <1>5

LEMMA CallsGrow ==
  ASSUME IInv, NEW p \in Proc,
         \/ \E c \in Calls : Begin(p, c)
         \/ Walk(p) \/ WalkEnds(p) \/ Open(p) \/ Chdir(p) \/ Close(p) \/ PutIp(p)
  PROVE  Grows
<1>1. TypeOK /\ inode \in Table
  BY DEF IInv, TypeOK
<1>2. ASSUME NEW c \in Calls, Begin(p, c) PROVE Grows
  <2>1. Start(p, c.path) \in Inum /\ inode' = Iget(inode, Start(p, c.path))
    BY <1>2, BeginDoes
  <2>. QED  BY <1>1, <2>1, GrowsGet
<1>3. CASE Walk(p)
  <2>. DEFINE d == l[p].at
              e == Entry(p, d)
  <2>1. d \in Inum /\ (inode' = Loaded(d) \/ (e \in Inum /\ inode' = Iget(Loaded(d), e)))
    BY <1>3, WalkDoes
  <2>. HIDE DEF e, d
  <2>. QED  BY <1>1, <2>1, LoadGrows
<1>4. CASE WalkEnds(p) \/ Close(p) \/ PutIp(p)
  <2>1. inode' = inode
    BY <1>4 DEF WalkEnds, Close, PutIp
  <2>. QED  BY <1>1, <2>1, GrowsAs
<1>5. CASE Open(p) \/ Chdir(p)
  <2>. DEFINE d == l[p].at
  <2>1. d \in Inum /\ inode' = Loaded(d)
    BY <1>5, OpenDoes, ChdirDoes
  <2>. HIDE DEF d
  <2>. QED  BY <1>1, <2>1, LoadGrows
<1>. QED  BY <1>2, <1>3, <1>4, <1>5

LEMMA LocksGrow ==
  ASSUME IInv, NEW p \in Proc,
         PutLocks(p) \/ PutFrees(p) \/ PutUnlocks(p) \/ UnlinkInode(p) \/ UnlockDp(p) \/ Created(p)
  PROVE  Grows
<1>1. TypeOK /\ inode \in Table
  BY DEF IInv, TypeOK
<1>2. CASE PutLocks(p)
  BY <1>1, <1>2, GrowsAs DEF PutLocks, Table
<1>3. CASE PutFrees(p)
  BY <1>1, <1>3, GrowsAs DEF PutFrees, Table
<1>4. CASE PutUnlocks(p)
  BY <1>1, <1>4, GrowsAs DEF PutUnlocks, Invalidated, Table
<1>5. CASE UnlinkInode(p)
  BY <1>1, <1>5, GrowsAs DEF UnlinkInode, Table
<1>6. CASE UnlockDp(p)
  BY <1>1, <1>6, GrowsAs DEF UnlockDp, Table
<1>7. CASE Created(p)
  BY <1>1, <1>7, GrowsAs DEF Created, Table
<1>. QED  BY <1>2, <1>3, <1>4, <1>5, <1>6, <1>7

LEMMA NamesGrow ==
  ASSUME IInv, NEW p \in Proc,
         \/ Link(p) \/ LinkTo(p) \/ LinkBad(p) \/ Unlink(p) \/ UnlinkEntry(p)
         \/ Create(p) \/ CreateInit(p)
  PROVE  Grows
<1>. DEFINE d == l[p].at
            i == l[p].ip
<1>1. TypeOK
  BY DEF IInv
<1>2. \A j \in Inum : Loaded(j) \in Table /\ \A k \in Inum : Loaded(j)[k].ref = inode[k].ref
  BY <1>1, LoadedIs
<1>3. CASE Link(p)
  <2>. DEFINE e == Start(p, l[p].call.new)
              n == Loaded(d)[d].nlink + 1
  <2>1. /\ d \in Inum
        /\ \/ inode' = Loaded(d)
           \/ e \in Inum /\ inode' = Iget([Loaded(d) EXCEPT ![d].nlink = n], e)
    BY <1>3, LinkDoes
  <2>2. n \in Int
    BY <1>2, <2>1 DEF Table
  <2>. HIDE DEF e, d, n
  <2>. QED  BY <1>1, <2>1, <2>2, LoadGrows
<1>4. CASE LinkTo(p)
  <2>1. d \in Inum /\ inode' = Loaded(d)
    BY <1>4, LinkToDoes
  <2>. HIDE DEF d
  <2>. QED  BY <1>1, <2>1, LoadGrows
<1>5. CASE LinkBad(p)
  <2>1. i \in Inum /\ inode' = [Loaded(i) EXCEPT ![i].nlink = Loaded(i)[i].nlink - 1]
    BY <1>5, LinkBadDoes
  <2>. HIDE DEF i
  <2>2. \A j \in Inum : inode'[j].ref = Loaded(i)[j].ref
    BY <1>2, <2>1 DEF Table
  <2>. QED  BY <1>1, <1>2, <2>1, <2>2, GrowsAs
<1>6. CASE Unlink(p)
  <2>. DEFINE e == Entry(p, d)
  <2>1. /\ d \in Inum
        /\ \/ inode' = Loaded(d)
           \/ e \in Inum /\ inode' = Iget([Loaded(d) EXCEPT ![d].lock = p], e)
    BY <1>6, UnlinkDoes
  <2>. HIDE DEF e, d
  <2>. QED  BY <1>1, <2>1, LoadGrows
<1>7. CASE UnlinkEntry(p)
  <2>. DEFINE less == IF Loaded(i)[i].type = "DIR" THEN 1 ELSE 0
  <2>1. /\ d \in Inum /\ i \in Inum /\ i # d
        /\ inode' = Loaded(i) \/ inode' = Unlinked(Loaded(i), i, d, p, less)
    BY <1>7, UnlinkEntryDoes
  <2>2. less \in {0, 1}
    OBVIOUS
  <2>. HIDE DEF i, d, less
  <2>. QED  BY <1>1, <1>2, <2>1, <2>2, GrowsAs, UnlinkTable
<1>8. CASE Create(p)
  <2>. DEFINE e == Entry(p, d)
  <2>1. /\ d \in Inum
        /\ \/ inode' = Loaded(d)
           \/ e \in Inum /\ inode' = Iget(Loaded(d), e)
           \/ \E f \in Inum : inode' = Iget([Loaded(d) EXCEPT ![d].lock = p], f)
    BY <1>8, CreateDoes
  <2>. HIDE DEF e, d
  <2>. QED  BY <1>1, <2>1, LoadGrows
<1>9. CASE CreateInit(p)
  <2>. DEFINE more == IF Type(p) = "DIR" THEN 1 ELSE 0
  <2>1. /\ d \in Inum /\ i \in Inum /\ i # d
        /\ inode' = Loaded(i) \/ inode' = Linked(Loaded(i), i, d, p, more)
    BY <1>9, CreateInitDoes
  <2>2. more \in {0, 1}
    OBVIOUS
  <2>. HIDE DEF i, d, more
  <2>. QED  BY <1>1, <1>2, <2>1, <2>2, GrowsAs, CreateTable
<1>. QED  BY <1>3, <1>4, <1>5, <1>6, <1>7, <1>8, <1>9

\* iput() does not drop the last reference to an inode without links before it has
\* freed the inode.
LEMMA DropOrphans ==
  ASSUME IInv, DInv, IInv', NEW p \in Proc, PutDrops(p), NEW i \in Inum, Orphan(i)'
  PROVE  Orphan(i) \/ (l[p].pc = "drop" /\ l[p].put = i)
<1>. SUFFICES ASSUME ~(l[p].pc = "drop" /\ l[p].put = i) PROVE Orphan(i)
  OBVIOUS
<1>1. /\ disk' = disk /\ inode' = [inode EXCEPT ![l[p].put].ref = inode[l[p].put].ref - 1] /\ l[p].put \in Inum
      /\ l[p].pc \in {"put", "drop"} /\ (l[p].pc = "put" => ~LastRef(l[p].put))
  BY PutDropsDoes
<1>2. disk[i].type # "none" /\ disk[i].nlink = 0 /\ inode'[i].ref = 0
  BY <1>1 DEF Orphan
<1>3. inode \in Table /\ TypeOK /\ CopyOK /\ LinkCount /\ DiskOK /\ Relies(p)
  BY DEF IInv, TypeOK, DInv
<1>4. CASE l[p].put # i
  <2>1. inode'[i].ref = inode[i].ref
    BY <1>1, <1>3, <1>4 DEF Table
  <2>. QED  BY <1>2, <2>1 DEF Orphan
<1>5. CASE l[p].put = i
  <2>1. l[p].pc = "put" /\ ~LastRef(i)
    BY <1>1, <1>5
  <2>2. inode[i].ref = 1
    <3>1. inode'[i].ref = inode[i].ref - 1 /\ inode[i].ref \in Int
      BY <1>1, <1>3, <1>5 DEF Table
    <3>. QED  BY <1>2, <3>1
  <2>3. i = Root \/ inode[i].valid
    BY <1>3, <1>5, <2>1 DEF Relies, Knows
  <2>4. i # Root
    BY <1>2, <1>3, NoLinks
  <2>5. Freed(i)
    BY <1>2, <1>3, <2>1, <2>2, <2>3, <2>4 DEF CopyOK, Copy, LastRef
  <2>6. PICK q \in Proc : l[q].pc = "freed" /\ l[q].put = i
    BY <2>5 DEF Freed
  <2>7. FreedOK(q)
    BY DEF DInv, Exclusive
  <2>. QED  BY <1>5, <2>1, <2>6, <2>7 DEF FreedOK
<1>. QED  BY <1>4, <1>5

LEMMA OrphanStep ==
  ASSUME NoDotDot
  PROVE  IInv /\ DInv /\ [Next]_vars =>
           [\A i \in Inum : Orphan(i)' =>
              \/ Orphan(i) \/ inode' = Booted
              \/ \E p \in Proc : l[p].pc = "drop" /\ l[p].put = i]_vars
<1>. SUFFICES ASSUME IInv, DInv, Next, NEW i \in Inum, Orphan(i)'
              PROVE  \/ Orphan(i) \/ inode' = Booted
                     \/ \E p \in Proc : l[p].pc = "drop" /\ l[p].put = i
  OBVIOUS
<1>0. IInv'
  BY StepInv
<1>1. ASSUME NEW p \in Proc, Touches(p), Grows PROVE Orphan(i)
  BY <1>0, <1>1, NoNewOrphan DEF Grows
<1>2. CASE Crash
  BY <1>2 DEF Crash
<1>3. ASSUME NEW p \in Proc, NEW c \in Calls, Begin(p, c) PROVE Orphan(i)
  BY <1>1, <1>3, BeginKeeps, CallsGrow
<1>4. ASSUME NEW p \in Proc, Walk(p) \/ WalkEnds(p) \/ Open(p) \/ Chdir(p) \/ Close(p) \/ PutIp(p) PROVE Orphan(i)
  <2>1. Grows
    BY <1>4, CallsGrow
  <2>. QED  BY <1>1, <1>4, <2>1, WalkKeeps, WalkEndsKeeps, OpenKeeps, ChdirKeeps, CloseKeeps, PutIpKeeps
<1>5. ASSUME NEW p \in Proc, PutDrops(p)
      PROVE  Orphan(i) \/ \E q \in Proc : l[q].pc = "drop" /\ l[q].put = i
  BY <1>0, <1>5, DropOrphans
<1>6. ASSUME NEW p \in Proc,
             PutLocks(p) \/ PutFrees(p) \/ PutUnlocks(p) \/ UnlinkInode(p) \/ UnlockDp(p) \/ Created(p)
      PROVE  Orphan(i)
  <2>1. Grows
    BY <1>6, LocksGrow
  <2>. QED  BY <1>1, <1>6, <2>1, PutLocksKeeps, PutFreesKeeps, PutUnlocksKeeps, UnlinkInodeKeeps,
               UnlockDpKeeps, CreatedKeeps
<1>7. ASSUME NEW p \in Proc,
             \/ Link(p) \/ LinkTo(p) \/ LinkBad(p) \/ Unlink(p) \/ UnlinkEntry(p)
             \/ Create(p) \/ CreateInit(p)
      PROVE  Orphan(i)
  <2>1. Grows
    BY <1>7, NamesGrow
  <2>. QED  BY <1>1, <1>7, <2>1, LinkKeeps, LinkToKeeps, LinkBadKeeps, UnlinkKeeps, UnlinkEntryKeeps,
               CreateKeeps, CreateInitKeeps
<1>. QED  BY <1>2, <1>3, <1>4, <1>5, <1>6, <1>7 DEF Next

\* No inode is lost: it is left without a link and without a reference to it only
\* over a crash, or by an iput() that goes on after it has freed the inode
\* (fs.c:355-360).
THEOREM NoneLost ==
  ASSUME NoDotDot
  PROVE  Spec => NoOrphans
<1>1. IInv /\ DInv /\ [Next]_vars =>
        [\A i \in Inum : Orphan(i)' =>
           \/ Orphan(i) \/ inode' = Booted
           \/ \E p \in Proc : l[p].pc = "drop" /\ l[p].put = i]_vars
  BY OrphanStep
<1>2. Spec => []DInv
  BY OnTheDisk
<1>. QED  BY <1>1, <1>2, Inductive, PTL DEF Spec, NoOrphans
=============================================================================
