------------------------------- MODULE Inodes --------------------------------
(***************************************************************************)
(* Inodes and directories: the inode table and namex() of kernel/fs.c and  *)
(* the system calls of kernel/sysfile.c that give names to inodes and take *)
(* them away.                                                              *)
(*                                                                         *)
(* One action is what a process does from an ilock() to the iunlock() or   *)
(* the next ilock(), or under itable.lock; iput() is a procedure, which    *)
(* returns to "then".  The table has an entry for every inode, a process   *)
(* one file, and files have no contents.                                   *)
(*                                                                         *)
(* Each call is a transaction, and what is on the disk after a crash is    *)
(* what it was when no call was under way (Log).  A crash in the middle of *)
(* a call therefore ends where one before that call does, and the model    *)
(* has only the latter.                                                    *)
(***************************************************************************)
EXTENDS Integers, Sequences, FiniteSets

CONSTANTS
  Proc,
  NINODES,   \* inodes on the disk; number 1 is the root
  Name,      \* of directory entries
  Calls,     \* the system calls: [op, path] and, for link, [op, path, new]
  MAXLINK,   \* bound: no link() to an inode that has as many
  None

\* A path is "/" or relative, and its elements.
Path == [abs : BOOLEAN, names : Seq(Name \cup {".."})]

ASSUME InodesAssumption ==
  /\ IsFiniteSet(Proc) /\ None \notin Proc
  /\ NINODES \in Nat \ {0} /\ MAXLINK \in Nat
  /\ IsFiniteSet(Name) /\ ".." \notin Name
  /\ \A c \in Calls :
       /\ c.op \in {"open", "chdir", "link", "creat", "mkdir", "unlink"}
       /\ c.path \in Path
       /\ c.op = "link" => c.new \in Path

VARIABLES
  disk,       \* the inodes as the log and the cache have them
  inode,      \* the table: references, holder of the lock, and the copy of the inode
  cwd, file,  \* the current directory and the open file of each process
  l           \* what a system call has in its local variables

vars == <<disk, inode, cwd, file, l>>

Inum == 1..NINODES
Root == 1
Empty == [n \in Name \cup {".."} |-> 0]

Idle == [pc |-> "idle", call |-> None, names |-> <<>>, at |-> 0, ip |-> 0, put |-> 0, then |-> "end"]

\* The table after boot, where every process is in the root directory.
Booted ==
  [i \in Inum |-> [ref |-> IF i = Root THEN Cardinality(Proc) ELSE 0,
                   lock |-> None, valid |-> FALSE, type |-> "none", nlink |-> 0]]

\* mkfs makes the root directory.
Init ==
  /\ disk = [i \in Inum |-> IF i = Root
               THEN [type |-> "DIR", nlink |-> 1, ent |-> [Empty EXCEPT ![".."] = Root]]
               ELSE [type |-> "none", nlink |-> 0, ent |-> Empty]]
  /\ inode = Booted
  /\ cwd = [p \in Proc |-> Root] /\ file = [p \in Proc |-> 0]
  /\ l = [p \in Proc |-> Idle]
-----------------------------------------------------------------------------
With(e, r) == [f \in DOMAIN e |-> IF f \in DOMAIN r THEN r[f] ELSE e[f]]
Step(p, r) == l' = [l EXCEPT ![p] = With(@, r)]

\* iput(i), and then to the control point next, or to the end of the call.
Put(p, i, next, r) ==
  l' = [l EXCEPT ![p] = With([@ EXCEPT !.pc = "put", !.put = i, !.then = next], r)]
PutLast(p, i) == l' = [l EXCEPT ![p] = [Idle EXCEPT !.pc = "put", !.put = i]]

\* end_op().
Ends(p) == l' = [l EXCEPT ![p] = Idle]

\* Mutant of Iget: the references are not counted.
IgetReset(table, i) == [table EXCEPT ![i].ref = 1, ![i].valid = FALSE]

\* iget(): an entry that nobody refers to starts anew.
Iget(table, i) ==
  [table EXCEPT ![i].ref = @ + 1, ![i].valid = @ /\ table[i].ref > 0]

CanLock(i) == inode[i].lock = None

\* The table once ilock(i) has read the inode.
Loaded(i) ==
  IF inode[i].valid THEN inode
  ELSE [inode EXCEPT ![i].valid = TRUE, ![i].type = disk[i].type, ![i].nlink = disk[i].nlink]

\* The inode the next ilock() of a process is for.
Locking(p) ==
  CASE l[p].pc \in {"walk", "open", "existing", "chdir", "link", "linkto", "unlink", "create"} -> l[p].at
    [] l[p].pc \in {"unlinkip", "init", "linkbad"} -> l[p].ip
    [] OTHER -> 0

Enters(p, pc) ==
  /\ l[p].pc = pc
  /\ CanLock(Locking(p)) /\ Loaded(Locking(p))[Locking(p)].type # "none"

\* ilock(), unlink() and dirlookup() panic: nothing follows.  ilock() looks at
\* the type of a copy that it has just read only; here any copy counts.
Panics(p) ==
  LET i == Locking(p) IN
  /\ i # 0 /\ CanLock(i)
  /\ \/ Loaded(i)[i].type = "none"
     \/ l[p].pc = "unlinkip" /\ Loaded(i)[i].nlink < 1
     \/ l[p].pc \in {"linkto", "create", "unlink"} /\ Loaded(i)[i].type # "DIR"
-----------------------------------------------------------------------------
(* Calls and lookups. *)

Start(p, path) == IF path.abs THEN Root ELSE cwd[p]

\* Where namex() is with the elements names before it.
Loop(names) == IF names = <<>> THEN "found" ELSE "walk"

Begin(p, c) ==
  /\ l[p].pc = "idle"
  /\ inode' = Iget(inode, Start(p, c.path))
  /\ Step(p, [pc |-> Loop(c.path.names), call |-> c, names |-> c.path.names,
              at |-> Start(p, c.path)])
  /\ UNCHANGED <<disk, cwd, file>>

Op(p) == l[p].call.op
Linking(p) == Op(p) = "link" /\ l[p].ip # 0
Parent(p) == Op(p) \in {"creat", "mkdir", "unlink"} \/ Linking(p)
Found(p) == CASE Op(p) \in {"creat", "mkdir"} -> "create"
              [] Linking(p) -> "linkto"
              [] OTHER -> Op(p)
Entry(p, d) == disk[d].ent[Head(l[p].names)]
Last(p) == Len(l[p].names) = 1

\* namex() finds nothing, and gives up where it is.
Fails(p, d) == IF Linking(p) THEN Put(p, d, "linkbad", [at |-> 0]) ELSE PutLast(p, d)

\* One turn of the loop of namex().
Walk(p) ==
  LET d == l[p].at
      dir == Loaded(d)[d].type = "DIR"
  IN
  /\ Enters(p, "walk")
  /\ \/ /\ dir /\ Parent(p) /\ Last(p)
        /\ inode' = Loaded(d)
        /\ Step(p, [pc |-> Found(p)])
     \/ /\ dir /\ ~(Parent(p) /\ Last(p)) /\ Entry(p, d) # 0
        /\ inode' = Iget(Loaded(d), Entry(p, d))
        /\ Put(p, d, Loop(Tail(l[p].names)), [at |-> Entry(p, d), names |-> Tail(l[p].names)])
     \/ /\ dir => ~(Parent(p) /\ Last(p)) /\ Entry(p, d) = 0
        /\ inode' = Loaded(d)
        /\ Fails(p, d)
  /\ UNCHANGED <<disk, cwd, file>>

\* After the loop: the root has no parent and no name in it.
WalkEnds(p) ==
  /\ l[p].pc = "found"
  /\ IF Parent(p) THEN Fails(p, l[p].at) ELSE Step(p, [pc |-> Found(p)])
  /\ UNCHANGED <<disk, inode, cwd, file>>
-----------------------------------------------------------------------------
(* iput() *)

\* Mutants of LastRef: others may have the inode; it has links; the test comes
\* after the decrement.
LastRefAny(i) == inode[i].valid /\ inode[i].nlink = 0
LastRefLinked(i) == inode[i].ref = 1 /\ inode[i].valid
LastRefZero(i) == inode[i].ref = 0 /\ inode[i].valid /\ inode[i].nlink = 0

\* The last reference to an inode without links: it is going to be freed.
LastRef(i) == inode[i].ref = 1 /\ inode[i].valid /\ inode[i].nlink = 0

PutDrops(p) ==
  LET i == l[p].put IN
  /\ l[p].pc = "drop" \/ (l[p].pc = "put" /\ ~LastRef(i))
  /\ inode' = [inode EXCEPT ![i].ref = @ - 1]
  /\ IF l[p].then = "end" THEN Ends(p) ELSE Step(p, [pc |-> l[p].then, put |-> 0])
  /\ UNCHANGED <<disk, cwd, file>>

PutLocks(p) ==
  LET i == l[p].put IN
  /\ l[p].pc = "put" /\ LastRef(i) /\ CanLock(i)
  /\ inode' = [inode EXCEPT ![i].lock = p]
  /\ Step(p, [pc |-> "trunc"])
  /\ UNCHANGED <<disk, cwd, file>>

\* itrunc(), and the inode is free on the disk ...
PutFrees(p) ==
  LET i == l[p].put IN
  /\ l[p].pc = "trunc"
  /\ disk' = [disk EXCEPT ![i] = [type |-> "none", nlink |-> 0, ent |-> Empty]]
  /\ inode' = [inode EXCEPT ![i].type = "none"]
  /\ Step(p, [pc |-> "freed"])
  /\ UNCHANGED <<cwd, file>>

\* Mutant of Invalidated: the copy stays.
InvalidatedNot(e) == [e EXCEPT !.lock = None]

\* ... before its entry in the table is given up.
Invalidated(e) == [e EXCEPT !.lock = None, !.valid = FALSE]
PutUnlocks(p) ==
  /\ l[p].pc = "freed"
  /\ inode' = [inode EXCEPT ![l[p].put] = Invalidated(@)]
  /\ Step(p, [pc |-> "drop"])
  /\ UNCHANGED <<disk, cwd, file>>
-----------------------------------------------------------------------------
(* open(), chdir(), close() *)

\* open() of what namei() or create() has found; a process has room for one
\* file.  It may always fail: no struct file, no descriptor, the wrong mode.
\* Devices and O_TRUNC are left out: they change no reference and no link.
Open(p) ==
  LET i == l[p].at IN
  /\ Enters(p, "open") \/ Enters(p, "existing")
  /\ inode' = Loaded(i)
  /\ \/ /\ file[p] = 0
        /\ l[p].pc = "existing" => Op(p) = "creat" /\ Loaded(i)[i].type = "FILE"
        /\ file' = [file EXCEPT ![p] = i]
        /\ Ends(p)
     \/ /\ PutLast(p, i)
        /\ UNCHANGED file
  /\ UNCHANGED <<disk, cwd>>

\* sys_chdir() gives up the old directory before it stores the new one; nobody
\* else reads p->cwd.
Chdir(p) ==
  LET i == l[p].at
      dir == Loaded(i)[i].type = "DIR"
  IN
  /\ Enters(p, "chdir")
  /\ inode' = Loaded(i)
  /\ cwd' = [cwd EXCEPT ![p] = IF dir THEN i ELSE @]
  /\ PutLast(p, IF dir THEN cwd[p] ELSE i)
  /\ UNCHANGED <<disk, file>>

Close(p) ==
  /\ l[p].pc = "idle" /\ file[p] # 0
  /\ PutLast(p, file[p])
  /\ file' = [file EXCEPT ![p] = 0]
  /\ UNCHANGED <<disk, inode, cwd>>
-----------------------------------------------------------------------------
(* link() *)

\* The link is counted first, and then the directory for it is looked up.
Link(p) ==
  LET i == l[p].at
      path == l[p].call.new
  IN
  /\ Enters(p, "link") /\ Loaded(i)[i].nlink < MAXLINK
  /\ IF Loaded(i)[i].type = "DIR"
     THEN /\ inode' = Loaded(i)
          /\ PutLast(p, i)
          /\ UNCHANGED disk
     ELSE /\ inode' = Iget([Loaded(i) EXCEPT ![i].nlink = @ + 1], Start(p, path))
          /\ disk' = [disk EXCEPT ![i].nlink = Loaded(i)[i].nlink + 1]
          /\ Step(p, [pc |-> Loop(path.names), ip |-> i, at |-> Start(p, path),
                     names |-> path.names])
  /\ UNCHANGED <<cwd, file>>

\* dirlink(); the name may be there already, or the disk full.  The reference it
\* takes to an inode that has the name comes and goes with the directory locked.
LinkTo(p) ==
  LET d == l[p].at IN
  /\ Enters(p, "linkto")
  /\ inode' = Loaded(d)
  /\ \/ /\ Entry(p, d) = 0
        /\ disk' = [disk EXCEPT ![d].ent[Head(l[p].names)] = l[p].ip]
        /\ Put(p, d, "putip", [at |-> 0])
     \/ /\ Put(p, d, "linkbad", [at |-> 0])
        /\ UNCHANGED disk
  /\ UNCHANGED <<cwd, file>>

\* iput(ip) after the directory.
PutIp(p) ==
  /\ l[p].pc = "putip"
  /\ PutLast(p, l[p].ip)
  /\ UNCHANGED <<disk, inode, cwd, file>>

\* bad: the link is not made after all.
LinkBad(p) ==
  LET i == l[p].ip IN
  /\ Enters(p, "linkbad")
  /\ inode' = [Loaded(i) EXCEPT ![i].nlink = @ - 1]
  /\ disk' = [disk EXCEPT ![i].nlink = @ - 1]
  /\ PutLast(p, i)
  /\ UNCHANGED <<cwd, file>>
-----------------------------------------------------------------------------
(* unlink() *)

\* The directory stays locked while the inode is looked up and locked.
Unlink(p) ==
  LET d == l[p].at IN
  /\ Enters(p, "unlink")
  /\ IF Head(l[p].names) = ".." \/ Entry(p, d) = 0
     THEN /\ inode' = Loaded(d)
          /\ PutLast(p, d)
     ELSE /\ inode' = Iget([Loaded(d) EXCEPT ![d].lock = p], Entry(p, d))
          /\ Step(p, [pc |-> "unlinkip", ip |-> Entry(p, d)])
  /\ UNCHANGED <<disk, cwd, file>>

IsDirEmpty(i) == \A n \in Name : disk[i].ent[n] = 0

\* The entry goes, and the directory is let go of before the inode.
UnlinkEntry(p) ==
  LET d == l[p].at
      i == l[p].ip
      dir == Loaded(i)[i].type = "DIR"
      less == IF dir THEN 1 ELSE 0
  IN
  /\ Enters(p, "unlinkip") /\ Loaded(i)[i].nlink >= 1
  /\ IF dir /\ ~IsDirEmpty(i)
     THEN /\ inode' = Loaded(i)
          /\ Put(p, i, "unlockdp", [ip |-> 0])
          /\ UNCHANGED disk
     ELSE /\ inode' = [Loaded(i) EXCEPT ![i].lock = p, ![d].lock = None, ![d].nlink = @ - less]
          /\ disk' = [disk EXCEPT ![d].ent[Head(l[p].names)] = 0, ![d].nlink = @ - less]
          /\ Put(p, d, "unlinked", [at |-> 0])
  /\ UNCHANGED <<cwd, file>>

UnlinkInode(p) ==
  LET i == l[p].ip IN
  /\ l[p].pc = "unlinked"
  /\ inode' = [inode EXCEPT ![i].nlink = @ - 1, ![i].lock = None]
  /\ disk' = [disk EXCEPT ![i].nlink = @ - 1]
  /\ PutLast(p, i)
  /\ UNCHANGED <<cwd, file>>

\* iunlockput(dp) after a failure.
UnlockDp(p) ==
  /\ l[p].pc = "unlockdp"
  /\ inode' = [inode EXCEPT ![l[p].at].lock = None]
  /\ PutLast(p, l[p].at)
  /\ UNCHANGED <<disk, cwd, file>>
-----------------------------------------------------------------------------
(* create() *)

Free == {i \in Inum : disk[i].type = "none"}
Type(p) == IF Op(p) = "mkdir" THEN "DIR" ELSE "FILE"

\* The name is there, or ialloc() takes a free inode.  It looks at one inode
\* after the other, and one behind it may become free: it can pass free inodes,
\* and find none although there is one.
Create(p) ==
  LET d == l[p].at IN
  /\ Enters(p, "create")
  /\ \/ /\ Entry(p, d) # 0
        /\ inode' = Iget(Loaded(d), Entry(p, d))
        /\ Put(p, d, "existing", [at |-> Entry(p, d)])
        /\ UNCHANGED disk
     \/ \E i \in Free :
          /\ Entry(p, d) = 0
          /\ disk' = [disk EXCEPT ![i] = [type |-> Type(p), nlink |-> 0, ent |-> Empty]]
          /\ inode' = Iget([Loaded(d) EXCEPT ![d].lock = p], i)
          /\ Step(p, [pc |-> "init", ip |-> i])
     \/ /\ Entry(p, d) = 0
        /\ inode' = Loaded(d)
        /\ PutLast(p, d)
        /\ UNCHANGED disk
  /\ UNCHANGED <<cwd, file>>

\* The new inode gets its link, its "..", and its entry, unless the disk is full.
CreateInit(p) ==
  LET d == l[p].at
      i == l[p].ip
      dir == Type(p) = "DIR"
      more == IF dir THEN 1 ELSE 0
  IN
  /\ Enters(p, "init")
  /\ \/ /\ disk' = [disk EXCEPT ![i].nlink = 1, ![i].ent[".."] = IF dir THEN d ELSE 0,
                               ![d].nlink = @ + more, ![d].ent[Head(l[p].names)] = i]
        /\ inode' = [Loaded(i) EXCEPT ![i].nlink = 1, ![i].lock = p,
                                      ![d].nlink = @ + more, ![d].lock = None]
        /\ Put(p, d, "created", [at |-> 0])
     \/ /\ inode' = Loaded(i)
        /\ Put(p, i, "unlockdp", [ip |-> 0])
        /\ UNCHANGED disk
  /\ UNCHANGED <<cwd, file>>

\* mkdir() is done with it; open() gives it a file, or fails all the same.
Created(p) ==
  LET i == l[p].ip IN
  /\ l[p].pc = "created"
  /\ inode' = [inode EXCEPT ![i].lock = None]
  /\ \/ /\ Op(p) = "creat" /\ file[p] = 0
        /\ file' = [file EXCEPT ![p] = i]
        /\ Ends(p)
     \/ /\ PutLast(p, i)
        /\ UNCHANGED file
  /\ UNCHANGED <<disk, cwd>>
-----------------------------------------------------------------------------
\* No call is under way: what is on the disk is committed.
Quiet == \A p \in Proc : l[p].pc = "idle"

\* Loss of power: memory is gone.
Crash ==
  /\ Quiet
  /\ inode' = Booted
  /\ cwd' = [p \in Proc |-> Root] /\ file' = [p \in Proc |-> 0]
  /\ l' = [p \in Proc |-> Idle]
  /\ UNCHANGED disk

Next ==
  \/ \E p \in Proc :
       \/ \E c \in Calls : Begin(p, c)
       \/ Walk(p) \/ WalkEnds(p)
       \/ PutDrops(p) \/ PutLocks(p) \/ PutFrees(p) \/ PutUnlocks(p)
       \/ Open(p) \/ Chdir(p) \/ Close(p)
       \/ Link(p) \/ LinkTo(p) \/ PutIp(p) \/ LinkBad(p)
       \/ Unlink(p) \/ UnlinkEntry(p) \/ UnlinkInode(p) \/ UnlockDp(p)
       \/ Create(p) \/ CreateInit(p) \/ Created(p)
  \/ Crash

Spec == Init /\ [][Next]_vars
-----------------------------------------------------------------------------
\* An inode has as many references as current directories, open files and local
\* variables of system calls point to it: none is forgotten on any of the error
\* paths, and none goes twice (fs.c:132-137).
RefsExact ==
  \A i \in Inum :
    inode[i].ref = Cardinality({p \in Proc : cwd[p] = i})
      + Cardinality({p \in Proc : file[p] = i}) + Cardinality({p \in Proc : l[p].at = i})
      + Cardinality({p \in Proc : l[p].ip = i}) + Cardinality({p \in Proc : l[p].put = i})

\* "ip->ref == 1 means no other process can have ip locked, so this
\* acquiresleep() won't block": it would block with itable.lock held (fs.c:343-345).
IputNeverBlocks ==
  \A p \in Proc : l[p].pc = "put" /\ LastRef(l[p].put) => CanLock(l[p].put)

\* Whatever happens to its names, an open file and a current directory stay
\* allocated, and nobody gets their inode for something else (fs.c:337-362).
HeldStays ==
  \A p \in Proc : disk[cwd[p]].type = "DIR" /\ (file[p] # 0 => disk[file[p]].type # "none")

\* The entries for an inode, as links count them: ".." only of a directory that
\* has a name itself.
Named == {Root} \cup {disk[d].ent[n] : d \in Inum, n \in Name}
Links(i) ==
  Cardinality({x \in Inum \X Name : disk[x[1]].ent[x[2]] = i})
    + Cardinality({d \in Inum \cap Named : disk[d].ent[".."] = i})

\* Whatever is committed has as many links as entries, so that no name leads to
\* a free inode after a crash, and no inode is freed too early.
LinksCover == Quiet => \A i \in Inum : Links(i) <= disk[i].nlink

\* Nobody ever locks a free inode, no name leads to an inode without links, and
\* nobody looks for a name in what is no directory (fs.c:315, sysfile.c:216,
\* fs.c:557); of calls whose paths have no "..": through ".." a process does
\* reach a parent directory that is gone, and ilock() panics.
NoPanic == \A p \in Proc : ~Panics(p)

\* No inode without links is lost: one stays allocated, without anybody who
\* refers to it, only after a crash, or when iput() gives up the entry of an
\* inode that it has freed and that was taken again meanwhile (fs.c:355-360).
\* An inode that create() made in a directory removed under it keeps its one
\* link for ever: this property does not speak of those.
Orphan(i) == disk[i].type # "none" /\ disk[i].nlink = 0 /\ inode[i].ref = 0
NoOrphans ==
  [][\A i \in Inum : Orphan(i)' =>
       \/ Orphan(i) \/ inode' = Booted
       \/ \E p \in Proc : l[p].pc = "drop" /\ l[p].put = i]_vars
=============================================================================
