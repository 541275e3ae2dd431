------------------------------ MODULE PipeProofs ------------------------------
(***************************************************************************)
(* The references of files are exact, the ends of pipes are open as long   *)
(* as somebody holds them, nobody sleeps without a waker, and pipes        *)
(* implement ByteQueue, for any number of processes, files, descriptors,   *)
(* pages and bytes, and any counters that wrap at a multiple of PIPESIZE.  *)
(***************************************************************************)
EXTENDS Pipe, FiniteSetTheorems, TLAPS

Reading == {"read", "rblock", "rsleep"}
Writing == {"write", "wblock", "wsleep"}
Pc == {"user", "unused", "pipe", "fdalloc", "fork", "embryo", "close", "pipeclose"} \cup Reading \cup Writing

\* The variables of which TypeOK says nothing.
CallTypes ==
  /\ pc \in [Proc -> Pc]
  /\ end \in [Proc -> End]
  /\ todo \in [Proc -> Seq(File)]
  /\ child \in [Proc -> Proc \cup {None}]

\* What a call has to close: nothing outside of it; a file that pipe() has
\* just allocated, and that nobody else knows; the two ends it has made of it
\* and another; or two different ones.
TodoOK ==
  \A p \in Proc :
    /\ pc[p] \notin {"pipe", "fdalloc", "close", "pipeclose"} => todo[p] = <<>>
    /\ pc[p] = "pipe" => /\ Len(todo[p]) = 1
                         /\ file[todo[p][1]] = [ref |-> 1, pipe |-> None, end |-> "R"]
    /\ pc[p] = "fdalloc" => /\ Len(todo[p]) = 2
                            /\ \A i \in {1, 2} : /\ file[todo[p][i]].ref = 1
                                                  /\ file[todo[p][i]].pipe # None
    /\ Len(todo[p]) <= 2
    /\ Len(todo[p]) = 2 => todo[p][1] # todo[p][2]

\* A child that is being forked has one parent and does nothing.
ForkOK ==
  \A p \in Proc : pc[p] = "fork" =>
    /\ child[p] \in Proc /\ pc[child[p]] = "embryo"
    /\ \A q \in Proc : pc[q] = "fork" /\ child[q] = child[p] => q = p

\* A free entry is empty, and descriptors are of pipes.
FilesOK ==
  /\ \A f \in File : file[f].ref = 0 => file[f] = NoFile
  /\ \A p \in Proc, fd \in Fd : ofile[p][fd] # None => file[ofile[p][fd]].pipe # None

\* A process that reads or writes has a descriptor of that end.
Has(p, e) == \E fd \in Fd : /\ ofile[p][fd] # None
                            /\ file[ofile[p][fd]].pipe = at[p]
                            /\ file[ofile[p][fd]].end = e
BusyOK ==
  \A p \in Proc :
    /\ pc[p] \in Reading => Has(p, "R")
    /\ pc[p] \in Writing => Has(p, "W")
    /\ pc[p] = "pipeclose" => at[p] # None

\* An end belongs to one file, or to one process that closes it.
IsEnd(f, pi, e) == file[f].ref > 0 /\ file[f].pipe = pi /\ file[f].end = e
Closes(p, pi, e) == pc[p] = "pipeclose" /\ at[p] = pi /\ end[p] = e
EndOnce ==
  \A pi \in Page, e \in End :
    /\ \A f, g \in File : IsEnd(f, pi, e) /\ IsEnd(g, pi, e) => f = g
    /\ \A p, q \in Proc : Closes(p, pi, e) /\ Closes(q, pi, e) => p = q
    /\ \A f \in File, p \in Proc : ~(IsEnd(f, pi, e) /\ Closes(p, pi, e))

\* An end is open if and only if somebody has it.
OpenOK ==
  \A pi \in Page, e \in End :
    e \in pipe[pi].open <=> \/ \E f \in File : IsEnd(f, pi, e)
                            \/ \E p \in Proc : Closes(p, pi, e)

\* What the tests found is so until sleep() gives up the lock, and a reader
\* only sleeps while there is a writer.
SleepOK ==
  \A p \in Proc :
    /\ pc[p] = "rblock" => lock[at[p]] = p /\ ReaderWaits(p)
    /\ pc[p] = "wblock" => /\ lock[at[p]] = p /\ Full(at[p]) /\ "R" \in pipe[at[p]].open
                           /\ Readers(at[p]) = {}
    /\ pc[p] = "rsleep" => "W" \in pipe[at[p]].open

\* A pipe never holds more than it has room for.
Used(pi) == Wrap(pipe[pi].nwrite - pipe[pi].nread)
RoomOK == \A pi \in Page : Used(pi) <= PIPESIZE

\* The inductive invariant.
IInv ==
  /\ TypeOK /\ CallTypes /\ TodoOK /\ ForkOK /\ FilesOK /\ RefsExact /\ BusyOK
  /\ EndOnce /\ OpenOK /\ SleepOK /\ RoomOK /\ SleepersHaveWakers
-----------------------------------------------------------------------------
(* The steps in groups *)

\* The first of a set of files or descriptors is in it.
LEMMA FirstIn ==
  ASSUME NEW S \in SUBSET Nat, S # {}
  PROVE  First(S) \in S
<1>. DEFINE T == {0..x : x \in S}
           R == StrictSubsetOrdering(Nat)
           F == FiniteSubsetsOf(Nat)
<1>1. IsWellFoundedOn(R, F)
  BY FS_StrictSubsetOrderingWellFounded
<1>2. \A x \in S : 0..x \in F /\ 0..x \in SUBSET Nat
  BY FS_Interval DEF FiniteSubsetsOf
<1>3. T \subseteq F /\ T # {}
  BY <1>2
<1>4. \E t \in T : \A u \in T : ~(<<u, t>> \in R)
  <2>. HIDE DEF T, R, F
  <2>. QED  BY <1>1, <1>3, WFMin
<1>5. PICK x \in S : \A y \in S : ~(<<0..y, 0..x>> \in R)
  BY <1>4
<1>6. ASSUME NEW y \in S PROVE x <= y
  <2>1. ~(0..y \subseteq 0..x /\ 0..y # 0..x)
    BY <1>2, <1>5 DEF StrictSubsetOrdering
  <2>2. y < x => 0..y \subseteq 0..x /\ x \in 0..x /\ x \notin 0..y
    OBVIOUS
  <2>. QED  BY <2>1, <2>2
<1>. QED  BY <1>6 DEF First

\* What a step inside a pipe, or a kill(), does not touch: it takes processes
\* on within their read or write, or back to user space.
PipeStep ==
  /\ UNCHANGED <<file, ofile, end, todo, child>>
  /\ \A pi \in Page : pipe'[pi].open = pipe[pi].open
  /\ \A q \in Proc : \/ pc'[q] = pc[q] /\ at'[q] = at[q]
                     \/ pc[q] \in Reading /\ pc'[q] \in Reading /\ at'[q] = at[q]
                     \/ pc[q] \in Writing /\ pc'[q] \in Writing /\ at'[q] = at[q]
                     \/ pc[q] \in Reading \cup Writing /\ pc'[q] = "user"

Moves(p) ==
  \/ ReadKilled(p) \/ ReadWaits(p) \/ ReadSleep(p) \/ ReadCopy(p)
  \/ WriteRefused(p) \/ WriteWaits(p) \/ WriteSleep(p)
  \/ (\E b \in Byte : WriteByte(p, b)) \/ WriteEnds(p)

\* The steps that are none.
Others(p) ==
  \/ SysPipe(p) \/ PipeFails(p) \/ PipeMade(p) \/ PipeFds(p) \/ PipeUndone(p)
  \/ (\E fd \in Fd : SysDup(p, fd)) \/ (\E q \in Proc : Fork(p, q)) \/ ForkFile(p)
  \/ Exit(p) \/ (\E fd \in Fd : SysClose(p, fd))
  \/ CloseTodo(p) \/ ExitFile(p) \/ Closed(p) \/ PipeClose(p)
  \/ (\E fd \in Fd, n \in Count : SysRead(p, fd, n) \/ SysWrite(p, fd, n))

LEMMA MoveIsPipeStep ==
  ASSUME TypeOK, CallTypes, NEW p \in Proc, Moves(p)
  PROVE  PipeStep
<1>0. /\ pc \in [Proc -> Pc] /\ at \in [Proc -> Page \cup {None}]
      /\ \A pi \in Page : pipe[pi] \in [open : SUBSET End, nread : 0..(MOD-1), nwrite : 0..(MOD-1),
                        data : [0..(PIPESIZE-1) -> Byte \cup {None}]]
      /\ DOMAIN pipe = Page
  BY DEF TypeOK, CallTypes
<1>1. CASE ReadKilled(p)
  BY <1>0, <1>1 DEF ReadKilled, Return, GotoWaking, PipeStep, Reading, Writing, fileVars
<1>2. CASE ReadWaits(p)
  BY <1>0, <1>2 DEF ReadWaits, Goto, PipeStep, Reading, Writing, fileVars, callVars
<1>3. CASE ReadSleep(p)
  BY <1>0, <1>3 DEF ReadSleep, Sleep, Goto, PipeStep, Reading, Writing, fileVars, callVars
<1>4. CASE ReadCopy(p)
  <2>1. \A pi \in Page : pipe'[pi].open = pipe[pi].open
    BY <1>0, <1>4 DEF ReadCopy
  <2>2. /\ pc[p] = "read" /\ Return(p, Writers(at[p]))
    BY <1>4 DEF ReadCopy, Woken
  <2>. QED  BY <1>0, <2>1, <2>2 DEF Return, GotoWaking, Writers, PipeStep, Reading, Writing, fileVars
<1>5. CASE WriteRefused(p)
  BY <1>0, <1>5 DEF WriteRefused, Return, GotoWaking, PipeStep, Reading, Writing, fileVars
<1>6. CASE WriteWaits(p)
  BY <1>0, <1>6 DEF WriteWaits, GotoWaking, Readers, PipeStep, Reading, Writing, fileVars, callVars
<1>7. CASE WriteSleep(p)
  BY <1>0, <1>7 DEF WriteSleep, Sleep, Goto, PipeStep, Reading, Writing, fileVars, callVars
<1>8. ASSUME NEW b \in Byte, WriteByte(p, b) PROVE PipeStep
  BY <1>0, <1>8 DEF WriteByte, PipeStep, Reading, Writing, fileVars
<1>9. CASE WriteEnds(p)
  BY <1>0, <1>9 DEF WriteEnds, Announced, Readers, Return, GotoWaking, PipeStep, Reading, Writing, fileVars
<1>. QED  BY <1>1, <1>2, <1>3, <1>4, <1>5, <1>6, <1>7, <1>8, <1>9 DEF Moves

LEMMA KillIsPipeStep ==
  ASSUME TypeOK, CallTypes, NEW p \in Proc, Kill(p)
  PROVE  PipeStep
BY DEF Kill, TypeOK, CallTypes, PipeStep, Reading, Writing, fileVars, pipeVars, callVars

LEMMA NextCases ==
  ASSUME TypeOK, CallTypes, [Next]_vars
  PROVE  PipeStep \/ \E p \in Proc : Others(p)
<1>1. CASE UNCHANGED vars
  BY <1>1 DEF vars, fileVars, pipeVars, callVars, PipeStep
<1>2. ASSUME NEW p \in Proc, User(p) \/ Kernel(p) \/ Kill(p)
      PROVE  PipeStep \/ Others(p)
  <2>1. Moves(p) \/ Others(p) \/ Kill(p)
    BY <1>2 DEF User, Kernel, Moves, Others
  <2>. QED  BY <2>1, MoveIsPipeStep, KillIsPipeStep
<1>. QED  BY <1>1, <1>2 DEF Next
-----------------------------------------------------------------------------
(* Types *)

\* Counters modulo MOD, and places in the buffer.
LEMMA ModRange ==
  ASSUME NEW n \in Int, NEW m \in Nat \ {0}
  PROVE  n % m \in 0..(m-1)
OBVIOUS

LEMMA ModSmall ==
  ASSUME NEW m \in Nat \ {0}, NEW n \in 0..(m-1)
  PROVE  n % m = n
OBVIOUS

LEMMA Bounds ==
  /\ PIPESIZE \in Nat /\ MOD \in Nat /\ 0 < PIPESIZE /\ PIPESIZE < MOD
  /\ MOD - 1 \in Nat /\ PIPESIZE - 1 \in Nat
  /\ 0..(MOD-1) \subseteq Nat /\ 0..(PIPESIZE-1) \subseteq Nat
<1>1. PIPESIZE \in Nat /\ MOD \in Nat /\ 0 < PIPESIZE /\ PIPESIZE < MOD
  BY PipeAssumption
<1>. QED  BY <1>1

LEMMA Sizes ==
  /\ PIPESIZE \in Nat \ {0} /\ MOD \in Nat \ {0} /\ MOD > PIPESIZE /\ MOD % PIPESIZE = 0
  /\ \A n \in Int : Wrap(n) \in 0..(MOD-1) /\ n % PIPESIZE \in 0..(PIPESIZE-1)
<1>1. PIPESIZE \in Nat \ {0} /\ MOD \in Nat \ {0} /\ MOD > PIPESIZE /\ MOD % PIPESIZE = 0
  BY PipeAssumption
<1>. QED  BY <1>1, ModRange DEF Wrap

\* Who uses or closes a pipe has one.
LEMMA AtPage ==
  ASSUME TypeOK, FilesOK, BusyOK, NEW p \in Proc,
         pc[p] \in Reading \cup Writing \cup {"pipeclose"}
  PROVE  at[p] \in Page
<1>1. CASE pc[p] = "pipeclose"
  BY <1>1 DEF TypeOK, BusyOK
<1>2. ASSUME NEW e \in End, Has(p, e) PROVE at[p] \in Page
  BY <1>2 DEF Has, FilesOK, TypeOK
<1>. QED  BY <1>1, <1>2 DEF BusyOK, End

\* An entry that filealloc() finds.
LEMMA FirstFree ==
  ASSUME FreeFiles # {}
  PROVE  First(FreeFiles) \in File /\ file[First(FreeFiles)].ref = 0
<1>1. FreeFiles \in SUBSET Nat
  BY PipeAssumption DEF FreeFiles, File
<1>. QED  BY <1>1, FirstIn DEF FreeFiles

\* A descriptor that fdalloc() finds, and the two of pipe().
LEMMA FirstFd ==
  ASSUME NEW S \in SUBSET Fd, S # {}
  PROVE  First(S) \in S
<1>1. S \in SUBSET Nat
  BY PipeAssumption DEF Fd
<1>. QED  BY <1>1, FirstIn

LEMMA FdFinite == IsFiniteSet(Fd)
<1>1. NOFILE - 1 \in Int
  BY PipeAssumption
<1>. QED  BY <1>1, FS_Interval DEF Fd

LEMMA TwoFds ==
  ASSUME NEW p \in Proc, Cardinality(FreeFds(p)) >= 2
  PROVE  /\ First(FreeFds(p)) \in FreeFds(p)
         /\ First(FreeFds(p) \ {First(FreeFds(p))}) \in FreeFds(p) \ {First(FreeFds(p))}
<1>. DEFINE S == FreeFds(p)
<1>1. S \in SUBSET Fd
  BY DEF FreeFds
<1>2. IsFiniteSet(S)
  BY <1>1, FS_Subset, FdFinite
<1>. HIDE DEF S
<1>3. S # {}
  BY FS_EmptySet DEF S
<1>4. First(S) \in S
  BY <1>1, <1>3, FirstFd
<1>5. Cardinality(S \ {First(S)}) = Cardinality(S) - 1 /\ Cardinality(S) >= 2
      /\ Cardinality(S) \in Nat
  BY <1>2, <1>4, FS_RemoveElement, FS_CardinalityType DEF S
<1>6. S \ {First(S)} # {}
  BY <1>5, FS_EmptySet
<1>7. First(S \ {First(S)}) \in S \ {First(S)}
  BY <1>1, <1>6, FirstFd
<1>. QED  BY <1>4, <1>7 DEF S

FileType == [ref : Nat, pipe : Page \cup {None}, end : End]
PipeType == [open : SUBSET End, nread : 0..(MOD-1), nwrite : 0..(MOD-1),
             data : [0..(PIPESIZE-1) -> Byte \cup {None}]]

LEMMA FreeTypes == NoFile \in FileType /\ FreePage \in PipeType
BY Sizes DEF NoFile, FreePage, FileType, PipeType, End

\* What filedup() and fileclose() leave is a file.
LEMMA RefType ==
  ASSUME NEW F \in [File -> FileType], NEW g \in File, NEW n \in Nat
  PROVE  [F EXCEPT ![g].ref = n] \in [File -> FileType]
<1>1. [F[g] EXCEPT !.ref = n] \in FileType
  BY DEF FileType
<1>2. [F EXCEPT ![g].ref = n] = [F EXCEPT ![g] = [F[g] EXCEPT !.ref = n]]
  OBVIOUS
<1>. QED  BY <1>1, <1>2
-----------------------------------------------------------------------------
(* References *)

\* The claims on a file can be counted.
LEMMA ClaimsFinite ==
  ASSUME NEW f
  PROVE  /\ IsFiniteSet(Holders(f)) /\ Cardinality(Holders(f)) \in Nat
         /\ IsFiniteSet(Pending(f)) /\ Cardinality(Pending(f)) \in Nat
<1>a. 1..2 = {1, 2} /\ 1 \in Int /\ 2 \in Int
  OBVIOUS
<1>0. IsFiniteSet(1..2)
  BY <1>a, FS_Interval
<1>1. IsFiniteSet(Proc) /\ IsFiniteSet(Fd) /\ IsFiniteSet({1, 2})
  BY <1>a, <1>0, PipeAssumption, FdFinite
<1>2. IsFiniteSet(Proc \X Fd) /\ IsFiniteSet(Proc \X {1, 2})
  BY <1>1, FS_Product
<1>3. IsFiniteSet(Holders(f)) /\ IsFiniteSet(Pending(f))
  BY <1>2, FS_Subset, Holders(f) \in SUBSET (Proc \X Fd), Pending(f) \in SUBSET (Proc \X {1, 2})
     DEF Holders, Pending
<1>. QED  BY <1>3, FS_CardinalityType

\* A file that is claimed has references, and one reference is one claim.
LEMMA Claimed ==
  ASSUME TypeOK, RefsExact, NEW f \in File
  PROVE  /\ file[f].ref \in Nat
         /\ file[f].ref = 0 <=> Holders(f) = {} /\ Pending(f) = {}
         /\ file[f].ref = 1 => /\ \A x \in Holders(f) : Holders(f) = {x} /\ Pending(f) = {}
                               /\ \A x \in Pending(f) : Pending(f) = {x} /\ Holders(f) = {}
<1>. DEFINE H == Holders(f)
            P == Pending(f)
<1>1. /\ IsFiniteSet(H) /\ Cardinality(H) \in Nat /\ IsFiniteSet(P) /\ Cardinality(P) \in Nat
      /\ file[f].ref = Cardinality(H) + Cardinality(P)
  BY ClaimsFinite DEF RefsExact
<1>. HIDE DEF H, P
<1>2. (Cardinality(H) = 0 <=> H = {}) /\ (Cardinality(P) = 0 <=> P = {})
  BY <1>1, FS_EmptySet
<1>3. (Cardinality(H) = 1 => \E x : H = {x}) /\ (Cardinality(P) = 1 => \E x : P = {x})
  BY <1>1, FS_Singleton
<1>4. file[f].ref = 0 <=> H = {} /\ P = {}
  BY <1>1, <1>2
<1>5. file[f].ref = 1 => \/ H = {} /\ Cardinality(P) = 1
                         \/ P = {} /\ Cardinality(H) = 1
  BY <1>1, <1>2
<1>6. file[f].ref = 1 => /\ \A x \in H : H = {x} /\ P = {}
                         /\ \A x \in P : P = {x} /\ H = {}
  BY <1>3, <1>5
<1>. QED  BY <1>1, <1>4, <1>6 DEF H, P

\* A file in a descriptor, or in the list of what is to be closed, has references.
LEMMA InUse ==
  ASSUME TypeOK, CallTypes, TodoOK, RefsExact, NEW p \in Proc
  PROVE  /\ \A fd \in Fd : ofile[p][fd] # None =>
              ofile[p][fd] \in File /\ file[ofile[p][fd]].ref > 0 /\ <<p, fd>> \in Holders(ofile[p][fd])
         /\ \A i \in DOMAIN todo[p] : /\ todo[p][i] \in File /\ file[todo[p][i]].ref > 0
                                      /\ i \in {1, 2} /\ <<p, i>> \in Pending(todo[p][i])
<1>1. ASSUME NEW fd \in Fd, ofile[p][fd] # None
      PROVE  /\ ofile[p][fd] \in File /\ file[ofile[p][fd]].ref > 0
             /\ <<p, fd>> \in Holders(ofile[p][fd])
  <2>1. ofile[p][fd] \in File /\ <<p, fd>> \in Holders(ofile[p][fd])
    BY <1>1 DEF TypeOK, Holders
  <2>. QED  BY <2>1, Claimed
<1>2. ASSUME NEW i \in DOMAIN todo[p]
      PROVE  /\ todo[p][i] \in File /\ file[todo[p][i]].ref > 0
             /\ i \in {1, 2} /\ <<p, i>> \in Pending(todo[p][i])
  <2>1. todo[p] \in Seq(File) /\ Len(todo[p]) <= 2
    BY DEF CallTypes, TodoOK
  <2>2. todo[p][i] \in File /\ i \in {1, 2}
    BY <2>1
  <2>3. <<p, i>> \in Pending(todo[p][i])
    BY <2>2 DEF Pending
  <2>. QED  BY <2>2, <2>3, Claimed
<1>. QED  BY <1>1, <1>2

-----------------------------------------------------------------------------
\* Short sequences.
LEMMA EmptySeq ==
  ASSUME NEW S, NEW s \in Seq(S)
  PROVE  /\ Len(s) \in Nat /\ DOMAIN s = 1..Len(s)
         /\ Len(s) = 0 <=> s = <<>>
OBVIOUS

LEMMA TailOfTwo ==
  ASSUME NEW S, NEW s \in Seq(S), Len(s) = 2
  PROVE  DOMAIN Tail(s) = {1} /\ Tail(s)[1] = s[2] /\ Head(s) = s[1] /\ DOMAIN s = {1, 2}
<1>0. Head(s) = s[1]
  OBVIOUS
<1>2. Tail(s) \in Seq(S)
  BY s # <<>>
<1>3. Len(Tail(s)) = 1
  BY s # <<>>
<1>4. Tail(s)[1] = s[2]
  BY s # <<>>
<1>1. Len(Tail(s)) = 1 /\ Tail(s) \in Seq(S) /\ Tail(s)[1] = s[2] /\ Head(s) = s[1]
  BY <1>0, <1>2, <1>3, <1>4
<1>. QED  BY <1>1, EmptySeq, 1..1 = {1}, 1..2 = {1, 2}

LEMMA AppendToOne ==
  ASSUME NEW S, NEW s \in Seq(S), NEW x \in S, Len(s) = 1
  PROVE  Len(Append(s, x)) = 2 /\ Append(s, x)[1] = s[1] /\ Append(s, x)[2] = x
<1>1. Len(Append(s, x)) = Len(s) + 1 /\ Append(s, x)[Len(s) + 1] = x
      /\ \A i \in 1..Len(s) : Append(s, x)[i] = s[i]
  OBVIOUS
<1>. QED  BY <1>1, 1 + 1 = 2, 1 \in 1..1

LEMMA TailShorter ==
  ASSUME NEW S, NEW s \in Seq(S), s # <<>>, Len(s) <= 2
  PROVE  Len(Tail(s)) <= 2 /\ Len(Tail(s)) # 2
<1>. DEFINE n == Len(s)
            k == Len(Tail(s))
<1>1. n \in Nat /\ n <= 2 /\ k = n - 1
  OBVIOUS
<1>. HIDE DEF n, k
<1>2. k <= 2 /\ k # 2
  BY <1>1
<1>. QED  BY <1>2 DEF k

\* p, who had nothing to close or one file, gets another one.
LEMMA PendingGain ==
  ASSUME CallTypes, NEW p \in Proc, NEW g \in File, Len(todo[p]) <= 1,
         todo' = [todo EXCEPT ![p] = Append(@, g)], NEW f
  PROVE  /\ <<p, Len(todo[p]) + 1>> \in Proc \X {1, 2} /\ <<p, Len(todo[p]) + 1>> \notin Pending(f)
         /\ Pending(f)' = IF f = g THEN Pending(f) \cup {<<p, Len(todo[p]) + 1>>} ELSE Pending(f)
<1>0. todo \in [Proc -> Seq(File)] /\ todo[p] \in Seq(File) /\ Len(todo[p]) \in Nat
  BY DEF CallTypes
<1>. DEFINE n == Len(todo[p])
<1>a. DOMAIN todo[p] = 1..Len(todo[p])
  BY <1>0, EmptySeq
<1>1. n \in {0, 1} /\ DOMAIN todo[p] = 1..n
  BY <1>0, <1>a
<1>2. /\ DOMAIN todo'[p] = 1..(n + 1) /\ todo'[p][n + 1] = g
      /\ \A i \in 1..n : todo'[p][i] = todo[p][i]
  BY <1>0, <1>1
<1>3. \A q \in Proc : q # p => todo'[q] = todo[q]
  BY <1>0
<1>. HIDE DEF n
<1>4. ASSUME NEW x \in Proc \X {1, 2}
      PROVE  (x[2] \in DOMAIN todo'[x[1]] /\ todo'[x[1]][x[2]] = f)
             <=> \/ x[2] \in DOMAIN todo[x[1]] /\ todo[x[1]][x[2]] = f
                 \/ f = g /\ x = <<p, n + 1>>
  <2>1. CASE x[1] # p
    BY <1>3, <2>1
  <2>2. CASE x[1] = p
    <3>1. x[2] \in DOMAIN todo'[p] <=> x[2] \in DOMAIN todo[p] \/ x[2] = n + 1
      BY <1>1, <1>2
    <3>2. x[2] = n + 1 => x[2] \notin DOMAIN todo[p]
      BY <1>1
    <3>3. x = <<p, n + 1>> <=> x[2] = n + 1
      BY <2>2
    <3>. QED  BY <1>1, <1>2, <2>2, <3>1, <3>2, <3>3
  <2>. QED  BY <2>1, <2>2
<1>5. <<p, n + 1>> \in Proc \X {1, 2} /\ <<p, n + 1>> \notin Pending(f)
  BY <1>1 DEF Pending
<1>6. Pending(f)' = IF f = g THEN Pending(f) \cup {<<p, n + 1>>} ELSE Pending(f)
  BY <1>4, <1>5 DEF Pending
<1>. QED  BY <1>5, <1>6 DEF n

\* p closes the first of its files.
LEMMA PendingLose ==
  ASSUME CallTypes, TodoOK, NEW p \in Proc, todo[p] # <<>>,
         todo' = [todo EXCEPT ![p] = Tail(@)], NEW f
  PROVE  Cardinality(Pending(f)') = IF f = Head(todo[p]) THEN Cardinality(Pending(f)) - 1
                                    ELSE Cardinality(Pending(f))
<1>0. /\ todo \in [Proc -> Seq(File)] /\ Len(todo[p]) <= 2
      /\ todo[p] \in Seq(File) /\ Len(todo[p]) \in Nat /\ todo'[p] = Tail(todo[p])
      /\ Len(todo[p]) = 2 => todo[p][1] # todo[p][2]
  BY DEF CallTypes, TodoOK
<1>1. \A q \in Proc : q # p => todo'[q] = todo[q]
  BY <1>0
<1>2. IsFiniteSet(Pending(f)) /\ Cardinality(Pending(f)) \in Nat
  BY ClaimsFinite
<1>3. CASE Len(todo[p]) = 1
  <2>1. /\ DOMAIN todo[p] = {1} /\ DOMAIN todo'[p] = {} /\ Head(todo[p]) = todo[p][1]
    BY <1>0, <1>3
  <2>2. Pending(f)' = IF f = Head(todo[p]) THEN Pending(f) \ {<<p, 1>>} ELSE Pending(f)
    BY <1>1, <2>1 DEF Pending
  <2>3. f = Head(todo[p]) => <<p, 1>> \in Pending(f)
    BY <2>1 DEF Pending
  <2>. QED  BY <1>2, <2>2, <2>3, FS_RemoveElement
<1>4. CASE Len(todo[p]) = 2
  <2>1. /\ DOMAIN todo[p] = {1, 2} /\ DOMAIN todo'[p] = {1} /\ Head(todo[p]) = todo[p][1]
        /\ todo'[p][1] = todo[p][2]
    BY <1>0, <1>4, TailOfTwo
  <2>2. CASE f = todo[p][1]
    <3>1. Pending(f)' = Pending(f) \ {<<p, 1>>} /\ <<p, 1>> \in Pending(f)
      BY <1>0, <1>1, <1>4, <2>1, <2>2 DEF Pending
    <3>. QED  BY <1>2, <2>1, <2>2, <3>1, FS_RemoveElement
  <2>3. CASE f = todo[p][2]
    <3>1. /\ Pending(f)' = (Pending(f) \ {<<p, 2>>}) \cup {<<p, 1>>}
          /\ <<p, 2>> \in Pending(f) /\ <<p, 1>> \notin Pending(f)
      BY <1>0, <1>1, <1>4, <2>1, <2>3 DEF Pending
    <3>. DEFINE y == <<p, 2>>
                P == Pending(f)
    <3>a. IsFiniteSet(P) /\ y \in P
      BY <1>2, <3>1
    <3>. HIDE DEF y, P
    <3>b. IsFiniteSet(P \ {y}) /\ Cardinality(P \ {y}) = Cardinality(P) - 1
      BY <3>a, FS_RemoveElement
    <3>. USE DEF y, P
    <3>2. /\ IsFiniteSet(Pending(f) \ {<<p, 2>>})
          /\ Cardinality(Pending(f) \ {<<p, 2>>}) = Cardinality(Pending(f)) - 1
      BY <3>b
    <3>3. Cardinality(Pending(f)') = Cardinality(Pending(f)) - 1 + 1
      BY <3>1, <3>2, FS_AddElement
    <3>. QED  BY <1>0, <1>2, <1>4, <2>1, <2>3, <3>3
  <2>4. CASE f # todo[p][1] /\ f # todo[p][2]
    <3>1. Pending(f)' = Pending(f)
      BY <1>1, <2>1, <2>4 DEF Pending
    <3>. QED  BY <2>1, <2>4, <3>1
  <2>. QED  BY <2>2, <2>3, <2>4
<1>a. Len(todo[p]) # 0
  BY <1>0, EmptySeq
<1>. DEFINE n == Len(todo[p])
<1>b. n \in Nat /\ n <= 2 /\ n # 0
  BY <1>0, <1>a
<1>. HIDE DEF n
<1>c. n \in {1, 2}
  BY <1>b
<1>5. Len(todo[p]) \in {1, 2}
  BY <1>c DEF n
<1>. QED  BY <1>3, <1>4, <1>5

\* p, who had two files to close, gives them to descriptors.
LEMMA PendingNone ==
  ASSUME CallTypes, NEW p \in Proc, Len(todo[p]) = 2,
         todo' = [todo EXCEPT ![p] = <<>>], NEW f
  PROVE  /\ Pending(f)' = Pending(f) \ {<<p, 1>>, <<p, 2>>}
         /\ <<p, 1>> \in Pending(todo[p][1]) /\ <<p, 2>> \in Pending(todo[p][2])
<1>0. todo \in [Proc -> Seq(File)]
  BY DEF CallTypes
<1>1. DOMAIN todo[p] = {1, 2} /\ DOMAIN todo'[p] = {} /\ \A q \in Proc : q # p => todo'[q] = todo[q]
  BY <1>0
<1>. QED  BY <1>1 DEF Pending
-----------------------------------------------------------------------------
\* One file gets a claim, one loses a claim, or a claim changes hands.
LEMMA RefsOthers ==
  ASSUME TypeOK, RefsExact, UNCHANGED <<file, ofile, todo>>
  PROVE  RefsExact'
BY DEF RefsExact, Holders, Pending

LEMMA RefsAllocated ==
  ASSUME TypeOK, CallTypes, RefsExact, NEW p \in Proc, Len(todo[p]) <= 1, FreeFiles # {},
         file' = Allocated, todo' = [todo EXCEPT ![p] = Append(@, First(FreeFiles))],
         UNCHANGED ofile
  PROVE  RefsExact'
<1>. DEFINE h == First(FreeFiles)
            y == <<p, Len(todo[p]) + 1>>
<1>1. h \in File /\ file[h].ref = 0
  BY FirstFree
<1>2. /\ file'[h].ref = 1 /\ \A f \in File : f # h => file'[f] = file[f]
  BY <1>1 DEF TypeOK, Allocated
<1>. SUFFICES ASSUME NEW f \in File
              PROVE  file'[f].ref = Cardinality(Holders(f)') + Cardinality(Pending(f)')
  BY DEF RefsExact
<1>3. Holders(f)' = Holders(f)
  BY DEF Holders
<1>4. y \notin Pending(f) /\ Pending(f)' = IF f = h THEN Pending(f) \cup {y} ELSE Pending(f)
  BY <1>1, PendingGain
<1>. DEFINE P == Pending(f)
<1>5. IsFiniteSet(P) /\ Cardinality(P) \in Nat /\ Cardinality(Holders(f)) \in Nat
  BY ClaimsFinite
<1>. HIDE DEF h, y, P
<1>6. y \notin P => Cardinality(P \cup {y}) = Cardinality(P) + 1
  BY <1>5, FS_AddElement
<1>7. file[f].ref = Cardinality(Holders(f)) + Cardinality(P)
  BY DEF RefsExact, P
<1>8. Cardinality(Pending(f)') = IF f = h THEN Cardinality(P) + 1 ELSE Cardinality(P)
  BY <1>4, <1>6 DEF P
<1>. QED  BY <1>1, <1>2, <1>3, <1>5, <1>7, <1>8

\* One more descriptor for file g.
LEMMA RefsDup ==
  ASSUME TypeOK, CallTypes, RefsExact, NEW q \in Proc, NEW fd \in Fd, ofile[q][fd] = None,
         NEW g \in File, file' = [file EXCEPT ![g].ref = @ + 1],
         ofile' = [ofile EXCEPT ![q][fd] = g], UNCHANGED todo
  PROVE  RefsExact'
<1>. DEFINE y == <<q, fd>>
<1>0. None \notin File
  BY PipeAssumption DEF File
<1>1. /\ \A f \in File : file'[f].ref = IF f = g THEN file[f].ref + 1 ELSE file[f].ref
  BY DEF TypeOK
<1>. SUFFICES ASSUME NEW f \in File
              PROVE  file'[f].ref = Cardinality(Holders(f)') + Cardinality(Pending(f)')
  BY DEF RefsExact
<1>2. Pending(f)' = Pending(f)
  BY DEF Pending
<1>3. \A x \in Proc \X Fd : ofile'[x[1]][x[2]] = IF x = y THEN g ELSE ofile[x[1]][x[2]]
  BY DEF TypeOK
<1>4. y \in Proc \X Fd /\ ofile[y[1]][y[2]] = None
  OBVIOUS
<1>5. y \notin Holders(f) /\ Holders(f)' = IF f = g THEN Holders(f) \cup {y} ELSE Holders(f)
  BY <1>0, <1>3, <1>4 DEF Holders
<1>. DEFINE H == Holders(f)
<1>6. IsFiniteSet(H) /\ Cardinality(H) \in Nat /\ Cardinality(Pending(f)) \in Nat
  BY ClaimsFinite
<1>. HIDE DEF y, H
<1>7. y \notin H => Cardinality(H \cup {y}) = Cardinality(H) + 1
  BY <1>6, FS_AddElement
<1>8. Cardinality(Holders(f)') = IF f = g THEN Cardinality(H) + 1 ELSE Cardinality(H)
  BY <1>5, <1>7 DEF H
<1>9. file[f].ref = Cardinality(H) + Cardinality(Pending(f))
  BY DEF RefsExact, H
<1>. QED  BY <1>1, <1>2, <1>6, <1>8, <1>9

\* p gives up its descriptor fd: what that does to the holders.
LEMMA HoldersLose ==
  ASSUME TypeOK, NEW p \in Proc, NEW fd \in Fd, ofile[p][fd] # None,
         ofile' = [ofile EXCEPT ![p][fd] = None], NEW f \in File
  PROVE  Cardinality(Holders(f)') =
           IF f = ofile[p][fd] THEN Cardinality(Holders(f)) - 1 ELSE Cardinality(Holders(f))
<1>. DEFINE y == <<p, fd>>
            H == Holders(f)
<1>0. None \notin File
  BY PipeAssumption DEF File
<1>1. \A x \in Proc \X Fd : ofile'[x[1]][x[2]] = IF x = y THEN None ELSE ofile[x[1]][x[2]]
  BY DEF TypeOK
<1>2. y \in Proc \X Fd /\ ofile[y[1]][y[2]] = ofile[p][fd]
  OBVIOUS
<1>3. /\ f = ofile[p][fd] => y \in H
      /\ Holders(f)' = IF f = ofile[p][fd] THEN H \ {y} ELSE H
  BY <1>0, <1>1, <1>2 DEF Holders
<1>4. IsFiniteSet(H)
  BY ClaimsFinite
<1>. HIDE DEF y, H
<1>5. y \in H => Cardinality(H \ {y}) = Cardinality(H) - 1
  BY <1>4, FS_RemoveElement
<1>6. Cardinality(Holders(f)') = IF f = ofile[p][fd] THEN Cardinality(H) - 1 ELSE Cardinality(H)
  BY <1>3, <1>5
<1>. QED  BY <1>6 DEF H

\* What fileclose() does to the references.
LEMMA FileCloseRefs ==
  ASSUME TypeOK, NEW p \in Proc, NEW g \in File, file[g].ref > 0, FileClose(p, g)
  PROVE  \A f \in File : file'[f].ref = IF f = g THEN file[f].ref - 1 ELSE file[f].ref
<1>0. file \in [File -> FileType] /\ \A f \in File : file[f].ref \in Nat
  BY DEF TypeOK, FileType
<1>1. CASE file[g].ref = 1
  BY <1>0, <1>1 DEF FileClose, LastClose, NoFile
<1>2. CASE file[g].ref # 1
  <2>1. file' = [file EXCEPT ![g].ref = @ - 1]
    BY <1>2 DEF FileClose, LastClose
  <2>. QED  BY <1>0, <2>1
<1>. QED  BY <1>1, <1>2
-----------------------------------------------------------------------------
\* The step of pipe() that makes the two files the ends of a pipe: the second
\* gets its first claim.
Made(p, rf, wf, pi) ==
  /\ rf = todo[p][1] /\ rf # wf /\ file[wf].ref = 0
  /\ file[rf] = [ref |-> 1, pipe |-> None, end |-> "R"]
  /\ pipe[pi].open = {} /\ pipe' = [pipe EXCEPT ![pi] = [FreePage EXCEPT !.open = End]]
  /\ file'[rf] = [ref |-> 1, pipe |-> pi, end |-> "R"]
  /\ file'[wf] = [ref |-> 1, pipe |-> pi, end |-> "W"]
  /\ \A f \in File : f # rf /\ f # wf => file'[f] = file[f]
  /\ file' \in [File -> FileType]
  /\ ofile' = ofile /\ Len(todo[p]) = 1 /\ todo' = [todo EXCEPT ![p] = Append(@, wf)]

LEMMA PipeMadeFacts ==
  ASSUME TypeOK, CallTypes, TodoOK, NEW p \in Proc, PipeMade(p)
  PROVE  \E rf, wf \in File, pi \in Page : Made(p, rf, wf, pi)
<1>. DEFINE rf == todo[p][1]
            wf == First(FreeFiles)
<1>1. pc[p] = "pipe" /\ FreeFiles # {} /\ ofile' = ofile
  BY DEF PipeMade
<1>2. PICK pi \in Page :
        /\ pipe[pi].open = {}
        /\ pipe' = [pipe EXCEPT ![pi] = [FreePage EXCEPT !.open = End]]
        /\ file' = [file EXCEPT ![rf] = [ref |-> 1, pipe |-> pi, end |-> "R"],
                                ![wf] = [ref |-> 1, pipe |-> pi, end |-> "W"]]
  BY DEF PipeMade
<1>4. Len(todo[p]) = 1 /\ todo' = [todo EXCEPT ![p] = Append(@, wf)]
  BY <1>1 DEF PipeMade, TodoOK
<1>3. wf \in File /\ file[wf].ref = 0
  BY <1>1, FirstFree
<1>6. rf \in File /\ file[rf] = [ref |-> 1, pipe |-> None, end |-> "R"]
  <2>1. Len(todo[p]) = 1 /\ file[rf] = [ref |-> 1, pipe |-> None, end |-> "R"]
    BY <1>1 DEF TodoOK
  <2>2. todo[p] \in Seq(File)
    BY DEF CallTypes
  <2>3. 1 \in DOMAIN todo[p]
    BY <2>1, <2>2, EmptySeq
  <2>. QED  BY <2>1, <2>2, <2>3
<1>a. rf = todo[p][1]
  OBVIOUS
<1>7. rf # wf
  BY <1>3, <1>6
<1>. HIDE DEF rf, wf
<1>8. file \in [File -> FileType]
  BY DEF TypeOK, FileType
<1>9. /\ file'[rf] = [ref |-> 1, pipe |-> pi, end |-> "R"]
      /\ file'[wf] = [ref |-> 1, pipe |-> pi, end |-> "W"]
      /\ \A f \in File : f # rf /\ f # wf => file'[f] = file[f]
  BY <1>2, <1>3, <1>6, <1>7, <1>8
<1>10. file' \in [File -> FileType]
  BY <1>2, <1>3, <1>6, <1>7, <1>8 DEF FileType, End
<1>12. Made(p, rf, wf, pi)
  BY <1>a, <1>1, <1>2, <1>3, <1>4, <1>6, <1>7, <1>9, <1>10 DEF Made
<1>. QED  BY <1>3, <1>6, <1>12

LEMMA RefsMade ==
  ASSUME TypeOK, CallTypes, TodoOK, RefsExact, NEW p \in Proc, PipeMade(p)
  PROVE  RefsExact'
<1>0. PICK rf, wf \in File, pi \in Page : Made(p, rf, wf, pi)
  BY PipeMadeFacts
<1>1. /\ rf = todo[p][1] /\ rf # wf /\ file[wf].ref = 0 /\ file[rf].ref = 1
      /\ file'[rf].ref = 1 /\ file'[wf].ref = 1
      /\ \A f \in File : f # rf /\ f # wf => file'[f] = file[f]
      /\ ofile' = ofile
  BY <1>0 DEF Made
<1>4. Len(todo[p]) <= 1 /\ todo' = [todo EXCEPT ![p] = Append(@, wf)]
  BY <1>0 DEF Made
<1>. SUFFICES ASSUME NEW f \in File
              PROVE  file'[f].ref = Cardinality(Holders(f)') + Cardinality(Pending(f)')
  BY DEF RefsExact
<1>. DEFINE y == <<p, Len(todo[p]) + 1>>
            P == Pending(f)
<1>5. Holders(f)' = Holders(f)
  BY <1>1 DEF Holders
<1>6. y \notin P /\ Pending(f)' = IF f = wf THEN P \cup {y} ELSE P
  BY <1>4, PendingGain
<1>7. /\ IsFiniteSet(P) /\ Cardinality(P) \in Nat /\ Cardinality(Holders(f)) \in Nat
      /\ file[f].ref = Cardinality(Holders(f)) + Cardinality(P)
  BY ClaimsFinite DEF RefsExact
<1>8. file'[f].ref = IF f = wf THEN file[f].ref + 1 ELSE file[f].ref
  BY <1>1
<1>. HIDE DEF y, P
<1>9. y \notin P => Cardinality(P \cup {y}) = Cardinality(P) + 1
  BY <1>7, FS_AddElement
<1>10. Cardinality(Pending(f)') = IF f = wf THEN Cardinality(P) + 1 ELSE Cardinality(P)
  BY <1>6, <1>9
<1>. QED  BY <1>5, <1>7, <1>8, <1>10

\* The step of pipe() that gives both ends to descriptors: the claims of the
\* call become theirs.
Given(p, rf, wf, fd0, fd1) ==
  /\ Len(todo[p]) = 2 /\ rf = todo[p][1] /\ wf = todo[p][2] /\ rf # wf /\ fd0 # fd1
  /\ file[rf].ref = 1 /\ file[rf].pipe # None /\ file[wf].ref = 1 /\ file[wf].pipe # None
  /\ ofile[p][fd0] = None /\ ofile[p][fd1] = None
  /\ file' = file /\ todo' = [todo EXCEPT ![p] = <<>>]
  /\ ofile' \in [Proc -> [Fd -> File \cup {None}]]
  /\ \A q \in Proc, fd \in Fd :
       ofile'[q][fd] = IF q = p /\ fd = fd0 THEN rf
                       ELSE IF q = p /\ fd = fd1 THEN wf ELSE ofile[q][fd]

LEMMA PipeFdsFacts ==
  ASSUME TypeOK, CallTypes, TodoOK, NEW p \in Proc, PipeFds(p)
  PROVE  \E rf, wf \in File, fd0, fd1 \in Fd : Given(p, rf, wf, fd0, fd1)
<1>. DEFINE rf == todo[p][1]
            wf == todo[p][2]
            fd0 == Fd0(p)
            fd1 == Fd1(p)
<1>1. pc[p] = "fdalloc" /\ Cardinality(FreeFds(p)) >= 2 /\ file' = file
      /\ todo' = [todo EXCEPT ![p] = <<>>]
  BY DEF PipeFds
<1>2. ofile' = [ofile EXCEPT ![p] = [ofile[p] EXCEPT ![fd0] = rf, ![fd1] = wf]]
  <2>1. Cardinality(FreeFds(p)) >= 2
    BY <1>1
  <2>2. Fdalloc(p) = [ofile[p] EXCEPT ![Fd0(p)] = todo[p][1], ![Fd1(p)] = todo[p][2]]
    BY <2>1 DEF Fdalloc
  <2>. QED  BY <2>2 DEF PipeFds
<1>3. fd0 \in FreeFds(p) /\ fd1 \in FreeFds(p) \ {fd0}
  BY <1>1, TwoFds DEF Fd0, Fd1
<1>4. fd0 \in Fd /\ fd1 \in Fd /\ fd0 # fd1 /\ ofile[p][fd0] = None /\ ofile[p][fd1] = None
  BY <1>3 DEF FreeFds
<1>5. /\ Len(todo[p]) = 2 /\ rf # wf
      /\ file[rf].ref = 1 /\ file[rf].pipe # None /\ file[wf].ref = 1 /\ file[wf].pipe # None
  BY <1>1 DEF TodoOK
<1>6. rf \in File /\ wf \in File
  <2>1. todo[p] \in Seq(File)
    BY DEF CallTypes
  <2>2. DOMAIN todo[p] = {1, 2}
    BY <1>5, <2>1, TailOfTwo
  <2>. QED  BY <2>1, <2>2
<1>a. rf = todo[p][1] /\ wf = todo[p][2]
  OBVIOUS
<1>. HIDE DEF rf, wf, fd0, fd1
<1>7. ofile \in [Proc -> [Fd -> File \cup {None}]]
  BY DEF TypeOK
<1>8. /\ ofile' \in [Proc -> [Fd -> File \cup {None}]]
      /\ \A q \in Proc, fd \in Fd :
                ofile'[q][fd] = IF q = p /\ fd = fd0 THEN rf
                                ELSE IF q = p /\ fd = fd1 THEN wf ELSE ofile[q][fd]
  BY <1>2, <1>4, <1>6, <1>7
<1>9. Given(p, rf, wf, fd0, fd1)
  BY <1>a, <1>1, <1>4, <1>5, <1>8 DEF Given
<1>. QED  BY <1>4, <1>6, <1>9

LEMMA RefsGiven ==
  ASSUME TypeOK, CallTypes, TodoOK, RefsExact, NEW p \in Proc, PipeFds(p)
  PROVE  RefsExact'
<1>0. PICK rf, wf \in File, fd0, fd1 \in Fd : Given(p, rf, wf, fd0, fd1)
  BY PipeFdsFacts
<1>. DEFINE y0 == <<p, fd0>>
            y1 == <<p, fd1>>
            z1 == <<p, 1>>
            z2 == <<p, 2>>
<1>1. /\ rf # wf /\ file[rf].ref = 1 /\ file[wf].ref = 1 /\ file' = file
      /\ rf = todo[p][1] /\ wf = todo[p][2] /\ Len(todo[p]) = 2
      /\ todo' = [todo EXCEPT ![p] = <<>>]
      /\ \A x \in Proc \X Fd : ofile'[x[1]][x[2]] =
           IF x = y0 THEN rf ELSE IF x = y1 THEN wf ELSE ofile[x[1]][x[2]]
  BY <1>0 DEF Given
<1>2. None \notin File
  BY PipeAssumption DEF File
<1>3. /\ y0 \in Proc \X Fd /\ y1 \in Proc \X Fd /\ y0 # y1
      /\ ofile[y0[1]][y0[2]] = None /\ ofile[y1[1]][y1[2]] = None
  BY <1>0 DEF Given
<1>4. z1 \in Pending(rf) /\ z2 \in Pending(wf)
  BY <1>1, PendingNone
<1>5. Pending(rf) = {z1} /\ Holders(rf) = {} /\ Pending(wf) = {z2} /\ Holders(wf) = {}
  BY <1>1, <1>4, Claimed
<1>. SUFFICES ASSUME NEW f \in File
              PROVE  file'[f].ref = Cardinality(Holders(f)') + Cardinality(Pending(f)')
  BY DEF RefsExact
<1>6. Pending(f)' = Pending(f) \ {z1, z2}
  BY <1>1, PendingNone
<1>7. /\ Holders(f)' = IF f = rf THEN Holders(f) \cup {y0}
                       ELSE IF f = wf THEN Holders(f) \cup {y1} ELSE Holders(f)
  BY <1>1, <1>2, <1>3 DEF Holders
<1>8. z1 \notin Pending(f) \/ f = rf
  BY <1>1 DEF Pending
<1>9. z2 \notin Pending(f) \/ f = wf
  BY <1>1 DEF Pending
<1>. HIDE DEF z1, z2, y0, y1
<1>10. CASE f = rf
  <2>1. Holders(f)' = {y0} /\ Pending(f)' = {}
    BY <1>5, <1>6, <1>7, <1>10
  <2>2. Cardinality(Holders(f)') = 1 /\ Cardinality(Pending(f)') = 0
    BY <2>1, FS_Singleton, FS_EmptySet
  <2>. QED  BY <1>1, <1>10, <2>2
<1>11. CASE f = wf
  <2>1. Holders(f)' = {y1} /\ Pending(f)' = {}
    BY <1>1, <1>5, <1>6, <1>7, <1>11
  <2>2. Cardinality(Holders(f)') = 1 /\ Cardinality(Pending(f)') = 0
    BY <2>1, FS_Singleton, FS_EmptySet
  <2>. QED  BY <1>1, <1>11, <2>2
<1>12. CASE f # rf /\ f # wf
  <2>1. Holders(f)' = Holders(f) /\ Pending(f)' = Pending(f)
    BY <1>6, <1>7, <1>8, <1>9, <1>12
  <2>. QED  BY <1>1, <2>1 DEF RefsExact
<1>. QED  BY <1>10, <1>11, <1>12

\* A pipe() that fails after fdalloc() leaves the descriptors as they were.
LEMMA UndoneFacts ==
  ASSUME TypeOK, NEW p \in Proc, PipeUndone(p)
  PROVE  UNCHANGED <<file, ofile, todo>> /\ pc[p] = "fdalloc"
<1>1. ofile \in [Proc -> [Fd -> File \cup {None}]]
  BY DEF TypeOK
<1>2. FreeFds(p) \in SUBSET Fd /\ IsFiniteSet(FreeFds(p)) /\ Cardinality(FreeFds(p)) \in Nat
  BY FdFinite, FS_Subset, FS_CardinalityType DEF FreeFds
<1>3. ASSUME NEW fd \in Fd, fd \notin FreeFds(p) PROVE Fdalloc(p)[fd] = ofile[p][fd]
  <2>1. CASE Cardinality(FreeFds(p)) >= 2
    <3>1. Fd0(p) # fd /\ Fd1(p) # fd
      BY <1>3, <2>1, TwoFds DEF Fd0, Fd1
    <3>2. Fdalloc(p) = [ofile[p] EXCEPT ![Fd0(p)] = todo[p][1], ![Fd1(p)] = todo[p][2]]
      BY <2>1 DEF Fdalloc
    <3>. QED  BY <1>1, <3>1, <3>2
  <2>2. CASE Cardinality(FreeFds(p)) = 1
    <3>1. FreeFds(p) # {}
      BY <2>2, FS_EmptySet
    <3>2. Fd0(p) # fd
      BY <1>2, <1>3, <3>1, FirstFd DEF Fd0
    <3>3. Fdalloc(p) = [ofile[p] EXCEPT ![Fd0(p)] = todo[p][1]]
      BY <2>2 DEF Fdalloc
    <3>. QED  BY <1>1, <3>2, <3>3
  <2>3. CASE ~(Cardinality(FreeFds(p)) >= 2) /\ Cardinality(FreeFds(p)) # 1
    BY <2>3 DEF Fdalloc
  <2>. QED  BY <2>1, <2>2, <2>3
<1>4. \A fd \in Fd : GivenBack(p, Fdalloc(p))[fd] = ofile[p][fd]
  BY <1>3 DEF GivenBack, FreeFds
<1>5. GivenBack(p, Fdalloc(p)) = ofile[p]
  BY <1>1, <1>4 DEF GivenBack
<1>6. ofile' = [ofile EXCEPT ![p] = ofile[p]]
  BY <1>5 DEF PipeUndone
<1>7. ofile' = ofile
  BY <1>1, <1>6
<1>. QED  BY <1>7 DEF PipeUndone

LEMMA RefsStep ==
  ASSUME TypeOK, CallTypes, TodoOK, ForkOK, RefsExact, [Next]_vars
  PROVE  RefsExact'
<1>1. CASE PipeStep
  BY <1>1, RefsOthers DEF PipeStep
<1>2. ASSUME NEW p \in Proc, Others(p) PROVE RefsExact'
  <2>0. /\ todo[p] \in Seq(File) /\ todo \in [Proc -> Seq(File)]
        /\ file \in [File -> FileType] /\ ofile \in [Proc -> [Fd -> File \cup {None}]]
    BY DEF TypeOK, CallTypes, FileType
  <2>1. CASE SysPipe(p)
    <3>1. todo[p] = <<>> /\ FreeFiles # {} /\ todo' = [todo EXCEPT ![p] = <<First(FreeFiles)>>]
          /\ file' = Allocated /\ ofile' = ofile
      BY <2>1 DEF SysPipe, Calls, TodoOK
    <3>2. Len(todo[p]) <= 1 /\ <<First(FreeFiles)>> = Append(todo[p], First(FreeFiles))
      BY <3>1
    <3>3. todo' = [todo EXCEPT ![p] = Append(@, First(FreeFiles))]
      BY <3>1, <3>2
    <3>. QED  BY <3>1, <3>2, <3>3, RefsAllocated
  <2>2. CASE PipeFails(p)
    <3>1. Len(todo[p]) = 1 /\ Len(todo[p]) <= 1 /\ ofile' = ofile
      BY <2>2 DEF PipeFails, TodoOK
    <3>2. CASE UNCHANGED <<file, todo>>
      BY <3>1, <3>2, RefsOthers
    <3>3. CASE /\ FreeFiles # {} /\ file' = Allocated
               /\ todo' = [todo EXCEPT ![p] = Append(@, First(FreeFiles))]
      BY <3>1, <3>3, RefsAllocated
    <3>. QED  BY <2>2, <3>2, <3>3 DEF PipeFails
  <2>3. CASE PipeMade(p)
    BY <2>3, RefsMade
  <2>14. CASE PipeFds(p)
    BY <2>14, RefsGiven
  <2>15. CASE PipeUndone(p)
    BY <2>15, UndoneFacts, RefsOthers
  <2>4. ASSUME NEW fd \in Fd, SysDup(p, fd) PROVE RefsExact'
    <3>. DEFINE g == ofile[p][fd]
                fd1 == First(FreeFds(p))
    <3>1. g \in File /\ FreeFds(p) # {} /\ ofile' = [ofile EXCEPT ![p][fd1] = g]
          /\ file' = [file EXCEPT ![g].ref = @ + 1] /\ todo' = todo
      BY <2>0, <2>4 DEF SysDup, callVars
    <3>2. fd1 \in Fd /\ ofile[p][fd1] = None
      BY <3>1, FirstFd DEF FreeFds
    <3>. HIDE DEF g, fd1
    <3>. QED  BY <3>1, <3>2, RefsDup
  <2>5. ASSUME NEW q \in Proc, Fork(p, q) PROVE RefsExact'
    BY <2>5, RefsOthers DEF Fork, fileVars
  <2>6. CASE ForkFile(p)
    <3>1. CASE ToCopy(p) = {}
      BY <2>6, <3>1, RefsOthers DEF ForkFile, fileVars
    <3>2. CASE ToCopy(p) # {}
      <4>. DEFINE fd == First(ToCopy(p))
                  g == ofile[p][fd]
      <4>1. fd \in ToCopy(p)
        BY <3>2, FirstFd DEF ToCopy
      <4>2. fd \in Fd /\ g \in File /\ ofile[child[p]][fd] = None
        BY <2>0, <4>1 DEF ToCopy
      <4>3. child[p] \in Proc
        BY <2>6 DEF ForkFile, ForkOK
      <4>4. file' = [file EXCEPT ![g].ref = @ + 1] /\ ofile' = [ofile EXCEPT ![child[p]][fd] = g]
            /\ todo' = todo
        BY <2>6, <3>2 DEF ForkFile, Dup
      <4>. HIDE DEF g, fd
      <4>. QED  BY <4>2, <4>3, <4>4, RefsDup
    <3>. QED  BY <3>1, <3>2
  <2>7. CASE Exit(p)
    BY <2>7, RefsOthers DEF Exit, fileVars
  <2>8. ASSUME NEW fd \in Fd, SysClose(p, fd) PROVE RefsExact'
    <3>. DEFINE g == ofile[p][fd]
    <3>1. /\ todo[p] = <<>> /\ g # None /\ todo' = [todo EXCEPT ![p] = <<g>>]
          /\ ofile' = [ofile EXCEPT ![p][fd] = None] /\ file' = file
      BY <2>8 DEF SysClose, Calls, TodoOK
    <3>2. g \in File
      BY <2>0, <3>1
    <3>3. Len(todo[p]) <= 1 /\ todo' = [todo EXCEPT ![p] = Append(@, g)]
      BY <3>1
    <3>. SUFFICES ASSUME NEW f \in File
                  PROVE  file'[f].ref = Cardinality(Holders(f)') + Cardinality(Pending(f)')
      BY DEF RefsExact
    <3>4. Cardinality(Holders(f)') =
            IF f = g THEN Cardinality(Holders(f)) - 1 ELSE Cardinality(Holders(f))
      BY <3>1, HoldersLose
    <3>. DEFINE y == <<p, Len(todo[p]) + 1>>
                P == Pending(f)
    <3>5. y \notin P /\ Pending(f)' = IF f = g THEN P \cup {y} ELSE P
      BY <3>2, <3>3, PendingGain
    <3>6. /\ IsFiniteSet(P) /\ Cardinality(P) \in Nat /\ Cardinality(Holders(f)) \in Nat
          /\ file[f].ref = Cardinality(Holders(f)) + Cardinality(P)
      BY ClaimsFinite DEF RefsExact
    <3>. HIDE DEF g, y, P
    <3>7. y \notin P => Cardinality(P \cup {y}) = Cardinality(P) + 1
      BY <3>6, FS_AddElement
    <3>8. Cardinality(Pending(f)') = IF f = g THEN Cardinality(P) + 1 ELSE Cardinality(P)
      BY <3>5, <3>7
    <3>. QED  BY <3>1, <3>4, <3>6, <3>8
  <2>9. CASE CloseTodo(p)
    <3>. DEFINE g == Head(todo[p])
    <3>1. /\ todo[p] # <<>> /\ FileClose(p, g) /\ todo' = [todo EXCEPT ![p] = Tail(@)]
          /\ ofile' = ofile
      BY <2>9 DEF CloseTodo
    <3>2. 1 \in DOMAIN todo[p] /\ g = todo[p][1]
      BY <2>0, <3>1, EmptySeq
    <3>3. g \in File /\ file[g].ref > 0
      BY <3>2, InUse
    <3>. SUFFICES ASSUME NEW f \in File
                  PROVE  file'[f].ref = Cardinality(Holders(f)') + Cardinality(Pending(f)')
      BY DEF RefsExact
    <3>4. Holders(f)' = Holders(f)
      BY <3>1 DEF Holders
    <3>5. Cardinality(Pending(f)') =
            IF f = g THEN Cardinality(Pending(f)) - 1 ELSE Cardinality(Pending(f))
      BY <3>1, PendingLose
    <3>6. file'[f].ref = IF f = g THEN file[f].ref - 1 ELSE file[f].ref
      BY <3>1, <3>3, FileCloseRefs
    <3>7. /\ Cardinality(Pending(f)) \in Nat /\ Cardinality(Holders(f)) \in Nat
          /\ file[f].ref = Cardinality(Holders(f)) + Cardinality(Pending(f))
      BY ClaimsFinite DEF RefsExact
    <3>. QED  BY <3>4, <3>5, <3>6, <3>7
  <2>10. CASE ExitFile(p)
    <3>. DEFINE fd == First(Fd \ FreeFds(p))
                g == ofile[p][fd]
    <3>1. /\ Fd \ FreeFds(p) # {} /\ FileClose(p, g)
          /\ ofile' = [ofile EXCEPT ![p][fd] = None] /\ todo' = todo
      BY <2>10 DEF ExitFile, FreeFds
    <3>2. fd \in Fd \ FreeFds(p)
      BY <3>1, FirstFd
    <3>3. fd \in Fd /\ g # None
      BY <3>2 DEF FreeFds
    <3>. HIDE DEF fd
    <3>4. g \in File /\ file[g].ref > 0
      BY <3>3, InUse
    <3>. SUFFICES ASSUME NEW f \in File
                  PROVE  file'[f].ref = Cardinality(Holders(f)') + Cardinality(Pending(f)')
      BY DEF RefsExact
    <3>5. Pending(f)' = Pending(f)
      BY <3>1 DEF Pending
    <3>6. Cardinality(Holders(f)') =
            IF f = g THEN Cardinality(Holders(f)) - 1 ELSE Cardinality(Holders(f))
      BY <3>1, <3>3, HoldersLose
    <3>7. file'[f].ref = IF f = g THEN file[f].ref - 1 ELSE file[f].ref
      BY <3>1, <3>4, FileCloseRefs
    <3>8. /\ Cardinality(Pending(f)) \in Nat /\ Cardinality(Holders(f)) \in Nat
          /\ file[f].ref = Cardinality(Holders(f)) + Cardinality(Pending(f))
      BY ClaimsFinite DEF RefsExact
    <3>. QED  BY <3>5, <3>6, <3>7, <3>8
  <2>11. CASE Closed(p)
    BY <2>11, RefsOthers DEF Closed, fileVars
  <2>12. CASE PipeClose(p)
    BY <2>12, RefsOthers DEF PipeClose, fileVars
  <2>13. ASSUME NEW fd \in Fd, NEW n \in Count, SysRead(p, fd, n) \/ SysWrite(p, fd, n)
         PROVE  RefsExact'
    BY <2>13, RefsOthers DEF SysRead, SysWrite, Start, fileVars
  <2>. QED  BY <1>2, <2>1, <2>2, <2>3, <2>4, <2>5, <2>6, <2>7, <2>8, <2>9, <2>10, <2>11, <2>12,
               <2>13, <2>14, <2>15 DEF Others
<1>. QED  BY <1>1, <1>2, NextCases
-----------------------------------------------------------------------------
(* Files keep their pipe and end while a descriptor names them *)

\* What is in a descriptor before and after a step is the same file there.
Keeps(p) ==
  \A q \in Proc, fd \in Fd : ofile[q][fd] # None =>
    /\ q # p => ofile'[q][fd] = ofile[q][fd]
    /\ ofile'[q][fd] # None => /\ ofile'[q][fd] = ofile[q][fd]
                               /\ file'[ofile[q][fd]].pipe = file[ofile[q][fd]].pipe
                               /\ file'[ofile[q][fd]].end = file[ofile[q][fd]].end

\* fileclose() of a file that has another claim.
LEMMA CloseKeeps ==
  ASSUME TypeOK, NEW p \in Proc, NEW g \in File, FileClose(p, g), NEW f \in File,
         f # g \/ file[g].ref # 1
  PROVE  file'[f].pipe = file[f].pipe /\ file'[f].end = file[f].end
<1>0. file \in [File -> FileType]
  BY DEF TypeOK, FileType
<1>1. CASE file[g].ref = 1
  BY <1>0, <1>1 DEF FileClose, LastClose
<1>2. CASE file[g].ref # 1
  <2>1. file' = [file EXCEPT ![g].ref = @ - 1]
    BY <1>2 DEF FileClose, LastClose
  <2>. QED  BY <1>0, <2>1
<1>. QED  BY <1>1, <1>2

LEMMA FileKept ==
  ASSUME TypeOK, CallTypes, TodoOK, ForkOK, RefsExact, NEW p \in Proc, Others(p)
  PROVE  Keeps(p)
<1>0. /\ todo[p] \in Seq(File) /\ todo \in [Proc -> Seq(File)]
      /\ file \in [File -> FileType] /\ ofile \in [Proc -> [Fd -> File \cup {None}]]
  BY DEF TypeOK, CallTypes, FileType
<1>1. ASSUME FreeFiles # {}, file' = Allocated, ofile' = ofile PROVE Keeps(p)
  <2>. DEFINE h == First(FreeFiles)
  <2>1. h \in File /\ file[h].ref = 0
    BY <1>1, FirstFree
  <2>2. \A f \in File : f # h => file'[f] = file[f]
    BY <1>0, <1>1 DEF Allocated
  <2>3. \A q \in Proc, fd \in Fd : ofile[q][fd] # None => ofile[q][fd] \in File /\ ofile[q][fd] # h
    <3>. SUFFICES ASSUME NEW q \in Proc, NEW fd \in Fd, ofile[q][fd] # None
                  PROVE  ofile[q][fd] \in File /\ ofile[q][fd] # h
      OBVIOUS
    <3>1. ofile[q][fd] \in File /\ file[ofile[q][fd]].ref > 0
      BY InUse
    <3>. HIDE DEF h
    <3>. QED  BY <2>1, <3>1
  <2>. HIDE DEF h
  <2>. QED  BY <1>1, <2>2, <2>3 DEF Keeps
<1>2. ASSUME NEW q \in Proc, NEW fd \in Fd, ofile[q][fd] = None, NEW g \in File,
             file' = [file EXCEPT ![g].ref = @ + 1], ofile' = [ofile EXCEPT ![q][fd] = g]
      PROVE  Keeps(p)
  <2>1. \A f \in File : file'[f].pipe = file[f].pipe /\ file'[f].end = file[f].end
    BY <1>0, <1>2
  <2>2. \A r \in Proc, d \in Fd : ofile'[r][d] = IF r = q /\ d = fd THEN g ELSE ofile[r][d]
    BY <1>0, <1>2
  <2>. QED  BY <1>0, <1>2, <2>1, <2>2 DEF Keeps
<1>3. ASSUME UNCHANGED <<file, ofile>> PROVE Keeps(p)
  BY <1>3 DEF Keeps
<1>4. CASE SysPipe(p)
  BY <1>1, <1>4 DEF SysPipe
<1>5. CASE PipeFails(p)
  BY <1>1, <1>3, <1>5 DEF PipeFails
<1>6. CASE PipeMade(p)
  <2>1. PICK rf, wf \in File, pi \in Page : Made(p, rf, wf, pi)
    BY <1>6, PipeMadeFacts
  <2>2. Len(todo[p]) = 1 /\ 1 \in DOMAIN todo[p] /\ rf = todo[p][1] /\ file[rf].ref = 1
    BY <1>0, <1>6, <2>1, EmptySeq DEF PipeMade, TodoOK, Made
  <2>3. Holders(rf) = {}
    BY <2>2, InUse, Claimed
  <2>4. \A q \in Proc, fd \in Fd : ofile[q][fd] # None =>
          ofile[q][fd] \in File /\ ofile[q][fd] # rf /\ ofile[q][fd] # wf
    <3>. SUFFICES ASSUME NEW q \in Proc, NEW fd \in Fd, ofile[q][fd] # None
                  PROVE  ofile[q][fd] \in File /\ ofile[q][fd] # rf /\ ofile[q][fd] # wf
      OBVIOUS
    <3>1. /\ ofile[q][fd] \in File /\ file[ofile[q][fd]].ref > 0
          /\ <<q, fd>> \in Holders(ofile[q][fd])
      BY InUse
    <3>2. file[wf].ref = 0
      BY <2>1 DEF Made
    <3>. QED  BY <2>3, <3>1, <3>2
  <2>. QED  BY <2>1, <2>4 DEF Made, Keeps
<1>17. CASE PipeFds(p)
  <2>1. PICK rf, wf \in File, fd0, fd1 \in Fd : Given(p, rf, wf, fd0, fd1)
    BY <1>17, PipeFdsFacts
  <2>. QED  BY <2>1 DEF Given, Keeps
<1>18. CASE PipeUndone(p)
  BY <1>3, <1>18, UndoneFacts
<1>7. ASSUME NEW fd \in Fd, SysDup(p, fd) PROVE Keeps(p)
  <2>. DEFINE g == ofile[p][fd]
              fd1 == First(FreeFds(p))
  <2>1. g \in File /\ FreeFds(p) # {} /\ ofile' = [ofile EXCEPT ![p][fd1] = g]
        /\ file' = [file EXCEPT ![g].ref = @ + 1]
    BY <1>0, <1>7 DEF SysDup
  <2>2. fd1 \in Fd /\ ofile[p][fd1] = None
    BY <2>1, FirstFd DEF FreeFds
  <2>. HIDE DEF g, fd1
  <2>. QED  BY <2>1, <2>2, <1>2
<1>8. ASSUME NEW q \in Proc, Fork(p, q) PROVE Keeps(p)
  BY <1>3, <1>8 DEF Fork, fileVars
<1>9. CASE ForkFile(p)
  <2>1. CASE ToCopy(p) = {}
    BY <1>9, <2>1, <1>3 DEF ForkFile, fileVars
  <2>2. CASE ToCopy(p) # {}
    <3>. DEFINE fd == First(ToCopy(p))
                g == ofile[p][fd]
    <3>1. fd \in ToCopy(p)
      BY <2>2, FirstFd DEF ToCopy
    <3>2. fd \in Fd /\ g \in File /\ ofile[child[p]][fd] = None
      BY <1>0, <3>1 DEF ToCopy
    <3>3. child[p] \in Proc
      BY <1>9 DEF ForkFile, ForkOK
    <3>4. file' = [file EXCEPT ![g].ref = @ + 1] /\ ofile' = [ofile EXCEPT ![child[p]][fd] = g]
      BY <1>9, <2>2 DEF ForkFile, Dup
    <3>. HIDE DEF g, fd
    <3>. QED  BY <3>2, <3>3, <3>4, <1>2
  <2>. QED  BY <2>1, <2>2
<1>10. CASE Exit(p)
  BY <1>3, <1>10 DEF Exit, fileVars
<1>11. ASSUME NEW fd \in Fd, SysClose(p, fd) PROVE Keeps(p)
  BY <1>0, <1>11 DEF SysClose, Keeps
<1>12. CASE CloseTodo(p)
  <2>. DEFINE g == Head(todo[p])
  <2>1. /\ todo[p] # <<>> /\ FileClose(p, g) /\ ofile' = ofile
    BY <1>12 DEF CloseTodo
  <2>2. 1 \in DOMAIN todo[p] /\ g = todo[p][1]
    BY <1>0, <2>1, EmptySeq
  <2>3. g \in File /\ <<p, 1>> \in Pending(g)
    BY <2>2, InUse
  <2>4. \A q \in Proc, fd \in Fd : ofile[q][fd] # None =>
          ofile[q][fd] \in File /\ (ofile[q][fd] # g \/ file[g].ref # 1)
    BY <2>3, InUse, Claimed
  <2>. HIDE DEF g
  <2>5. \A q \in Proc, fd \in Fd : ofile[q][fd] # None =>
          /\ file'[ofile[q][fd]].pipe = file[ofile[q][fd]].pipe
          /\ file'[ofile[q][fd]].end = file[ofile[q][fd]].end
    BY <2>1, <2>3, <2>4, CloseKeeps
  <2>. QED  BY <2>1, <2>5 DEF Keeps
<1>13. CASE ExitFile(p)
  <2>. DEFINE fd0 == First(Fd \ FreeFds(p))
              g == ofile[p][fd0]
  <2>1. /\ Fd \ FreeFds(p) # {} /\ FileClose(p, g)
        /\ ofile' = [ofile EXCEPT ![p][fd0] = None]
    BY <1>13 DEF ExitFile, FreeFds
  <2>2. fd0 \in Fd \ FreeFds(p)
    BY <2>1, FirstFd
  <2>3. fd0 \in Fd /\ g # None
    BY <2>2 DEF FreeFds
  <2>4. g \in File /\ <<p, fd0>> \in Holders(g)
    BY <2>3, InUse
  <2>. HIDE DEF fd0
  <2>5. \A q \in Proc, fd \in Fd : ofile'[q][fd] = IF q = p /\ fd = fd0 THEN None ELSE ofile[q][fd]
    BY <1>0, <2>1, <2>3
  <2>6. \A q \in Proc, fd \in Fd : ofile'[q][fd] # None =>
          /\ ofile[q][fd] # None /\ ofile[q][fd] \in File
          /\ ofile[q][fd] # g \/ file[g].ref # 1
    <3>. SUFFICES ASSUME NEW q \in Proc, NEW fd \in Fd, ofile'[q][fd] # None,
                         ofile[q][fd] = g, file[g].ref = 1
                  PROVE  FALSE
      BY <1>0, <2>5
    <3>1. <<q, fd>> \in Holders(g)
      BY <2>3, InUse
    <3>2. <<q, fd>> = <<p, fd0>>
      BY <2>4, <3>1, Claimed
    <3>. QED  BY <2>5, <3>2
  <2>. HIDE DEF g
  <2>7. \A q \in Proc, fd \in Fd : ofile'[q][fd] # None =>
          /\ file'[ofile[q][fd]].pipe = file[ofile[q][fd]].pipe
          /\ file'[ofile[q][fd]].end = file[ofile[q][fd]].end
    BY <2>1, <2>4, <2>6, CloseKeeps
  <2>. QED  BY <2>5, <2>7 DEF Keeps
<1>14. CASE Closed(p)
  BY <1>3, <1>14 DEF Closed, fileVars
<1>15. CASE PipeClose(p)
  BY <1>3, <1>15 DEF PipeClose, fileVars
<1>16. ASSUME NEW fd \in Fd, NEW n \in Count, SysRead(p, fd, n) \/ SysWrite(p, fd, n)
       PROVE  Keeps(p)
  BY <1>3, <1>16 DEF SysRead, SysWrite, Start, fileVars
<1>. QED  BY <1>4, <1>5, <1>6, <1>7, <1>8, <1>9, <1>10, <1>11, <1>12, <1>13, <1>14, <1>15, <1>16,
             <1>17, <1>18
          DEF Others
-----------------------------------------------------------------------------
(* The control points of the others, and the types *)

\* The effect of GotoWaking, when only sleepers are woken.
LEMMA Woke ==
  ASSUME NEW p \in Proc, NEW label, NEW S, \A q \in S : pc[q] \in {"rsleep", "wsleep"},
         pc[p] \notin {"rsleep", "wsleep"}, GotoWaking(p, label, S)
  PROVE  /\ pc'[p] = label /\ p \notin S
         /\ \A q \in Proc : q # p =>
              pc'[q] = IF q \in S THEN IF pc[q] = "rsleep" THEN "read" ELSE "write" ELSE pc[q]
<1>1. \A q \in Proc : pc'[q] = CASE q = p -> label
                                  [] q \in S -> IF pc[q] = "rsleep" THEN "read" ELSE "write"
                                  [] OTHER -> pc[q]
  BY DEF GotoWaking
<1>2. p \notin S
  OBVIOUS
<1>. QED  BY <1>1, <1>2

LEMMA OtherSideSleeps ==
  ASSUME NEW pi, NEW e
  PROVE  \A q \in OtherSide(pi, e) \cup Readers(pi) \cup Writers(pi) : pc[q] \in {"rsleep", "wsleep"}
BY DEF OtherSide, Readers, Writers

\* A step of p takes another process on only when it wakes it, or forks it.
LEMMA OtherPcs ==
  ASSUME TypeOK, CallTypes, TodoOK, ForkOK, RefsExact, NEW p \in Proc, Others(p)
  PROVE  /\ pc' \in [Proc -> Pc] /\ at' \in [Proc -> Page \cup {None}] /\ end' \in [Proc -> End]
         /\ todo' \in [Proc -> Seq(File)]
         /\ pc[p] \in {"user", "pipe", "fdalloc", "fork", "close", "pipeclose"}
         /\ \A q \in Proc : q # p =>
              /\ at'[q] = at[q] /\ end'[q] = end[q] /\ todo'[q] = todo[q]
              /\ \/ pc'[q] = pc[q]
                 \/ pc[q] = "unused" /\ pc'[q] = "embryo"
                 \/ pc[q] = "embryo" /\ pc'[q] = "user" /\ ForkFile(p)
                 \/ pc[q] = "rsleep" /\ pc'[q] = "read"
                 \/ pc[q] = "wsleep" /\ pc'[q] = "write"
         /\ pc'[p] = "fork" => ForkFile(p) \/ \E q \in Proc : Fork(p, q)
         /\ pc'[p] = "pipeclose" => at'[p] # None
<1>0. /\ pc \in [Proc -> Pc] /\ at \in [Proc -> Page \cup {None}] /\ end \in [Proc -> End]
      /\ todo \in [Proc -> Seq(File)] /\ file \in [File -> FileType]
      /\ ofile \in [Proc -> [Fd -> File \cup {None}]]
  BY DEF TypeOK, CallTypes, FileType
<1>. USE DEF Goto, Pc, Reading, Writing
<1>1. CASE SysPipe(p)
  <2>1. First(FreeFiles) \in File
    BY <1>1, FirstFree DEF SysPipe
  <2>2. <<First(FreeFiles)>> \in Seq(File)
    BY <2>1
  <2>. QED  BY <1>0, <1>1, <2>2 DEF SysPipe, Calls
<1>2. CASE PipeFails(p)
  <2>1. FreeFiles # {} => First(FreeFiles) \in File
    BY FirstFree
  <2>2. FreeFiles # {} => Append(todo[p], First(FreeFiles)) \in Seq(File)
    BY <1>0, <2>1
  <2>3. todo' \in [Proc -> Seq(File)] /\ \A q \in Proc : q # p => todo'[q] = todo[q]
    BY <1>0, <1>2, <2>2 DEF PipeFails
  <2>. QED  BY <1>0, <1>2, <2>3 DEF PipeFails
<1>3. CASE PipeMade(p)
  <2>1. PICK rf, wf \in File, pi \in Page : Made(p, rf, wf, pi)
    BY <1>3, PipeMadeFacts
  <2>2. Append(todo[p], wf) \in Seq(File) /\ todo' = [todo EXCEPT ![p] = Append(@, wf)]
    BY <1>0, <2>1 DEF Made
  <2>. QED  BY <1>0, <1>3, <2>2 DEF PipeMade
<1>16. CASE PipeFds(p)
  <2>1. <<>> \in Seq(File)
    OBVIOUS
  <2>. QED  BY <1>0, <1>16, <2>1 DEF PipeFds
<1>17. CASE PipeUndone(p)
  BY <1>0, <1>17 DEF PipeUndone
<1>4. ASSUME NEW fd \in Fd, SysDup(p, fd)
      PROVE  UNCHANGED <<pc, at, end, todo>> /\ pc[p] = "user"
  BY <1>4 DEF SysDup, Calls, callVars
<1>5. ASSUME NEW q \in Proc, Fork(p, q)
      PROVE  /\ pc' = [pc EXCEPT ![p] = "fork", ![q] = "embryo"] /\ pc[p] = "user"
             /\ pc[q] = "unused" /\ UNCHANGED <<at, end, todo>>
  BY <1>5 DEF Fork, Calls
<1>6. CASE ForkFile(p)
  <2>1. child[p] \in Proc /\ pc[child[p]] = "embryo" /\ pc[p] = "fork" /\ UNCHANGED <<at, end, todo>>
    BY <1>6 DEF ForkFile, ForkOK
  <2>2. UNCHANGED pc \/ pc' = [pc EXCEPT ![p] = "user", ![child[p]] = "user"]
    BY <1>6 DEF ForkFile
  <2>. QED  BY <1>0, <1>6, <2>1, <2>2
<1>7. CASE Exit(p)
  BY <1>0, <1>7 DEF Exit
<1>8. ASSUME NEW fd \in Fd, SysClose(p, fd)
      PROVE  /\ pc[p] = "user" /\ pc' = [pc EXCEPT ![p] = "close"] /\ UNCHANGED <<at, end>>
             /\ todo' \in [Proc -> Seq(File)] /\ \A q \in Proc : q # p => todo'[q] = todo[q]
  <2>1. ofile[p][fd] \in File
    BY <1>0, <1>8 DEF SysClose
  <2>2. <<ofile[p][fd]>> \in Seq(File)
    BY <2>1
  <2>. QED  BY <1>0, <1>8, <2>2 DEF SysClose, Calls
<1>9. ASSUME NEW g \in File, FileClose(p, g), pc[p] = "close"
      PROVE  /\ pc' \in [Proc -> Pc] /\ at' \in [Proc -> Page \cup {None}] /\ end' \in [Proc -> End]
             /\ \A q \in Proc : q # p => at'[q] = at[q] /\ end'[q] = end[q] /\ pc'[q] = pc[q]
             /\ pc'[p] = "close" \/ (pc'[p] = "pipeclose" /\ at'[p] # None)
  <2>1. file[g].pipe \in Page \cup {None} /\ file[g].end \in End
    BY <1>0 DEF FileType
  <2>2. CASE pc' = pc /\ at' = at /\ end' = end
    BY <1>0, <1>9, <2>2
  <2>3. CASE /\ file[g].pipe # None /\ pc' = [pc EXCEPT ![p] = "pipeclose"]
             /\ at' = [at EXCEPT ![p] = file[g].pipe] /\ end' = [end EXCEPT ![p] = file[g].end]
    BY <1>0, <2>1, <2>3
  <2>. QED  BY <1>9, <2>2, <2>3 DEF FileClose
<1>10. CASE CloseTodo(p)
  <2>1. Head(todo[p]) \in File /\ Tail(todo[p]) \in Seq(File)
    BY <1>0, <1>10 DEF CloseTodo
  <2>2. FileClose(p, Head(todo[p])) /\ pc[p] = "close" /\ todo' = [todo EXCEPT ![p] = Tail(@)]
    BY <1>10 DEF CloseTodo
  <2>3. todo' \in [Proc -> Seq(File)] /\ \A q \in Proc : q # p => todo'[q] = todo[q]
    BY <1>0, <2>1, <2>2
  <2>. QED  BY <1>9, <2>1, <2>2, <2>3
<1>11. CASE ExitFile(p)
  <2>. DEFINE fd == First(Fd \ FreeFds(p))
              g == ofile[p][fd]
  <2>1. Fd \ FreeFds(p) # {} /\ FileClose(p, g) /\ pc[p] = "close" /\ todo' = todo
    BY <1>11 DEF ExitFile, FreeFds
  <2>2. fd \in Fd \ FreeFds(p)
    BY <2>1, FirstFd
  <2>3. g \in File
    BY <1>0, <2>2 DEF FreeFds
  <2>. HIDE DEF g
  <2>. QED  BY <1>0, <1>9, <2>1, <2>3
<1>12. CASE Closed(p)
  BY <1>0, <1>12 DEF Closed
<1>13. CASE PipeClose(p)
  <2>1. \A q \in Proc : pc'[q] = CASE q = p -> "close"
                          [] q \in OtherSide(at[p], end[p]) ->
                               IF pc[q] = "rsleep" THEN "read" ELSE "write"
                          [] OTHER -> pc[q]
    BY <1>13 DEF PipeClose, GotoWaking
  <2>2. \A q \in OtherSide(at[p], end[p]) : pc[q] \in {"rsleep", "wsleep"}
    BY DEF OtherSide, Readers, Writers
  <2>3. \A q \in Proc : q # p => \/ pc'[q] = pc[q]
                                 \/ pc[q] = "rsleep" /\ pc'[q] = "read"
                                 \/ pc[q] = "wsleep" /\ pc'[q] = "write"
    BY <2>1, <2>2
  <2>4. pc' \in [Proc -> Pc]
    <3>1. \A q \in Proc : pc'[q] \in Pc
      BY <1>0, <2>1, <2>3
    <3>2. pc' = [q \in Proc |-> pc'[q]]
      BY <1>13 DEF PipeClose, GotoWaking
    <3>. QED  BY <3>1, <3>2
  <2>5. pc[p] = "pipeclose" /\ at' = [at EXCEPT ![p] = None] /\ end' = [end EXCEPT ![p] = "R"]
        /\ todo' = todo
    BY <1>13 DEF PipeClose
  <2>6. pc'[p] = "close"
    BY <2>1, <2>2, <2>5
  <2>. QED  BY <1>0, <2>3, <2>4, <2>5, <2>6 DEF End
<1>14. ASSUME NEW fd \in Fd, NEW n \in Count, SysRead(p, fd, n) \/ SysWrite(p, fd, n)
       PROVE  /\ pc[p] = "user" /\ UNCHANGED <<end, todo>>
              /\ pc' = [pc EXCEPT ![p] = "read"] \/ pc' = [pc EXCEPT ![p] = "write"]
              /\ at' \in [Proc -> Page \cup {None}] /\ \A q \in Proc : q # p => at'[q] = at[q]
  <2>1. ofile[p][fd] \in File
    BY <1>0, <1>14 DEF SysRead, SysWrite, Start
  <2>2. file[ofile[p][fd]].pipe \in Page \cup {None}
    BY <1>0, <2>1 DEF FileType
  <2>. QED  BY <1>0, <1>14, <2>2 DEF SysRead, SysWrite, Start, Calls
<1>15. ASSUME NEW fd \in Fd, NEW n \in Count, SysRead(p, fd, n) \/ SysWrite(p, fd, n)
       PROVE  pc' \in [Proc -> Pc] /\ \A q \in Proc : q # p => pc'[q] = pc[q]
  BY <1>0, <1>14, <1>15
<1>. QED  BY <1>0, <1>1, <1>2, <1>3, <1>4, <1>5, <1>6, <1>7, <1>8, <1>10, <1>11, <1>12, <1>13, <1>14,
             <1>15, <1>16, <1>17 DEF Others
-----------------------------------------------------------------------------
\* A file has the same type after each step.
LEMMA FileTypeStep ==
  ASSUME TypeOK, CallTypes, TodoOK, ForkOK, RefsExact, NEW p \in Proc, Others(p)
  PROVE  file' \in [File -> FileType] /\ ofile' \in [Proc -> [Fd -> File \cup {None}]]
<1>0. /\ todo \in [Proc -> Seq(File)] /\ file \in [File -> FileType]
      /\ ofile \in [Proc -> [Fd -> File \cup {None}]]
  BY DEF TypeOK, CallTypes, FileType
<1>1. ASSUME FreeFiles # {}, file' = Allocated PROVE file' \in [File -> FileType]
  BY <1>0, <1>1, FirstFree DEF Allocated, FileType
<1>2. ASSUME NEW q \in Proc, NEW fd \in Fd, NEW g \in File,
             file' = [file EXCEPT ![g].ref = @ + 1], ofile' = [ofile EXCEPT ![q][fd] = g]
      PROVE  file' \in [File -> FileType] /\ ofile' \in [Proc -> [Fd -> File \cup {None}]]
  <2>1. file' \in [File -> FileType]
    <3>1. file[g].ref + 1 \in Nat
      BY <1>0 DEF FileType
    <3>. QED  BY <1>0, <1>2, <3>1, RefType
  <2>2. ofile' \in [Proc -> [Fd -> File \cup {None}]]
    BY <1>0, <1>2
  <2>. QED  BY <2>1, <2>2
<1>3. ASSUME NEW g \in File, file[g].ref > 0, FileClose(p, g) PROVE file' \in [File -> FileType]
  <2>1. CASE LastClose(g)
    BY <1>0, <1>3, <2>1, FreeTypes DEF FileClose
  <2>2. CASE ~LastClose(g)
    <3>1. file[g].ref - 1 \in Nat
      BY <1>0, <1>3 DEF FileType
    <3>2. file' = [file EXCEPT ![g].ref = file[g].ref - 1]
      BY <1>3, <2>2 DEF FileClose
    <3>. QED  BY <1>0, <3>1, <3>2, RefType
  <2>. QED  BY <2>1, <2>2
<1>4. CASE SysPipe(p)
  BY <1>0, <1>1, <1>4 DEF SysPipe
<1>5. CASE PipeFails(p)
  BY <1>0, <1>1, <1>5 DEF PipeFails
<1>6. CASE PipeMade(p)
  <2>1. PICK rf, wf \in File, pi \in Page : Made(p, rf, wf, pi)
    BY <1>6, PipeMadeFacts
  <2>. QED  BY <1>0, <2>1 DEF Made
<1>17. CASE PipeFds(p)
  <2>1. PICK rf, wf \in File, fd0, fd1 \in Fd : Given(p, rf, wf, fd0, fd1)
    BY <1>17, PipeFdsFacts
  <2>. QED  BY <1>0, <2>1 DEF Given
<1>18. CASE PipeUndone(p)
  BY <1>0, <1>18, UndoneFacts
<1>7. ASSUME NEW fd \in Fd, SysDup(p, fd)
      PROVE  file' \in [File -> FileType] /\ ofile' \in [Proc -> [Fd -> File \cup {None}]]
  <2>. DEFINE g == ofile[p][fd]
              fd1 == First(FreeFds(p))
  <2>1. g \in File /\ FreeFds(p) # {} /\ ofile' = [ofile EXCEPT ![p][fd1] = g]
        /\ file' = [file EXCEPT ![g].ref = @ + 1]
    BY <1>0, <1>7 DEF SysDup
  <2>2. fd1 \in Fd
    BY <2>1, FirstFd DEF FreeFds
  <2>. HIDE DEF g, fd1
  <2>. QED  BY <2>1, <2>2, <1>2
<1>8. ASSUME NEW q \in Proc, Fork(p, q) PROVE UNCHANGED <<file, ofile>>
  BY <1>8 DEF Fork, fileVars
<1>9. CASE ForkFile(p)
  <2>1. CASE ToCopy(p) = {}
    BY <1>0, <1>9, <2>1 DEF ForkFile, fileVars
  <2>2. CASE ToCopy(p) # {}
    <3>. DEFINE fd == First(ToCopy(p))
                g == ofile[p][fd]
    <3>1. fd \in ToCopy(p)
      BY <2>2, FirstFd DEF ToCopy
    <3>2. fd \in Fd /\ g \in File
      BY <1>0, <3>1 DEF ToCopy
    <3>3. child[p] \in Proc
      BY <1>9 DEF ForkFile, ForkOK
    <3>4. file' = [file EXCEPT ![g].ref = @ + 1] /\ ofile' = [ofile EXCEPT ![child[p]][fd] = g]
      BY <1>9, <2>2 DEF ForkFile, Dup
    <3>. HIDE DEF g, fd
    <3>. QED  BY <3>2, <3>3, <3>4, <1>2
  <2>. QED  BY <2>1, <2>2
<1>10. CASE Exit(p)
  BY <1>0, <1>10 DEF Exit, fileVars
<1>11. ASSUME NEW fd \in Fd, SysClose(p, fd)
       PROVE  file' = file /\ ofile' \in [Proc -> [Fd -> File \cup {None}]]
  BY <1>0, <1>11 DEF SysClose
<1>12. CASE CloseTodo(p)
  <2>1. todo[p] # <<>> /\ FileClose(p, Head(todo[p])) /\ ofile' = ofile /\ todo[p] \in Seq(File)
    BY <1>0, <1>12 DEF CloseTodo
  <2>2. 1 \in DOMAIN todo[p] /\ Head(todo[p]) = todo[p][1]
    BY <2>1, EmptySeq
  <2>3. Head(todo[p]) \in File /\ file[Head(todo[p])].ref > 0
    BY <2>2, InUse
  <2>. QED  BY <1>0, <1>3, <2>1, <2>3
<1>13. CASE ExitFile(p)
  <2>. DEFINE fd == First(Fd \ FreeFds(p))
              g == ofile[p][fd]
  <2>1. Fd \ FreeFds(p) # {} /\ FileClose(p, g) /\ ofile' = [ofile EXCEPT ![p][fd] = None]
    BY <1>13 DEF ExitFile, FreeFds
  <2>2. fd \in Fd \ FreeFds(p)
    BY <2>1, FirstFd
  <2>3. fd \in Fd /\ g # None
    BY <2>2 DEF FreeFds
  <2>4. g \in File /\ file[g].ref > 0
    BY <2>3, InUse
  <2>. HIDE DEF g, fd
  <2>5. file' \in [File -> FileType]
    BY <1>3, <2>1, <2>4
  <2>6. ofile' \in [Proc -> [Fd -> File \cup {None}]]
    BY <1>0, <2>1, <2>3
  <2>. QED  BY <2>5, <2>6
<1>14. CASE Closed(p)
  BY <1>0, <1>14 DEF Closed, fileVars
<1>15. CASE PipeClose(p)
  BY <1>0, <1>15 DEF PipeClose, fileVars
<1>16. ASSUME NEW fd \in Fd, NEW n \in Count, SysRead(p, fd, n) \/ SysWrite(p, fd, n)
       PROVE  UNCHANGED <<file, ofile>>
  BY <1>16 DEF SysRead, SysWrite, Start, fileVars
<1>. QED  BY <1>0, <1>4, <1>5, <1>6, <1>7, <1>8, <1>9, <1>10, <1>11, <1>12, <1>13, <1>14, <1>15, <1>16,
             <1>17, <1>18 DEF Others

\* The lock of a pipe is kept where the type invariant says.
LockOK ==
  \A pi \in Page : lock[pi] # None =>
    at[lock[pi]] = pi /\ pc[lock[pi]] \in {"rblock", "wblock", "write"}

LEMMA OthersLock ==
  ASSUME TypeOK, CallTypes, TodoOK, ForkOK, RefsExact, NEW p \in Proc, Others(p)
  PROVE  lock' = lock /\ LockOK'
<1>1. lock' = lock
  BY DEF Others, SysPipe, PipeFails, PipeMade, PipeFds, PipeUndone, SysDup, Fork, ForkFile, Exit,
         SysClose, CloseTodo, ExitFile, FileClose, Closed, PipeClose, SysRead, SysWrite, Start, pipeVars
<1>. SUFFICES ASSUME NEW pi \in Page, lock[pi] # None
              PROVE  at'[lock[pi]] = pi /\ pc'[lock[pi]] \in {"rblock", "wblock", "write"}
  BY <1>1 DEF LockOK
<1>2. lock[pi] \in Proc /\ at[lock[pi]] = pi /\ pc[lock[pi]] \in {"rblock", "wblock", "write"}
  BY DEF TypeOK
<1>. DEFINE q == lock[pi]
<1>3. q # p
  BY <1>2, OtherPcs
<1>. HIDE DEF q
<1>4. q \in Proc /\ at[q] = pi /\ pc[q] \in {"rblock", "wblock", "write"}
  BY <1>2 DEF q
<1>5. at'[q] = pi /\ pc'[q] \in {"rblock", "wblock", "write"}
  BY <1>3, <1>4, OtherPcs
<1>. QED  BY <1>1, <1>5 DEF q

\* ... and moves with the process that keeps it.
LEMMA MovesLock ==
  ASSUME TypeOK, CallTypes, FilesOK, BusyOK, NEW p \in Proc, Moves(p)
  PROVE  lock' \in [Page -> Proc \cup {None}] /\ LockOK'
<1>0. /\ pc \in [Proc -> Pc] /\ at \in [Proc -> Page \cup {None}]
      /\ lock \in [Page -> Proc \cup {None}] /\ None \notin Proc /\ LockOK
  BY PipeAssumption DEF TypeOK, CallTypes, LockOK
<1>1. ASSUME NEW S \in SUBSET Proc, Return(p, S), \A q \in S : pc[q] \in {"rsleep", "wsleep"},
             MayLock(p), at[p] \in Page
      PROVE  lock' \in [Page -> Proc \cup {None}] /\ LockOK'
  <2>1. /\ lock' = [lock EXCEPT ![at[p]] = None] /\ at' = [at EXCEPT ![p] = None]
        /\ \A q \in Proc : q # p /\ pc[q] \in {"rblock", "wblock", "write"} => pc'[q] = pc[q]
    BY <1>1 DEF Return, GotoWaking
  <2>2. \A pi \in Page : lock[pi] # None /\ pi # at[p] => lock[pi] # p
    BY <1>0 DEF LockOK
  <2>3. lock' \in [Page -> Proc \cup {None}]
    BY <1>0, <2>1
  <2>4. ASSUME NEW pi \in Page, lock'[pi] # None
        PROVE  at'[lock'[pi]] = pi /\ pc'[lock'[pi]] \in {"rblock", "wblock", "write"}
    <3>1. pi # at[p] /\ lock'[pi] = lock[pi] /\ lock[pi] # p /\ lock[pi] \in Proc
      BY <1>0, <2>1, <2>2, <2>4
    <3>2. at'[lock[pi]] = at[lock[pi]] /\ pc'[lock[pi]] = pc[lock[pi]]
      BY <1>0, <2>1, <3>1 DEF LockOK
    <3>. QED  BY <1>0, <3>1, <3>2 DEF LockOK
  <2>. QED  BY <2>3, <2>4 DEF LockOK
<1>2. ASSUME NEW from \in {"rblock", "wblock"}, NEW to, Sleep(p, from, to), at[p] \in Page
      PROVE  lock' \in [Page -> Proc \cup {None}] /\ LockOK'
  <2>1. /\ lock' = [lock EXCEPT ![at[p]] = None] /\ at' = at
        /\ \A q \in Proc : q # p => pc'[q] = pc[q]
    BY <1>0, <1>2 DEF Sleep, Goto, callVars
  <2>2. \A pi \in Page : lock[pi] # None /\ pi # at[p] => lock[pi] # p
    BY <1>0 DEF LockOK
  <2>3. lock' \in [Page -> Proc \cup {None}]
    BY <1>0, <2>1
  <2>4. ASSUME NEW pi \in Page, lock'[pi] # None
        PROVE  at'[lock'[pi]] = pi /\ pc'[lock'[pi]] \in {"rblock", "wblock", "write"}
    <3>1. pi # at[p] /\ lock'[pi] = lock[pi] /\ lock[pi] # p /\ lock[pi] \in Proc
      BY <1>0, <2>1, <2>2, <2>4
    <3>2. at'[lock[pi]] = at[lock[pi]] /\ pc'[lock[pi]] = pc[lock[pi]]
      BY <1>0, <2>1, <3>1 DEF LockOK
    <3>. QED  BY <1>0, <3>1, <3>2 DEF LockOK
  <2>. QED  BY <2>3, <2>4 DEF LockOK
<1>3. ASSUME at' = at, lock' = [lock EXCEPT ![at[p]] = p], at[p] \in Page,
             pc'[p] \in {"rblock", "wblock", "write"},
             \A q \in Proc : q # p /\ pc[q] \in {"rblock", "wblock", "write"} => pc'[q] = pc[q]
      PROVE  lock' \in [Page -> Proc \cup {None}] /\ LockOK'
  BY <1>0, <1>3 DEF LockOK
<1>4. pc[p] \in Reading \cup Writing /\ at[p] \in Page
  <2>1. pc[p] \in Reading \cup Writing
    BY DEF Moves, ReadKilled, ReadWaits, ReadSleep, ReadCopy, WriteRefused, WriteWaits, WriteSleep,
           WriteByte, WriteEnds, Sleep, Reading, Writing
  <2>. QED  BY <2>1, AtPage
<1>5. {} \in SUBSET Proc /\ \A pi : /\ Readers(pi) \in SUBSET Proc /\ Writers(pi) \in SUBSET Proc
                                    /\ \A q \in Readers(pi) : pc[q] = "rsleep"
                                    /\ \A q \in Writers(pi) : pc[q] = "wsleep"
  BY DEF Readers, Writers
<1>6. CASE ReadKilled(p)
  BY <1>1, <1>4, <1>5, <1>6 DEF ReadKilled
<1>7. CASE ReadWaits(p)
  <2>1. /\ at' = at /\ lock' = [lock EXCEPT ![at[p]] = p] /\ pc' = [pc EXCEPT ![p] = "rblock"]
    BY <1>7 DEF ReadWaits, Goto, callVars
  <2>. QED  BY <1>0, <1>3, <1>4, <2>1
<1>8. CASE ReadSleep(p)
  BY <1>2, <1>4, <1>8 DEF ReadSleep
<1>9. CASE ReadCopy(p)
  BY <1>1, <1>4, <1>5, <1>9 DEF ReadCopy, Woken
<1>10. CASE WriteRefused(p)
  BY <1>1, <1>4, <1>5, <1>10 DEF WriteRefused
<1>11. CASE WriteWaits(p)
  <2>1. /\ at' = at /\ lock' = [lock EXCEPT ![at[p]] = p] /\ pc'[p] = "wblock"
        /\ \A q \in Proc : q # p /\ pc[q] \in {"rblock", "wblock", "write"} => pc'[q] = pc[q]
    BY <1>5, <1>11 DEF WriteWaits, GotoWaking, callVars
  <2>. QED  BY <1>3, <1>4, <2>1
<1>12. CASE WriteSleep(p)
  BY <1>2, <1>4, <1>12 DEF WriteSleep
<1>13. ASSUME NEW b \in Byte, WriteByte(p, b)
       PROVE  lock' \in [Page -> Proc \cup {None}] /\ LockOK'
  <2>1. /\ at' = at /\ lock' = [lock EXCEPT ![at[p]] = p] /\ pc' = pc /\ pc[p] = "write"
    BY <1>13 DEF WriteByte
  <2>. QED  BY <1>3, <1>4, <2>1
<1>14. CASE WriteEnds(p)
  BY <1>1, <1>4, <1>5, <1>14 DEF WriteEnds, Announced
<1>. QED  BY <1>6, <1>7, <1>8, <1>9, <1>10, <1>11, <1>12, <1>13, <1>14 DEF Moves
-----------------------------------------------------------------------------
LEMMA FunEqual ==
  ASSUME NEW S, NEW T, NEW f \in [S -> T], NEW g \in [S -> T], \A x \in S : f[x] = g[x]
  PROVE  f = g
OBVIOUS

\* What the steps inside a pipe do to it: k bytes taken, or byte b put.
Taken(pi, k) ==
  [i \in 0..(PIPESIZE-1) |-> IF \E j \in 0..(k-1) : i = (pipe[pi].nread + j) % PIPESIZE
                             THEN None ELSE pipe[pi].data[i]]
Takes(pi, k) ==
  /\ k \in 0..Used(pi) /\ (k = 0 => Used(pi) = 0 \/ pipe' = pipe)
  /\ pipe' \in [Page -> PipeType]
  /\ \A x \in Page : x # pi => pipe'[x] = pipe[x]
  /\ pipe'[pi].open = pipe[pi].open /\ pipe'[pi].nwrite = pipe[pi].nwrite
  /\ pipe'[pi].nread = Wrap(pipe[pi].nread + k) /\ pipe'[pi].data = Taken(pi, k)
Puts(pi, b) ==
  /\ pipe' \in [Page -> PipeType]
  /\ \A x \in Page : x # pi => pipe'[x] = pipe[x]
  /\ pipe'[pi].open = pipe[pi].open /\ pipe'[pi].nread = pipe[pi].nread
  /\ pipe'[pi].nwrite = Wrap(pipe[pi].nwrite + 1)
  /\ pipe'[pi].data = [pipe[pi].data EXCEPT ![pipe[pi].nwrite % PIPESIZE] = b]

LEMMA PipeTypes ==
  ASSUME TypeOK, NEW pi \in Page
  PROVE  /\ pipe \in [Page -> PipeType] /\ pipe[pi] \in PipeType
         /\ pipe[pi].open \in SUBSET End /\ pipe[pi].nread \in 0..(MOD-1)
         /\ pipe[pi].nwrite \in 0..(MOD-1) /\ Used(pi) \in 0..(MOD-1)
         /\ pipe[pi].data \in [0..(PIPESIZE-1) -> Byte \cup {None}]
<1>1. pipe \in [Page -> PipeType] /\ pipe[pi] \in PipeType
  BY DEF TypeOK, PipeType
<1>2. /\ pipe[pi].open \in SUBSET End /\ pipe[pi].nread \in 0..(MOD-1)
      /\ pipe[pi].nwrite \in 0..(MOD-1)
      /\ pipe[pi].data \in [0..(PIPESIZE-1) -> Byte \cup {None}]
  BY <1>1 DEF PipeType
<1>3. pipe[pi].nwrite - pipe[pi].nread \in Int
  BY <1>2, Bounds
<1>. QED  BY <1>1, <1>2, <1>3, Sizes DEF Used

LEMMA ReadTakes ==
  ASSUME TypeOK, NEW p \in Proc, at[p] \in Page, ReadCopy(p)
  PROVE  \E k \in Nat : Takes(at[p], k) /\ cut' = IF k = Used(at[p]) THEN cut \ {at[p]} ELSE cut
<1>. DEFINE pi == at[p]
            used == Used(pi)
            most == IF left[p] < used THEN left[p] ELSE used
<1>1. PICK k \in (IF most = 0 THEN {0} ELSE 1..most) :
        /\ pipe' = [pipe EXCEPT ![pi].nread = Wrap(@ + k),
                                ![pi].data = [i \in DOMAIN @ |->
                                  IF \E j \in 0..(k-1) : i = (pipe[pi].nread + j) % PIPESIZE
                                  THEN None ELSE @[i]]]
        /\ cut' = IF k = used THEN cut \ {pi} ELSE cut
  BY DEF ReadCopy, Used
<1>2. /\ pipe \in [Page -> PipeType] /\ pipe[pi] \in PipeType
      /\ pipe[pi].nread \in 0..(MOD-1) /\ used \in 0..(MOD-1) /\ left[p] \in Nat
      /\ pipe[pi].data \in [0..(PIPESIZE-1) -> Byte \cup {None}]
  BY PipeTypes DEF TypeOK
<1>. HIDE DEF used
<1>3. k \in Nat /\ k <= used /\ k \in 0..used
  BY <1>1, <1>2, Sizes
<1>4. Wrap(pipe[pi].nread + k) \in 0..(MOD-1)
  <2>1. pipe[pi].nread + k \in Int
    BY <1>2, <1>3, Bounds
  <2>. QED  BY <2>1, Sizes
<1>5. Taken(pi, k) \in [0..(PIPESIZE-1) -> Byte \cup {None}]
  BY <1>2 DEF Taken
<1>6. pipe' = [pipe EXCEPT ![pi].nread = Wrap(pipe[pi].nread + k), ![pi].data = Taken(pi, k)]
  BY <1>1, <1>2 DEF Taken
<1>. DEFINE new == [pipe[pi] EXCEPT !.nread = Wrap(pipe[pi].nread + k), !.data = Taken(pi, k)]
<1>7. /\ new \in PipeType /\ new.open = pipe[pi].open /\ new.nwrite = pipe[pi].nwrite
      /\ new.nread = Wrap(pipe[pi].nread + k) /\ new.data = Taken(pi, k)
  BY <1>2, <1>4, <1>5 DEF PipeType
<1>8. pipe' = [pipe EXCEPT ![pi] = new]
  BY <1>2, <1>6
<1>. HIDE DEF new
<1>9. /\ pipe' \in [Page -> PipeType] /\ pipe'[pi] = new
      /\ \A x \in Page : x # pi => pipe'[x] = pipe[x]
  BY <1>2, <1>7, <1>8
<1>10. k = 0 => pipe' = pipe
  <2>. SUFFICES ASSUME k = 0 PROVE pipe' = pipe
    OBVIOUS
  <2>1. Taken(pi, k) = pipe[pi].data
    <3>1. \A i \in 0..(PIPESIZE-1) : Taken(pi, k)[i] = pipe[pi].data[i]
      <4>1. 0..(k-1) = {}
        OBVIOUS
      <4>. QED  BY <4>1 DEF Taken
    <3>. DEFINE T == Taken(pi, k)
                D == pipe[pi].data
                S == 0..(PIPESIZE-1)
                R == Byte \cup {None}
    <3>2. T \in [S -> R] /\ D \in [S -> R] /\ \A i \in S : T[i] = D[i]
      BY <1>2, <1>5, <3>1
    <3>. HIDE DEF T, D, S, R
    <3>4. T = D
      BY <3>2, FunEqual
    <3>. QED  BY <3>4 DEF T, D
  <2>2. Wrap(pipe[pi].nread + k) = pipe[pi].nread
    <3>1. pipe[pi].nread + k = pipe[pi].nread
      BY <1>2, Bounds
    <3>. QED  BY <1>2, <3>1, ModSmall, Sizes DEF Wrap
  <2>3. new = pipe[pi]
    BY <1>2, <2>1, <2>2 DEF new, PipeType
  <2>. QED  BY <1>2, <1>8, <2>3
<1>11. Takes(pi, k)
  BY <1>3, <1>7, <1>9, <1>10 DEF Takes, used
<1>. QED  BY <1>1, <1>3, <1>11 DEF used

LEMMA WritePuts ==
  ASSUME TypeOK, NEW p \in Proc, at[p] \in Page, NEW b \in Byte, WriteByte(p, b)
  PROVE  Puts(at[p], b)
<1>. DEFINE pi == at[p]
            i == pipe[pi].nwrite % PIPESIZE
            d == [pipe[pi].data EXCEPT ![i] = b]
            new == [pipe[pi] EXCEPT !.data = d, !.nwrite = Wrap(pipe[pi].nwrite + 1)]
<1>1. /\ pipe \in [Page -> PipeType] /\ pipe[pi] \in PipeType
      /\ pipe[pi].nwrite \in 0..(MOD-1)
      /\ pipe[pi].data \in [0..(PIPESIZE-1) -> Byte \cup {None}]
  BY PipeTypes
<1>2. i \in 0..(PIPESIZE-1) /\ Wrap(pipe[pi].nwrite + 1) \in 0..(MOD-1)
  <2>1. pipe[pi].nwrite \in Int /\ pipe[pi].nwrite + 1 \in Int
    BY <1>1, Bounds
  <2>. QED  BY <2>1, Sizes
<1>. HIDE DEF i
<1>3. d \in [0..(PIPESIZE-1) -> Byte \cup {None}]
  BY <1>1, <1>2
<1>4. pipe' = [pipe EXCEPT ![pi].data[i] = b, ![pi].nwrite = Wrap(pipe[pi].nwrite + 1)]
  BY <1>1 DEF WriteByte, i
<1>5. pipe' = [pipe EXCEPT ![pi] = new]
  BY <1>1, <1>4
<1>. HIDE DEF d
<1>6. /\ new \in PipeType /\ new.open = pipe[pi].open /\ new.nread = pipe[pi].nread
      /\ new.nwrite = Wrap(pipe[pi].nwrite + 1) /\ new.data = d
  BY <1>1, <1>2, <1>3 DEF PipeType
<1>. HIDE DEF new
<1>7. /\ pipe' \in [Page -> PipeType] /\ pipe'[pi] = new
      /\ \A x \in Page : x # pi => pipe'[x] = pipe[x]
  BY <1>1, <1>5, <1>6
<1>. QED  BY <1>6, <1>7 DEF Puts, d, i

\* Every step leaves pipes that are pipes.
LEMMA PipeTypeStep ==
  ASSUME TypeOK, CallTypes, TodoOK, FilesOK, BusyOK, NEW p \in Proc, Moves(p) \/ Others(p)
  PROVE  pipe' \in [Page -> PipeType]
<1>0. pipe \in [Page -> PipeType]
  BY DEF TypeOK, PipeType
<1>1. CASE ReadCopy(p)
  <2>1. at[p] \in Page
    BY <1>1, AtPage DEF ReadCopy, Reading
  <2>. QED  BY <1>1, <2>1, ReadTakes DEF Takes
<1>2. ASSUME NEW b \in Byte, WriteByte(p, b) PROVE pipe' \in [Page -> PipeType]
  <2>1. at[p] \in Page
    BY <1>2, AtPage DEF WriteByte, Writing
  <2>. QED  BY <1>2, <2>1, WritePuts DEF Puts
<1>3. CASE PipeMade(p)
  <2>1. PICK rf, wf \in File, pi \in Page : Made(p, rf, wf, pi)
    BY <1>3, PipeMadeFacts
  <2>2. [FreePage EXCEPT !.open = End] \in PipeType
    BY FreeTypes DEF FreePage, PipeType, End
  <2>. QED  BY <1>0, <2>1, <2>2 DEF Made
<1>4. CASE PipeClose(p)
  <2>1. at[p] \in Page
    BY <1>4, AtPage DEF PipeClose
  <2>. DEFINE new == IF pipe[at[p]].open = {end[p]} THEN FreePage
                     ELSE [pipe[at[p]] EXCEPT !.open = @ \ {end[p]}]
  <2>2. new \in PipeType
    <3>1. pipe[at[p]] \in PipeType
      BY <2>1, PipeTypes
    <3>2. [pipe[at[p]] EXCEPT !.open = @ \ {end[p]}] \in PipeType
      BY <3>1 DEF PipeType
    <3>. QED  BY <3>2, FreeTypes
  <2>3. pipe' = [pipe EXCEPT ![at[p]] = new]
    BY <1>0, <1>4, <2>1 DEF PipeClose
  <2>. QED  BY <1>0, <2>1, <2>2, <2>3
<1>5. CASE pipe' = pipe
  BY <1>0, <1>5
<1>6. ReadCopy(p) \/ (\E b \in Byte : WriteByte(p, b)) \/ PipeMade(p) \/ PipeClose(p) \/ pipe' = pipe
  BY DEF Moves, ReadKilled, ReadWaits, ReadSleep, WriteRefused, WriteWaits, WriteSleep, WriteEnds,
         Sleep, Others, SysPipe, PipeFails, PipeFds, PipeUndone, SysDup, Fork, ForkFile, Exit,
         SysClose, CloseTodo, ExitFile, FileClose, Closed, SysRead, SysWrite, Start, pipeVars
<1>. QED  BY <1>1, <1>2, <1>3, <1>4, <1>5, <1>6

\* The types of the variables that only one or two kinds of steps change.
LEMMA RestTypeStep ==
  ASSUME TypeOK, CallTypes, NEW p \in Proc, Moves(p) \/ Others(p) \/ Kill(p)
  PROVE  /\ killed' \in [Proc -> BOOLEAN] /\ left' \in [Proc -> Nat]
         /\ child' \in [Proc -> Proc \cup {None}]
<1>0. killed \in [Proc -> BOOLEAN] /\ left \in [Proc -> Nat] /\ child \in [Proc -> Proc \cup {None}]
  BY DEF TypeOK, CallTypes
<1>1. ASSUME NEW S, Return(p, S)
      PROVE  /\ killed' \in [Proc -> BOOLEAN] /\ left' \in [Proc -> Nat]
             /\ child' \in [Proc -> Proc \cup {None}]
  BY <1>0, <1>1 DEF Return
<1>2. ASSUME NEW fd \in Fd, NEW n \in Count, SysRead(p, fd, n) \/ SysWrite(p, fd, n)
      PROVE  left' \in [Proc -> Nat] /\ UNCHANGED <<killed, child>>
  <2>1. n \in Nat
    BY PipeAssumption
  <2>. QED  BY <1>0, <1>2, <2>1 DEF SysRead, SysWrite, Start
<1>3. ASSUME NEW b \in Byte, WriteByte(p, b)
      PROVE  left' \in [Proc -> Nat] /\ UNCHANGED <<killed, child>>
  <2>1. left[p] \in Nat /\ left[p] > 0 /\ left' = [left EXCEPT ![p] = left[p] - 1]
        /\ UNCHANGED <<killed, child>>
    BY <1>0, <1>3 DEF WriteByte, MayPut
  <2>2. left[p] - 1 \in Nat
    BY <2>1
  <2>. QED  BY <1>0, <2>1, <2>2
<1>4. ASSUME NEW q \in Proc, Fork(p, q)
      PROVE  /\ killed' \in [Proc -> BOOLEAN] /\ left' \in [Proc -> Nat]
             /\ child' \in [Proc -> Proc \cup {None}]
  BY <1>0, <1>4 DEF Fork
<1>5. CASE ForkFile(p)
  BY <1>0, <1>5 DEF ForkFile
<1>6. CASE Closed(p)
  BY <1>0, <1>6 DEF Closed
<1>7. CASE Kill(p)
  BY <1>0, <1>7 DEF Kill, callVars
<1>8. \/ UNCHANGED <<killed, left, child>>
      \/ \E S : Return(p, S)
      \/ \E fd \in Fd, n \in Count : SysRead(p, fd, n) \/ SysWrite(p, fd, n)
      \/ \E b \in Byte : WriteByte(p, b)
      \/ \E q \in Proc : Fork(p, q)
      \/ ForkFile(p) \/ Closed(p) \/ Kill(p)
  BY DEF Moves, ReadKilled, ReadWaits, ReadSleep, ReadCopy, WriteRefused, WriteWaits, WriteSleep,
         WriteEnds, Sleep, Others, SysPipe, PipeFails, PipeMade, PipeFds, PipeUndone, SysDup, Exit,
         SysClose, CloseTodo, ExitFile, FileClose, PipeClose, callVars
<1>. QED  BY <1>0, <1>1, <1>2, <1>3, <1>4, <1>5, <1>6, <1>7, <1>8

LEMMA TypeStep ==
  ASSUME TypeOK, CallTypes, TodoOK, ForkOK, FilesOK, RefsExact, BusyOK, [Next]_vars
  PROVE  TypeOK' /\ CallTypes'
<1>0. /\ pc \in [Proc -> Pc] /\ at \in [Proc -> Page \cup {None}] /\ end \in [Proc -> End]
      /\ todo \in [Proc -> Seq(File)]
      /\ file \in [File -> FileType] /\ ofile \in [Proc -> [Fd -> File \cup {None}]]
      /\ lock \in [Page -> Proc \cup {None}]
      /\ pipe \in [Page -> PipeType] /\ LockOK
      /\ None \notin Proc
  BY PipeAssumption DEF TypeOK, CallTypes, FileType, PipeType, LockOK
<1>1. ASSUME NEW p \in Proc, Moves(p) \/ Others(p) \/ Kill(p) PROVE TypeOK' /\ CallTypes'
  <2>1. CASE Others(p)
    <3>1. file' \in [File -> FileType] /\ ofile' \in [Proc -> [Fd -> File \cup {None}]]
      BY <2>1, FileTypeStep
    <3>2. /\ pc' \in [Proc -> Pc] /\ at' \in [Proc -> Page \cup {None}] /\ end' \in [Proc -> End]
          /\ todo' \in [Proc -> Seq(File)]
      BY <2>1, OtherPcs
    <3>3. lock' \in [Page -> Proc \cup {None}] /\ LockOK'
      BY <1>0, <2>1, OthersLock
    <3>. QED  BY <2>1, <3>1, <3>2, <3>3, PipeTypeStep, RestTypeStep
              DEF TypeOK, CallTypes, FileType, PipeType, LockOK
  <2>2. CASE Moves(p)
    <3>1. UNCHANGED <<file, ofile, end, todo>>
      BY <2>2, MoveIsPipeStep DEF PipeStep
    <3>2. pc' \in [Proc -> Pc] /\ at' \in [Proc -> Page \cup {None}]
      BY <1>0, <2>2 DEF Moves, ReadKilled, ReadWaits, ReadSleep, ReadCopy, WriteRefused, WriteWaits,
         WriteSleep, WriteByte, WriteEnds, Return, Sleep, GotoWaking, Goto, Pc, Reading, Writing, callVars
    <3>3. lock' \in [Page -> Proc \cup {None}] /\ LockOK'
      BY <2>2, MovesLock
    <3>. QED  BY <1>0, <2>2, <3>1, <3>2, <3>3, PipeTypeStep, RestTypeStep
              DEF TypeOK, CallTypes, FileType, PipeType, LockOK
  <2>3. CASE Kill(p)
    <3>1. UNCHANGED <<file, ofile, pipe, lock, at, end, todo>>
      BY <2>3 DEF Kill, fileVars, pipeVars, callVars
    <3>2. pc' \in [Proc -> Pc]
          /\ \A q \in Proc : pc[q] \in {"rblock", "wblock", "write"} => pc'[q] = pc[q]
      BY <1>0, <2>3 DEF Kill, Pc, Reading, Writing
    <3>3. LockOK'
      <4>. SUFFICES ASSUME NEW pi \in Page, lock[pi] # None
                    PROVE  at[lock[pi]] = pi /\ pc'[lock[pi]] \in {"rblock", "wblock", "write"}
        BY <3>1 DEF LockOK
      <4>. QED  BY <1>0, <3>2 DEF LockOK
    <3>. QED  BY <1>0, <2>3, <3>1, <3>2, <3>3, RestTypeStep
              DEF TypeOK, CallTypes, FileType, PipeType, LockOK
  <2>. QED  BY <1>1, <2>1, <2>2, <2>3
<1>2. CASE UNCHANGED vars
  BY <1>2 DEF vars, fileVars, pipeVars, callVars, TypeOK, CallTypes
<1>3. ASSUME NEW p \in Proc, User(p) \/ Kernel(p) \/ Kill(p)
      PROVE  Moves(p) \/ Others(p) \/ Kill(p)
  BY <1>3 DEF User, Kernel, Moves, Others
<1>. QED  BY <1>1, <1>2, <1>3 DEF Next
-----------------------------------------------------------------------------
(* Calls, files and forks *)

\* The files that pipe() has allocated for another process stay as they are.
LEMMA FreshKept ==
  ASSUME TypeOK, CallTypes, TodoOK, ForkOK, RefsExact, NEW p \in Proc, Others(p),
         NEW q \in Proc, q # p, NEW i \in DOMAIN todo[q], file[todo[q][i]].ref = 1
  PROVE  file'[todo[q][i]] = file[todo[q][i]]
<1>0. /\ pc \in [Proc -> Pc] /\ todo \in [Proc -> Seq(File)] /\ todo[p] \in Seq(File)
      /\ file \in [File -> FileType]
  BY DEF TypeOK, CallTypes, FileType
<1>. DEFINE f == todo[q][i]
<1>2. file[f].ref = 1
  OBVIOUS
<1>3. f \in File /\ <<q, i>> \in Pending(f)
  BY InUse
<1>4. Pending(f) = {<<q, i>>} /\ Holders(f) = {}
  BY <1>2, <1>3, Claimed
<1>. HIDE DEF f
<1>. SUFFICES file'[f] = file[f]
  BY DEF f
<1>5. ASSUME FreeFiles # {}, file' = Allocated PROVE file'[f] = file[f]
  <2>1. First(FreeFiles) \in File /\ file[First(FreeFiles)].ref = 0
    BY <1>5, FirstFree
  <2>2. f # First(FreeFiles)
    BY <1>2, <2>1
  <2>. QED  BY <1>0, <1>3, <1>5, <2>2 DEF Allocated
<1>6. ASSUME NEW fd \in Fd, NEW r \in Proc, ofile[r][fd] # None,
             file' = [file EXCEPT ![ofile[r][fd]].ref = @ + 1]
      PROVE  file'[f] = file[f]
  <2>1. ofile[r][fd] # f
    BY <1>4, <1>6, InUse
  <2>. QED  BY <1>0, <1>3, <1>6, <2>1
<1>7. ASSUME NEW g \in File, g # f, FileClose(p, g) PROVE file'[f] = file[f]
  BY <1>0, <1>3, <1>7 DEF FileClose
<1>8. CASE SysPipe(p)
  BY <1>5, <1>8 DEF SysPipe
<1>9. CASE PipeFails(p)
  BY <1>5, <1>9 DEF PipeFails
<1>10. CASE PipeMade(p)
  <2>1. PICK rf, wf \in File, pi \in Page : Made(p, rf, wf, pi)
    BY <1>10, PipeMadeFacts
  <2>2. Len(todo[p]) = 1 /\ rf = todo[p][1] /\ file[wf].ref = 0
        /\ \A x \in File : x # rf /\ x # wf => file'[x] = file[x]
    BY <1>10, <2>1 DEF PipeMade, TodoOK, Made
  <2>3. 1 \in DOMAIN todo[p]
    BY <1>0, <2>2, EmptySeq
  <2>4. <<p, 1>> \in Pending(rf)
    BY <2>2, <2>3, InUse
  <2>5. rf # f /\ wf # f
    BY <1>2, <1>4, <2>2, <2>4
  <2>. QED  BY <1>3, <2>2, <2>5
<1>11. ASSUME NEW fd \in Fd, SysDup(p, fd) PROVE file'[f] = file[f]
  BY <1>6, <1>11 DEF SysDup
<1>12. CASE ForkFile(p)
  <2>1. CASE ToCopy(p) = {}
    BY <1>12, <2>1 DEF ForkFile, fileVars
  <2>2. CASE ToCopy(p) # {}
    <3>1. First(ToCopy(p)) \in ToCopy(p)
      BY <2>2, FirstFd DEF ToCopy
    <3>2. First(ToCopy(p)) \in Fd /\ ofile[p][First(ToCopy(p))] # None
      BY <3>1 DEF ToCopy
    <3>. QED  BY <1>6, <1>12, <2>2, <3>2 DEF ForkFile, Dup
  <2>. QED  BY <2>1, <2>2
<1>13. CASE CloseTodo(p)
  <2>1. todo[p] # <<>> /\ FileClose(p, Head(todo[p]))
    BY <1>13 DEF CloseTodo
  <2>2. 1 \in DOMAIN todo[p] /\ Head(todo[p]) = todo[p][1]
    BY <1>0, <2>1, EmptySeq
  <2>3. Head(todo[p]) \in File /\ <<p, 1>> \in Pending(Head(todo[p]))
    BY <2>2, InUse
  <2>4. Head(todo[p]) # f
    BY <1>4, <2>3
  <2>. QED  BY <1>7, <2>1, <2>3, <2>4
<1>14. CASE ExitFile(p)
  <2>. DEFINE fd == First(Fd \ FreeFds(p))
              g == ofile[p][fd]
  <2>1. Fd \ FreeFds(p) # {} /\ FileClose(p, g)
    BY <1>14 DEF ExitFile, FreeFds
  <2>2. fd \in Fd \ FreeFds(p)
    BY <2>1, FirstFd
  <2>3. fd \in Fd /\ g # None
    BY <2>2 DEF FreeFds
  <2>4. g \in File /\ <<p, fd>> \in Holders(g)
    BY <2>3, InUse
  <2>5. g # f
    BY <1>4, <2>4
  <2>. HIDE DEF g
  <2>. QED  BY <1>7, <2>1, <2>4, <2>5
<1>15. \/ file' = file \/ SysPipe(p) \/ PipeFails(p) \/ PipeMade(p) \/ ForkFile(p)
       \/ CloseTodo(p) \/ ExitFile(p) \/ \E fd \in Fd : SysDup(p, fd)
  BY DEF Others, PipeFds, PipeUndone, Fork, Exit, SysClose, Closed, PipeClose, SysRead, SysWrite,
         Start, fileVars
<1>. QED  BY <1>8, <1>9, <1>10, <1>11, <1>12, <1>13, <1>14, <1>15

LEMMA TodoStep ==
  ASSUME TypeOK, CallTypes, TodoOK, ForkOK, FilesOK, RefsExact, [Next]_vars
  PROVE  TodoOK'
<1>1. CASE PipeStep
  BY <1>1 DEF PipeStep, TodoOK, Reading, Writing
<1>2. ASSUME NEW p \in Proc, Others(p) PROVE TodoOK'
  <2>0. /\ pc \in [Proc -> Pc] /\ todo \in [Proc -> Seq(File)] /\ todo[p] \in Seq(File)
        /\ file \in [File -> FileType]
    BY DEF TypeOK, CallTypes, FileType
  <2>. USE DEF Goto
  <2>2. ASSUME NEW q \in Proc, q # p
        PROVE  /\ pc'[q] \notin {"pipe", "fdalloc", "close", "pipeclose"} => todo'[q] = <<>>
               /\ pc'[q] = "pipe" => /\ Len(todo'[q]) = 1
                                     /\ file'[todo'[q][1]] = [ref |-> 1, pipe |-> None, end |-> "R"]
               /\ pc'[q] = "fdalloc" => /\ Len(todo'[q]) = 2
                                        /\ \A i \in {1, 2} : /\ file'[todo'[q][i]].ref = 1
                                                             /\ file'[todo'[q][i]].pipe # None
               /\ Len(todo'[q]) <= 2
               /\ Len(todo'[q]) = 2 => todo'[q][1] # todo'[q][2]
    <3>1. todo'[q] = todo[q] /\ todo[q] \in Seq(File)
      BY <1>2, <2>0, <2>2, OtherPcs
    <3>2. pc'[q] \in {"pipe", "fdalloc", "close", "pipeclose"} => pc'[q] = pc[q]
      BY <1>2, <2>2, OtherPcs
    <3>3. pc'[q] \notin {"pipe", "fdalloc", "close", "pipeclose"} =>
            pc[q] \notin {"pipe", "fdalloc", "close", "pipeclose"}
      BY <1>2, <2>2, OtherPcs
    <3>4. \A i \in DOMAIN todo[q] : file[todo[q][i]].ref = 1 => file'[todo[q][i]] = file[todo[q][i]]
      BY <1>2, <2>2, FreshKept
    <3>5. pc[q] = "pipe" => file'[todo[q][1]] = [ref |-> 1, pipe |-> None, end |-> "R"]
      <4>1. pc[q] = "pipe" => /\ 1 \in DOMAIN todo[q]
                              /\ file[todo[q][1]] = [ref |-> 1, pipe |-> None, end |-> "R"]
        BY <3>1, EmptySeq DEF TodoOK
      <4>. QED  BY <3>4, <4>1
    <3>6. pc[q] = "fdalloc" => \A i \in {1, 2} : /\ file'[todo[q][i]].ref = 1
                                                 /\ file'[todo[q][i]].pipe # None
      <4>1. pc[q] = "fdalloc" => /\ DOMAIN todo[q] = {1, 2}
                                 /\ \A i \in {1, 2} : /\ file[todo[q][i]].ref = 1
                                                      /\ file[todo[q][i]].pipe # None
        BY <3>1, TailOfTwo DEF TodoOK
      <4>. QED  BY <3>4, <4>1
    <3>. QED  BY <3>1, <3>2, <3>3, <3>5, <3>6 DEF TodoOK
  <2>. DEFINE Mine == /\ pc'[p] \notin {"pipe", "fdalloc", "close", "pipeclose"} => todo'[p] = <<>>
                      /\ pc'[p] = "pipe" => /\ Len(todo'[p]) = 1
                                            /\ file'[todo'[p][1]] = [ref |-> 1, pipe |-> None, end |-> "R"]
                      /\ pc'[p] = "fdalloc" => /\ Len(todo'[p]) = 2
                                               /\ \A i \in {1, 2} : /\ file'[todo'[p][i]].ref = 1
                                                                    /\ file'[todo'[p][i]].pipe # None
                      /\ Len(todo'[p]) <= 2
                      /\ Len(todo'[p]) = 2 => todo'[p][1] # todo'[p][2]
  <2>3. ASSUME todo'[p] = <<>>, pc'[p] \notin {"pipe", "fdalloc"} PROVE Mine
    BY <2>3
  <2>4. ASSUME todo'[p] = todo[p], pc[p] \in {"close", "pipeclose"}, pc'[p] \in {"close", "pipeclose"}
        PROVE  Mine
    BY <2>4 DEF TodoOK
  <2>. HIDE DEF Mine
  <2>5. ASSUME SysPipe(p) PROVE Mine
    <3>1. First(FreeFiles) \in File /\ file[First(FreeFiles)] = NoFile
      BY <2>5, FirstFree DEF SysPipe, FilesOK
    <3>2. todo'[p] = <<First(FreeFiles)>> /\ file' = Allocated /\ pc'[p] = "pipe"
      BY <2>0, <2>5 DEF SysPipe
    <3>3. file'[First(FreeFiles)] = [ref |-> 1, pipe |-> None, end |-> "R"]
      BY <2>0, <3>1, <3>2 DEF Allocated, NoFile
    <3>4. Len(todo'[p]) = 1 /\ todo'[p][1] = First(FreeFiles)
      BY <3>2
    <3>. QED  BY <3>2, <3>3, <3>4 DEF Mine
  <2>6. ASSUME PipeFails(p) PROVE Mine
    <3>1. /\ Len(todo[p]) = 1 /\ pc'[p] = "close"
          /\ file[todo[p][1]] = [ref |-> 1, pipe |-> None, end |-> "R"]
      BY <2>0, <2>6 DEF PipeFails, TodoOK
    <3>2. CASE todo' = todo
      <4>1. Len(todo'[p]) = 1
        BY <3>1, <3>2
      <4>. QED  BY <3>1, <4>1 DEF Mine
    <3>3. CASE FreeFiles # {} /\ todo' = [todo EXCEPT ![p] = Append(@, First(FreeFiles))]
      <4>1. First(FreeFiles) \in File /\ file[First(FreeFiles)].ref = 0
        BY <3>3, FirstFree
      <4>2. First(FreeFiles) # todo[p][1]
        BY <3>1, <4>1
      <4>3. todo'[p] = Append(todo[p], First(FreeFiles))
        BY <2>0, <3>3
      <4>4. Len(todo'[p]) = 2 /\ todo'[p][1] = todo[p][1] /\ todo'[p][2] = First(FreeFiles)
        <5>. DEFINE s == todo[p]
                    x == First(FreeFiles)
        <5>1. s \in Seq(File) /\ x \in File /\ Len(s) = 1 /\ todo'[p] = Append(s, x)
          BY <2>0, <3>1, <4>1, <4>3
        <5>. HIDE DEF s, x
        <5>2. Len(Append(s, x)) = 2 /\ Append(s, x)[1] = s[1] /\ Append(s, x)[2] = x
          BY <5>1, AppendToOne
        <5>. QED  BY <5>1, <5>2 DEF s, x
      <4>. QED  BY <3>1, <4>2, <4>4 DEF Mine
    <3>. QED  BY <2>6, <3>2, <3>3 DEF PipeFails
  <2>7. ASSUME PipeMade(p) PROVE Mine
    <3>1. PICK rf, wf \in File, pi \in Page : Made(p, rf, wf, pi)
      BY <2>7, PipeMadeFacts
    <3>2. pc'[p] = "fdalloc" /\ todo'[p] = Append(todo[p], wf) /\ rf # wf
          /\ Len(todo[p]) = 1 /\ rf = todo[p][1]
      BY <2>0, <2>7, <3>1 DEF PipeMade, Made
    <3>3. Len(todo'[p]) = 2 /\ todo'[p][1] = rf /\ todo'[p][2] = wf
      BY <2>0, <3>2, AppendToOne
    <3>4. \A f \in {rf, wf} : file'[f].ref = 1 /\ file'[f].pipe # None
      BY <3>1, PipeAssumption DEF Made
    <3>. QED  BY <3>2, <3>3, <3>4 DEF Mine
  <2>20. ASSUME PipeFds(p) PROVE Mine
    <3>1. pc'[p] = "user" /\ todo'[p] = <<>>
      BY <2>0, <2>20 DEF PipeFds
    <3>. QED  BY <2>3, <3>1
  <2>21. ASSUME PipeUndone(p) PROVE Mine
    <3>1. pc[p] = "fdalloc" /\ pc'[p] = "close" /\ todo'[p] = todo[p]
      BY <2>0, <2>21 DEF PipeUndone
    <3>. QED  BY <3>1 DEF Mine, TodoOK
  <2>8. ASSUME NEW fd \in Fd, SysDup(p, fd) PROVE Mine
    BY <2>0, <2>3, <2>8 DEF SysDup, Calls, TodoOK, callVars
  <2>9. ASSUME NEW q \in Proc, Fork(p, q) PROVE Mine
    <3>1. pc'[p] = "fork" /\ todo'[p] = <<>>
      BY <2>0, <2>9 DEF Fork, Calls, TodoOK
    <3>. QED  BY <2>3, <3>1
  <2>10. ASSUME ForkFile(p) PROVE Mine
    <3>1. pc[p] = "fork" /\ todo'[p] = <<>>
      BY <2>0, <2>10 DEF ForkFile, TodoOK
    <3>2. pc'[p] \in {"fork", "user"}
      BY <2>0, <2>10 DEF ForkFile, ForkOK
    <3>. QED  BY <2>3, <3>1, <3>2
  <2>11. ASSUME Exit(p) PROVE Mine
    <3>1. pc'[p] = "close" /\ todo'[p] = <<>>
      BY <2>0, <2>11 DEF Exit, TodoOK
    <3>. QED  BY <2>3, <3>1
  <2>12. ASSUME NEW fd \in Fd, SysClose(p, fd) PROVE Mine
    <3>1. pc'[p] = "close" /\ todo'[p] = <<ofile[p][fd]>>
      BY <2>0, <2>12 DEF SysClose
    <3>2. Len(todo'[p]) = 1
      BY <3>1
    <3>. QED  BY <3>1, <3>2 DEF Mine
  <2>13. ASSUME NEW g, FileClose(p, g), pc[p] = "close" PROVE pc'[p] \in {"close", "pipeclose"}
    BY <2>0, <2>13 DEF FileClose
  <2>14. ASSUME CloseTodo(p) PROVE Mine
    <3>1. todo'[p] = Tail(todo[p]) /\ todo[p] # <<>> /\ pc'[p] \in {"close", "pipeclose"}
      BY <2>0, <2>13, <2>14 DEF CloseTodo
    <3>2. Len(todo[p]) <= 2 /\ Len(todo[p]) \in Nat
      BY <2>0 DEF TodoOK
    <3>3. Len(todo'[p]) <= 2 /\ Len(todo'[p]) # 2
      BY <2>0, <3>1, <3>2, TailShorter
    <3>. QED  BY <3>1, <3>3 DEF Mine
  <2>15. ASSUME ExitFile(p) PROVE Mine
    BY <2>4, <2>13, <2>15 DEF ExitFile
  <2>16. ASSUME Closed(p) PROVE Mine
    <3>1. todo'[p] = <<>> /\ pc'[p] \in {"user", "unused"}
      BY <2>0, <2>16 DEF Closed
    <3>. QED  BY <2>3, <3>1
  <2>17. ASSUME PipeClose(p) PROVE Mine
    <3>1. pc[p] = "pipeclose" /\ todo'[p] = todo[p]
      BY <2>17 DEF PipeClose
    <3>2. GotoWaking(p, "close", OtherSide(at[p], end[p]))
      BY <2>17 DEF PipeClose
    <3>3. pc'[p] = "close"
      <4>1. p \notin OtherSide(at[p], end[p])
        BY <3>1 DEF OtherSide, Readers, Writers
      <4>. QED  BY <3>2, <4>1 DEF GotoWaking
    <3>. QED  BY <2>4, <3>1, <3>3
  <2>18. ASSUME NEW fd \in Fd, NEW n \in Count, SysRead(p, fd, n) \/ SysWrite(p, fd, n) PROVE Mine
    <3>1. pc'[p] \in {"read", "write"} /\ todo'[p] = <<>>
      BY <2>0, <2>18 DEF SysRead, SysWrite, Start, Calls, TodoOK
    <3>. QED  BY <2>3, <3>1
  <2>19. Mine
    BY <1>2, <2>5, <2>6, <2>7, <2>8, <2>9, <2>10, <2>11, <2>12, <2>14, <2>15, <2>16, <2>17, <2>18,
       <2>20, <2>21 DEF Others
  <2>. QED  BY <2>2, <2>19 DEF TodoOK, Mine
<1>. QED  BY <1>1, <1>2, NextCases
-----------------------------------------------------------------------------
LEMMA ForkStep ==
  ASSUME TypeOK, CallTypes, TodoOK, ForkOK, RefsExact, [Next]_vars
  PROVE  ForkOK'
<1>1. CASE PipeStep
  <2>1. /\ child' = child
        /\ \A q \in Proc : pc'[q] = "fork" <=> pc[q] = "fork"
        /\ \A q \in Proc : pc[q] = "embryo" => pc'[q] = "embryo"
    BY <1>1 DEF PipeStep, Reading, Writing
  <2>. QED  BY <2>1 DEF ForkOK
<1>2. ASSUME NEW p \in Proc, Others(p) PROVE ForkOK'
  <2>0. pc \in [Proc -> Pc] /\ child \in [Proc -> Proc \cup {None}]
    BY DEF CallTypes
  <2>1. ASSUME NEW q \in Proc, Fork(p, q) PROVE ForkOK'
    <3>1. /\ pc' = [pc EXCEPT ![p] = "fork", ![q] = "embryo"] /\ child' = [child EXCEPT ![p] = q]
          /\ pc[p] = "user" /\ pc[q] = "unused"
      BY <2>1 DEF Fork, Calls
    <3>2. \A r \in Proc : pc'[r] = "fork" /\ r # p => pc[r] = "fork" /\ child'[r] = child[r]
      BY <2>0, <3>1
    <3>3. \A r \in Proc : pc[r] = "fork" => child[r] \in Proc /\ child[r] # q /\ child[r] # p
                                            /\ pc[child[r]] = "embryo"
      BY <3>1 DEF ForkOK
    <3>4. /\ pc'[p] = "fork" /\ child'[p] = q /\ pc'[q] = "embryo"
      BY <2>0, <3>1
    <3>5. \A r \in Proc : pc'[r] = "fork" => child'[r] \in Proc /\ pc'[child'[r]] = "embryo"
      BY <2>0, <3>1, <3>2, <3>3, <3>4
    <3>6. \A r, s \in Proc : pc'[r] = "fork" /\ pc'[s] = "fork" /\ child'[s] = child'[r] => s = r
      BY <3>2, <3>3, <3>4 DEF ForkOK
    <3>. QED  BY <3>5, <3>6 DEF ForkOK
  <2>2. CASE ForkFile(p)
    <3>1. CASE ToCopy(p) # {}
      BY <2>2, <3>1 DEF ForkFile, ForkOK
    <3>2. CASE ToCopy(p) = {}
      <4>1. /\ pc' = [pc EXCEPT ![p] = "user", ![child[p]] = "user"]
            /\ child' = [child EXCEPT ![p] = None] /\ pc[p] = "fork"
        BY <2>2, <3>2 DEF ForkFile
      <4>2. child[p] \in Proc /\ pc[child[p]] = "embryo" /\ child[p] # p
        BY <4>1 DEF ForkOK
      <4>3. \A r \in Proc : pc'[r] = "fork" => r # p /\ pc[r] = "fork" /\ child'[r] = child[r]
        BY <2>0, <4>1, <4>2
      <4>4. \A r \in Proc : pc'[r] = "fork" => child[r] # child[p] /\ child[r] # p
        BY <4>1, <4>2, <4>3 DEF ForkOK
      <4>5. \A r \in Proc : pc'[r] = "fork" => child'[r] \in Proc /\ pc'[child'[r]] = "embryo"
        BY <2>0, <4>1, <4>3, <4>4 DEF ForkOK
      <4>. QED  BY <4>3, <4>5 DEF ForkOK
    <3>. QED  BY <3>1, <3>2
  <2>3. CASE /\ child' = child /\ ~ForkFile(p) /\ \A q \in Proc : ~Fork(p, q)
    <3>2. /\ \A q \in Proc : q # p /\ pc[q] \in {"embryo", "fork"} => pc'[q] = pc[q]
          /\ \A q \in Proc : q # p /\ pc'[q] = "fork" => pc[q] = "fork"
          /\ pc'[p] # "fork"
      BY <1>2, <2>3, OtherPcs
    <3>1. pc[p] \in {"user", "pipe", "fdalloc", "close", "pipeclose"}
      BY <1>2, <2>3 DEF Others, SysPipe, PipeFails, PipeMade, PipeFds, PipeUndone, SysDup, Exit, SysClose, CloseTodo,
         ExitFile, Closed, PipeClose, SysRead, SysWrite, Start, Calls
    <3>. QED  BY <2>3, <3>1, <3>2 DEF ForkOK
  <2>4. child' = child \/ ForkFile(p) \/ \E q \in Proc : Fork(p, q)
    BY <1>2 DEF Others, SysPipe, PipeFails, PipeMade, PipeFds, PipeUndone, SysDup, Exit, SysClose,
         CloseTodo, ExitFile, FileClose, Closed, PipeClose, SysRead, SysWrite, Start, callVars
  <2>. QED  BY <2>1, <2>2, <2>3, <2>4
<1>. QED  BY <1>1, <1>2, NextCases

LEMMA FilesStep ==
  ASSUME TypeOK, CallTypes, TodoOK, ForkOK, FilesOK, RefsExact, [Next]_vars
  PROVE  FilesOK'
<1>1. CASE PipeStep
  BY <1>1 DEF PipeStep, FilesOK
<1>2. ASSUME NEW p \in Proc, Others(p) PROVE FilesOK'
  <2>0. /\ file \in [File -> FileType] /\ ofile \in [Proc -> [Fd -> File \cup {None}]]
        /\ todo[p] \in Seq(File) /\ \A f \in File : file[f].ref \in Nat
    BY DEF TypeOK, CallTypes, FileType
  <2>1. ASSUME FreeFiles # {}, file' = Allocated
        PROVE  \A f \in File : file'[f].ref = 0 => file'[f] = NoFile
    <3>1. First(FreeFiles) \in File
      BY <2>1, FirstFree
    <3>2. \A f \in File : f # First(FreeFiles) => file'[f] = file[f]
      BY <2>0, <2>1, <3>1 DEF Allocated
    <3>3. file'[First(FreeFiles)].ref = 1
      BY <2>0, <2>1, <3>1 DEF Allocated, FileType
    <3>. QED  BY <3>2, <3>3 DEF FilesOK
  <2>2. ASSUME NEW g \in File, file' = [file EXCEPT ![g].ref = @ + 1]
        PROVE  \A f \in File : file'[f].ref = 0 => file'[f] = NoFile
    <3>1. \A f \in File : f # g => file'[f] = file[f]
      BY <2>0, <2>2
    <3>2. file'[g].ref = file[g].ref + 1
      BY <2>0, <2>2
    <3>3. file'[g].ref # 0
      BY <2>0, <3>2
    <3>. QED  BY <3>1, <3>3 DEF FilesOK
  <2>3. ASSUME NEW g \in File, file[g].ref > 0, FileClose(p, g)
        PROVE  \A f \in File : file'[f].ref = 0 => file'[f] = NoFile
    <3>1. \A f \in File : f # g => file'[f] = file[f]
      BY <2>0, <2>3 DEF FileClose
    <3>2. CASE LastClose(g)
      BY <2>0, <2>3, <3>1, <3>2 DEF FileClose, FilesOK
    <3>3. CASE ~LastClose(g)
      <4>a. file' = [file EXCEPT ![g].ref = @ - 1]
        BY <2>3, <3>3 DEF FileClose
      <4>1. file'[g].ref = file[g].ref - 1
        BY <2>0, <4>a
      <4>2. file[g].ref \in Nat /\ file[g].ref # 1 /\ file[g].ref > 0
        BY <2>0, <2>3, <3>3 DEF LastClose
      <4>3. file'[g].ref # 0
        BY <4>1, <4>2
      <4>. QED  BY <3>1, <4>3 DEF FilesOK
    <3>. QED  BY <3>2, <3>3
  <2>4. \A f \in File : file'[f].ref = 0 => file'[f] = NoFile
    <3>1. CASE PipeMade(p)
      <4>1. PICK rf, wf \in File, pi \in Page : Made(p, rf, wf, pi)
        BY <3>1, PipeMadeFacts
      <4>. QED  BY <4>1 DEF Made, FilesOK
    <3>2. ASSUME NEW fd \in Fd, SysDup(p, fd)
          PROVE  \A f \in File : file'[f].ref = 0 => file'[f] = NoFile
      <4>1. ofile[p][fd] \in File /\ file' = [file EXCEPT ![ofile[p][fd]].ref = @ + 1]
        BY <2>0, <3>2 DEF SysDup
      <4>. QED  BY <2>2, <4>1
    <3>3. CASE ForkFile(p)
      <4>1. CASE ToCopy(p) = {}
        BY <3>3, <4>1 DEF ForkFile, fileVars, FilesOK
      <4>2. CASE ToCopy(p) # {}
        <5>1. First(ToCopy(p)) \in ToCopy(p)
          BY <4>2, FirstFd DEF ToCopy
        <5>2. ofile[p][First(ToCopy(p))] \in File
          BY <2>0, <5>1 DEF ToCopy
        <5>. QED  BY <2>2, <3>3, <4>2, <5>2 DEF ForkFile, Dup
      <4>. QED  BY <4>1, <4>2
    <3>4. CASE CloseTodo(p)
      <4>1. todo[p] # <<>> /\ FileClose(p, Head(todo[p]))
        BY <3>4 DEF CloseTodo
      <4>2. 1 \in DOMAIN todo[p] /\ Head(todo[p]) = todo[p][1]
        BY <2>0, <4>1, EmptySeq
      <4>3. Head(todo[p]) \in File /\ file[Head(todo[p])].ref > 0
        BY <4>2, InUse
      <4>. QED  BY <2>3, <4>1, <4>3
    <3>5. CASE ExitFile(p)
      <4>. DEFINE fd == First(Fd \ FreeFds(p))
                  g == ofile[p][fd]
      <4>1. Fd \ FreeFds(p) # {} /\ FileClose(p, g)
        BY <3>5 DEF ExitFile, FreeFds
      <4>2. fd \in Fd \ FreeFds(p)
        BY <4>1, FirstFd
      <4>3. fd \in Fd /\ g # None
        BY <4>2 DEF FreeFds
      <4>4. g \in File /\ file[g].ref > 0
        BY <4>3, InUse
      <4>. HIDE DEF g
      <4>. QED  BY <2>3, <4>1, <4>4
    <3>6. CASE SysPipe(p) \/ PipeFails(p)
      BY <2>1, <3>6 DEF SysPipe, PipeFails, FilesOK
    <3>7. CASE file' = file
      BY <3>7 DEF FilesOK
    <3>8. \/ file' = file \/ SysPipe(p) \/ PipeFails(p) \/ PipeMade(p) \/ ForkFile(p)
          \/ CloseTodo(p) \/ ExitFile(p) \/ \E fd \in Fd : SysDup(p, fd)
      BY <1>2 DEF Others, PipeFds, PipeUndone, Fork, Exit, SysClose, Closed, PipeClose, SysRead,
         SysWrite, Start, fileVars
    <3>. QED  BY <3>1, <3>2, <3>3, <3>4, <3>5, <3>6, <3>7, <3>8
  <2>5. ASSUME NEW q \in Proc, NEW fd \in Fd, ofile'[q][fd] # None
        PROVE  file'[ofile'[q][fd]].pipe # None
    <3>1. CASE ofile[q][fd] # None
      <4>1. Keeps(p)
        BY <1>2, FileKept
      <4>. QED  BY <2>5, <3>1, <4>1 DEF Keeps, FilesOK
    <3>2. CASE ofile[q][fd] = None
      <4>1. CASE PipeFds(p)
        <5>1. PICK rf, wf \in File, fd0, fd1 \in Fd : Given(p, rf, wf, fd0, fd1)
          BY <4>1, PipeFdsFacts
        <5>2. ofile'[q][fd] \in {rf, wf}
          BY <2>5, <3>2, <5>1 DEF Given
        <5>. QED  BY <5>1, <5>2 DEF Given
      <4>2. ASSUME NEW g \in File, NEW r \in Proc, NEW d \in Fd, ofile[r][d] = g,
                   file' = [file EXCEPT ![g].ref = @ + 1], ofile'[q][fd] = g
            PROVE  file'[ofile'[q][fd]].pipe # None
        <5>1. file[g].pipe # None
          BY <4>2, InUse, PipeAssumption DEF FilesOK, File
        <5>. QED  BY <2>0, <4>2, <5>1
      <4>3. ASSUME NEW d \in Fd, SysDup(p, d) PROVE file'[ofile'[q][fd]].pipe # None
        <5>1. ofile[p][d] \in File /\ file' = [file EXCEPT ![ofile[p][d]].ref = @ + 1]
              /\ ofile' = [ofile EXCEPT ![p][First(FreeFds(p))] = ofile[p][d]]
          BY <2>0, <4>3 DEF SysDup
        <5>2. ofile'[q][fd] = ofile[p][d]
          BY <2>0, <2>5, <3>2, <5>1
        <5>. QED  BY <4>2, <5>1, <5>2
      <4>4. CASE ForkFile(p)
        <5>. DEFINE d == First(ToCopy(p))
        <5>1. ToCopy(p) # {}
          BY <2>5, <3>2, <4>4 DEF ForkFile, fileVars
        <5>2. d \in ToCopy(p)
          BY <5>1, FirstFd DEF ToCopy
        <5>a. d \in Fd /\ ofile[p][d] \in File
          BY <2>0, <5>2 DEF ToCopy
        <5>b. /\ file' = [file EXCEPT ![ofile[p][d]].ref = @ + 1]
              /\ ofile' = [ofile EXCEPT ![child[p]][d] = ofile[p][d]]
          BY <4>4, <5>1 DEF ForkFile, Dup
        <5>3. d \in Fd /\ ofile[p][d] \in File /\ file' = [file EXCEPT ![ofile[p][d]].ref = @ + 1]
              /\ ofile' = [ofile EXCEPT ![child[p]][d] = ofile[p][d]]
          BY <5>a, <5>b
        <5>. HIDE DEF d
        <5>4. ofile'[q][fd] = ofile[p][d]
          BY <2>0, <2>5, <3>2, <5>3
        <5>. QED  BY <4>2, <5>3, <5>4
      <4>5. CASE \E g \in Proc, d \in Fd : ofile' = [ofile EXCEPT ![g][d] = None]
        BY <2>0, <2>5, <3>2, <4>5
      <4>6. CASE ofile' = ofile
        BY <2>5, <3>2, <4>6
      <4>7. CASE ExitFile(p)
        <5>. DEFINE d == First(Fd \ FreeFds(p))
        <5>1. Fd \ FreeFds(p) # {} /\ ofile' = [ofile EXCEPT ![p][d] = None]
          BY <4>7 DEF ExitFile, FreeFds
        <5>2. d \in Fd \ FreeFds(p)
          BY <5>1, FirstFd
        <5>. HIDE DEF d
        <5>. QED  BY <4>5, <5>1, <5>2
      <4>8. \/ ofile' = ofile \/ PipeFds(p) \/ ForkFile(p) \/ ExitFile(p)
            \/ (\E d \in Fd : SysDup(p, d)) \/ \E d \in Fd : SysClose(p, d)
        BY <1>2, UndoneFacts DEF Others, SysPipe, PipeFails, PipeMade, Fork, Exit, CloseTodo, Closed,
           PipeClose, SysRead, SysWrite, Start, fileVars
      <4>9. ASSUME NEW d \in Fd, SysClose(p, d) PROVE ofile' = [ofile EXCEPT ![p][d] = None]
        BY <4>9 DEF SysClose
      <4>. QED  BY <4>1, <4>3, <4>4, <4>5, <4>6, <4>7, <4>8, <4>9
    <3>. QED  BY <3>1, <3>2
  <2>. QED  BY <2>4, <2>5 DEF FilesOK
<1>. QED  BY <1>1, <1>2, NextCases

LEMMA BusyStep ==
  ASSUME TypeOK, CallTypes, TodoOK, ForkOK, FilesOK, RefsExact, BusyOK, [Next]_vars
  PROVE  BusyOK'
<1>1. CASE PipeStep
  <2>1. UNCHANGED <<file, ofile>>
    BY <1>1 DEF PipeStep
  <2>. SUFFICES ASSUME NEW q \in Proc
                PROVE  /\ pc'[q] \in Reading => Has(q, "R")'
                       /\ pc'[q] \in Writing => Has(q, "W")'
                       /\ pc'[q] = "pipeclose" => at'[q] # None
    BY DEF BusyOK
  <2>2. \A e \in End : at'[q] = at[q] /\ Has(q, e) => Has(q, e)'
    BY <2>1 DEF Has
  <2>3. /\ pc'[q] \in Reading => pc[q] \in Reading /\ at'[q] = at[q]
        /\ pc'[q] \in Writing => pc[q] \in Writing /\ at'[q] = at[q]
        /\ pc'[q] = "pipeclose" => pc[q] = "pipeclose" /\ at'[q] = at[q]
    BY <1>1 DEF PipeStep, Reading, Writing
  <2>. QED  BY <2>2, <2>3 DEF BusyOK, End
<1>2. ASSUME NEW p \in Proc, Others(p) PROVE BusyOK'
  <2>0. pc \in [Proc -> Pc] /\ at \in [Proc -> Page \cup {None}]
    BY DEF TypeOK, CallTypes
  <2>1. ASSUME NEW q \in Proc, q # p
        PROVE  /\ pc'[q] \in Reading => Has(q, "R")'
               /\ pc'[q] \in Writing => Has(q, "W")'
               /\ pc'[q] = "pipeclose" => at'[q] # None
    <3>1. /\ pc'[q] \in Reading => pc[q] \in Reading
          /\ pc'[q] \in Writing => pc[q] \in Writing
          /\ pc'[q] = "pipeclose" => pc[q] = "pipeclose"
          /\ at'[q] = at[q]
      BY <1>2, <2>1, OtherPcs DEF Reading, Writing
    <3>2. Keeps(p)
      BY <1>2, FileKept
    <3>3. \A e \in End : Has(q, e) => Has(q, e)'
      BY <2>1, <3>1, <3>2 DEF Has, Keeps
    <3>. QED  BY <3>1, <3>3 DEF BusyOK, End
  <2>2. /\ pc'[p] \in Reading => Has(p, "R")'
        /\ pc'[p] \in Writing => Has(p, "W")'
        /\ pc'[p] = "pipeclose" => at'[p] # None
    <3>1. ASSUME NEW fd \in Fd, NEW n \in Count, SysRead(p, fd, n)
          PROVE  pc'[p] = "read" /\ Has(p, "R")'
      BY <2>0, <3>1 DEF SysRead, Start, Has, Goto, fileVars
    <3>2. ASSUME NEW fd \in Fd, NEW n \in Count, SysWrite(p, fd, n)
          PROVE  pc'[p] = "write" /\ Has(p, "W")'
      BY <2>0, <3>2 DEF SysWrite, Start, Has, Goto, fileVars
    <3>3. pc'[p] = "pipeclose" => at'[p] # None
      BY <1>2, OtherPcs
    <3>4. CASE CloseTodo(p) \/ ExitFile(p)
      <4>1. ASSUME NEW g, FileClose(p, g), pc[p] = "close"
            PROVE  pc'[p] \in {"close", "pipeclose"}
        BY <2>0, <4>1 DEF FileClose, Goto
      <4>2. pc'[p] \in {"close", "pipeclose"}
        BY <3>4, <4>1 DEF CloseTodo, ExitFile
      <4>. QED  BY <3>3, <4>2 DEF Reading, Writing
    <3>5. CASE PipeClose(p)
      <4>1. p \notin OtherSide(at[p], end[p])
        BY <3>5 DEF PipeClose, OtherSide, Readers, Writers
      <4>2. GotoWaking(p, "close", OtherSide(at[p], end[p]))
        BY <3>5 DEF PipeClose
      <4>3. pc'[p] = "close"
        BY <4>1, <4>2 DEF GotoWaking
      <4>. QED  BY <4>3 DEF Reading, Writing
    <3>6. CASE /\ ~CloseTodo(p) /\ ~ExitFile(p) /\ ~PipeClose(p)
               /\ ~\E fd \in Fd, n \in Count : SysRead(p, fd, n) \/ SysWrite(p, fd, n)
      <4>1. pc'[p] \in {"user", "unused", "pipe", "fdalloc", "close", "fork"}
        <5>1. ASSUME NEW q \in Proc, Fork(p, q) PROVE pc'[p] = "fork"
          BY <2>0, <5>1 DEF Fork, Calls
        <5>2. CASE ForkFile(p)
          BY <2>0, <5>2 DEF ForkFile, ForkOK
        <5>. QED  BY <1>2, <2>0, <3>6, <5>1, <5>2 DEF Others, SysPipe, PipeFails, PipeMade,
                  PipeFds, PipeUndone, SysDup, Exit, SysClose, Closed, Calls, Goto
      <4>. QED  BY <4>1 DEF Reading, Writing
    <3>. QED  BY <3>1, <3>2, <3>4, <3>5, <3>6 DEF Reading, Writing
  <2>. QED  BY <2>1, <2>2 DEF BusyOK
<1>. QED  BY <1>1, <1>2, NextCases
-----------------------------------------------------------------------------
(* Who has the ends of pipes *)

\* What a step may do with them: nothing; make both; hand one on from its
\* last reference to its pipeclose(); or close it.
EndsSame ==
  \A x \in Page, d \in End :
    /\ \A f \in File : IsEnd(f, x, d)' <=> IsEnd(f, x, d)
    /\ \A q \in Proc : Closes(q, x, d)' <=> Closes(q, x, d)
    /\ d \in pipe'[x].open <=> d \in pipe[x].open
EndsMade(pi, rf, wf) ==
  /\ pipe[pi].open = {}
  /\ \A x \in Page, d \in End :
       /\ \A f \in File : IsEnd(f, x, d)' <=> IsEnd(f, x, d) \/ (x = pi /\ f = IF d = "R" THEN rf ELSE wf)
       /\ \A q \in Proc : Closes(q, x, d)' <=> Closes(q, x, d)
       /\ d \in pipe'[x].open <=> x = pi \/ d \in pipe[x].open
EndsPassed(p, g, pi, e) ==
  /\ IsEnd(g, pi, e)
  /\ \A x \in Page, d \in End :
       /\ \A f \in File : IsEnd(f, x, d)' <=> IsEnd(f, x, d) /\ f # g
       /\ \A q \in Proc : Closes(q, x, d)' <=> Closes(q, x, d) \/ (q = p /\ x = pi /\ d = e)
       /\ d \in pipe'[x].open <=> d \in pipe[x].open
EndsClosed(p, pi, e) ==
  /\ Closes(p, pi, e)
  /\ \A x \in Page, d \in End :
       /\ \A f \in File : IsEnd(f, x, d)' <=> IsEnd(f, x, d)
       /\ \A q \in Proc : Closes(q, x, d)' <=> Closes(q, x, d) /\ q # p
       /\ d \in pipe'[x].open <=> d \in pipe[x].open /\ ~(x = pi /\ d = e)
EndsMove ==
  \/ EndsSame
  \/ \E pi \in Page, rf, wf \in File : rf # wf /\ EndsMade(pi, rf, wf)
  \/ \E p \in Proc, g \in File, pi \in Page, e \in End : EndsPassed(p, g, pi, e)
  \/ \E p \in Proc, pi \in Page, e \in End : EndsClosed(p, pi, e)

\* Another reference to a file, or one less that is not the last, or a new
\* file, changes no end.
LEMMA IsEndSame ==
  ASSUME TypeOK, FilesOK
  PROVE  /\ file' = file => \A x \in Page, d \in End, f \in File : IsEnd(f, x, d)' <=> IsEnd(f, x, d)
         /\ FreeFiles # {} /\ file' = Allocated =>
              \A x \in Page, d \in End, f \in File : IsEnd(f, x, d)' <=> IsEnd(f, x, d)
         /\ \A g \in File, n \in Nat \ {0} : file[g].ref > 0 /\ file' = [file EXCEPT ![g].ref = n] =>
              \A x \in Page, d \in End, f \in File : IsEnd(f, x, d)' <=> IsEnd(f, x, d)
<1>0. file \in [File -> FileType] /\ \A f \in File : file[f].ref \in Nat
  BY DEF TypeOK, FileType
<1>1. ASSUME NEW g \in File, NEW n \in Nat \ {0}, file' = [file EXCEPT ![g].ref = n]
      PROVE  /\ \A f \in File : f # g => file'[f] = file[f]
             /\ file'[g].ref > 0 /\ file'[g].pipe = file[g].pipe /\ file'[g].end = file[g].end
  BY <1>0, <1>1 DEF FileType
<1>2. ASSUME NEW g \in File, NEW n \in Nat \ {0}, file[g].ref > 0, file' = [file EXCEPT ![g].ref = n]
      PROVE  \A x \in Page, d \in End, f \in File : IsEnd(f, x, d)' <=> IsEnd(f, x, d)
  <2>1. /\ \A f \in File : f # g => file'[f] = file[f]
        /\ file'[g].ref > 0 /\ file'[g].pipe = file[g].pipe /\ file'[g].end = file[g].end
    BY <1>1, <1>2
  <2>. QED  BY <1>2, <2>1 DEF IsEnd
<1>3. ASSUME FreeFiles # {}, file' = Allocated
      PROVE  \A x \in Page, d \in End, f \in File : IsEnd(f, x, d)' <=> IsEnd(f, x, d)
  <2>1. PICK h \in File : file[h].ref = 0 /\ file' = [file EXCEPT ![h].ref = 1]
    BY <1>3, FirstFree DEF Allocated
  <2>2. /\ \A f \in File : f # h => file'[f] = file[f]
        /\ file'[h].pipe = file[h].pipe
    BY <1>1, <2>1
  <2>3. file[h].pipe = None
    BY <2>1 DEF FilesOK, NoFile
  <2>4. \A x \in Page, d \in End : ~IsEnd(h, x, d) /\ ~IsEnd(h, x, d)'
    BY <2>2, <2>3, PipeAssumption DEF IsEnd
  <2>5. \A x \in Page, d \in End, f \in File : f # h => (IsEnd(f, x, d)' <=> IsEnd(f, x, d))
    BY <2>2 DEF IsEnd
  <2>. QED  BY <2>4, <2>5
<1>. QED  BY <1>2, <1>3 DEF IsEnd

\* fileclose() passes an end on, or changes none.
LEMMA CloseEnds ==
  ASSUME TypeOK, CallTypes, FilesOK, NEW p \in Proc, NEW g \in File, file[g].ref > 0,
         FileClose(p, g), pc[p] = "close"
  PROVE  EndsMove
<1>0. /\ file \in [File -> FileType] /\ \A f \in File : file[f].ref \in Nat
      /\ pc \in [Proc -> Pc] /\ at \in [Proc -> Page \cup {None}] /\ end \in [Proc -> End]
      /\ file[g].pipe \in Page \cup {None} /\ file[g].end \in End /\ pipe' = pipe
  BY DEF TypeOK, CallTypes, FileType, FileClose, pipeVars
<1>1. CASE ~LastClose(g)
  <2>1. file' = [file EXCEPT ![g].ref = @ - 1] /\ UNCHANGED <<pc, at, end>>
    BY <1>1 DEF FileClose
  <2>2. file[g].ref - 1 \in Nat \ {0}
    BY <1>0, <1>1 DEF LastClose
  <2>3. \A x \in Page, d \in End, f \in File : IsEnd(f, x, d)' <=> IsEnd(f, x, d)
    <3>. DEFINE n == file[g].ref - 1
    <3>1. n \in Nat \ {0} /\ file' = [file EXCEPT ![g].ref = n]
      BY <2>1, <2>2
    <3>. HIDE DEF n
    <3>. QED  BY <3>1, IsEndSame
  <2>. QED  BY <1>0, <2>1, <2>3 DEF EndsMove, EndsSame, Closes
<1>2. CASE LastClose(g)
  <2>1. file' = [file EXCEPT ![g] = NoFile]
    BY <1>2 DEF FileClose
  <2>2. file'[g] = NoFile /\ \A f \in File : f # g => file'[f] = file[f]
    BY <1>0, <2>1
  <2>3. \A x \in Page, d \in End, f \in File : IsEnd(f, x, d)' <=> IsEnd(f, x, d) /\ f # g
    BY <2>2, PipeAssumption DEF IsEnd, NoFile
  <2>4. CASE file[g].pipe = None
    <3>1. UNCHANGED <<pc, at, end>>
      BY <1>2, <2>4 DEF FileClose
    <3>2. \A x \in Page, d \in End : ~IsEnd(g, x, d)
      BY <2>4, PipeAssumption DEF IsEnd
    <3>. QED  BY <1>0, <2>3, <3>1, <3>2 DEF EndsMove, EndsSame, Closes
  <2>5. CASE file[g].pipe # None
    <3>1. /\ pc' = [pc EXCEPT ![p] = "pipeclose"] /\ at' = [at EXCEPT ![p] = file[g].pipe]
          /\ end' = [end EXCEPT ![p] = file[g].end]
      BY <1>2, <2>5 DEF FileClose, Goto
    <3>2. /\ pc'[p] = "pipeclose" /\ at'[p] = file[g].pipe /\ end'[p] = file[g].end
          /\ \A q \in Proc : q # p => pc'[q] = pc[q] /\ at'[q] = at[q] /\ end'[q] = end[q]
      BY <1>0, <3>1
    <3>3. \A x \in Page, d \in End, q \in Proc :
            Closes(q, x, d)' <=> Closes(q, x, d) \/ (q = p /\ x = file[g].pipe /\ d = file[g].end)
      BY <3>2 DEF Closes
    <3>4. file[g].pipe \in Page /\ IsEnd(g, file[g].pipe, file[g].end)
      BY <1>0, <2>5 DEF IsEnd
    <3>. DEFINE pi == file[g].pipe
                e == file[g].end
    <3>5. /\ IsEnd(g, pi, e) /\ pi \in Page /\ e \in End
          /\ \A x \in Page, d \in End, q \in Proc :
               Closes(q, x, d)' <=> Closes(q, x, d) \/ (q = p /\ x = pi /\ d = e)
      BY <1>0, <3>3, <3>4
    <3>. HIDE DEF pi, e
    <3>6. EndsPassed(p, g, pi, e)
      BY <1>0, <2>3, <3>5 DEF EndsPassed
    <3>. QED  BY <3>5, <3>6 DEF EndsMove
  <2>. QED  BY <2>4, <2>5
<1>. QED  BY <1>1, <1>2

LEMMA EndsStep ==
  ASSUME TypeOK, CallTypes, TodoOK, ForkOK, FilesOK, RefsExact, BusyOK, EndOnce, [Next]_vars
  PROVE  EndsMove
<1>0. /\ file \in [File -> FileType] /\ ofile \in [Proc -> [Fd -> File \cup {None}]]
      /\ pipe \in [Page -> PipeType] /\ \A f \in File : file[f].ref \in Nat
      /\ pc \in [Proc -> Pc] /\ at \in [Proc -> Page \cup {None}] /\ end \in [Proc -> End]
      /\ todo \in [Proc -> Seq(File)]
  BY DEF TypeOK, CallTypes, FileType, PipeType
<1>1. CASE PipeStep
  <2>1. /\ UNCHANGED <<file, end>> /\ \A x \in Page : pipe'[x].open = pipe[x].open
        /\ \A q \in Proc : \/ pc'[q] = pc[q] /\ at'[q] = at[q]
                           \/ pc[q] # "pipeclose" /\ pc'[q] # "pipeclose"
    BY <1>1 DEF PipeStep, Reading, Writing
  <2>. QED  BY <2>1 DEF EndsMove, EndsSame, IsEnd, Closes
<1>2. ASSUME NEW p \in Proc, Others(p) PROVE EndsMove
  <2>1. /\ \A q \in Proc : q # p => /\ pc'[q] = "pipeclose" <=> pc[q] = "pipeclose"
                                    /\ at'[q] = at[q] /\ end'[q] = end[q]
    BY <1>2, OtherPcs
  <2>2. \A x \in Page, d \in End, q \in Proc : q # p => (Closes(q, x, d)' <=> Closes(q, x, d))
    BY <2>1 DEF Closes
  <2>3. ASSUME pc[p] # "pipeclose", pc'[p] # "pipeclose", pipe' = pipe,
               \A x \in Page, d \in End, f \in File : IsEnd(f, x, d)' <=> IsEnd(f, x, d)
        PROVE  EndsMove
    <3>1. \A x \in Page, d \in End, q \in Proc : Closes(q, x, d)' <=> Closes(q, x, d)
      BY <2>2, <2>3 DEF Closes
    <3>. QED  BY <2>3, <3>1 DEF EndsMove, EndsSame
  <2>4. CASE PipeMade(p)
    <3>1. PICK rf, wf \in File, pi \in Page : Made(p, rf, wf, pi)
      BY <2>4, PipeMadeFacts
    <3>2. pc[p] # "pipeclose" /\ pc'[p] # "pipeclose"
      BY <1>0, <2>4 DEF PipeMade, Goto
    <3>3. \A x \in Page, d \in End, q \in Proc : Closes(q, x, d)' <=> Closes(q, x, d)
      BY <2>2, <3>2 DEF Closes
    <3>4. rf # wf /\ pipe[pi].open = {}
      BY <3>1 DEF Made
    <3>5. \A x \in Page, d \in End : d \in pipe'[x].open <=> x = pi \/ d \in pipe[x].open
      BY <1>0, <3>1 DEF Made, FreePage
    <3>6. /\ file[rf].pipe = None /\ file[wf].ref = 0
          /\ file'[rf] = [ref |-> 1, pipe |-> pi, end |-> "R"]
          /\ file'[wf] = [ref |-> 1, pipe |-> pi, end |-> "W"]
          /\ \A f \in File : f # rf /\ f # wf => file'[f] = file[f]
      BY <3>1 DEF Made
    <3>7. \A x \in Page, d \in End, f \in File :
            IsEnd(f, x, d)' <=> IsEnd(f, x, d) \/ (x = pi /\ f = IF d = "R" THEN rf ELSE wf)
      <4>. SUFFICES ASSUME NEW x \in Page, NEW d \in End, NEW f \in File
                    PROVE  IsEnd(f, x, d)' <=>
                             IsEnd(f, x, d) \/ (x = pi /\ f = IF d = "R" THEN rf ELSE wf)
        OBVIOUS
      <4>1. CASE f # rf /\ f # wf
        BY <3>6, <4>1 DEF IsEnd
      <4>2. CASE f = rf
        BY <3>4, <3>6, <4>2, PipeAssumption DEF IsEnd, End
      <4>3. CASE f = wf
        BY <3>4, <3>6, <4>3 DEF IsEnd, End
      <4>. QED  BY <4>1, <4>2, <4>3
    <3>8. EndsMade(pi, rf, wf)
      BY <3>3, <3>4, <3>5, <3>7 DEF EndsMade
    <3>. QED  BY <3>4, <3>8 DEF EndsMove
  <2>5. CASE PipeClose(p)
    <3>1. /\ pc[p] = "pipeclose" /\ at[p] \in Page /\ end[p] \in End /\ UNCHANGED file
      BY <1>0, <2>5, AtPage DEF PipeClose, fileVars
    <3>2. GotoWaking(p, "close", OtherSide(at[p], end[p]))
      BY <2>5 DEF PipeClose
    <3>3. pc'[p] = "close"
      BY <3>1, <3>2, Woke, OtherSideSleeps
    <3>4. PICK pi \in Page, e \in End : pi = at[p] /\ e = end[p]
      BY <3>1
    <3>5. \A x \in Page, d \in End : d \in pipe'[x].open <=> d \in pipe[x].open /\ ~(x = pi /\ d = e)
      <4>1. CASE pipe[pi].open = {e}
        <5>1. pipe' = [pipe EXCEPT ![pi] = FreePage]
          BY <2>5, <3>4, <4>1 DEF PipeClose
        <5>. QED  BY <1>0, <4>1, <5>1 DEF FreePage
      <4>2. CASE pipe[pi].open # {e}
        <5>1. pipe' = [pipe EXCEPT ![pi].open = @ \ {e}]
          BY <2>5, <3>4, <4>2 DEF PipeClose
        <5>. QED  BY <1>0, <5>1 DEF PipeType
      <4>. QED  BY <4>1, <4>2
    <3>6. \A x \in Page, d \in End, q \in Proc : Closes(q, x, d)' <=> Closes(q, x, d) /\ q # p
      BY <2>2, <3>3 DEF Closes
    <3>7. Closes(p, pi, e)
      BY <3>1, <3>4 DEF Closes
    <3>8. \A x \in Page, d \in End, f \in File : IsEnd(f, x, d)' <=> IsEnd(f, x, d)
      BY <3>1, IsEndSame
    <3>9. EndsClosed(p, pi, e)
      BY <3>5, <3>6, <3>7, <3>8 DEF EndsClosed
    <3>. QED  BY <3>9 DEF EndsMove
  <2>6. CASE CloseTodo(p)
    <3>1. todo[p] # <<>> /\ FileClose(p, Head(todo[p])) /\ pc[p] = "close"
      BY <2>6 DEF CloseTodo
    <3>2. 1 \in DOMAIN todo[p] /\ Head(todo[p]) = todo[p][1]
      BY <1>0, <3>1, EmptySeq
    <3>3. Head(todo[p]) \in File /\ file[Head(todo[p])].ref > 0
      BY <3>2, InUse
    <3>. QED  BY <3>1, <3>3, CloseEnds
  <2>7. CASE ExitFile(p)
    <3>. DEFINE fd == First(Fd \ FreeFds(p))
                g == ofile[p][fd]
    <3>1. Fd \ FreeFds(p) # {} /\ FileClose(p, g) /\ pc[p] = "close"
      BY <2>7 DEF ExitFile, FreeFds
    <3>2. fd \in Fd \ FreeFds(p)
      BY <3>1, FirstFd
    <3>3. fd \in Fd /\ g # None
      BY <3>2 DEF FreeFds
    <3>4. g \in File /\ file[g].ref > 0
      BY <3>3, InUse
    <3>. HIDE DEF g
    <3>. QED  BY <3>1, <3>4, CloseEnds
  <2>8. ASSUME NEW g \in File, file[g].ref > 0, file' = [file EXCEPT ![g].ref = @ + 1]
        PROVE  \A x \in Page, d \in End, f \in File : IsEnd(f, x, d)' <=> IsEnd(f, x, d)
    <3>. DEFINE n == file[g].ref + 1
    <3>1. n \in Nat \ {0} /\ file' = [file EXCEPT ![g].ref = n]
      BY <1>0, <2>8
    <3>. HIDE DEF n
    <3>. QED  BY <2>8, <3>1, IsEndSame
  <2>9. ASSUME NEW fd \in Fd, SysDup(p, fd) PROVE EndsMove
    <3>1. /\ ofile[p][fd] # None /\ file' = [file EXCEPT ![ofile[p][fd]].ref = @ + 1]
          /\ pc[p] = "user" /\ pc' = pc /\ pipe' = pipe
      BY <2>9 DEF SysDup, Calls, pipeVars
    <3>2. ofile[p][fd] \in File /\ file[ofile[p][fd]].ref > 0
      BY <3>1, InUse
    <3>. QED  BY <2>3, <2>8, <3>1, <3>2
  <2>10. CASE ForkFile(p)
    <3>1. pc[p] = "fork" /\ pc'[p] # "pipeclose" /\ pipe' = pipe
      BY <1>0, <2>10 DEF ForkFile, ForkOK, pipeVars
    <3>2. CASE ToCopy(p) = {}
      <4>1. file' = file
        BY <2>10, <3>2 DEF ForkFile, fileVars
      <4>. QED  BY <2>3, <3>1, <4>1, IsEndSame
    <3>3. CASE ToCopy(p) # {}
      <4>1. PICK d \in ToCopy(p) : d = First(ToCopy(p))
        BY <3>3, FirstFd DEF ToCopy
      <4>2. d \in Fd /\ ofile[p][d] # None /\ file' = [file EXCEPT ![ofile[p][d]].ref = @ + 1]
        BY <2>10, <3>3, <4>1 DEF ForkFile, Dup, ToCopy
      <4>3. ofile[p][d] \in File /\ file[ofile[p][d]].ref > 0
        BY <4>2, InUse
      <4>. QED  BY <2>3, <2>8, <3>1, <4>2, <4>3
    <3>. QED  BY <3>2, <3>3
  <2>14. CASE PipeFds(p) \/ PipeUndone(p)
    <3>1. file' = file /\ pc[p] # "pipeclose" /\ pc'[p] # "pipeclose" /\ pipe' = pipe
      BY <1>0, <2>14 DEF PipeFds, PipeUndone, Goto, pipeVars
    <3>. QED  BY <2>3, <3>1, IsEndSame
  <2>11. CASE SysPipe(p) \/ PipeFails(p)
    <3>1. /\ pc[p] # "pipeclose" /\ pc'[p] # "pipeclose" /\ pipe' = pipe
          /\ file' = file \/ (FreeFiles # {} /\ file' = Allocated)
      BY <1>0, <2>11 DEF SysPipe, PipeFails, Calls, Goto, pipeVars
    <3>. QED  BY <2>3, <3>1, IsEndSame
  <2>12. CASE /\ file' = file /\ pc[p] # "pipeclose" /\ pc'[p] # "pipeclose" /\ pipe' = pipe
    BY <2>3, <2>12, IsEndSame
  <2>13. CASE \/ (\E q \in Proc : Fork(p, q)) \/ Exit(p) \/ Closed(p)
              \/ (\E fd \in Fd : SysClose(p, fd))
              \/ (\E fd \in Fd, n \in Count : SysRead(p, fd, n) \/ SysWrite(p, fd, n))
    <3>1. file' = file /\ pc[p] # "pipeclose" /\ pipe' = pipe
      BY <2>13 DEF Fork, Exit, Closed, SysClose, SysRead, SysWrite, Start, Calls, fileVars, pipeVars
    <3>2. pc'[p] # "pipeclose"
      BY <1>0, <2>13 DEF Fork, Exit, Closed, SysClose, SysRead, SysWrite, Start, Calls, Goto
    <3>. QED  BY <2>12, <3>1, <3>2
  <2>. QED  BY <1>2, <2>4, <2>5, <2>6, <2>7, <2>9, <2>10, <2>11, <2>13, <2>14 DEF Others
<1>. QED  BY <1>1, <1>2, NextCases

LEMMA EndOnceStep ==
  ASSUME EndOnce, OpenOK, EndsMove
  PROVE  EndOnce'
<1>1. CASE EndsSame
  BY <1>1 DEF EndOnce, EndsSame
<1>2. ASSUME NEW pi \in Page, NEW rf \in File, NEW wf \in File, rf # wf, EndsMade(pi, rf, wf)
      PROVE  EndOnce'
  <2>1. \A d \in End : /\ \A f \in File : ~IsEnd(f, pi, d)
                       /\ \A q \in Proc : ~Closes(q, pi, d)
    BY <1>2 DEF EndsMade, OpenOK
  <2>. QED  BY <1>2, <2>1 DEF EndsMade, EndOnce
<1>3. ASSUME NEW p \in Proc, NEW g \in File, NEW pi \in Page, NEW e \in End, EndsPassed(p, g, pi, e)
      PROVE  EndOnce'
  BY <1>3 DEF EndsPassed, EndOnce
<1>4. ASSUME NEW p \in Proc, NEW pi \in Page, NEW e \in End, EndsClosed(p, pi, e)
      PROVE  EndOnce'
  BY <1>4 DEF EndsClosed, EndOnce
<1>. QED  BY <1>1, <1>2, <1>3, <1>4 DEF EndsMove

LEMMA OpenStep ==
  ASSUME EndOnce, OpenOK, EndsMove
  PROVE  OpenOK'
<1>1. CASE EndsSame
  BY <1>1 DEF OpenOK, EndsSame
<1>2. ASSUME NEW pi \in Page, NEW rf \in File, NEW wf \in File, rf # wf, EndsMade(pi, rf, wf)
      PROVE  OpenOK'
  BY <1>2 DEF EndsMade, OpenOK
<1>3. ASSUME NEW p \in Proc, NEW g \in File, NEW pi \in Page, NEW e \in End, EndsPassed(p, g, pi, e)
      PROVE  OpenOK'
  <2>1. \A x \in Page, d \in End : IsEnd(g, x, d) => x = pi /\ d = e
    BY <1>3 DEF EndsPassed, IsEnd
  <2>. QED  BY <1>3, <2>1 DEF EndsPassed, OpenOK
<1>4. ASSUME NEW p \in Proc, NEW pi \in Page, NEW e \in End, EndsClosed(p, pi, e)
      PROVE  OpenOK'
  <2>1. \A x \in Page, d \in End : Closes(p, x, d) => x = pi /\ d = e
    BY <1>4 DEF EndsClosed, Closes
  <2>2. /\ \A f \in File : ~IsEnd(f, pi, e)
        /\ \A q \in Proc : Closes(q, pi, e) => q = p
    BY <1>4 DEF EndsClosed, EndOnce
  <2>. QED  BY <1>4, <2>1, <2>2 DEF EndsClosed, OpenOK
<1>. QED  BY <1>1, <1>2, <1>3, <1>4 DEF EndsMove
-----------------------------------------------------------------------------
(* What pipes hold *)

\* Counters wrap at MOD: their sum and difference come back into range once.
LEMMA WrapSum ==
  ASSUME NEW a \in 0..(MOD-1), NEW k \in 0..(MOD-1)
  PROVE  Wrap(a + k) = IF a + k < MOD THEN a + k ELSE a + k - MOD
<1>1. MOD \in Nat \ {0} /\ a \in Nat /\ k \in Nat /\ a < MOD /\ k < MOD
  BY Sizes
<1>2. ASSUME NEW m \in Nat \ {0}, NEW x \in Nat, NEW y \in Nat, x < m, y < m
      PROVE  (x + y) % m = IF x + y < m THEN x + y ELSE x + y - m
  BY <1>2
<1>. QED  BY <1>1, <1>2 DEF Wrap

LEMMA WrapDifference ==
  ASSUME NEW a \in 0..(MOD-1), NEW b \in 0..(MOD-1)
  PROVE  Wrap(a - b) = IF b <= a THEN a - b ELSE a - b + MOD
<1>1. MOD \in Nat \ {0} /\ a \in Nat /\ b \in Nat /\ a < MOD /\ b < MOD
  BY Sizes
<1>2. ASSUME NEW m \in Nat \ {0}, NEW x \in Nat, NEW y \in Nat, x < m, y < m
      PROVE  (x - y) % m = IF y <= x THEN x - y ELSE x - y + m
  BY <1>2
<1>. QED  BY <1>1, <1>2 DEF Wrap

\* Taking k of the bytes leaves that many fewer, and putting one makes one more.
LEMMA UsedLess ==
  ASSUME NEW r \in 0..(MOD-1), NEW w \in 0..(MOD-1), NEW k \in 0..Wrap(w - r)
  PROVE  Wrap(w - Wrap(r + k)) = Wrap(w - r) - k
<1>0. MOD \in Nat \ {0}
  BY Sizes
<1>1. Wrap(w - r) = IF r <= w THEN w - r ELSE w - r + MOD
  BY WrapDifference
<1>2. k \in 0..(MOD-1)
  BY <1>0, <1>1
<1>3. Wrap(r + k) = IF r + k < MOD THEN r + k ELSE r + k - MOD
  BY <1>2, WrapSum
<1>. DEFINE s == Wrap(r + k)
<1>4. s \in 0..(MOD-1)
  BY <1>0, <1>2, <1>3
<1>5. s = IF r + k < MOD THEN r + k ELSE r + k - MOD
  BY <1>3
<1>. HIDE DEF s
<1>6. Wrap(w - s) = IF s <= w THEN w - s ELSE w - s + MOD
  BY <1>4, WrapDifference
<1>7. Wrap(w - s) = Wrap(w - r) - k
  BY <1>0, <1>1, <1>2, <1>5, <1>6
<1>. QED  BY <1>7 DEF s

LEMMA UsedMore ==
  ASSUME NEW r \in 0..(MOD-1), NEW w \in 0..(MOD-1), Wrap(w - r) < MOD - 1
  PROVE  Wrap(Wrap(w + 1) - r) = Wrap(w - r) + 1
<1>0. MOD \in Nat \ {0} /\ MOD > 1
  BY Sizes
<1>1. Wrap(w - r) = IF r <= w THEN w - r ELSE w - r + MOD
  BY WrapDifference
<1>2. Wrap(w + 1) = IF w + 1 < MOD THEN w + 1 ELSE w + 1 - MOD
  BY <1>0, WrapSum
<1>. DEFINE s == Wrap(w + 1)
<1>3. s \in 0..(MOD-1) /\ s = IF w + 1 < MOD THEN w + 1 ELSE w + 1 - MOD
  BY <1>0, <1>2
<1>. HIDE DEF s
<1>4. Wrap(s - r) = IF r <= s THEN s - r ELSE s - r + MOD
  BY <1>3, WrapDifference
<1>5. Wrap(s - r) = Wrap(w - r) + 1
  BY <1>0, <1>1, <1>3, <1>4
<1>. QED  BY <1>5 DEF s

\* The tests of the code, in terms of what the pipe holds.
LEMMA Levels ==
  ASSUME TypeOK, NEW pi \in Page
  PROVE  /\ Empty(pi) <=> Used(pi) = 0
         /\ Full(pi) <=> Used(pi) = PIPESIZE
<1>. DEFINE r == pipe[pi].nread
            w == pipe[pi].nwrite
<1>0. r \in 0..(MOD-1) /\ w \in 0..(MOD-1) /\ PIPESIZE \in 0..(MOD-1) /\ MOD \in Nat /\ PIPESIZE > 0
  BY PipeTypes, Sizes
<1>1. Empty(pi) <=> r = w
  BY DEF Empty
<1>2. Full(pi) <=> w = Wrap(r + PIPESIZE)
  BY DEF Full
<1>3. Used(pi) = Wrap(w - r)
  BY DEF Used
<1>. HIDE DEF r, w
<1>4. Wrap(w - r) = IF r <= w THEN w - r ELSE w - r + MOD
  BY <1>0, WrapDifference
<1>5. Wrap(r + PIPESIZE) = IF r + PIPESIZE < MOD THEN r + PIPESIZE ELSE r + PIPESIZE - MOD
  BY <1>0, WrapSum
<1>. QED  BY <1>0, <1>1, <1>2, <1>3, <1>4, <1>5

LEMMA UsedTakes ==
  ASSUME TypeOK, NEW pi \in Page, NEW k \in Nat, Takes(pi, k)
  PROVE  /\ Used(pi)' = Used(pi) - k
         /\ \A x \in Page : x # pi => Used(x)' = Used(x)
<1>1. /\ pipe'[pi].nwrite = pipe[pi].nwrite /\ pipe'[pi].nread = Wrap(pipe[pi].nread + k)
      /\ k \in 0..Used(pi)
  BY DEF Takes
<1>2. pipe[pi].nread \in 0..(MOD-1) /\ pipe[pi].nwrite \in 0..(MOD-1)
  BY PipeTypes
<1>3. Used(pi)' = Wrap(pipe'[pi].nwrite - pipe'[pi].nread) /\ Used(pi) = Wrap(pipe[pi].nwrite - pipe[pi].nread)
  BY DEF Used, Wrap
<1>4. Wrap(pipe[pi].nwrite - Wrap(pipe[pi].nread + k)) = Used(pi) - k
  BY <1>1, <1>2, <1>3, UsedLess
<1>5. \A x \in Page : x # pi => Used(x)' = Used(x)
  BY DEF Takes, Used, Wrap
<1>. QED  BY <1>1, <1>3, <1>4, <1>5

LEMMA UsedPuts ==
  ASSUME TypeOK, NEW pi \in Page, NEW b \in Byte, Puts(pi, b), Used(pi) < PIPESIZE
  PROVE  /\ Used(pi)' = Used(pi) + 1
         /\ \A x \in Page : x # pi => Used(x)' = Used(x)
<1>1. /\ pipe'[pi].nread = pipe[pi].nread /\ pipe'[pi].nwrite = Wrap(pipe[pi].nwrite + 1)
  BY DEF Puts
<1>2. /\ pipe[pi].nread \in 0..(MOD-1) /\ pipe[pi].nwrite \in 0..(MOD-1)
      /\ Used(pi) < MOD - 1
  <2>1. /\ pipe[pi].nread \in 0..(MOD-1) /\ pipe[pi].nwrite \in 0..(MOD-1) /\ Used(pi) \in 0..(MOD-1)
    BY PipeTypes
  <2>2. Used(pi) \in Nat /\ MOD \in Nat /\ PIPESIZE \in Nat /\ PIPESIZE < MOD
    BY <2>1, Bounds
  <2>3. Used(pi) < MOD - 1
    BY <2>2
  <2>. QED  BY <2>1, <2>3
<1>3. Used(pi)' = Wrap(pipe'[pi].nwrite - pipe'[pi].nread) /\ Used(pi) = Wrap(pipe[pi].nwrite - pipe[pi].nread)
  BY DEF Used, Wrap
<1>4. Wrap(Wrap(pipe[pi].nwrite + 1) - pipe[pi].nread) = Used(pi) + 1
  BY <1>2, <1>3, UsedMore
<1>5. \A x \in Page : x # pi => Used(x)' = Used(x)
  BY DEF Puts, Used, Wrap
<1>. QED  BY <1>1, <1>3, <1>4, <1>5

\* A byte is only put where there is room.
LEMMA RoomToPut ==
  ASSUME TypeOK, RoomOK, NEW p \in Proc, at[p] \in Page, MayPut(p)
  PROVE  Used(at[p]) < PIPESIZE
<1>1. ~Full(at[p]) /\ Used(at[p]) <= PIPESIZE /\ Used(at[p]) \in 0..(MOD-1) /\ PIPESIZE \in Nat
  BY PipeTypes, Sizes DEF MayPut, RoomOK
<1>. QED  BY <1>1, Levels

\* An empty page.
LEMMA FreshUsed ==
  ASSUME NEW x, pipe'[x].nread = 0, pipe'[x].nwrite = 0
  PROVE  Used(x)' = 0
<1>1. Used(x)' = Wrap(0 - 0)
  BY DEF Used, Wrap
<1>2. 0 \in 0..(MOD-1)
  BY Sizes
<1>3. Wrap(0 - 0) = 0
  BY <1>2, WrapDifference
<1>. QED  BY <1>1, <1>3

\* The steps that change a pipe.
LEMMA PipeSteps ==
  ASSUME NEW p \in Proc, Moves(p) \/ Others(p) \/ Kill(p)
  PROVE  \/ pipe' = pipe \/ ReadCopy(p) \/ (\E b \in Byte : WriteByte(p, b))
         \/ PipeMade(p) \/ PipeClose(p)
BY DEF Kill, Moves, ReadKilled, ReadWaits, ReadSleep, WriteRefused, WriteWaits, WriteSleep,
         WriteEnds, Sleep, Others, SysPipe, PipeFails, PipeFds, PipeUndone, SysDup, Fork, ForkFile,
         Exit, SysClose, CloseTodo, ExitFile, FileClose, Closed, SysRead, SysWrite, Start, pipeVars

LEMMA RoomStep ==
  ASSUME TypeOK, CallTypes, TodoOK, FilesOK, BusyOK, RoomOK, [Next]_vars
  PROVE  RoomOK'
<1>0. pipe \in [Page -> PipeType]
  BY DEF TypeOK, PipeType
<1>1. CASE pipe' = pipe
  BY <1>1 DEF RoomOK, Used, Wrap
<1>2. ASSUME NEW p \in Proc, ReadCopy(p) PROVE RoomOK'
  <2>1. at[p] \in Page
    BY <1>2, AtPage DEF ReadCopy, Reading
  <2>2. PICK k \in Nat : Takes(at[p], k)
    BY <1>2, <2>1, ReadTakes
  <2>3. PICK x \in Page : x = at[p]
    BY <2>1
  <2>4. Used(x)' = Used(x) - k /\ Used(x) \in Nat /\ Used(x) <= PIPESIZE /\ PIPESIZE \in Nat
    <3>1. Used(x)' = Used(x) - k
      BY <2>2, <2>3, UsedTakes
    <3>2. Used(x) \in Nat /\ PIPESIZE \in Nat
      BY <2>3, PipeTypes, Bounds
    <3>. QED  BY <3>1, <3>2 DEF RoomOK
  <2>5. \A y \in Page : y # x => Used(y)' = Used(y)
    BY <2>2, <2>3, UsedTakes
  <2>6. Used(x)' <= PIPESIZE
    BY <2>4
  <2>. QED  BY <2>5, <2>6 DEF RoomOK
<1>3. ASSUME NEW p \in Proc, NEW b \in Byte, WriteByte(p, b) PROVE RoomOK'
  <2>1. at[p] \in Page
    BY <1>3, AtPage DEF WriteByte, Writing
  <2>2. Puts(at[p], b) /\ Used(at[p]) < PIPESIZE
    BY <1>3, <2>1, WritePuts, RoomToPut DEF WriteByte
  <2>3. PICK x \in Page : x = at[p]
    BY <2>1
  <2>4. Used(x)' = Used(x) + 1 /\ Used(x) \in Nat /\ Used(x) < PIPESIZE /\ PIPESIZE \in Nat
    <3>1. Used(x)' = Used(x) + 1 /\ Used(x) < PIPESIZE
      BY <2>2, <2>3, UsedPuts
    <3>2. Used(x) \in Nat /\ PIPESIZE \in Nat
      BY <2>3, PipeTypes, Bounds
    <3>. QED  BY <3>1, <3>2
  <2>5. \A y \in Page : y # x => Used(y)' = Used(y)
    BY <2>2, <2>3, UsedPuts
  <2>6. Used(x)' <= PIPESIZE
    BY <2>4
  <2>. QED  BY <2>5, <2>6 DEF RoomOK
<1>4. ASSUME NEW x \in Page, pipe'[x].nread = 0, pipe'[x].nwrite = 0,
             \A y \in Page : y # x => pipe'[y] = pipe[y]
      PROVE  RoomOK'
  <2>1. Used(x)' <= PIPESIZE
    BY <1>4, FreshUsed, Sizes
  <2>2. \A y \in Page : y # x => Used(y)' = Used(y)
    BY <1>4 DEF Used, Wrap
  <2>. QED  BY <2>1, <2>2 DEF RoomOK
<1>5. ASSUME NEW p \in Proc, PipeMade(p) PROVE RoomOK'
  <2>1. PICK rf, wf \in File, pi \in Page : Made(p, rf, wf, pi)
    BY <1>5, PipeMadeFacts
  <2>2. pipe' = [pipe EXCEPT ![pi] = [FreePage EXCEPT !.open = End]]
    BY <2>1 DEF Made
  <2>. QED  BY <1>0, <1>4, <2>2 DEF FreePage
<1>6. ASSUME NEW p \in Proc, PipeClose(p) PROVE RoomOK'
  <2>1. at[p] \in Page
    BY <1>6, AtPage DEF PipeClose
  <2>2. CASE pipe[at[p]].open = {end[p]}
    <3>1. pipe' = [pipe EXCEPT ![at[p]] = FreePage]
      BY <1>6, <2>2 DEF PipeClose
    <3>. QED  BY <1>0, <1>4, <2>1, <3>1 DEF FreePage
  <2>3. CASE pipe[at[p]].open # {end[p]}
    <3>1. pipe' = [pipe EXCEPT ![at[p]].open = @ \ {end[p]}]
      BY <1>6, <2>3 DEF PipeClose
    <3>2. \A y \in Page : pipe'[y].nread = pipe[y].nread /\ pipe'[y].nwrite = pipe[y].nwrite
      BY <1>0, <2>1, <3>1 DEF PipeType
    <3>. QED  BY <3>2 DEF RoomOK, Used, Wrap
  <2>. QED  BY <2>2, <2>3
<1>7. ASSUME NEW p \in Proc, Moves(p) \/ Others(p) \/ Kill(p)
      PROVE  \/ pipe' = pipe \/ ReadCopy(p) \/ (\E b \in Byte : WriteByte(p, b))
             \/ PipeMade(p) \/ PipeClose(p)
  BY <1>7, PipeSteps
<1>8. UNCHANGED vars \/ \E p \in Proc : Moves(p) \/ Others(p) \/ Kill(p)
  BY DEF Next, User, Kernel, Moves, Others
<1>. QED  BY <1>1, <1>2, <1>3, <1>5, <1>6, <1>7, <1>8 DEF vars, pipeVars
-----------------------------------------------------------------------------
(* Who sleeps, and who wakes him *)

\* SleepOK and SleepersHaveWakers, as they concern one process.
SleepsWell(q) ==
  /\ pc[q] = "rblock" => lock[at[q]] = q /\ Empty(at[q]) /\ "W" \in pipe[at[q]].open
  /\ pc[q] = "wblock" => /\ lock[at[q]] = q /\ Full(at[q]) /\ "R" \in pipe[at[q]].open
                         /\ \A r \in Proc : ~(pc[r] = "rsleep" /\ at[r] = at[q])
  /\ pc[q] = "rsleep" => /\ "W" \in pipe[at[q]].open
                         /\ Empty(at[q]) \/ lock[at[q]] # None \/ at[q] \in cut
  /\ pc[q] = "wsleep" => Full(at[q]) /\ "R" \in pipe[at[q]].open

LEMMA SleepIsWell ==
  SleepOK /\ SleepersHaveWakers <=> \A q \in Proc : SleepsWell(q)
<1>1. ASSUME SleepOK, SleepersHaveWakers, NEW q \in Proc PROVE SleepsWell(q)
  BY <1>1 DEF SleepOK, SleepersHaveWakers, ReaderHasWaker, WriterHasWaker, SleepsWell, ReaderWaits, Readers
<1>2. ASSUME \A q \in Proc : SleepsWell(q) PROVE SleepOK /\ SleepersHaveWakers
  <2>1. ASSUME NEW q \in Proc, pc[q] = "wblock" PROVE Readers(at[q]) = {}
    BY <1>2, <2>1 DEF SleepsWell, Readers
  <2>. QED  BY <1>2, <2>1 DEF SleepOK, SleepersHaveWakers, ReaderHasWaker, WriterHasWaker, SleepsWell,
       ReaderWaits
<1>. QED  BY <1>1, <1>2

\* A step inside a pipe changes nothing of another one.
LEMMA MovesElsewhere ==
  ASSUME TypeOK, CallTypes, FilesOK, BusyOK, NEW p \in Proc, Moves(p)
  PROVE  /\ at[p] \in Page /\ at'[p] \in {at[p], None}
         /\ \A x \in Page : x # at[p] => /\ pipe'[x] = pipe[x] /\ lock'[x] = lock[x]
                                         /\ x \in cut' <=> x \in cut
         /\ \A q \in Proc : q # p =>
              /\ at'[q] = at[q] /\ (at[q] # at[p] => pc'[q] = pc[q])
              /\ \/ pc'[q] = pc[q]
                 \/ pc[q] = "rsleep" /\ pc'[q] = "read"
                 \/ pc[q] = "wsleep" /\ pc'[q] = "write"
<1>0. /\ pc \in [Proc -> Pc] /\ at \in [Proc -> Page \cup {None}]
      /\ lock \in [Page -> Proc \cup {None}] /\ pipe \in [Page -> PipeType]
  BY DEF TypeOK, CallTypes, PipeType
<1>1. at[p] \in Page
  <2>1. pc[p] \in Reading \cup Writing
    BY DEF Moves, ReadKilled, ReadWaits, ReadSleep, ReadCopy, WriteRefused, WriteWaits, WriteSleep,
           WriteByte, WriteEnds, Sleep, Reading, Writing
  <2>. QED  BY <2>1, AtPage
<1>2. at' = at \/ at' = [at EXCEPT ![p] = None]
  BY DEF Moves, ReadKilled, ReadWaits, ReadSleep, ReadCopy, WriteRefused, WriteWaits, WriteSleep,
           WriteByte, WriteEnds, Sleep, Return, callVars
<1>3. \E l \in {None, p} : lock' = [lock EXCEPT ![at[p]] = l]
  BY DEF Moves, ReadKilled, ReadWaits, ReadSleep, ReadCopy, WriteRefused, WriteWaits, WriteSleep,
           WriteByte, WriteEnds, Sleep, Return
<1>4. cut' \in {cut, cut \cup {at[p]}, cut \ {at[p]}}
  BY DEF Moves, ReadKilled, ReadWaits, ReadSleep, ReadCopy, WriteRefused, WriteWaits, WriteSleep,
           WriteByte, WriteEnds, Sleep
<1>5. \A x \in Page : x # at[p] => pipe'[x] = pipe[x]
  <2>1. CASE ReadCopy(p)
    BY <1>1, <2>1, ReadTakes DEF Takes
  <2>2. ASSUME NEW b \in Byte, WriteByte(p, b) PROVE \A x \in Page : x # at[p] => pipe'[x] = pipe[x]
    BY <1>1, <2>2, WritePuts DEF Puts
  <2>3. CASE pipe' = pipe
    BY <2>3
  <2>4. ReadCopy(p) \/ (\E b \in Byte : WriteByte(p, b)) \/ pipe' = pipe
    BY DEF Moves, ReadKilled, ReadWaits, ReadSleep, WriteRefused, WriteWaits, WriteSleep,
           WriteEnds, Sleep
  <2>. QED  BY <2>1, <2>2, <2>3, <2>4
<1>6. \A q \in Proc : q # p =>
        /\ at[q] # at[p] => pc'[q] = pc[q]
        /\ \/ pc'[q] = pc[q]
           \/ pc[q] = "rsleep" /\ pc'[q] = "read"
           \/ pc[q] = "wsleep" /\ pc'[q] = "write"
  <2>1. ASSUME NEW l, NEW S, GotoWaking(p, l, S), S \subseteq Readers(at[p]) \cup Writers(at[p]),
               pc[p] \in {"read", "write"}
        PROVE  \A q \in Proc : q # p =>
                 /\ at[q] # at[p] => pc'[q] = pc[q]
                 /\ \/ pc'[q] = pc[q]
                    \/ pc[q] = "rsleep" /\ pc'[q] = "read"
                    \/ pc[q] = "wsleep" /\ pc'[q] = "write"
    <3>1. \A q \in S : pc[q] \in {"rsleep", "wsleep"} /\ at[q] = at[p]
      BY <2>1 DEF Readers, Writers
    <3>2. \A q \in Proc : q # p =>
            pc'[q] = IF q \in S THEN IF pc[q] = "rsleep" THEN "read" ELSE "write" ELSE pc[q]
      BY <2>1, <3>1, Woke
    <3>. QED  BY <3>1, <3>2
  <2>2. ASSUME NEW l, pc' = [pc EXCEPT ![p] = l] PROVE \A q \in Proc : q # p => pc'[q] = pc[q]
    BY <1>0, <2>2
  <2>3. CASE ReadWaits(p) \/ ReadSleep(p) \/ WriteSleep(p)
    BY <2>2, <2>3 DEF ReadWaits, ReadSleep, WriteSleep, Sleep, Goto
  <2>4. CASE ReadKilled(p) \/ WriteRefused(p)
    BY <2>1, <2>4 DEF ReadKilled, WriteRefused, Return
  <2>5. CASE ReadCopy(p)
    <3>1. pc[p] = "read" /\ GotoWaking(p, "user", Writers(at[p]))
      BY <2>5 DEF ReadCopy, Return, Woken
    <3>. QED  BY <2>1, <3>1
  <2>6. CASE WriteWaits(p) \/ WriteEnds(p)
    BY <2>1, <2>6 DEF WriteWaits, WriteEnds, Return, Announced
  <2>7. ASSUME NEW b \in Byte, WriteByte(p, b) PROVE pc' = pc
    BY <2>7 DEF WriteByte
  <2>. QED  BY <2>3, <2>4, <2>5, <2>6, <2>7 DEF Moves
<1>7. at'[p] \in {at[p], None} /\ \A q \in Proc : q # p => at'[q] = at[q]
  BY <1>0, <1>2
<1>8. \A x \in Page : x # at[p] => lock'[x] = lock[x] /\ (x \in cut' <=> x \in cut)
  BY <1>0, <1>3, <1>4
<1>. QED  BY <1>1, <1>5, <1>6, <1>7, <1>8

\* A process that keeps or awaits something in a pipe where nothing happens.
LEMMA WellElsewhere ==
  ASSUME NEW q \in Proc, SleepsWell(q), pc'[q] = pc[q], at'[q] = at[q],
         pipe'[at[q]] = pipe[at[q]], lock'[at[q]] = lock[at[q]], at[q] \in cut' <=> at[q] \in cut,
         \A r \in Proc : pc'[r] = "rsleep" /\ at'[r] = at[q] => pc[r] = "rsleep" /\ at[r] = at[q]
  PROVE  SleepsWell(q)'
BY DEF SleepsWell, Empty, Full, Wrap

\* A process that is in none of these places.
LEMMA WellAwake ==
  ASSUME NEW q \in Proc, pc'[q] \notin {"rblock", "wblock", "rsleep", "wsleep"}
  PROVE  SleepsWell(q)'
BY DEF SleepsWell

\* A step of another process in the same pipe: it finds the lock free or its
\* own, and wakes whom it must.
LEMMA WellBeside ==
  ASSUME TypeOK, CallTypes, FilesOK, BusyOK, SleepOK, SleepersHaveWakers, RoomOK,
         NEW p \in Proc, Moves(p), NEW q \in Proc, q # p, at[q] = at[p]
  PROVE  SleepsWell(q)'
<1>0. /\ pc \in [Proc -> Pc] /\ at \in [Proc -> Page \cup {None}]
      /\ lock \in [Page -> Proc \cup {None}] /\ pipe \in [Page -> PipeType]
      /\ None \notin Proc /\ LockOK
  BY PipeAssumption DEF TypeOK, CallTypes, PipeType, LockOK
<1>1. /\ at[p] \in Page /\ at'[q] = at[q]
      /\ \/ pc'[q] = pc[q]
         \/ pc[q] = "rsleep" /\ pc'[q] = "read"
         \/ pc[q] = "wsleep" /\ pc'[q] = "write"
  BY MovesElsewhere
<1>2. SleepsWell(p) /\ SleepsWell(q)
  BY SleepIsWell
<1>3. PICK x \in Page : x = at[p]
  BY <1>1
<1>4. at[p] = x /\ at[q] = x /\ at'[q] = x
  BY <1>1, <1>3
<1>5. lock[x] \in {None, p}
  <2>1. CASE ReadSleep(p) \/ WriteSleep(p)
    BY <1>2, <1>4, <2>1 DEF ReadSleep, WriteSleep, Sleep, SleepsWell
  <2>2. CASE MayLock(p)
    BY <1>4, <2>2 DEF MayLock
  <2>3. MayLock(p) \/ ReadSleep(p) \/ WriteSleep(p)
    BY DEF Moves, ReadKilled, ReadWaits, ReadCopy, WriteRefused, WriteWaits, WriteByte, WriteEnds
  <2>. QED  BY <2>1, <2>2, <2>3
<1>6. CASE pc'[q] \notin {"rsleep", "wsleep"}
  <2>1. pc[q] \notin {"rblock", "wblock"}
    BY <1>0, <1>2, <1>4, <1>5 DEF SleepsWell
  <2>2. pc'[q] \notin {"rblock", "wblock"}
    BY <1>1, <2>1
  <2>. QED  BY <1>6, <2>2, WellAwake
<1>7. CASE pc'[q] = "rsleep"
  <2>1. pc[q] = "rsleep" /\ q \in Readers(x)
    BY <1>1, <1>4, <1>7 DEF Readers
  <2>2. "W" \in pipe[x].open /\ (Empty(x) \/ lock[x] # None \/ x \in cut)
    BY <1>2, <1>4, <2>1 DEF SleepsWell
  <2>3. pipe'[x].open = pipe[x].open
    BY MoveIsPipeStep DEF PipeStep
  <2>4. ASSUME NEW l, GotoWaking(p, l, Readers(x)), pc[p] \in {"read", "write"} PROVE FALSE
    BY <1>7, <2>1, <2>4, Woke, OtherSideSleeps
  <2>5. ASSUME pipe' = pipe PROVE Empty(x)' <=> Empty(x)
    BY <2>5 DEF Empty
  <2>6. Empty(x)' \/ lock'[x] # None \/ x \in cut'
    <3>1. CASE ReadKilled(p)
      BY <1>4, <2>5, <3>1 DEF ReadKilled, ReaderWaits
    <3>2. CASE ReadWaits(p)
      BY <1>4, <2>5, <3>2 DEF ReadWaits, ReaderWaits
    <3>3. CASE ReadSleep(p)
      BY <1>2, <1>4, <2>5, <3>3 DEF ReadSleep, Sleep, SleepsWell
    <3>4. CASE ReadCopy(p)
      <4>1. lock[x] = None
        BY <1>0, <1>4, <1>5, <3>4 DEF ReadCopy, LockOK
      <4>2. PICK k \in Nat : Takes(x, k) /\ cut' = IF k = Used(x) THEN cut \ {x} ELSE cut
        BY <1>4, <3>4, ReadTakes
      <4>3. Used(x)' = Used(x) - k /\ k \in 0..Used(x) /\ Used(x) \in Nat
        BY <4>2, UsedTakes, PipeTypes, Bounds DEF Takes
      <4>4. Used(x)' = 0 => Empty(x)'
        <5>1. /\ pipe'[x].nwrite \in 0..(MOD-1) /\ pipe'[x].nread \in 0..(MOD-1)
          BY <4>2 DEF Takes, PipeType
        <5>2. Used(x)' = Wrap(pipe'[x].nwrite - pipe'[x].nread)
          BY DEF Used, Wrap
        <5>3. Wrap(pipe'[x].nwrite - pipe'[x].nread) = 0 => pipe'[x].nwrite = pipe'[x].nread
          BY <5>1, WrapDifference, Bounds
        <5>. QED  BY <5>2, <5>3 DEF Empty
      <4>5. CASE k = Used(x)
        BY <4>3, <4>4, <4>5
      <4>6. CASE k # Used(x)
        <5>1. Used(x) # 0 /\ cut' = cut
          BY <4>2, <4>3, <4>6
        <5>. QED  BY <2>2, <4>1, <5>1, Levels
      <4>. QED  BY <4>5, <4>6
    <3>5. CASE WriteRefused(p)
      BY <1>0, <1>4, <1>5, <2>2, <2>5, <3>5 DEF WriteRefused
    <3>6. CASE WriteWaits(p)
      BY <1>4, <2>4, <3>6 DEF WriteWaits
    <3>7. CASE WriteSleep(p)
      BY <1>2, <1>4, <2>1, <3>7 DEF WriteSleep, Sleep, SleepsWell
    <3>8. ASSUME NEW b \in Byte, WriteByte(p, b) PROVE lock'[x] # None
      BY <1>0, <1>4, <3>8 DEF WriteByte
    <3>9. CASE WriteEnds(p)
      BY <1>4, <2>4, <3>9 DEF WriteEnds, Return, Announced
    <3>. QED  BY <3>1, <3>2, <3>3, <3>4, <3>5, <3>6, <3>7, <3>8, <3>9 DEF Moves
  <2>. QED  BY <1>4, <1>7, <2>2, <2>3, <2>6 DEF SleepsWell, Empty
<1>8. CASE pc'[q] = "wsleep"
  <2>1. pc[q] = "wsleep" /\ q \in Writers(x)
    BY <1>1, <1>4, <1>8 DEF Writers
  <2>2. "R" \in pipe[x].open /\ Full(x)
    BY <1>2, <1>4, <2>1 DEF SleepsWell
  <2>3. pipe'[x].open = pipe[x].open
    BY MoveIsPipeStep DEF PipeStep
  <2>4. Full(x)'
    <3>1. ~ReadCopy(p)
      <4>1. ASSUME ReadCopy(p) PROVE FALSE
        <5>1. pc[p] = "read" /\ GotoWaking(p, "user", Writers(x))
          BY <1>4, <4>1 DEF ReadCopy, Return, Woken
        <5>2. \A r \in Writers(x) : pc[r] \in {"rsleep", "wsleep"}
          BY DEF Writers
        <5>. QED  BY <1>8, <2>1, <5>1, <5>2, Woke
      <4>. QED  BY <4>1
    <3>2. ~\E b \in Byte : WriteByte(p, b)
      BY <1>4, <2>2 DEF WriteByte, MayPut
    <3>3. pipe' = pipe
      BY <3>1, <3>2 DEF Moves, ReadKilled, ReadWaits, ReadSleep, WriteRefused, WriteWaits, WriteSleep,
           WriteEnds, Sleep
    <3>. QED  BY <2>2, <3>3 DEF Full, Wrap
  <2>. QED  BY <1>4, <1>8, <2>2, <2>3, <2>4 DEF SleepsWell, Full, Wrap
<1>. QED  BY <1>6, <1>7, <1>8

\* The process of the step itself goes to sleep on what it has found.
LEMMA WellMyself ==
  ASSUME TypeOK, CallTypes, FilesOK, BusyOK, SleepOK, SleepersHaveWakers,
         NEW p \in Proc, Moves(p)
  PROVE  SleepsWell(p)'
<1>0. /\ pc \in [Proc -> Pc] /\ at \in [Proc -> Page \cup {None}]
      /\ lock \in [Page -> Proc \cup {None}] /\ at[p] \in Page
  BY MovesElsewhere DEF TypeOK, CallTypes
<1>1. SleepsWell(p)
  BY SleepIsWell
<1>2. CASE ReadWaits(p)
  <2>1. /\ pc'[p] = "rblock" /\ lock'[at[p]] = p /\ at' = at /\ pipe' = pipe
        /\ Empty(at[p]) /\ "W" \in pipe[at[p]].open
    BY <1>0, <1>2 DEF ReadWaits, ReaderWaits, Goto, callVars
  <2>. QED  BY <2>1 DEF SleepsWell, Empty
<1>3. CASE ReadSleep(p)
  <2>1. /\ pc'[p] = "rsleep" /\ at' = at /\ pipe' = pipe /\ pc[p] = "rblock"
    BY <1>0, <1>3 DEF ReadSleep, Sleep, Goto, callVars
  <2>. QED  BY <1>1, <2>1 DEF SleepsWell, Empty
<1>4. CASE WriteWaits(p)
  <2>1. /\ pc[p] = "write" /\ GotoWaking(p, "wblock", Readers(at[p])) /\ at' = at /\ pipe' = pipe
        /\ lock'[at[p]] = p /\ Full(at[p]) /\ "R" \in pipe[at[p]].open
    BY <1>0, <1>4 DEF WriteWaits, Refused, callVars
  <2>2. /\ pc'[p] = "wblock"
        /\ \A r \in Proc : r # p =>
             pc'[r] = IF r \in Readers(at[p]) THEN IF pc[r] = "rsleep" THEN "read" ELSE "write" ELSE pc[r]
    BY <2>1, Woke, OtherSideSleeps
  <2>3. \A r \in Proc : ~(pc'[r] = "rsleep" /\ at'[r] = at'[p])
    BY <2>1, <2>2 DEF Readers
  <2>. QED  BY <2>1, <2>2, <2>3 DEF SleepsWell, Full, Wrap
<1>5. CASE WriteSleep(p)
  <2>1. /\ pc'[p] = "wsleep" /\ at' = at /\ pipe' = pipe /\ pc[p] = "wblock"
    BY <1>0, <1>5 DEF WriteSleep, Sleep, Goto, callVars
  <2>. QED  BY <1>1, <2>1 DEF SleepsWell, Full, Wrap
<1>6. CASE /\ ~ReadWaits(p) /\ ~ReadSleep(p) /\ ~WriteWaits(p) /\ ~WriteSleep(p)
  <2>1. ASSUME NEW b \in Byte, WriteByte(p, b) PROVE pc'[p] = "write"
    BY <2>1 DEF WriteByte
  <2>2. ASSUME NEW S, GotoWaking(p, "user", S), S = {} \/ S = Writers(at[p]) \/ S = Readers(at[p]),
               pc[p] \in {"read", "write"}
        PROVE  pc'[p] = "user"
    <3>1. \A q \in S : pc[q] \in {"rsleep", "wsleep"}
      BY <2>2 DEF Readers, Writers
    <3>. QED  BY <2>2, <3>1, Woke
  <2>3. CASE ReadKilled(p) \/ ReadCopy(p) \/ WriteRefused(p) \/ WriteEnds(p)
    <3>1. /\ pc[p] \in {"read", "write"}
          /\ \/ GotoWaking(p, "user", {}) \/ GotoWaking(p, "user", Writers(at[p]))
             \/ GotoWaking(p, "user", Readers(at[p]))
      BY <2>3 DEF ReadKilled, ReadCopy, WriteRefused, WriteEnds, Return, Woken, Announced
    <3>2. pc'[p] = "user"
      BY <2>2, <3>1
    <3>. QED  BY <3>2, WellAwake
  <2>4. ReadKilled(p) \/ ReadCopy(p) \/ WriteRefused(p) \/ WriteEnds(p) \/ \E b \in Byte : WriteByte(p, b)
    BY <1>6 DEF Moves
  <2>5. pc'[p] = "write" => SleepsWell(p)'
    BY WellAwake
  <2>. QED  BY <2>1, <2>3, <2>4, <2>5
<1>. QED  BY <1>2, <1>3, <1>4, <1>5, <1>6

LEMMA WellMoves ==
  ASSUME TypeOK, CallTypes, FilesOK, BusyOK, SleepOK, SleepersHaveWakers, RoomOK,
         NEW p \in Proc, Moves(p), NEW q \in Proc
  PROVE  SleepsWell(q)'
<1>1. CASE q = p
  BY <1>1, WellMyself
<1>2. CASE q # p /\ at[q] = at[p]
  BY <1>2, WellBeside
<1>3. CASE q # p /\ at[q] # at[p]
  <2>1. /\ at[p] \in Page /\ at'[p] \in {at[p], None}
        /\ pc'[q] = pc[q] /\ at'[q] = at[q]
        /\ \A r \in Proc : r # p => at'[r] = at[r] /\ (pc'[r] = "rsleep" => pc[r] = "rsleep")
    BY <1>3, MovesElsewhere
  <2>2. CASE pc[q] \notin {"rblock", "wblock", "rsleep", "wsleep"}
    BY <2>1, <2>2, WellAwake
  <2>3. CASE pc[q] \in {"rblock", "wblock", "rsleep", "wsleep"}
    <3>1. at[q] \in Page
      BY <2>3, AtPage DEF Reading, Writing
    <3>2. /\ pipe'[at[q]] = pipe[at[q]] /\ lock'[at[q]] = lock[at[q]]
          /\ at[q] \in cut' <=> at[q] \in cut
      BY <1>3, <3>1, MovesElsewhere
    <3>3. \A r \in Proc : pc'[r] = "rsleep" /\ at'[r] = at[q] => pc[r] = "rsleep" /\ at[r] = at[q]
      BY <1>3, <2>1, <3>1, PipeAssumption
    <3>. QED  BY <2>1, <3>2, <3>3, WellElsewhere, SleepIsWell
  <2>. QED  BY <2>2, <2>3
<1>. QED  BY <1>1, <1>2, <1>3

LEMMA WellOthers ==
  ASSUME TypeOK, CallTypes, TodoOK, ForkOK, FilesOK, RefsExact, BusyOK, SleepOK, SleepersHaveWakers,
         NEW p \in Proc, Others(p), NEW q \in Proc
  PROVE  SleepsWell(q)'
<1>0. /\ pc \in [Proc -> Pc] /\ at \in [Proc -> Page \cup {None}] /\ end \in [Proc -> End]
      /\ pipe \in [Page -> PipeType] /\ lock \in [Page -> Proc \cup {None}] /\ None \notin Proc
  BY PipeAssumption DEF TypeOK, CallTypes, PipeType
<1>1. /\ lock' = lock /\ pc[p] \notin {"rblock", "wblock", "rsleep", "wsleep"}
      /\ \A r \in Proc : r # p => /\ at'[r] = at[r]
                                  /\ pc'[r] \in {"rblock", "wblock", "rsleep", "wsleep"} => pc'[r] = pc[r]
  BY OtherPcs, OthersLock
<1>2. pc'[p] \notin {"rblock", "wblock", "rsleep", "wsleep"}
  <2>1. \A l \in {"rblock", "wblock", "rsleep", "wsleep"} :
          l # "user" /\ l # "pipe" /\ l # "fdalloc" /\ l # "close" /\ l # "fork" /\ l # "pipeclose" /\ l # "unused"
          /\ l # "read" /\ l # "write"
    OBVIOUS
  <2>2. ASSUME NEW g, FileClose(p, g), pc[p] = "close" PROVE pc'[p] \in {"close", "pipeclose"}
    BY <1>0, <2>2 DEF FileClose, Goto
  <2>3. CASE CloseTodo(p) \/ ExitFile(p)
    <3>1. pc'[p] \in {"close", "pipeclose"}
      BY <2>2, <2>3 DEF CloseTodo, ExitFile
    <3>. QED  BY <2>1, <3>1
  <2>4. CASE PipeClose(p)
    <3>1. pc[p] = "pipeclose" /\ GotoWaking(p, "close", OtherSide(at[p], end[p]))
      BY <2>4 DEF PipeClose
    <3>2. pc'[p] = "close"
      BY <3>1, Woke, OtherSideSleeps
    <3>. QED  BY <3>2
  <2>5. ASSUME NEW r \in Proc, Fork(p, r) PROVE pc'[p] = "fork"
    BY <1>0, <2>5 DEF Fork, Calls
  <2>6. CASE ForkFile(p)
    BY <1>0, <2>6 DEF ForkFile, ForkOK
  <2>7. ASSUME NEW fd \in Fd, NEW n \in Count, SysRead(p, fd, n) \/ SysWrite(p, fd, n)
        PROVE  pc'[p] \in {"read", "write"}
    BY <1>0, <2>7 DEF SysRead, SysWrite, Start, Goto
  <2>8. CASE SysPipe(p) \/ PipeFails(p) \/ PipeMade(p) \/ PipeFds(p) \/ PipeUndone(p) \/ Exit(p) \/ Closed(p)
             \/ (\E fd \in Fd : SysDup(p, fd)) \/ (\E fd \in Fd : SysClose(p, fd))
    <3>1. pc'[p] \in {"user", "pipe", "fdalloc", "close", "unused"}
      BY <1>0, <2>8 DEF SysPipe, PipeFails, PipeMade, PipeFds, PipeUndone, Exit, Closed, SysDup, SysClose, Calls, Goto
    <3>. QED  BY <2>1, <3>1
  <2>. QED  BY <2>1, <2>3, <2>4, <2>5, <2>6, <2>7, <2>8 DEF Others
<1>3. CASE pc'[q] \notin {"rblock", "wblock", "rsleep", "wsleep"}
  BY <1>3, WellAwake
<1>4. CASE pc'[q] \in {"rblock", "wblock", "rsleep", "wsleep"}
  <2>1. q # p /\ pc'[q] = pc[q] /\ at'[q] = at[q] /\ SleepsWell(q)
    BY <1>1, <1>2, <1>4, SleepIsWell
  <2>2. at[q] \in Page
    BY <1>4, <2>1, AtPage DEF Reading, Writing
  <2>3. PICK x \in Page : x = at[q]
    BY <2>2
  <2>4. \A r \in Proc : pc'[r] = "rsleep" /\ at'[r] = x => pc[r] = "rsleep" /\ at[r] = x
    BY <1>1, <1>2
  <2>5. pipe[x].open # {}
    BY <1>4, <2>1, <2>3 DEF SleepsWell
  <2>6. CASE PipeMade(p)
    <3>1. PICK rf, wf \in File, pi \in Page : Made(p, rf, wf, pi)
      BY <2>6, PipeMadeFacts
    <3>2. pi # x /\ pipe'[x] = pipe[x]
      BY <1>0, <2>5, <3>1 DEF Made
    <3>3. cut' = cut
      BY <2>6 DEF PipeMade
    <3>. QED  BY <1>1, <2>1, <2>3, <2>4, <3>2, <3>3, WellElsewhere
  <2>7. CASE PipeClose(p)
    <3>1. /\ pc[p] = "pipeclose" /\ at[p] \in Page /\ lock[at[p]] \in {None, p}
          /\ GotoWaking(p, "close", OtherSide(at[p], end[p]))
      BY <2>7, AtPage DEF PipeClose, MayLock
    <3>2. q \notin OtherSide(at[p], end[p])
      BY <1>4, <2>1, <3>1, Woke, OtherSideSleeps
    <3>3. CASE at[p] # x
      <4>1. pipe'[x] = pipe[x] /\ (x \in cut' <=> x \in cut)
        BY <1>0, <2>7, <3>1, <3>3 DEF PipeClose
      <4>. QED  BY <1>1, <2>1, <2>3, <2>4, <4>1, WellElsewhere
    <3>4. CASE at[p] = x
      <4>1. pc[q] \in {"rsleep", "wsleep"}
        BY <1>0, <1>4, <2>1, <2>3, <3>1, <3>4 DEF SleepsWell
      <4>2. CASE pc[q] = "rsleep"
        <5>1. end[p] # "W" /\ "W" \in pipe[x].open
          BY <2>1, <2>3, <3>2, <3>4, <4>2 DEF OtherSide, Readers, SleepsWell
        <5>2. pipe[x].open # {end[p]}
          BY <5>1
        <5>3. pipe' = [pipe EXCEPT ![x].open = @ \ {end[p]}]
          BY <2>7, <3>4, <5>2 DEF PipeClose
        <5>4. /\ pipe'[x].nread = pipe[x].nread /\ pipe'[x].nwrite = pipe[x].nwrite
              /\ pipe'[x].open = pipe[x].open \ {end[p]}
          BY <1>0, <5>3 DEF PipeType
        <5>5. cut' = cut
          BY <2>7, <3>4, <5>1, <5>4 DEF PipeClose
        <5>. QED  BY <1>1, <2>1, <2>3, <4>2, <5>1, <5>4, <5>5 DEF SleepsWell, Empty
      <4>3. CASE pc[q] = "wsleep"
        <5>1. end[p] = "W" /\ "R" \in pipe[x].open
          BY <1>0, <2>1, <2>3, <3>2, <3>4, <4>3 DEF OtherSide, Writers, SleepsWell, End
        <5>2. pipe[x].open # {end[p]}
          BY <5>1
        <5>3. pipe' = [pipe EXCEPT ![x].open = @ \ {end[p]}]
          BY <2>7, <3>4, <5>2 DEF PipeClose
        <5>4. /\ pipe'[x].nread = pipe[x].nread /\ pipe'[x].nwrite = pipe[x].nwrite
              /\ "R" \in pipe'[x].open
          BY <1>0, <5>1, <5>3 DEF PipeType
        <5>. QED  BY <2>1, <2>3, <4>3, <5>4 DEF SleepsWell, Full, Wrap
      <4>. QED  BY <4>1, <4>2, <4>3
    <3>. QED  BY <3>3, <3>4
  <2>8. CASE pipe' = pipe /\ cut' = cut
    BY <1>1, <2>1, <2>3, <2>4, <2>8, WellElsewhere
  <2>9. PipeMade(p) \/ PipeClose(p) \/ (pipe' = pipe /\ cut' = cut)
    BY DEF Others, SysPipe, PipeFails, PipeFds, PipeUndone, SysDup, Fork, ForkFile, Exit, SysClose,
           CloseTodo, ExitFile, FileClose, Closed, SysRead, SysWrite, Start, pipeVars
  <2>. QED  BY <2>6, <2>7, <2>8, <2>9
<1>. QED  BY <1>3, <1>4

LEMMA SleepStep ==
  ASSUME TypeOK, CallTypes, TodoOK, ForkOK, FilesOK, RefsExact, BusyOK, SleepOK, SleepersHaveWakers,
         RoomOK, [Next]_vars
  PROVE  SleepOK' /\ SleepersHaveWakers'
<1>1. ASSUME NEW q \in Proc PROVE SleepsWell(q)'
  <2>1. SleepsWell(q)
    BY SleepIsWell
  <2>2. CASE UNCHANGED vars
    BY <2>1, <2>2 DEF SleepsWell, Empty, Full, Wrap, vars, pipeVars, callVars
  <2>3. ASSUME NEW p \in Proc, Kill(p) PROVE SleepsWell(q)'
    <3>1. /\ pipe' = pipe /\ lock' = lock /\ cut' = cut /\ at' = at
      BY <2>3 DEF Kill, pipeVars, callVars
    <3>2. \A r \in Proc : pc'[r] = pc[r] \/ pc'[r] \in {"read", "write"}
      BY <2>3 DEF Kill, CallTypes
    <3>3. CASE pc'[q] = pc[q]
      BY <2>1, <3>1, <3>2, <3>3, WellElsewhere
    <3>4. CASE pc'[q] \in {"read", "write"}
      BY <3>4, WellAwake
    <3>. QED  BY <3>2, <3>3, <3>4
  <2>4. ASSUME NEW p \in Proc, User(p) \/ Kernel(p) \/ Kill(p) PROVE SleepsWell(q)'
    <3>1. Moves(p) \/ Others(p) \/ Kill(p)
      BY <2>4 DEF User, Kernel, Moves, Others
    <3>. QED  BY <2>3, <3>1, WellMoves, WellOthers
  <2>. QED  BY <2>2, <2>4 DEF Next
<1>2. (SleepOK /\ SleepersHaveWakers <=> \A q \in Proc : SleepsWell(q))'
  BY SleepIsWell, PTL
<1>. QED  BY <1>1, <1>2
-----------------------------------------------------------------------------
(* The theorems *)

LEMMA InitInv == Init => IInv
<1>. SUFFICES ASSUME Init PROVE IInv
  OBVIOUS
<1>. USE DEF Init
<1>0. None \notin Page /\ None \notin Proc /\ None \notin File /\ NoFile \in FileType /\ FreePage \in PipeType
  BY PipeAssumption, FreeTypes DEF File
<1>1. TypeOK
  <2>1. /\ file \in [File -> FileType] /\ pipe \in [Page -> PipeType]
    BY <1>0
  <2>2. ofile \in [Proc -> [Fd -> File \cup {None}]]
    OBVIOUS
  <2>. QED  BY <2>1, <2>2 DEF TypeOK, FileType, PipeType
<1>2. CallTypes
  <2>1. <<>> \in Seq(File)
    OBVIOUS
  <2>. QED  BY <2>1 DEF CallTypes, Pc, End
<1>3. \A q \in Proc : pc[q] \in {"user", "unused"}
  OBVIOUS
<1>4. TodoOK
  <2>1. \A q \in Proc : todo[q] = <<>>
    OBVIOUS
  <2>2. Len(<<>>) = 0
    OBVIOUS
  <2>. QED  BY <1>3, <2>1, <2>2 DEF TodoOK
<1>5. ForkOK /\ BusyOK
  BY <1>3 DEF ForkOK, BusyOK, Reading, Writing
<1>6. FilesOK
  BY DEF FilesOK
<1>7. RefsExact
  <2>. SUFFICES ASSUME NEW f \in File
                PROVE  file[f].ref = Cardinality(Holders(f)) + Cardinality(Pending(f))
    BY DEF RefsExact
  <2>1. Holders(f) = {}
    BY <1>0 DEF Holders
  <2>2. Pending(f) = {}
    <3>1. \A q \in Proc : DOMAIN todo[q] = {}
      OBVIOUS
    <3>. QED  BY <3>1 DEF Pending
  <2>3. file[f].ref = 0
    BY DEF NoFile
  <2>. QED  BY <2>1, <2>2, <2>3, FS_EmptySet
<1>8. \A pi \in Page, e \in End : /\ \A f \in File : ~IsEnd(f, pi, e)
                                  /\ \A q \in Proc : ~Closes(q, pi, e)
                                  /\ e \notin pipe[pi].open
  BY <1>3 DEF IsEnd, Closes, NoFile, FreePage
<1>9. EndOnce /\ OpenOK
  BY <1>8 DEF EndOnce, OpenOK
<1>10. SleepOK /\ SleepersHaveWakers
  BY <1>3 DEF SleepOK, SleepersHaveWakers, ReaderHasWaker, WriterHasWaker
<1>11. RoomOK
  <2>1. 0 \in 0..(MOD-1) /\ 0 <= PIPESIZE
    BY Sizes
  <2>2. \A pi \in Page : Used(pi) = Wrap(0 - 0)
    BY DEF Used, FreePage
  <2>3. Wrap(0 - 0) = 0
    BY <2>1, WrapDifference
  <2>. QED  BY <2>1, <2>2, <2>3 DEF RoomOK
<1>. QED  BY <1>1, <1>2, <1>4, <1>5, <1>6, <1>7, <1>9, <1>10, <1>11 DEF IInv

LEMMA StepInv == IInv /\ [Next]_vars => IInv'
<1>. SUFFICES ASSUME IInv, [Next]_vars PROVE IInv'
  OBVIOUS
<1>0. /\ TypeOK /\ CallTypes /\ TodoOK /\ ForkOK /\ FilesOK /\ RefsExact /\ BusyOK
      /\ EndOnce /\ OpenOK /\ SleepOK /\ RoomOK /\ SleepersHaveWakers
  BY DEF IInv
<1>1. TypeOK' /\ CallTypes' /\ TodoOK' /\ ForkOK' /\ FilesOK' /\ RefsExact' /\ BusyOK'
  BY <1>0, TypeStep, TodoStep, ForkStep, FilesStep, RefsStep, BusyStep
<1>2. EndOnce' /\ OpenOK'
  BY <1>0, EndsStep, EndOnceStep, OpenStep
<1>3. SleepOK' /\ SleepersHaveWakers' /\ RoomOK'
  BY <1>0, SleepStep, RoomStep
<1>. QED  BY <1>1, <1>2, <1>3 DEF IInv

\* IInv holds of every state.
THEOREM Inductive == Spec => []IInv
<1>. QED  BY InitInv, StepInv, PTL DEF Spec

\* file.c:29-83: the count of a file is the number of those that can close it.
THEOREM ReferencesExact == Spec => []RefsExact
<1>1. IInv => RefsExact
  BY DEF IInv
<1>. QED  BY <1>1, Inductive, PTL

\* pipe.c:61-73, file.c:67-78: an end is open as long as somebody has it, and
\* whoever reads or writes has one.
THEOREM EndsAreHeld == Spec => []EndsHeld
<1>1. IInv => EndsHeld
  <2>. SUFFICES ASSUME IInv PROVE EndsHeld
    OBVIOUS
  <2>0. TypeOK /\ CallTypes /\ TodoOK /\ FilesOK /\ RefsExact /\ BusyOK /\ OpenOK
    BY DEF IInv
  <2>1. ASSUME NEW pi \in Page
        PROVE  pipe[pi].open = {file[f].end : f \in {g \in File : file[g].ref > 0 /\ file[g].pipe = pi}}
                               \cup Ending(pi)
    <3>1. /\ pipe[pi].open \subseteq End
          /\ \A f \in File : file[f].end \in End
          /\ \A q \in Proc : end[q] \in End
      BY <2>0, PipeTypes DEF TypeOK, CallTypes
    <3>2. \A e \in End : e \in pipe[pi].open <=>
            \/ \E f \in File : file[f].ref > 0 /\ file[f].pipe = pi /\ file[f].end = e
            \/ \E q \in Proc : pc[q] = "pipeclose" /\ at[q] = pi /\ end[q] = e
      BY <2>0 DEF OpenOK, IsEnd, Closes
    <3>. QED  BY <3>1, <3>2 DEF Ending
  <2>2. ASSUME NEW p \in Proc, NEW e \in End, Has(p, e), at[p] \in Page
        PROVE  at[p] # None /\ e \in pipe[at[p]].open
    <3>1. PICK fd \in Fd : /\ ofile[p][fd] # None /\ file[ofile[p][fd]].pipe = at[p]
                           /\ file[ofile[p][fd]].end = e
      BY <2>2 DEF Has
    <3>2. ofile[p][fd] \in File /\ file[ofile[p][fd]].ref > 0
      BY <2>0, <3>1, InUse
    <3>. QED  BY <2>0, <2>2, <3>1, <3>2, PipeAssumption DEF OpenOK, IsEnd
  <2>3. ASSUME NEW p \in Proc
        PROVE  /\ pc[p] \in {"read", "rblock", "rsleep"} => at[p] # None /\ "R" \in pipe[at[p]].open
               /\ pc[p] \in {"write", "wblock", "wsleep"} => at[p] # None /\ "W" \in pipe[at[p]].open
    <3>1. /\ pc[p] \in Reading => at[p] \in Page /\ Has(p, "R")
          /\ pc[p] \in Writing => at[p] \in Page /\ Has(p, "W")
      BY <2>0, AtPage DEF BusyOK
    <3>. QED  BY <2>2, <3>1 DEF End, Reading, Writing
  <2>. QED  BY <2>1, <2>3 DEF EndsHeld
<1>. QED  BY <1>1, Inductive, PTL

\* pipe.c:84-99, 118: nobody sleeps in a pipe without somebody who will wake
\* him, a writer killed between two bytes excepted.
THEOREM NoLostWakeup == Spec => []SleepersHaveWakers
<1>1. IInv => SleepersHaveWakers
  BY DEF IInv
<1>. QED  BY <1>1, Inductive, PTL

\* pipe.c:88: a pipe never holds more than it has room for, whatever the
\* counters do at 2^32.
THEOREM NeverOverfull == Spec => []RoomOK
<1>1. IInv => RoomOK
  BY DEF IInv
<1>. QED  BY <1>1, Inductive, PTL
-----------------------------------------------------------------------------
(* Pipes implement ByteQueue *)

\* Residues: no multiple of m but 0 is nearer to 0 than m; numbers that differ
\* by a multiple of m have the same residue, and numbers that are nearer have
\* different ones.
LEMMA NoMultiple ==
  ASSUME NEW m \in Nat \ {0}, NEW d \in Int, -m < m * d, m * d < m
  PROVE  d = 0
<1>1. d >= 1 => m * d >= m
  OBVIOUS
<1>2. d <= -1 => m * d <= -m
  OBVIOUS
<1>. QED  BY <1>1, <1>2

LEMMA Division ==
  ASSUME NEW m \in Nat \ {0}, NEW a \in Int
  PROVE  \E k \in Int : a = m * k + (a % m) /\ a % m \in 0..(m-1)
<1>1. a = m * (a \div m) + (a % m) /\ a \div m \in Int
  OBVIOUS
<1>2. a % m \in 0..(m-1)
  OBVIOUS
<1>. QED  BY <1>1, <1>2

LEMMA SameResidue ==
  ASSUME NEW m \in Nat \ {0}, NEW a \in Int, NEW b \in Int, NEW k \in Int, a = b + m * k
  PROVE  a % m = b % m
<1>1. PICK i \in Int : a = m * i + (a % m) /\ a % m \in 0..(m-1)
  BY Division
<1>2. PICK j \in Int : b = m * j + (b % m) /\ b % m \in 0..(m-1)
  BY Division
<1>. DEFINE e == i - j
            d == e - k
<1>3. d \in Int /\ m * d = (b % m) - (a % m)
  <2>1. e \in Int /\ m * e = m * i - m * j
    OBVIOUS
  <2>2. m * d = m * e - m * k
    <3>. HIDE DEF e
    <3>. QED  BY <2>1
  <2>. HIDE DEF e
  <2>. QED  BY <1>1, <1>2, <2>1, <2>2
<1>4. -m < m * d /\ m * d < m
  <2>. HIDE DEF d
  <2>. QED  BY <1>1, <1>2, <1>3
<1>5. d = 0
  <2>. HIDE DEF d
  <2>. QED  BY <1>3, <1>4, NoMultiple
<1>6. m * d = 0
  BY <1>5
<1>. HIDE DEF d
<1>. QED  BY <1>1, <1>2, <1>3, <1>6

LEMMA OtherResidue ==
  ASSUME NEW m \in Nat \ {0}, NEW a \in Int, NEW b \in Int, a < b, b - a < m
  PROVE  a % m # b % m
<1>. SUFFICES ASSUME a % m = b % m PROVE FALSE
  OBVIOUS
<1>1. PICK i \in Int : a = m * i + (a % m) /\ a % m \in 0..(m-1)
  BY Division
<1>2. PICK j \in Int : b = m * j + (b % m) /\ b % m \in 0..(m-1)
  BY Division
<1>. DEFINE d == j - i
<1>3. d \in Int /\ m * d = b - a
  <2>1. m * d = m * j - m * i
    OBVIOUS
  <2>. QED  BY <1>1, <1>2, <2>1
<1>. HIDE DEF d
<1>4. d = 0
  BY <1>3, NoMultiple
<1>. QED  BY <1>3, <1>4
\* The place of the i-th byte in the buffer: it does not matter that the
\* counters wrap, and different bytes have different places.
Place(pi, i) == (pipe[pi].nread + i - 1) % PIPESIZE

LEMMA WrapPlace ==
  ASSUME NEW a \in 0..(MOD-1), NEW k \in 0..(MOD-1), NEW c \in Int
  PROVE  (Wrap(a + k) + c) % PIPESIZE = (a + k + c) % PIPESIZE
<1>1. PIPESIZE \in Nat \ {0} /\ MOD \in Nat /\ MOD % PIPESIZE = 0 /\ a \in Int /\ k \in Int
  BY Sizes
<1>2. PICK q \in Int : MOD = PIPESIZE * q + (MOD % PIPESIZE)
  <2>1. PIPESIZE \in Nat \ {0} /\ MOD \in Int
    BY <1>1
  <2>2. \E n \in Int : MOD = PIPESIZE * n + (MOD % PIPESIZE) /\ MOD % PIPESIZE \in 0..(PIPESIZE-1)
    BY <2>1, Division
  <2>. QED  BY <2>2
<1>3. MOD = PIPESIZE * q
  BY <1>1, <1>2
<1>4. Wrap(a + k) \in {a + k, a + k - MOD}
  BY WrapSum
<1>5. CASE Wrap(a + k) = a + k
  BY <1>5
<1>6. CASE Wrap(a + k) = a + k - MOD
  <2>. DEFINE x == a + k + c
              y == a + k - MOD + c
  <2>1. x \in Int /\ y \in Int /\ x = y + PIPESIZE * q
    BY <1>1, <1>3
  <2>. HIDE DEF x, y
  <2>2. x % PIPESIZE = y % PIPESIZE
    BY <1>1, <2>1, SameResidue
  <2>3. Wrap(a + k) + c = y
    BY <1>6 DEF y
  <2>. QED  BY <2>2, <2>3 DEF x
<1>. QED  BY <1>4, <1>5, <1>6

LEMMA OtherPlace ==
  ASSUME NEW a \in Int, NEW i \in Int, NEW j \in Int, i # j, i - j < PIPESIZE, j - i < PIPESIZE
  PROVE  (a + i) % PIPESIZE # (a + j) % PIPESIZE
<1>1. PIPESIZE \in Nat \ {0}
  BY Sizes
<1>2. CASE i < j
  <2>. DEFINE x == a + i
              y == a + j
  <2>1. x \in Int /\ y \in Int /\ x < y /\ y - x < PIPESIZE
    BY <1>1, <1>2
  <2>. HIDE DEF x, y
  <2>2. x % PIPESIZE # y % PIPESIZE
    BY <1>1, <2>1, OtherResidue
  <2>. QED  BY <2>2 DEF x, y
<1>3. CASE j < i
  <2>. DEFINE x == a + i
              y == a + j
  <2>1. x \in Int /\ y \in Int /\ y < x /\ x - y < PIPESIZE
    BY <1>1, <1>3
  <2>. HIDE DEF x, y
  <2>2. x % PIPESIZE # y % PIPESIZE
    BY <1>1, <2>1, OtherResidue
  <2>. QED  BY <2>2 DEF x, y
<1>. QED  BY <1>2, <1>3

\* What is in a pipe is a sequence of as many bytes as are used.
Bytes == Byte \cup {None}
ChanOK(pi) ==
  /\ Chan(pi) \in Seq(Bytes)
  /\ pipe[pi].open = {} => Chan(pi) = <<>>
  /\ pipe[pi].open # {} => /\ Len(Chan(pi)) = Used(pi)
                           /\ \A i \in 1..Used(pi) : Chan(pi)[i] = pipe[pi].data[Place(pi, i)]
ChansOK == \A pi \in Page : ChanOK(pi)
LEMMA ChanIs == TypeOK => ChansOK
<1>. SUFFICES ASSUME TypeOK, NEW pi \in Page PROVE ChanOK(pi)
  BY DEF ChansOK
<1>1. /\ Used(pi) \in Nat /\ pipe[pi].nread \in Int
      /\ pipe[pi].data \in [0..(PIPESIZE-1) -> Bytes]
  BY PipeTypes, Bounds DEF Bytes
<1>. DEFINE c == [i \in 1..Used(pi) |-> pipe[pi].data[Place(pi, i)]]
<1>2. \A i \in 1..Used(pi) : pipe[pi].data[Place(pi, i)] \in Bytes
  <2>1. \A i \in 1..Used(pi) : pipe[pi].nread + i - 1 \in Int
    BY <1>1
  <2>2. \A i \in 1..Used(pi) : Place(pi, i) \in 0..(PIPESIZE-1)
    BY <2>1, Sizes DEF Place
  <2>. QED  BY <1>1, <2>2
<1>3. /\ c \in Seq(Bytes) /\ Len(c) = Used(pi)
      /\ \A i \in 1..Used(pi) : c[i] = pipe[pi].data[Place(pi, i)]
  <2>. DEFINE u == Used(pi)
              v(i) == pipe[pi].data[Place(pi, i)]
  <2>1. u \in Nat /\ \A i \in 1..u : v(i) \in Bytes
    BY <1>1, <1>2
  <2>2. c = [i \in 1..u |-> v(i)]
    OBVIOUS
  <2>. HIDE DEF u, v
  <2>3. [i \in 1..u |-> v(i)] \in Seq(Bytes) /\ Len([i \in 1..u |-> v(i)]) = u
    BY <2>1
  <2>. QED  BY <2>2, <2>3 DEF u, v
<1>4. Chan(pi) = IF pipe[pi].open = {} THEN <<>> ELSE c
  BY DEF Chan, Used, Place
<1>. HIDE DEF c
<1>5. <<>> \in Seq(Bytes)
  OBVIOUS
<1>. QED  BY <1>3, <1>4, <1>5 DEF ChanOK

LEMMA SeqEqual ==
  ASSUME NEW S, NEW s \in Seq(S), NEW t \in Seq(S), Len(s) = Len(t),
         \A i \in 1..Len(s) : s[i] = t[i]
  PROVE  s = t
OBVIOUS

LEMMA Suffix ==
  ASSUME NEW S, NEW s \in Seq(S), NEW k \in 0..Len(s)
  PROVE  /\ SubSeq(s, k + 1, Len(s)) \in Seq(S) /\ Len(SubSeq(s, k + 1, Len(s))) = Len(s) - k
         /\ \A i \in 1..(Len(s) - k) : SubSeq(s, k + 1, Len(s))[i] = s[k + i]
OBVIOUS

LEMMA Appended ==
  ASSUME NEW S, NEW s \in Seq(S), NEW x \in S
  PROVE  /\ Append(s, x) \in Seq(S) /\ Len(Append(s, x)) = Len(s) + 1
         /\ Append(s, x)[Len(s) + 1] = x
         /\ \A i \in 1..Len(s) : Append(s, x)[i] = s[i]
OBVIOUS

\* Reading takes the oldest bytes, and leaves the others in their order.
LEMMA ChanTakes ==
  ASSUME TypeOK, TypeOK', RoomOK, NEW pi \in Page, NEW k \in Nat, Takes(pi, k), pipe[pi].open # {}
  PROVE  k <= Len(Chan(pi)) /\ Chan(pi)' = SubSeq(Chan(pi), k + 1, Len(Chan(pi)))
<1>0. /\ Used(pi) \in Nat /\ Used(pi) <= PIPESIZE /\ PIPESIZE \in Nat /\ k \in 0..Used(pi)
      /\ pipe[pi].nread \in 0..(MOD-1) /\ Used(pi) \in 0..(MOD-1) /\ MOD \in Nat
  BY PipeTypes, Bounds DEF RoomOK, Takes
<1>1. ChanOK(pi) /\ ChanOK(pi)'
  <2>1. (TypeOK => ChansOK)'
    BY ChanIs, PTL
  <2>. QED  BY <2>1, ChanIs DEF ChansOK
<1>2. /\ Chan(pi) \in Seq(Bytes) /\ Len(Chan(pi)) = Used(pi)
      /\ \A i \in 1..Used(pi) : Chan(pi)[i] = pipe[pi].data[Place(pi, i)]
  BY <1>1 DEF ChanOK
<1>3. Used(pi)' = Used(pi) - k
  BY UsedTakes
<1>4. /\ Chan(pi)' \in Seq(Bytes) /\ Len(Chan(pi)') = Used(pi) - k
      /\ \A i \in 1..(Used(pi) - k) : Chan(pi)'[i] = pipe'[pi].data[Place(pi, i)']
  BY <1>1, <1>3 DEF ChanOK, Takes
<1>5. ASSUME NEW i \in 1..(Used(pi) - k) PROVE Chan(pi)'[i] = Chan(pi)[k + i]
  <2>. DEFINE a == pipe[pi].nread
              h == k + i
  <2>0. h \in Int /\ i \in Int /\ k \in Int /\ h >= 1 /\ h <= Used(pi) /\ a \in Int
    BY <1>0
  <2>1. Place(pi, i)' = Place(pi, h)
    <3>1. k \in 0..(MOD-1) /\ i - 1 \in Int
      BY <1>0, <2>0
    <3>2. Place(pi, i)' = (pipe'[pi].nread + i - 1) % PIPESIZE /\ pipe'[pi].nread = Wrap(a + k)
      BY DEF Place, Takes
    <3>3. (Wrap(a + k) + (i - 1)) % PIPESIZE = (a + k + (i - 1)) % PIPESIZE
      BY <1>0, <3>1, WrapPlace
    <3>4. Wrap(a + k) \in Int
      BY <1>0, <2>0, Sizes
    <3>5. Wrap(a + k) + (i - 1) = Wrap(a + k) + i - 1 /\ a + k + (i - 1) = a + h - 1
      BY <2>0, <3>4
    <3>. QED  BY <3>2, <3>3, <3>5 DEF Place
  <2>2. \A j \in 0..(k-1) : Place(pi, h) # (a + j) % PIPESIZE
    <3>. SUFFICES ASSUME NEW j \in 0..(k-1) PROVE Place(pi, h) # (a + j) % PIPESIZE
      OBVIOUS
    <3>. DEFINE g == h - 1
    <3>1. g \in Int /\ j \in Int /\ g # j /\ g - j < PIPESIZE /\ j - g < PIPESIZE
      BY <1>0, <2>0
    <3>2. a + h - 1 = a + g
      BY <2>0
    <3>. HIDE DEF g
    <3>3. (a + g) % PIPESIZE # (a + j) % PIPESIZE
      BY <2>0, <3>1, OtherPlace
    <3>. QED  BY <3>2, <3>3 DEF Place
  <2>3. Place(pi, h) \in 0..(PIPESIZE-1)
    <3>1. a + h - 1 \in Int
      BY <2>0
    <3>. QED  BY <3>1, Sizes DEF Place
  <2>4. Taken(pi, k)[Place(pi, h)] = pipe[pi].data[Place(pi, h)]
    BY <2>2, <2>3 DEF Taken
  <2>5. Chan(pi)'[i] = pipe[pi].data[Place(pi, h)]
    BY <1>4, <2>1, <2>4 DEF Takes
  <2>6. h \in 1..Used(pi)
    BY <1>0, <2>0
  <2>. QED  BY <1>2, <2>5, <2>6
<1>. DEFINE c == Chan(pi)
            d == Chan(pi)'
<1>6. /\ c \in Seq(Bytes) /\ d \in Seq(Bytes) /\ k \in 0..Len(c) /\ Len(d) = Len(c) - k
      /\ \A i \in 1..(Len(c) - k) : d[i] = c[k + i]
  BY <1>0, <1>2, <1>4, <1>5
<1>7. k <= Len(c) /\ d = SubSeq(c, k + 1, Len(c))
  <2>. HIDE DEF c, d
  <2>1. /\ SubSeq(c, k + 1, Len(c)) \in Seq(Bytes) /\ Len(SubSeq(c, k + 1, Len(c))) = Len(c) - k
        /\ \A i \in 1..(Len(c) - k) : SubSeq(c, k + 1, Len(c))[i] = c[k + i]
    BY <1>6, Suffix
  <2>2. d = SubSeq(c, k + 1, Len(c))
    <3>1. Len(d) = Len(SubSeq(c, k + 1, Len(c))) /\ \A i \in 1..Len(d) : d[i] = SubSeq(c, k + 1, Len(c))[i]
      BY <1>6, <2>1
    <3>. QED  BY <1>6, <2>1, <3>1, SeqEqual
  <2>3. Len(c) \in Nat
    BY <1>6, EmptySeq
  <2>. QED  BY <1>6, <2>2, <2>3
<1>. QED  BY <1>7

\* A byte that is put is the youngest one.
LEMMA ChanPuts ==
  ASSUME TypeOK, TypeOK', NEW pi \in Page, NEW b \in Byte, Puts(pi, b), Used(pi) < PIPESIZE,
         pipe[pi].open # {}
  PROVE  Len(Chan(pi)) < PIPESIZE /\ Chan(pi)' = Append(Chan(pi), b)
<1>0. /\ Used(pi) \in Nat /\ PIPESIZE \in Nat
      /\ pipe[pi].nread \in 0..(MOD-1) /\ pipe[pi].nwrite \in 0..(MOD-1) /\ Used(pi) \in 0..(MOD-1)
      /\ pipe[pi].nread \in Int /\ MOD \in Nat
  BY PipeTypes, Bounds
<1>1. ChanOK(pi) /\ ChanOK(pi)'
  <2>1. (TypeOK => ChansOK)'
    BY ChanIs, PTL
  <2>. QED  BY <2>1, ChanIs DEF ChansOK
<1>2. /\ Chan(pi) \in Seq(Bytes) /\ Len(Chan(pi)) = Used(pi)
      /\ \A i \in 1..Used(pi) : Chan(pi)[i] = pipe[pi].data[Place(pi, i)]
  BY <1>1 DEF ChanOK
<1>3. Used(pi)' = Used(pi) + 1
  BY UsedPuts
<1>4. /\ Chan(pi)' \in Seq(Bytes) /\ Len(Chan(pi)') = Used(pi) + 1
      /\ \A i \in 1..(Used(pi) + 1) : Chan(pi)'[i] = pipe'[pi].data[Place(pi, i)']
  BY <1>1, <1>3 DEF ChanOK, Puts
<1>. DEFINE a == pipe[pi].nread
            w == pipe[pi].nwrite
            u == Used(pi)
<1>5. \A i \in Int : Place(pi, i)' = Place(pi, i)
  BY DEF Place, Puts
<1>6. w % PIPESIZE = (a + u) % PIPESIZE
  <2>1. w = Wrap(a + u)
    <3>1. u = IF a <= w THEN w - a ELSE w - a + MOD
      BY <1>0, WrapDifference DEF Used
    <3>. HIDE DEF u
    <3>2. u \in 0..(MOD-1)
      BY <1>0 DEF u
    <3>3. Wrap(a + u) = IF a + u < MOD THEN a + u ELSE a + u - MOD
      BY <1>0, <3>2, WrapSum
    <3>. HIDE DEF a, w
    <3>4. a \in 0..(MOD-1) /\ w \in 0..(MOD-1) /\ MOD \in Nat
      BY <1>0 DEF a, w
    <3>. QED  BY <3>1, <3>2, <3>3, <3>4
  <2>2. (Wrap(a + u) + 0) % PIPESIZE = (a + u + 0) % PIPESIZE
    BY <1>0, WrapPlace
  <2>3. Wrap(a + u) + 0 = Wrap(a + u) /\ a + u + 0 = a + u
    BY <1>0, <2>1
  <2>. QED  BY <2>1, <2>2, <2>3
<1>7. (a + u) % PIPESIZE \in 0..(PIPESIZE-1)
  <2>1. a + u \in Int
    BY <1>0
  <2>. QED  BY <2>1, Sizes
<1>8. ASSUME NEW i \in 1..Used(pi) PROVE Chan(pi)'[i] = Chan(pi)[i]
  <2>. DEFINE g == i - 1
  <2>1. g \in Int /\ u \in Int /\ a \in Int /\ g # u /\ g - u < PIPESIZE /\ u - g < PIPESIZE
    BY <1>0
  <2>2. a + i - 1 = a + g
    BY <1>0
  <2>. HIDE DEF g, a, u
  <2>3. (a + g) % PIPESIZE # (a + u) % PIPESIZE
    BY <2>1, OtherPlace
  <2>4. Place(pi, i) # w % PIPESIZE
    BY <1>6, <2>2, <2>3 DEF Place, a
  <2>5. a + g \in Int
    BY <2>1
  <2>6. Place(pi, i) \in 0..(PIPESIZE-1)
    BY <2>2, <2>5, Sizes DEF Place, a
  <2>7. pipe'[pi].data[Place(pi, i)] = pipe[pi].data[Place(pi, i)]
    BY <2>4, <2>6, PipeTypes DEF Puts
  <2>8. i \in 1..(Used(pi) + 1) /\ i \in Int
    BY <1>0
  <2>. QED  BY <1>2, <1>4, <1>5, <2>7, <2>8
<1>9. Chan(pi)'[u + 1] = b
  <2>1. u + 1 \in 1..(Used(pi) + 1) /\ u + 1 \in Int
    BY <1>0
  <2>2. a + (u + 1) - 1 = a + u
    BY <1>0
  <2>3. Place(pi, u + 1) = (a + u) % PIPESIZE
    BY <2>2 DEF Place
  <2>4. pipe'[pi].data[w % PIPESIZE] = b
    BY <1>6, <1>7, PipeTypes DEF Puts
  <2>. QED  BY <1>4, <1>5, <1>6, <2>1, <2>3, <2>4
<1>. DEFINE c == Chan(pi)
            d == Chan(pi)'
<1>10. /\ c \in Seq(Bytes) /\ d \in Seq(Bytes) /\ Len(c) = u /\ Len(d) = u + 1 /\ u \in Nat
       /\ \A i \in 1..u : d[i] = c[i]
       /\ d[u + 1] = b /\ b \in Bytes
  BY <1>0, <1>2, <1>4, <1>8, <1>9 DEF Bytes
<1>11. d = Append(c, b)
  <2>. HIDE DEF c, d, u
  <2>1. /\ Append(c, b) \in Seq(Bytes) /\ Len(Append(c, b)) = Len(c) + 1
        /\ Append(c, b)[Len(c) + 1] = b /\ \A i \in 1..Len(c) : Append(c, b)[i] = c[i]
    BY <1>10, Appended
  <2>2. Len(d) = Len(Append(c, b)) /\ \A i \in 1..Len(d) : d[i] = Append(c, b)[i]
    <3>1. \A i \in 1..Len(d) : i \in 1..u \/ i = u + 1
      BY <1>10
    <3>. QED  BY <1>10, <2>1, <3>1
  <2>. QED  BY <1>10, <2>1, <2>2, SeqEqual
<1>. QED  BY <1>2, <1>11

\* What is the same on both sides.
Chans == [pi \in Page |-> Chan(pi)]
Opens == [pi \in Page |-> pipe[pi].open]
LEMMA QueueNext ==
  ASSUME \/ UNCHANGED <<Chans, Opens>>
         \/ \E pi \in Page : /\ Opens[pi] = {} /\ Opens' = [Opens EXCEPT ![pi] = {"R", "W"}]
                             /\ UNCHANGED Chans
         \/ \E pi \in Page, b \in Byte :
              /\ Opens[pi] = {"R", "W"} /\ Len(Chans[pi]) < PIPESIZE
              /\ Chans' = [Chans EXCEPT ![pi] = Append(@, b)] /\ UNCHANGED Opens
         \/ \E pi \in Page : \E k \in 1..Len(Chans[pi]) :
              /\ "R" \in Opens[pi]
              /\ Chans' = [Chans EXCEPT ![pi] = SubSeq(@, k + 1, Len(@))] /\ UNCHANGED Opens
         \/ \E pi \in Page, e \in {"R", "W"} :
              /\ e \in Opens[pi] /\ Opens' = [Opens EXCEPT ![pi] = @ \ {e}]
              /\ Chans' = [Chans EXCEPT ![pi] = IF Opens[pi] = {e} THEN <<>> ELSE @]
  PROVE  [Queue!Next]_(Queue!vars)
<1>. USE DEF Queue!Next, Queue!vars, Chans, Opens
<1>1. CASE UNCHANGED <<Chans, Opens>>
  BY <1>1
<1>2. ASSUME NEW pi \in Page, Opens[pi] = {}, Opens' = [Opens EXCEPT ![pi] = {"R", "W"}], UNCHANGED Chans
      PROVE  [Queue!Next]_(Queue!vars)
  <2>1. Queue!Create(pi)
    BY <1>2 DEF Queue!Create
  <2>. QED  BY <2>1
<1>3. ASSUME NEW pi \in Page, NEW b \in Byte, Opens[pi] = {"R", "W"}, Len(Chans[pi]) < PIPESIZE,
             Chans' = [Chans EXCEPT ![pi] = Append(@, b)], UNCHANGED Opens
      PROVE  [Queue!Next]_(Queue!vars)
  <2>1. Queue!Put(pi, b)
    BY <1>3 DEF Queue!Put
  <2>. QED  BY <2>1
<1>4. ASSUME NEW pi \in Page, NEW k \in 1..Len(Chans[pi]), "R" \in Opens[pi],
             Chans' = [Chans EXCEPT ![pi] = SubSeq(@, k + 1, Len(@))], UNCHANGED Opens
      PROVE  [Queue!Next]_(Queue!vars)
  <2>1. Queue!Get(pi, k)
    BY <1>4 DEF Queue!Get
  <2>. QED  BY <2>1
<1>5. ASSUME NEW pi \in Page, NEW e \in {"R", "W"}, e \in Opens[pi],
             Opens' = [Opens EXCEPT ![pi] = @ \ {e}],
             Chans' = [Chans EXCEPT ![pi] = IF Opens[pi] = {e} THEN <<>> ELSE @]
      PROVE  [Queue!Next]_(Queue!vars)
  <2>1. Queue!Close(pi, e)
    BY <1>5 DEF Queue!Close
  <2>. QED  BY <2>1
<1>. QED  BY <1>1, <1>2, <1>3, <1>4, <1>5

\* The contents and the ends of all pipes, from those of one and of the others.
LEMMA OpensChange ==
  ASSUME TypeOK, NEW x \in Page, NEW S, pipe'[x].open = S, \A y \in Page : y # x => pipe'[y].open = pipe[y].open
  PROVE  Opens' = [Opens EXCEPT ![x] = S]
BY DEF Opens

LEMMA ChansChange ==
  ASSUME TypeOK, NEW x \in Page, NEW s, Chan(x)' = s, \A y \in Page : y # x => pipe'[y] = pipe[y]
  PROVE  Chans' = [Chans EXCEPT ![x] = s]
<1>1. \A y \in Page : y # x => Chan(y)' = Chan(y)
  BY DEF Chan, Wrap
<1>. QED  BY <1>1 DEF Chans

\* A step of the system is one of ByteQueue, or does not show.
LEMMA QueueStep == IInv /\ IInv' /\ [Next]_vars => [Queue!Next]_(Queue!vars)
<1>. SUFFICES ASSUME IInv, IInv', [Next]_vars PROVE [Queue!Next]_(Queue!vars)
  OBVIOUS
<1>0. /\ TypeOK /\ CallTypes /\ TodoOK /\ ForkOK /\ FilesOK /\ RefsExact /\ BusyOK
      /\ EndOnce /\ OpenOK /\ SleepOK /\ RoomOK /\ SleepersHaveWakers /\ TypeOK'
  BY DEF IInv
<1>a. pipe \in [Page -> PipeType] /\ \A x \in Page : pipe[x].open \in SUBSET {"R", "W"}
  BY <1>0, PipeTypes DEF TypeOK, PipeType, End
<1>b. ChansOK /\ ChansOK'
  <2>1. (TypeOK => ChansOK)'
    BY ChanIs, PTL
  <2>. QED  BY <1>0, <2>1, ChanIs
<1>c. /\ \A x \in Page : Chans[x] = Chan(x) /\ Opens[x] = pipe[x].open
      /\ Chans' = [x \in Page |-> Chan(x)'] /\ Opens' = [x \in Page |-> pipe'[x].open]
  BY DEF Chans, Opens
<1>d. ASSUME NEW p \in Proc, NEW e \in End, Has(p, e), at[p] \in Page PROVE e \in pipe[at[p]].open
  <2>1. PICK fd \in Fd : /\ ofile[p][fd] # None /\ file[ofile[p][fd]].pipe = at[p]
                         /\ file[ofile[p][fd]].end = e
    BY <1>d DEF Has
  <2>2. ofile[p][fd] \in File /\ file[ofile[p][fd]].ref > 0
    BY <1>0, <2>1, InUse
  <2>. QED  BY <1>0, <1>d, <2>1, <2>2 DEF OpenOK, IsEnd
<1>1. CASE pipe' = pipe
  <2>1. UNCHANGED <<Chans, Opens>>
    BY <1>1 DEF Chans, Opens, Chan, Wrap
  <2>. QED  BY <2>1, QueueNext
<1>2. ASSUME NEW p \in Proc, ReadCopy(p) PROVE [Queue!Next]_(Queue!vars)
  <2>1. at[p] \in Page /\ Has(p, "R")
    BY <1>0, <1>2, AtPage DEF ReadCopy, BusyOK, Reading
  <2>2. "R" \in pipe[at[p]].open
    BY <1>d, <2>1 DEF End
  <2>3. PICK x \in Page : x = at[p]
    BY <2>1
  <2>4. PICK k \in Nat : Takes(x, k)
    BY <1>0, <1>2, <2>3, ReadTakes
  <2>5. k <= Len(Chan(x)) /\ Chan(x)' = SubSeq(Chan(x), k + 1, Len(Chan(x)))
    BY <1>0, <2>2, <2>3, <2>4, ChanTakes
  <2>6. pipe'[x].open = pipe[x].open /\ \A y \in Page : y # x => pipe'[y] = pipe[y]
    BY <2>4 DEF Takes
  <2>7. Opens' = Opens
    BY <2>6 DEF Opens
  <2>8. Chans' = [Chans EXCEPT ![x] = SubSeq(@, k + 1, Len(@))]
    <3>1. Chans' = [Chans EXCEPT ![x] = SubSeq(Chan(x), k + 1, Len(Chan(x)))]
      BY <1>0, <2>5, <2>6, ChansChange
    <3>. QED  BY <1>c, <3>1
  <2>9. CASE k = 0
    <3>1. Chan(x) \in Seq(Bytes)
      BY <1>b DEF ChansOK, ChanOK
    <3>2. 0 \in 0..Len(Chan(x)) /\ Chan(x)' = SubSeq(Chan(x), 0 + 1, Len(Chan(x)))
      BY <2>5, <2>9, <3>1, EmptySeq
    <3>3. SubSeq(Chan(x), 0 + 1, Len(Chan(x))) = Chan(x)
      <4>. DEFINE c == Chan(x)
      <4>1. c \in Seq(Bytes)
        BY <3>1
      <4>. HIDE DEF c
      <4>2. SubSeq(c, 0 + 1, Len(c)) = c
        BY <4>1
      <4>. QED  BY <4>2 DEF c
    <3>4. Chan(x)' = Chan(x)
      BY <3>2, <3>3
    <3>5. \A y \in Page : Chan(y)' = Chan(y)
      <4>1. \A y \in Page : y # x => Chan(y)' = Chan(y)
        BY <2>6 DEF Chan, Wrap
      <4>. QED  BY <3>4, <4>1
    <3>6. Chans' = Chans
      BY <3>5 DEF Chans
    <3>. QED  BY <2>7, <3>6, QueueNext
  <2>10. CASE k # 0
    <3>1. Chan(x) \in Seq(Bytes)
      BY <1>b DEF ChansOK, ChanOK
    <3>2. Len(Chan(x)) \in Nat
      BY <3>1, EmptySeq
    <3>3. k \in 1..Len(Chans[x]) /\ "R" \in Opens[x]
      BY <1>c, <2>2, <2>3, <2>5, <2>10, <3>2
    <3>. QED  BY <2>7, <2>8, <3>3, QueueNext
  <2>. QED  BY <2>9, <2>10
<1>3. ASSUME NEW p \in Proc, NEW b \in Byte, WriteByte(p, b) PROVE [Queue!Next]_(Queue!vars)
  <2>1. at[p] \in Page /\ Has(p, "W") /\ MayPut(p) /\ "R" \in pipe[at[p]].open
    BY <1>0, <1>3, AtPage DEF WriteByte, MayPut, Refused, BusyOK, Writing
  <2>2. "W" \in pipe[at[p]].open
    BY <1>d, <2>1 DEF End
  <2>3. PICK x \in Page : x = at[p]
    BY <2>1
  <2>4. Puts(x, b) /\ Used(x) < PIPESIZE
    BY <1>0, <1>3, <2>1, <2>3, WritePuts, RoomToPut
  <2>5. Len(Chan(x)) < PIPESIZE /\ Chan(x)' = Append(Chan(x), b)
    BY <1>0, <2>2, <2>3, <2>4, ChanPuts
  <2>6. pipe'[x].open = pipe[x].open /\ \A y \in Page : y # x => pipe'[y] = pipe[y]
    BY <2>4 DEF Puts
  <2>7. Opens' = Opens
    BY <2>6 DEF Opens
  <2>8. Chans' = [Chans EXCEPT ![x] = Append(@, b)]
    <3>1. Chans' = [Chans EXCEPT ![x] = Append(Chan(x), b)]
      BY <1>0, <2>5, <2>6, ChansChange
    <3>. QED  BY <1>c, <3>1
  <2>9. Opens[x] = {"R", "W"} /\ Len(Chans[x]) < PIPESIZE
    BY <1>a, <1>c, <2>1, <2>2, <2>3, <2>5
  <2>. QED  BY <2>7, <2>8, <2>9, QueueNext
<1>4. ASSUME NEW x \in Page, pipe'[x].nread = 0, pipe'[x].nwrite = 0 PROVE Chan(x)' = <<>>
  <2>1. Used(x)' = 0
    BY <1>4, FreshUsed
  <2>2. ChanOK(x)'
    BY <1>b DEF ChansOK
  <2>3. Chan(x)' \in Seq(Bytes) /\ (Chan(x)' = <<>> \/ Len(Chan(x)') = 0)
    BY <2>1, <2>2 DEF ChanOK
  <2>. QED  BY <2>3, EmptySeq
<1>5. ASSUME NEW p \in Proc, PipeMade(p) PROVE [Queue!Next]_(Queue!vars)
  <2>1. PICK rf, wf \in File, x \in Page : Made(p, rf, wf, x)
    BY <1>0, <1>5, PipeMadeFacts
  <2>2. /\ pipe[x].open = {} /\ pipe'[x].open = {"R", "W"}
        /\ pipe'[x].nread = 0 /\ pipe'[x].nwrite = 0
        /\ \A y \in Page : y # x => pipe'[y] = pipe[y]
    BY <1>a, <2>1 DEF Made, FreePage, End
  <2>3. Chan(x) = <<>> /\ Chan(x)' = <<>>
    BY <1>4, <1>b, <2>2 DEF ChansOK, ChanOK
  <2>4. \A y \in Page : Chan(y)' = Chan(y)
    <3>1. \A y \in Page : y # x => Chan(y)' = Chan(y)
      BY <2>2 DEF Chan, Wrap
    <3>. QED  BY <2>3, <3>1
  <2>5. Chans' = Chans
    BY <2>4 DEF Chans
  <2>6. Opens[x] = {} /\ Opens' = [Opens EXCEPT ![x] = {"R", "W"}]
    BY <1>0, <1>c, <2>2, OpensChange
  <2>. QED  BY <2>5, <2>6, QueueNext
<1>6. ASSUME NEW p \in Proc, PipeClose(p) PROVE [Queue!Next]_(Queue!vars)
  <2>1. at[p] \in Page /\ pc[p] = "pipeclose" /\ end[p] \in End
    BY <1>0, <1>6, AtPage DEF PipeClose, CallTypes
  <2>2. PICK x \in Page, e \in {"R", "W"} : x = at[p] /\ e = end[p]
    BY <2>1 DEF End
  <2>3. e \in pipe[x].open
    BY <1>0, <2>1, <2>2 DEF OpenOK, Closes
  <2>4. CASE pipe[x].open = {e}
    <3>1. pipe' = [pipe EXCEPT ![x] = FreePage]
      BY <1>6, <2>2, <2>4 DEF PipeClose
    <3>2. /\ pipe'[x].open = {} /\ pipe'[x].nread = 0 /\ pipe'[x].nwrite = 0
          /\ \A y \in Page : y # x => pipe'[y] = pipe[y]
      BY <1>a, <3>1 DEF FreePage
    <3>3. Chan(x)' = <<>>
      BY <1>4, <3>2
    <3>4. Chans' = [Chans EXCEPT ![x] = <<>>]
      BY <1>0, <3>2, <3>3, ChansChange
    <3>5. Opens' = [Opens EXCEPT ![x] = {}]
      BY <1>0, <3>2, OpensChange
    <3>6. /\ e \in Opens[x] /\ Opens[x] = {e} /\ Opens' = [Opens EXCEPT ![x] = @ \ {e}]
          /\ Chans' = [Chans EXCEPT ![x] = IF Opens[x] = {e} THEN <<>> ELSE @]
      BY <1>c, <2>4, <3>4, <3>5
    <3>. QED  BY <3>6, QueueNext
  <2>5. CASE pipe[x].open # {e}
    <3>1. pipe' = [pipe EXCEPT ![x].open = @ \ {e}]
      BY <1>6, <2>2, <2>5 DEF PipeClose
    <3>2. /\ pipe'[x].open = pipe[x].open \ {e} /\ pipe'[x].nread = pipe[x].nread
          /\ pipe'[x].nwrite = pipe[x].nwrite /\ pipe'[x].data = pipe[x].data
          /\ \A y \in Page : y # x => pipe'[y] = pipe[y]
      BY <1>a, <3>1 DEF PipeType
    <3>3. pipe[x].open # {} /\ pipe'[x].open # {}
      BY <2>3, <2>5, <3>2
    <3>4. Chan(x)' = Chan(x)
      BY <3>2, <3>3 DEF Chan, Wrap
    <3>5. Chans' = [Chans EXCEPT ![x] = Chan(x)]
      BY <1>0, <3>2, <3>4, ChansChange
    <3>6. Opens' = [Opens EXCEPT ![x] = pipe[x].open \ {e}]
      BY <1>0, <3>2, OpensChange
    <3>7. /\ e \in Opens[x] /\ Opens[x] # {e} /\ Opens' = [Opens EXCEPT ![x] = @ \ {e}]
          /\ Chans' = [Chans EXCEPT ![x] = IF Opens[x] = {e} THEN <<>> ELSE @]
      BY <1>c, <2>3, <2>5, <3>5, <3>6
    <3>. QED  BY <3>7, QueueNext
  <2>. QED  BY <2>4, <2>5
<1>7. ASSUME NEW p \in Proc, Moves(p) \/ Others(p) \/ Kill(p)
      PROVE  \/ pipe' = pipe \/ ReadCopy(p) \/ (\E b \in Byte : WriteByte(p, b))
             \/ PipeMade(p) \/ PipeClose(p)
  BY <1>7, PipeSteps
<1>8. UNCHANGED vars \/ \E p \in Proc : Moves(p) \/ Others(p) \/ Kill(p)
  BY DEF Next, User, Kernel, Moves, Others
<1>. QED  BY <1>1, <1>2, <1>3, <1>5, <1>6, <1>7, <1>8 DEF vars, pipeVars

\* pipe.c:88, 95, 113, 123: pipes are bounded FIFOs of bytes, although the
\* counters wrap around.
THEOREM Refinement == Spec => ImplementsByteQueue
<1>1. Init => Queue!Init
  <2>. SUFFICES ASSUME Init PROVE Queue!Init
    OBVIOUS
  <2>1. \A pi \in Page : pipe[pi].open = {} /\ Chan(pi) = <<>>
    BY DEF Init, FreePage, Chan
  <2>. QED  BY <2>1 DEF Queue!Init
<1>2. QED
  BY <1>1, QueueStep, Inductive, PTL DEF Spec, ImplementsByteQueue, Queue!Spec
=============================================================================
