-------------------------------- MODULE Pipe --------------------------------
(***************************************************************************)
(* Pipes and the files that name them (pipe.c, file.c and the system calls *)
(* on descriptors of sysfile.c), with fork(), exit() and kill() as far as  *)
(* they touch either.                                                      *)
(*                                                                         *)
(* An action is what one process does while it holds ftable.lock, or one   *)
(* round of a loop of pipe.c under pi->lock: the lock is kept from round   *)
(* to round and given up by sleep(), and kill() comes in between.  Private *)
(* steps (myproc()->ofile, a file nobody else has yet) join their          *)
(* neighbours.                                                             *)
(***************************************************************************)
EXTENDS Integers, Sequences, FiniteSets

CONSTANTS
  Proc, Root,   \* the processes; Root is init, which never exits
  NFILE,        \* entries of ftable
  NOFILE,       \* descriptors of a process
  Page,         \* the pages kalloc() can give to pipes
  PIPESIZE,     \* bytes a pipe holds
  MOD,          \* nread and nwrite count modulo MOD, 2^32 in the code
  Byte,
  Count,        \* the numbers of bytes that read() and write() ask for
  None

ASSUME PipeAssumption ==
  /\ PIPESIZE \in Nat \ {0}
  /\ MOD \in Nat /\ MOD % PIPESIZE = 0 /\ MOD > PIPESIZE
  /\ NFILE \in Nat /\ NOFILE \in Nat /\ Count \subseteq Nat
  /\ IsFiniteSet(Proc) /\ Root \in Proc
  /\ None \notin Page /\ None \notin 1..NFILE /\ None \notin Proc

VARIABLES
  file,      \* ftable.file: ref, the pipe (None: FD_NONE) and its end
  ofile,     \* the descriptors of each process
  pipe,      \* struct pipe of each page
  lock,      \* the process that keeps pi->lock from one round to the next
  pc,        \* control point of each process
  killed,    \* p->killed
  at,        \* the pipe a process reads, writes or closes
  left,      \* the bytes a read or write may still move
  end,       \* the end of the pipe that is being closed
  todo,      \* files a process has to close, or would if pipe() fails
  exiting,   \* is the process in exit()?
  child,     \* the child a process is forking
  cut        \* history: pipes a killed writer left without a wakeup

fileVars == <<file, ofile>>
pipeVars == <<pipe, lock, cut>>
callVars == <<at, left, end, todo, exiting, child>>
vars == <<fileVars, pipeVars, pc, killed, callVars>>

File == 1..NFILE
Fd == 0..(NOFILE - 1)
End == {"R", "W"}

NoFile == [ref |-> 0, pipe |-> None, end |-> "R"]
FreePage == [open |-> {}, nread |-> 0, nwrite |-> 0, data |-> [i \in 0..(PIPESIZE-1) |-> None]]

Init ==
  /\ file = [f \in File |-> NoFile]
  /\ ofile = [p \in Proc |-> [fd \in Fd |-> None]]
  /\ pipe = [pi \in Page |-> FreePage]
  /\ lock = [pi \in Page |-> None]
  /\ pc = [p \in Proc |-> IF p = Root THEN "user" ELSE "unused"]
  /\ killed = [p \in Proc |-> FALSE]
  /\ at = [p \in Proc |-> None]
  /\ left = [p \in Proc |-> 0]
  /\ end = [p \in Proc |-> "R"]
  /\ todo = [p \in Proc |-> <<>>]
  /\ exiting = [p \in Proc |-> FALSE]
  /\ child = [p \in Proc |-> None]
  /\ cut = {}
-----------------------------------------------------------------------------
First(S) == CHOOSE x \in S : \A y \in S : x <= y
FreeFiles == {f \in File : file[f].ref = 0}
FreeFds(p) == {fd \in Fd : ofile[p][fd] = None}

Goto(p, label) == pc' = [pc EXCEPT ![p] = label]

\* A system call starts: usertrap() has seen no kill.
Calls(p) == pc[p] = "user" /\ ~killed[p]

\* filealloc() of the first free entry.
Allocated == [file EXCEPT ![First(FreeFiles)].ref = 1]
-----------------------------------------------------------------------------
\* sys_pipe() and pipealloc(), up to the first filealloc(); without a free
\* file nothing happens.
SysPipe(p) ==
  /\ Calls(p) /\ FreeFiles # {}
  /\ file' = Allocated
  /\ todo' = [todo EXCEPT ![p] = <<First(FreeFiles)>>]
  /\ Goto(p, "pipe")
  /\ UNCHANGED <<ofile, pipeVars, killed, at, left, end, exiting, child>>

\* The second filealloc() finds no file, or kalloc() no page after it: what
\* there is by then is closed again, FD_NONE files without a page.
PipeFails(p) ==
  /\ pc[p] = "pipe"
  /\ IF FreeFiles = {} THEN UNCHANGED <<file, todo>>
     ELSE /\ file' = Allocated
          /\ todo' = [todo EXCEPT ![p] = Append(@, First(FreeFiles))]
  /\ Goto(p, "close")
  /\ UNCHANGED <<ofile, pipeVars, killed, at, left, end, exiting, child>>

\* pipealloc() succeeds: the two files are the ends of a pipe on a new page,
\* and nobody's descriptors yet.
PipeMade(p) ==
  /\ pc[p] = "pipe" /\ FreeFiles # {}
  /\ LET rf == todo[p][1]
         wf == First(FreeFiles)
     IN \E pi \in Page :
          /\ pipe[pi].open = {}
          /\ pipe' = [pipe EXCEPT ![pi] = [FreePage EXCEPT !.open = End]]
          /\ file' = [file EXCEPT ![rf] = [ref |-> 1, pipe |-> pi, end |-> "R"],
                                  ![wf] = [ref |-> 1, pipe |-> pi, end |-> "W"]]
  /\ todo' = [todo EXCEPT ![p] = Append(@, First(FreeFiles))]
  /\ Goto(p, "fdalloc")
  /\ UNCHANGED <<ofile, lock, cut, killed, at, left, end, exiting, child>>

\* fdalloc() of the two files gives the lowest free descriptors; with fewer
\* than two the second call, or the first, fails.
Fd0(p) == First(FreeFds(p))
Fd1(p) == First(FreeFds(p) \ {Fd0(p)})
Fdalloc(p) ==
  CASE Cardinality(FreeFds(p)) >= 2 ->
         [ofile[p] EXCEPT ![Fd0(p)] = todo[p][1], ![Fd1(p)] = todo[p][2]]
    [] Cardinality(FreeFds(p)) = 1 -> [ofile[p] EXCEPT ![Fd0(p)] = todo[p][1]]
    [] OTHER -> ofile[p]

PipeFds(p) ==
  /\ pc[p] = "fdalloc" /\ Cardinality(FreeFds(p)) >= 2
  /\ ofile' = [ofile EXCEPT ![p] = Fdalloc(p)]
  /\ todo' = [todo EXCEPT ![p] = <<>>]
  /\ Goto(p, "user")
  /\ UNCHANGED <<file, pipeVars, killed, at, left, end, exiting, child>>

\* fdalloc() fails, or copyout() after both: the descriptors there are by then
\* are given back, and fileclose() of both ends gives back files and page.
GivenBackOne(p, table) == [table EXCEPT ![Fd0(p)] = None]
GivenBack(p, table) == [fd \in Fd |-> IF fd \in FreeFds(p) THEN None ELSE table[fd]]
PipeUndone(p) ==
  /\ pc[p] = "fdalloc"
  /\ ofile' = [ofile EXCEPT ![p] = GivenBack(p, Fdalloc(p))]
  /\ Goto(p, "close")
  /\ UNCHANGED <<file, pipeVars, killed, at, left, end, todo, exiting, child>>
-----------------------------------------------------------------------------
\* sys_dup(): fdalloc() and filedup().
SysDup(p, fd) ==
  /\ Calls(p) /\ ofile[p][fd] # None /\ FreeFds(p) # {}
  /\ ofile' = [ofile EXCEPT ![p][First(FreeFds(p))] = ofile[p][fd]]
  /\ file' = [file EXCEPT ![ofile[p][fd]].ref = @ + 1]
  /\ UNCHANGED <<pipeVars, pc, killed, callVars>>

\* fork(): the child exists, but does not run before it has all the files.
Fork(p, q) ==
  /\ Calls(p) /\ pc[q] = "unused"
  /\ child' = [child EXCEPT ![p] = q]
  /\ pc' = [pc EXCEPT ![p] = "fork", ![q] = "embryo"]
  /\ UNCHANGED <<fileVars, pipeVars, killed, at, left, end, todo, exiting>>

\* The next filedup() of fork(), or its end.
ToCopy(p) == {fd \in Fd : ofile[p][fd] # None /\ ofile[child[p]][fd] = None}
DupShared(f) == file
Dup(f) == [file EXCEPT ![f].ref = @ + 1]
ForkFile(p) ==
  /\ pc[p] = "fork"
  /\ IF ToCopy(p) = {}
     THEN /\ pc' = [pc EXCEPT ![p] = "user", ![child[p]] = "user"]
          /\ child' = [child EXCEPT ![p] = None]
          /\ UNCHANGED fileVars
     ELSE LET fd == First(ToCopy(p)) IN
          /\ file' = Dup(ofile[p][fd])
          /\ ofile' = [ofile EXCEPT ![child[p]][fd] = ofile[p][fd]]
          /\ UNCHANGED <<pc, child>>
  /\ UNCHANGED <<pipeVars, killed, at, left, end, todo, exiting>>
-----------------------------------------------------------------------------
\* usertrap() of a killed process, or the system call: exit() begins.
Exit(p) ==
  /\ pc[p] = "user" /\ p # Root
  /\ exiting' = [exiting EXCEPT ![p] = TRUE]
  /\ Goto(p, "close")
  /\ UNCHANGED <<fileVars, pipeVars, killed, at, left, end, todo, child>>

\* sys_close().
SysClose(p, fd) ==
  /\ Calls(p) /\ ofile[p][fd] # None
  /\ todo' = [todo EXCEPT ![p] = <<ofile[p][fd]>>]
  /\ ofile' = [ofile EXCEPT ![p][fd] = None]
  /\ Goto(p, "close")
  /\ UNCHANGED <<file, pipeVars, killed, at, left, end, exiting, child>>

\* fileclose() of file f under ftable.lock; the last reference to an end of a
\* pipe goes on to pipeclose().
LastCloseAny(f) == TRUE
LastClose(f) == file[f].ref = 1
FileClose(p, f) ==
  /\ IF LastClose(f)
     THEN /\ file' = [file EXCEPT ![f] = NoFile]
          /\ IF file[f].pipe = None
             THEN UNCHANGED <<pc, at, end>>
             ELSE /\ Goto(p, "pipeclose")
                  /\ at' = [at EXCEPT ![p] = file[f].pipe]
                  /\ end' = [end EXCEPT ![p] = file[f].end]
     ELSE file' = [file EXCEPT ![f].ref = @ - 1] /\ UNCHANGED <<pc, at, end>>
  /\ UNCHANGED <<pipeVars, killed, left, exiting, child>>

\* What close() or a pipe() that fails has to close.
CloseTodo(p) ==
  /\ pc[p] = "close" /\ todo[p] # <<>>
  /\ FileClose(p, Head(todo[p]))
  /\ todo' = [todo EXCEPT ![p] = Tail(@)]
  /\ UNCHANGED ofile

\* The next descriptor of exit().
ExitFile(p) ==
  /\ pc[p] = "close" /\ exiting[p] /\ FreeFds(p) # Fd
  /\ LET fd == First(Fd \ FreeFds(p)) IN
       FileClose(p, ofile[p][fd]) /\ ofile' = [ofile EXCEPT ![p][fd] = None]
  /\ UNCHANGED todo

\* Nothing is left to close.  The slot of an exited process is reaped and free.
Closed(p) ==
  /\ pc[p] = "close" /\ todo[p] = <<>>
  /\ IF ~exiting[p]
     THEN Goto(p, "user") /\ UNCHANGED <<killed, exiting>>
     ELSE /\ FreeFds(p) = Fd
          /\ Goto(p, "unused")
          /\ killed' = [killed EXCEPT ![p] = FALSE]
          /\ exiting' = [exiting EXCEPT ![p] = FALSE]
  /\ UNCHANGED <<fileVars, pipeVars, at, left, end, todo, child>>
-----------------------------------------------------------------------------
\* pi->lock as process p finds it.
MayLock(p) == lock[at[p]] \in {None, p}

\* wakeup(&pi->nread) and wakeup(&pi->nwrite) find these processes.
Readers(pi) == {q \in Proc : pc[q] = "rsleep" /\ at[q] = pi}
Writers(pi) == {q \in Proc : pc[q] = "wsleep" /\ at[q] = pi}

\* Process p goes to label and wakes the processes of S, which will have to
\* get the lock again.
GotoWaking(p, label, S) ==
  pc' = [q \in Proc |-> CASE q = p -> label
                          [] q \in S -> IF pc[q] = "rsleep" THEN "read" ELSE "write"
                          [] OTHER -> pc[q]]

\* pipeclose(): the process at the other end is woken; the page goes back to
\* kalloc() with the second end.
OtherSide(pi, e) == IF e = "W" THEN Readers(pi) ELSE Writers(pi)
PipeClose(p) ==
  /\ pc[p] = "pipeclose" /\ MayLock(p)
  /\ GotoWaking(p, "close", OtherSide(at[p], end[p]))
  /\ pipe' = IF pipe[at[p]].open = {end[p]} THEN [pipe EXCEPT ![at[p]] = FreePage]
             ELSE [pipe EXCEPT ![at[p]].open = @ \ {end[p]}]
  /\ cut' = IF end[p] = "W" \/ pipe'[at[p]].open = {} THEN cut \ {at[p]} ELSE cut
  /\ at' = [at EXCEPT ![p] = None]
  /\ end' = [end EXCEPT ![p] = "R"]
  /\ UNCHANGED <<fileVars, lock, killed, left, todo, exiting, child>>
-----------------------------------------------------------------------------
\* sys_read() and sys_write() of n bytes, fileread() and filewrite().
Start(p, fd, n, e, label) ==
  /\ Calls(p) /\ ofile[p][fd] # None
  /\ file[ofile[p][fd]].end = e
  /\ at' = [at EXCEPT ![p] = file[ofile[p][fd]].pipe]
  /\ left' = [left EXCEPT ![p] = n]
  /\ Goto(p, label)
  /\ UNCHANGED <<fileVars, pipeVars, killed, end, todo, exiting, child>>

SysRead(p, fd, n) == Start(p, fd, n, "R", "read")
SysWrite(p, fd, n) == Start(p, fd, n, "W", "write")

Wrap(n) == n % MOD
Empty(pi) == pipe[pi].nread = pipe[pi].nwrite
FullUnwrapped(pi) == pipe[pi].nwrite = pipe[pi].nread + PIPESIZE
Full(pi) == pipe[pi].nwrite = Wrap(pipe[pi].nread + PIPESIZE)

\* Return to user space, with the lock released and the processes of S awake.
Return(p, S) ==
  /\ GotoWaking(p, "user", S)
  /\ lock' = [lock EXCEPT ![at[p]] = None]
  /\ at' = [at EXCEPT ![p] = None]
  /\ left' = [left EXCEPT ![p] = 0]
  /\ UNCHANGED <<fileVars, killed, end, todo, exiting, child>>

\* sleep(): asleep before the lock is free.
Sleep(p, from, to) ==
  /\ pc[p] = from
  /\ Goto(p, to)
  /\ lock' = [lock EXCEPT ![at[p]] = None]
  /\ UNCHANGED <<fileVars, pipe, cut, killed, callVars>>
-----------------------------------------------------------------------------
\* piperead(): the test of its first loop.
ReaderWaits(p) == Empty(at[p]) /\ "W" \in pipe[at[p]].open

ReadKilled(p) ==
  /\ pc[p] = "read" /\ MayLock(p) /\ ReaderWaits(p) /\ killed[p]
  /\ Return(p, {})
  /\ UNCHANGED <<pipe, cut>>

ReadWaits(p) ==
  /\ pc[p] = "read" /\ MayLock(p) /\ ReaderWaits(p) /\ ~killed[p]
  /\ lock' = [lock EXCEPT ![at[p]] = p]
  /\ Goto(p, "rblock")
  /\ UNCHANGED <<fileVars, pipe, cut, killed, callVars>>

ReadSleep(p) == Sleep(p, "rblock", "rsleep")

\* The second loop: everything there is, up to n bytes, or fewer if copyout()
\* fails, whose byte is taken all the same.  A place that has been read holds
\* None: what is left there does not matter if it is written before it is read.
WokenNone(pi) == {}
Woken(pi) == Writers(pi)
ReadCopy(p) ==
  /\ pc[p] = "read" /\ MayLock(p) /\ ~ReaderWaits(p)
  /\ LET pi == at[p]
         used == Wrap(pipe[pi].nwrite - pipe[pi].nread)
         most == IF left[p] < used THEN left[p] ELSE used
     IN \E k \in (IF most = 0 THEN {0} ELSE 1..most) :
          /\ pipe' = [pipe EXCEPT ![pi].nread = Wrap(@ + k),
                                  ![pi].data = [i \in DOMAIN @ |->
                                    IF \E j \in 0..(k-1) : i = (pipe[pi].nread + j) % PIPESIZE
                                    THEN None ELSE @[i]]]
          /\ cut' = IF k = used THEN cut \ {pi} ELSE cut
  /\ Return(p, Woken(at[p]))
-----------------------------------------------------------------------------
\* pipewrite(): the tests of its loop.
Refused(p) == "R" \notin pipe[at[p]].open \/ killed[p]
MayPut(p) == left[p] > 0 /\ ~Refused(p) /\ ~Full(at[p])

\* It returns -1 without a wakeup, even with bytes written before.
WriteRefused(p) ==
  /\ pc[p] = "write" /\ MayLock(p) /\ left[p] > 0 /\ Refused(p)
  /\ Return(p, {})
  /\ cut' = IF lock[at[p]] = p THEN cut \cup {at[p]} ELSE cut
  /\ UNCHANGED pipe

WriteWaits(p) ==
  /\ pc[p] = "write" /\ MayLock(p) /\ left[p] > 0 /\ ~Refused(p) /\ Full(at[p])
  /\ GotoWaking(p, "wblock", Readers(at[p]))
  /\ lock' = [lock EXCEPT ![at[p]] = p]
  /\ cut' = cut \ {at[p]}
  /\ UNCHANGED <<fileVars, pipe, killed, callVars>>

WriteSleep(p) == Sleep(p, "wblock", "wsleep")

WriteByte(p, b) ==
  /\ pc[p] = "write" /\ MayLock(p) /\ MayPut(p)
  /\ pipe' = [pipe EXCEPT ![at[p]].data[pipe[at[p]].nwrite % PIPESIZE] = b,
                          ![at[p]].nwrite = Wrap(@ + 1)]
  /\ left' = [left EXCEPT ![p] = @ - 1]
  /\ lock' = [lock EXCEPT ![at[p]] = p]
  /\ UNCHANGED <<fileVars, cut, pc, killed, at, end, todo, exiting, child>>

\* All is written, or copyin() of the next byte fails.
AnnouncedNone(pi) == {}
Announced(pi) == Readers(pi)
WriteEnds(p) ==
  /\ pc[p] = "write" /\ MayLock(p) /\ (left[p] = 0 \/ MayPut(p))
  /\ Return(p, Announced(at[p]))
  /\ cut' = cut \ {at[p]}
  /\ UNCHANGED pipe
-----------------------------------------------------------------------------
\* kill(): a sleeping process becomes runnable.
Kill(p) ==
  /\ p # Root /\ pc[p] # "unused"
  /\ killed' = [killed EXCEPT ![p] = TRUE]
  /\ pc' = [pc EXCEPT ![p] = CASE pc[p] = "rsleep" -> "read"
                               [] pc[p] = "wsleep" -> "write"
                               [] OTHER -> pc[p]]
  /\ UNCHANGED <<fileVars, pipeVars, callVars>>
-----------------------------------------------------------------------------
\* The kernel on behalf of process p, inside a system call.
Kernel(p) ==
  \/ PipeFails(p) \/ PipeMade(p) \/ PipeFds(p) \/ PipeUndone(p)
  \/ ForkFile(p)
  \/ CloseTodo(p) \/ ExitFile(p) \/ Closed(p) \/ PipeClose(p)
  \/ ReadKilled(p) \/ ReadWaits(p) \/ ReadSleep(p) \/ ReadCopy(p)
  \/ WriteRefused(p) \/ WriteWaits(p) \/ WriteSleep(p)
  \/ (\E b \in Byte : WriteByte(p, b)) \/ WriteEnds(p)

User(p) ==
  \/ SysPipe(p) \/ Exit(p)
  \/ \E q \in Proc : Fork(p, q)
  \/ \E fd \in Fd : SysDup(p, fd) \/ SysClose(p, fd)
  \/ \E fd \in Fd, n \in Count : SysRead(p, fd, n) \/ SysWrite(p, fd, n)

Next == \E p \in Proc : User(p) \/ Kernel(p) \/ Kill(p)

Spec == Init /\ [][Next]_vars
-----------------------------------------------------------------------------
\* All variables keep their types; a lock is only kept by a process that is
\* inside the loop of that pipe.
TypeOK ==
  /\ file \in [File -> [ref : Nat, pipe : Page \cup {None}, end : End]]
  /\ ofile \in [Proc -> [Fd -> File \cup {None}]]
  /\ pipe \in [Page -> [open : SUBSET End, nread : 0..(MOD-1), nwrite : 0..(MOD-1),
                        data : [0..(PIPESIZE-1) -> Byte \cup {None}]]]
  /\ lock \in [Page -> Proc \cup {None}]
  /\ killed \in [Proc -> BOOLEAN]
  /\ at \in [Proc -> Page \cup {None}]
  /\ left \in [Proc -> Nat]
  /\ \A pi \in Page : lock[pi] # None =>
       at[lock[pi]] = pi /\ pc[lock[pi]] \in {"rblock", "wblock", "write"}

\* The references of a file are the descriptors that name it and the calls
\* that are about to give it to a descriptor or to close it: none is lost when
\* pipe() fails, and none is given back twice (file.c:29-83).
Holders(f) == {x \in Proc \X Fd : ofile[x[1]][x[2]] = f}
Pending(f) == {x \in Proc \X {1, 2} : x[2] \in DOMAIN todo[x[1]] /\ todo[x[1]][x[2]] = f}
RefsExact ==
  \A f \in File : file[f].ref = Cardinality(Holders(f)) + Cardinality(Pending(f))

\* An end of a pipe is open exactly as long as a file in use is that end, or
\* its pipeclose() is under way; and whoever reads or writes has it open.  So
\* end of file is never told too early, and no page in use is freed
\* (pipe.c:61-73, file.c:67-78).
Ending(pi) == {end[p] : p \in {q \in Proc : pc[q] = "pipeclose" /\ at[q] = pi}}
EndsHeld ==
  /\ \A pi \in Page :
       pipe[pi].open = {file[f].end : f \in {g \in File : file[g].ref > 0 /\ file[g].pipe = pi}}
                       \cup Ending(pi)
  /\ \A p \in Proc :
       /\ pc[p] \in {"read", "rblock", "rsleep"} => at[p] # None /\ "R" \in pipe[at[p]].open
       /\ pc[p] \in {"write", "wblock", "wsleep"} => at[p] # None /\ "W" \in pipe[at[p]].open

\* No reader sleeps over bytes or over a closed pipe, unless the writer that
\* will wake it is still at work, or was killed between two bytes, when the
\* code returns without a wakeup (pipe.c:84-99, 118).
ReaderHasWaker ==
  \A p \in Proc : pc[p] = "rsleep" /\ ~ReaderWaits(p) => lock[at[p]] # None \/ at[p] \in cut

\* No writer sleeps over a pipe that has room or that nobody reads (pipe.c:90, 127).
WriterHasWaker == \A p \in Proc : pc[p] = "wsleep" => Full(at[p]) /\ ~("R" \notin pipe[at[p]].open)

\* Nobody sleeps in a pipe without somebody who will wake him.
SleepersHaveWakers == ReaderHasWaker /\ WriterHasWaker

\* Pipes are bounded FIFOs of bytes, although the counters wrap around
\* (pipe.c:88, 95, 113, 123).
Chan(pi) ==
  IF pipe[pi].open = {} THEN <<>>
  ELSE [i \in 1..Wrap(pipe[pi].nwrite - pipe[pi].nread) |->
          pipe[pi].data[(pipe[pi].nread + i - 1) % PIPESIZE]]
Queue == INSTANCE ByteQueue WITH Pipe <- Page, chan <- [pi \in Page |-> Chan(pi)],
                                 ends <- [pi \in Page |-> pipe[pi].open]
ImplementsByteQueue == Queue!Spec
=============================================================================
