------------------------------ MODULE ProcLife ------------------------------
(***************************************************************************)
(* The life of a process: fork(), exit(), wait(), kill() and sleep() of    *)
(* kernel/proc.c, the killed checks of usertrap() and sys_getppid().       *)
(*                                                                         *)
(* Any number of CPUs: a process whose state is RUNNABLE may take its next *)
(* step at any time (RUNNING is the same here; Mlfq has the scheduler).    *)
(* One action is one section under p->lock, or what happens under          *)
(* wait_lock and can be seen only under it.                                *)
(***************************************************************************)
EXTENDS Integers, FiniteSets

CONSTANTS
  NPROC,    \* slots of the process table
  MAXPID    \* bound on the pids handed out

ASSUME ProcLifeAssumption == NPROC \in Nat \ {0} /\ MAXPID \in Nat \ {0}

VARIABLES
  state,    \* p->state
  pid,      \* p->pid, 0 in a free slot
  nextpid,
  parent,   \* p->parent, 0 when not set
  killed,   \* p->killed
  waitLock, \* the process that holds wait_lock
  pc,       \* what the process is doing in the kernel
  arg       \* fork(): np; sys_getppid(): the pointer read from p->parent

vars == <<state, pid, nextpid, parent, killed, waitLock, pc, arg>>

Proc == 1..NPROC
NoProc == 0
InitProc == 1

Init ==
  /\ state = [p \in Proc |-> IF p = InitProc THEN "RUNNABLE" ELSE "UNUSED"]
  /\ pid = [p \in Proc |-> IF p = InitProc THEN 1 ELSE 0]
  /\ nextpid = 2
  /\ parent = [p \in Proc |-> NoProc]
  /\ killed = [p \in Proc |-> FALSE]
  /\ waitLock = NoProc
  /\ pc = [p \in Proc |-> IF p = InitProc THEN "user" ELSE "none"]
  /\ arg = [p \in Proc |-> NoProc]
-----------------------------------------------------------------------------
At(p, l) == state[p] = "RUNNABLE" /\ pc[p] = l

Goto(p, l) == pc' = [pc EXCEPT ![p] = l]

\* A process enters the kernel with a system call; the trap handler has seen
\* that it is not killed.
Calls(p) == At(p, "user") /\ ~killed[p]

\* Where a sleeper goes on once it is RUNNABLE: back to its loop.
Resumed(p) == IF pc[p] = "waitsleep" THEN "wait" ELSE "io"

Asleep(p) == state[p] = "SLEEPING"

\* wakeup() of those among S that sleep in wait(); they are their own channel.
\* With the moves of process p in the same step.
WakeWaiters(S, p, l) ==
  LET woken == {q \in S : Asleep(q) /\ pc[q] = "waitsleep"} IN
  /\ state' = [q \in Proc |-> IF q \in woken THEN "RUNNABLE" ELSE state[q]]
  /\ pc' = [q \in Proc |-> IF q = p THEN l
                           ELSE IF q \in woken THEN "wait" ELSE pc[q]]
\* Mutants of Free: p->state is left; p->parent is left.
FreeAsZombie(q) ==
  /\ pid' = [pid EXCEPT ![q] = 0]
  /\ parent' = [parent EXCEPT ![q] = NoProc]
  /\ killed' = [killed EXCEPT ![q] = FALSE]
  /\ UNCHANGED state

\* freeproc()
Free(q) ==
  /\ state' = [state EXCEPT ![q] = "UNUSED"]
  /\ pid' = [pid EXCEPT ![q] = 0]
  /\ parent' = [parent EXCEPT ![q] = NoProc]
  /\ killed' = [killed EXCEPT ![q] = FALSE]

-----------------------------------------------------------------------------
(* fork() *)

\* allocproc() and the copies: the child keeps its lock until it is complete.
\* The scan for a slot is not atomic: one it has passed may be free by now.
Fork(p) ==
  \E np \in Proc :
    /\ Calls(p)
    /\ state[np] = "UNUSED"
    /\ nextpid <= MAXPID
    /\ state' = [state EXCEPT ![np] = "USED"]
    /\ pid' = [pid EXCEPT ![np] = nextpid]
    /\ nextpid' = nextpid + 1
    /\ arg' = [arg EXCEPT ![p] = np]
    /\ Goto(p, "fork")
    /\ UNCHANGED <<parent, killed, waitLock>>

\* Out of memory: what was allocated is freed again, the pid is lost.
ForkFails(p) ==
  \E np \in Proc :
    /\ Calls(p)
    /\ state[np] = "UNUSED"
    /\ nextpid <= MAXPID
    /\ nextpid' = nextpid + 1
    /\ Free(np)
    /\ UNCHANGED <<waitLock, pc, arg>>

\* np->parent = p under wait_lock.
ForkLink(p) ==
  /\ At(p, "fork")
  /\ waitLock = NoProc
  /\ parent' = [parent EXCEPT ![arg[p]] = p]
  /\ Goto(p, "forkrun")
  /\ UNCHANGED <<state, pid, nextpid, killed, waitLock, arg>>

\* np->state = RUNNABLE under np->lock.
ForkRun(p) ==
  /\ At(p, "forkrun")
  /\ state' = [state EXCEPT ![arg[p]] = "RUNNABLE"]
  /\ pc' = [pc EXCEPT ![p] = "user", ![arg[p]] = "user"]
  /\ arg' = [arg EXCEPT ![p] = NoProc]
  /\ UNCHANGED <<pid, nextpid, parent, killed, waitLock>>
-----------------------------------------------------------------------------
(* exit() *)

\* By system call, or killed and noticed in usertrap(); init never exits.
Exit(p) ==
  /\ p # InitProc
  /\ At(p, "user")
  /\ Goto(p, "exit")
  /\ UNCHANGED <<state, pid, nextpid, parent, killed, waitLock, arg>>

\* Mutants of Reparent: init is not told; zombies stay with their parent.
ReparentSilent(p) ==
  /\ parent' = [q \in Proc |-> IF parent[q] = p THEN InitProc ELSE parent[q]]
  /\ WakeWaiters({}, p, "exitwake")

ReparentLiving(p) ==
  LET kids == {q \in Proc : parent[q] = p /\ state[q] # "ZOMBIE"} IN
  /\ parent' = [q \in Proc |-> IF q \in kids THEN InitProc ELSE parent[q]]
  /\ WakeWaiters(IF kids = {} THEN {} ELSE {InitProc}, p, "exitwake")

\* reparent(): the children go to init, which is woken if there are any.
Reparent(p) ==
  LET kids == {q \in Proc : parent[q] = p} IN
  /\ parent' = [q \in Proc |-> IF q \in kids THEN InitProc ELSE parent[q]]
  /\ WakeWaiters(IF kids = {} THEN {} ELSE {InitProc}, p, "exitwake")

\* Under wait_lock, which exit() keeps until it is a zombie: reparent(p) ...
ExitReparent(p) ==
  /\ At(p, "exit")
  /\ waitLock = NoProc
  /\ waitLock' = p
  /\ Reparent(p)
  /\ UNCHANGED <<pid, nextpid, killed, arg>>

\* ... wakeup(p->parent) ...
ExitWake(p) ==
  /\ At(p, "exitwake")
  /\ WakeWaiters({parent[p]}, p, "exitend")
  /\ UNCHANGED <<pid, nextpid, parent, killed, waitLock, arg>>

\* ... ZOMBIE, and off the CPU for good.
ExitZombie(p) ==
  /\ At(p, "exitend")
  /\ state' = [state EXCEPT ![p] = "ZOMBIE"]
  /\ Goto(p, "none")
  /\ waitLock' = NoProc
  /\ UNCHANGED <<pid, nextpid, parent, killed, arg>>
-----------------------------------------------------------------------------
(* wait() *)

Wait(p) ==
  /\ Calls(p)
  /\ Goto(p, "wait")
  /\ UNCHANGED <<state, pid, nextpid, parent, killed, waitLock, arg>>

Zombies(p) == {q \in Proc : parent[q] = p /\ state[q] = "ZOMBIE"}

\* The scan finds a zombie, the first in the table, and frees it; or it cannot
\* copy the exit status out (init asks for none) and leaves the zombie.
WaitReap(p) ==
  /\ At(p, "wait")
  /\ waitLock = NoProc
  /\ \E q \in Zombies(p) :
       /\ \A r \in Zombies(p) : q <= r
       /\ Free(q) \/ (p # InitProc /\ UNCHANGED <<state, pid, parent, killed>>)
  /\ Goto(p, "user")
  /\ UNCHANGED <<nextpid, waitLock, arg>>

\* Mutant of MayBlock: killed() is not tested.
MayBlockDeaf(p) == \E q \in Proc : parent[q] = p

\* wait() has reason to sleep: there are children, and p is not killed.
MayBlock(p) == ~killed[p] /\ \E q \in Proc : parent[q] = p

\* No children, or killed: wait() returns -1.
WaitFails(p) ==
  /\ At(p, "wait")
  /\ waitLock = NoProc
  /\ Zombies(p) = {}
  /\ ~MayBlock(p)
  /\ Goto(p, "user")
  /\ UNCHANGED <<state, pid, nextpid, parent, killed, waitLock, arg>>

\* Mutant of WaitBlocks: wait_lock is released before sleep().
WaitBlocksUnlocked(p) ==
  /\ At(p, "wait")
  /\ waitLock = NoProc
  /\ Zombies(p) = {}
  /\ MayBlock(p)
  /\ Goto(p, "waitblock")
  /\ UNCHANGED <<state, pid, nextpid, parent, killed, waitLock, arg>>

\* Children, and none has exited: on to sleep(p, &wait_lock) ...
WaitBlocks(p) ==
  /\ At(p, "wait")
  /\ waitLock = NoProc
  /\ Zombies(p) = {}
  /\ MayBlock(p)
  /\ waitLock' = p
  /\ Goto(p, "waitblock")
  /\ UNCHANGED <<state, pid, nextpid, parent, killed, arg>>

\* ... which takes p->lock, then gives up wait_lock.
WaitSleep(p) ==
  /\ At(p, "waitblock")
  /\ state' = [state EXCEPT ![p] = "SLEEPING"]
  /\ waitLock' = IF waitLock = p THEN NoProc ELSE waitLock
  /\ Goto(p, "waitsleep")
  /\ UNCHANGED <<pid, nextpid, parent, killed, arg>>
-----------------------------------------------------------------------------
(* Any other sleep in a loop that tests killed(): sys_sleep(), pipes, console *)

Io(p) ==
  /\ p # InitProc
  /\ Calls(p)
  /\ Goto(p, "io")
  /\ UNCHANGED <<state, pid, nextpid, parent, killed, waitLock, arg>>

\* What it waits for is there, or it is killed; otherwise it will sleep.
IoTest(p) ==
  /\ At(p, "io")
  /\ Goto(p, "user") \/ (~killed[p] /\ Goto(p, "ioblock"))
  /\ UNCHANGED <<state, pid, nextpid, parent, killed, waitLock, arg>>

IoSleep(p) ==
  /\ At(p, "ioblock")
  /\ state' = [state EXCEPT ![p] = "SLEEPING"]
  /\ Goto(p, "iosleep")
  /\ UNCHANGED <<pid, nextpid, parent, killed, waitLock, arg>>

\* The device's wakeup() comes under the lock the sleeper held while it tested.
IoWake(p) ==
  /\ Asleep(p) /\ pc[p] = "iosleep"
  /\ \A q \in Proc : pc[q] # "ioblock"
  /\ state' = [state EXCEPT ![p] = "RUNNABLE"]
  /\ Goto(p, "io")
  /\ UNCHANGED <<pid, nextpid, parent, killed, waitLock, arg>>
-----------------------------------------------------------------------------
\* kill(n), n not the pid of init, whose exit is a panic: the slot with that
\* pid is marked and, if it sleeps, made RUNNABLE.  kill(0) finds a free slot,
\* and a process forked into it later is born killed.
Kill(p) ==
  \E q \in Proc \ {InitProc} :
    /\ Calls(p)
    /\ killed' = [killed EXCEPT ![q] = TRUE]
    /\ state' = [state EXCEPT ![q] = IF Asleep(q) THEN "RUNNABLE" ELSE @]
    /\ pc' = [pc EXCEPT ![q] = IF Asleep(q) THEN Resumed(q) ELSE @]
    /\ UNCHANGED <<pid, nextpid, parent, waitLock, arg>>

\* sys_getppid() reads p->parent without wait_lock (init has no parent, and would
\* follow a null pointer: it never calls this) ...
Getppid(p) ==
  /\ Calls(p)
  /\ parent[p] # NoProc
  /\ arg' = [arg EXCEPT ![p] = parent[p]]
  /\ Goto(p, "getppid")
  /\ UNCHANGED <<state, pid, nextpid, parent, killed, waitLock>>

\* ... then the pid of that slot.
GetppidReturn(p) ==
  /\ At(p, "getppid")
  /\ arg' = [arg EXCEPT ![p] = NoProc]
  /\ Goto(p, "user")
  /\ UNCHANGED <<state, pid, nextpid, parent, killed, waitLock>>
-----------------------------------------------------------------------------
\* Steps of a process inside the kernel.
KernelStep(p) ==
  \/ ForkLink(p) \/ ForkRun(p)
  \/ ExitReparent(p) \/ ExitWake(p) \/ ExitZombie(p)
  \/ WaitReap(p) \/ WaitFails(p) \/ WaitBlocks(p) \/ WaitSleep(p)
  \/ IoTest(p) \/ IoSleep(p) \/ GetppidReturn(p)

\* What user programs and devices may do.
Request(p) ==
  \/ Fork(p) \/ ForkFails(p) \/ Exit(p) \/ Wait(p) \/ Io(p) \/ IoWake(p)
  \/ Kill(p) \/ Getppid(p)

Next == \E p \in Proc : KernelStep(p) \/ Request(p)

Spec == Init /\ [][Next]_vars

\* The types, and a free slot belongs to nobody (but may be marked killed).
TypeOK ==
  /\ \A p \in Proc : state[p] = "UNUSED" => pid[p] = 0 /\ parent[p] = NoProc
  /\ state \in [Proc -> {"UNUSED", "USED", "SLEEPING", "RUNNABLE", "ZOMBIE"}]
  /\ pid \in [Proc -> 0..MAXPID] /\ nextpid \in 1..(MAXPID + 1)
  /\ parent \in [Proc -> Proc \cup {NoProc}]
  /\ killed \in [Proc -> BOOLEAN]
  /\ waitLock \in Proc \cup {NoProc}
  /\ pc \in [Proc -> {"none", "user", "fork", "forkrun", "exit", "exitwake",
                      "exitend", "wait", "waitblock", "waitsleep", "io",
                      "ioblock", "iosleep", "getppid"}]
  /\ arg \in [Proc -> Proc \cup {NoProc}]
-----------------------------------------------------------------------------
\* No exit is missed: nobody sleeps in wait() while a child of his is a zombie,
\* whether the child died there or came to him by reparent().
WaiterHasNoZombie ==
  \A p \in Proc : Asleep(p) /\ pc[p] = "waitsleep" => Zombies(p) = {}

\* A parent is alive and older than its child: exit() leaves no child behind in
\* a slot that may be reused, and the family is a tree with init at its root.
ParentAlive ==
  \A q \in Proc : parent[q] # NoProc =>
    /\ state[parent[q]] \in {"RUNNABLE", "SLEEPING"}
    /\ pid[parent[q]] < pid[q]

\* "helps obey the memory model when using p->parent" (proc.c:22-26): the slot
\* sys_getppid() reads a pid from still belongs to a process.
GetppidReadsProcess ==
  \A p \in Proc : pc[p] = "getppid" => pid[arg[p]] # 0
-----------------------------------------------------------------------------
(* Liveness.  The kernel's steps are weakly fair: a CPU executes them, and    *)
(* wait_lock is held for a bounded time.  init calls wait() in a loop         *)
(* (user/init.c), and the timer brings a killed process into usertrap().      *)
FairSpec ==
  /\ Spec
  /\ \A p \in Proc :
       /\ WF_vars(KernelStep(p))
       /\ WF_vars(killed[p] /\ Exit(p))
  /\ WF_vars(Wait(InitProc))

\* A zombie that is init's child is reaped.
OrphansReaped ==
  \A q \in Proc : (state[q] = "ZOMBIE" /\ parent[q] = InitProc) ~> state[q] = "UNUSED"

\* Whoever is killed exits, unless the kill fell between a test of killed() and
\* the sleep after it: such a kill is not noticed before something else wakes
\* the victim.
KilledExits ==
  \A q \in Proc :
    (killed[q] /\ state[q] = "RUNNABLE" /\ pc[q] \notin {"waitblock", "ioblock"})
      ~> (state[q] \in {"ZOMBIE", "UNUSED"})
=============================================================================
