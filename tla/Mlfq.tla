-------------------------------- MODULE Mlfq --------------------------------
(***************************************************************************)
(* The two-mode scheduler of the linked-list kernel                        *)
(* (project01/linked_list_queue_scheduling/kernel/proc.c, with the callers *)
(* in trap.c and sysproc.c).  Every CPU runs scheduler(); the process it   *)
(* dispatches runs on the same CPU until it calls sched().  A run queue is *)
(* the C list: head and tail per queue and one next pointer per process.   *)
(*                                                                         *)
(* One action is the code between two points at which another CPU can see  *)
(* or change what it uses: an unlocked read of sched_mode, one critical    *)
(* section of a queue lock, the section under one p->lock.                 *)
(***************************************************************************)
EXTENDS Integers, FiniteSets

CONSTANTS
  NPROC,      \* slots of the process table
  NCPU,       \* CPUs running scheduler()
  MAXPID,     \* bound on the pids handed out
  BOOST,      \* ticks between priority boosts (50 in the code)
  MAXPRIO,    \* highest priority inside level 2 (3 in the code)
  QSTEP,      \* a quantum at level l is QSTEP * l + 1 ticks (2 in the code)
  InitModes,  \* modes once init runs: FCFS at boot, MLFQ after one mlfqmode()
  Ops         \* the requests the workload makes

ASSUME ModelAssumption ==
  /\ NPROC \in Nat \ {0}
  /\ NCPU \in Nat \ {0}
  /\ MAXPID \in Nat \ {0}
  /\ BOOST \in Nat \ {0}
  /\ MAXPRIO \in Nat
  /\ QSTEP \in Nat
  /\ InitModes \subseteq {"FCFS", "MLFQ"}

VARIABLES
  mode,       \* sched_mode
  ticks,      \* ticks, modulo BOOST
  state,      \* p->state
  pid,        \* p->pid
  nextpid,
  lev, tq, prio,          \* p->level, p->time_quantum, p->priority
  next, head, tail,       \* p->next, mlfq[q].head, mlfq[q].tail
  ctx,        \* where p->context resumes: forkret, the end of sched(), exit()
  plock,      \* CPU holding p->lock
  modeLock,   \* CPU holding sched_mode_lock
  tickLock,   \* CPU holding tickslock
  pc,         \* control point of the CPU
  proc,       \* c->proc
  pick,       \* scheduler()'s p, between dequeue and dispatch
  last,       \* scheduler()'s current_proc
  arg,        \* the process the pending enqueue (or fork) is about
  lvl,        \* the level scheduler() looks at next
  eq,         \* queue index enqueue() has computed
  ret,        \* control point enqueue() returns to
  idx,        \* loop variable over queues or process slots
  after       \* control point after an interrupt or a mode change

modeVars == <<mode, ticks>>
tableVars == <<state, pid, nextpid, ctx>>
fieldVars == <<lev, tq, prio>>
listVars == <<next, head, tail>>
lockVars == <<plock, modeLock, tickLock>>
cpuVars == <<pc, proc, pick, last, lvl, arg, eq, ret, idx, after>>
vars == <<modeVars, tableVars, fieldVars, listVars, lockVars, cpuVars>>

Proc == 1..NPROC
NoProc == 0
Cpu == 1..NCPU
NoCpu == 0
InitProc == 1
BootCpu == 1
LastQ == 2 + MAXPRIO
Queue == 0..LastQ

PState == {"UNUSED", "USED", "SLEEPING", "RUNNABLE", "RUNNING", "ZOMBIE"}

\* Control points of scheduler() at which its CPU takes interrupts.
SchedPts == {"sched", "deqF", "peek", "deq2", "deqM", "lock"}
\* Control points at which c->proc executes its own code.
ProcPts == {"resume", "run", "preempt", "fork2", "exit", "wild"}
\* Control points of functions either side may be in.
CallPts == {"wake", "enq", "insF", "insM", "reset", "drain", "clear", "scan"}
Points == SchedPts \cup ProcPts \cup CallPts
            \cup {"swtch", "back", "tickchk", "panic"}
-----------------------------------------------------------------------------
Init ==
  /\ mode \in InitModes
  /\ ticks = 0
  /\ state = [p \in Proc |-> IF p = InitProc THEN "RUNNABLE" ELSE "UNUSED"]
  /\ pid = [p \in Proc |-> IF p = InitProc THEN 1 ELSE 0]
  /\ nextpid = 2
  /\ ctx = [p \in Proc |-> "forkret"]
  /\ lev = [p \in Proc |-> IF mode = "FCFS" THEN -1 ELSE 0]
  /\ tq = [p \in Proc |-> IF mode = "FCFS" THEN -1 ELSE 0]
  /\ prio = [p \in Proc |-> IF mode = "FCFS" THEN -1 ELSE MAXPRIO]
  /\ next = [p \in Proc |-> NoProc]
  /\ head = [q \in Queue |-> IF q = 0 THEN InitProc ELSE NoProc]
  /\ tail = [q \in Queue |-> IF q = 0 THEN InitProc ELSE NoProc]
  /\ plock = [p \in Proc |-> NoCpu]
  /\ modeLock = NoCpu
  /\ tickLock = NoCpu
  /\ pc = [c \in Cpu |-> "sched"]
  /\ proc = [c \in Cpu |-> NoProc]
  /\ pick = [c \in Cpu |-> NoProc]
  /\ last = [c \in Cpu |-> NoProc]
  /\ lvl = [c \in Cpu |-> 0]
  /\ arg = [c \in Cpu |-> NoProc]
  /\ eq = [c \in Cpu |-> 0]
  /\ ret = [c \in Cpu |-> "sched"]
  /\ idx = [c \in Cpu |-> 0]
  /\ after = [c \in Cpu |-> "sched"]
-----------------------------------------------------------------------------
(* The run queues. *)

\* The elements met on the walk along p->next that starts at h.
Walk(h) ==
  LET at[k \in 0..NPROC] ==
        IF k = 0 THEN h
        ELSE IF at[k - 1] = NoProc THEN NoProc ELSE next[at[k - 1]]
  IN at

\* Mutants of Unlink: p->next is not cleared; the head is returned, not removed.
UnlinkKeepsNext(q) ==
  /\ head' = [head EXCEPT ![q] = next[head[q]]]
  /\ tail' = [tail EXCEPT ![q] = IF next[head[q]] = NoProc THEN NoProc ELSE @]
  /\ UNCHANGED next

UnlinkNothing(q) == head[q] # NoProc /\ UNCHANGED <<next, head, tail>>

\* dequeue(q) of a list that is not empty: the tail goes with the last element.
Unlink(q) ==
  /\ head' = [head EXCEPT ![q] = next[head[q]]]
  /\ tail' = [tail EXCEPT ![q] = IF next[head[q]] = NoProc THEN NoProc ELSE @]
  /\ next' = [next EXCEPT ![head[q]] = NoProc]

\* Mutant of FcfsSpot: the loop compares no pids.
FcfsSpotLast(p) ==
  {cur \in Proc : next[cur] = NoProc /\ \E k \in 0..NPROC : Walk(head[0])[k] = cur}

\* The element behind which enqueue() puts p in FCFS mode: the first on the
\* walk whose successor is missing or has no smaller pid.
FcfsSpot(p) ==
  LET at == Walk(head[0])
      stop(cur) == next[cur] = NoProc \/ pid[next[cur]] >= pid[p]
  IN {cur \in Proc : \E k \in 0..NPROC :
        at[k] = cur /\ stop(cur) /\ \A j \in 0..(k - 1) : ~stop(at[j])}

\* Insertion by pid into mlfq[0].
LinkByPid(p) ==
  \/ /\ head[0] = NoProc
     /\ head' = [head EXCEPT ![0] = p]
     /\ tail' = [tail EXCEPT ![0] = p]
     /\ UNCHANGED next
  \/ /\ head[0] # NoProc
     /\ pid[p] < pid[head[0]]
     /\ next' = [next EXCEPT ![p] = head[0]]
     /\ head' = [head EXCEPT ![0] = p]
     /\ UNCHANGED tail
  \/ /\ head[0] # NoProc
     /\ pid[p] >= pid[head[0]]
     /\ \E cur \in FcfsSpot(p) :
          next' = [next EXCEPT ![p] = next[cur], ![cur] = p]
     /\ tail' = [tail EXCEPT ![0] = IF next'[p] = NoProc THEN p ELSE @]
     /\ UNCHANGED head

\* Mutant of LinkLast: insertion at the head.
LinkFirst(p, q) ==
  /\ head' = [head EXCEPT ![q] = p]
  /\ next' = [next EXCEPT ![p] = head[q]]
  /\ tail' = [tail EXCEPT ![q] = IF @ = NoProc THEN p ELSE @]

\* Insertion at the tail of mlfq[q]; the code leaves p->next as it finds it.
LinkLast(p, q) ==
  /\ IF head[q] = NoProc
     THEN head' = [head EXCEPT ![q] = p] /\ UNCHANGED next
     ELSE next' = [next EXCEPT ![tail[q]] = p] /\ UNCHANGED head
  /\ tail' = [tail EXCEPT ![q] = p]

\* enqueue()'s queue index in MLFQ mode; a priority the inner switch does not
\* list leaves the index at 2.
QueueOf(p) ==
  IF lev[p] = 2 /\ prio[p] \in 0..MAXPRIO THEN 2 + (MAXPRIO - prio[p])
  ELSE lev[p]
-----------------------------------------------------------------------------
Goto(c, l) == pc' = [pc EXCEPT ![c] = l]

\* A loop or an interrupt is over: its variables go with its stack frame.
Return(c, l) ==
  /\ Goto(c, l)
  /\ idx' = [idx EXCEPT ![c] = 0]
  /\ after' = [after EXCEPT ![c] = "sched"]

\* CPU c holds p->lock and no other lock: what sched() asserts.
HoldsOnly(c, p) ==
  /\ \A x \in Proc : plock[x] = c <=> x = p
  /\ modeLock # c
  /\ tickLock # c

\* if(sched_mode == MLFQ) charge p one tick: demote it one level, or lower its
\* priority at level 2, once its quantum is used.  The count only matters up to
\* the quantum, so it stops there.
Charge(p) ==
  LET quantum == QSTEP * lev[p] + 1
      used == tq[p] + 1 >= quantum
  IN IF mode # "MLFQ" THEN UNCHANGED fieldVars
     ELSE /\ lev' = [lev EXCEPT ![p] = IF used /\ @ < 2 THEN @ + 1 ELSE @]
          /\ tq' = [tq EXCEPT ![p] = IF ~used THEN @ + 1
                                     ELSE IF lev[p] < 2 THEN 0
                                     ELSE IF @ < quantum THEN @ + 1 ELSE @]
          /\ prio' = [prio EXCEPT ![p] = IF used /\ lev[p] >= 2 /\ @ > 0
                                         THEN @ - 1 ELSE @]

\* The call enqueue(p) on CPU c, to continue at point r.
CallEnqueue(c, p, r) ==
  /\ arg' = [arg EXCEPT ![c] = p]
  /\ ret' = [ret EXCEPT ![c] = r]
  /\ Goto(c, "enq")
-----------------------------------------------------------------------------
(* scheduler() *)

\* The unlocked read of sched_mode at the top of the loop.
ReadMode(c) ==
  /\ pc[c] = "sched"
  /\ Goto(c, IF mode = "FCFS" THEN "deqF" ELSE "deqM")
  /\ UNCHANGED <<modeVars, tableVars, fieldVars, listVars, lockVars,
                 proc, pick, last, lvl, arg, eq, ret, idx, after>>

\* FCFS: p = dequeue(0).  With nothing there the CPU waits for an interrupt
\* and starts over.
PickFirst(c) ==
  /\ pc[c] = "deqF"
  /\ \/ /\ head[0] # NoProc
        /\ Unlink(0)
        /\ pick' = [pick EXCEPT ![c] = head[0]]
        /\ Goto(c, IF head[0] = last[c] THEN "peek" ELSE "lock")
     \/ /\ head[0] = NoProc
        /\ Goto(c, "sched")
        /\ UNCHANGED <<listVars, pick>>
  /\ UNCHANGED <<modeVars, tableVars, fieldVars, lockVars,
                 proc, last, lvl, arg, eq, ret, idx, after>>

\* MLFQ: one dequeue(level) of the scan from level 0 down.
PickLevel(c) ==
  LET q == lvl[c] IN
  /\ pc[c] = "deqM"
  /\ \/ /\ head[q] # NoProc
        /\ Unlink(q)
        /\ pick' = [pick EXCEPT ![c] = head[q]]
        /\ lvl' = [lvl EXCEPT ![c] = 0]
        /\ Goto(c, "lock")
     \/ /\ head[q] = NoProc /\ q < LastQ
        /\ lvl' = [lvl EXCEPT ![c] = q + 1]
        /\ UNCHANGED <<listVars, pick, pc>>
     \/ /\ head[q] = NoProc /\ q = LastQ
        /\ lvl' = [lvl EXCEPT ![c] = 0]
        /\ Goto(c, "sched")
        /\ UNCHANGED <<listVars, pick>>
  /\ UNCHANGED <<modeVars, tableVars, fieldVars, lockVars,
                 proc, last, arg, eq, ret, idx, after>>

\* FCFS, the process just run came out first: is there another one?  The list
\* head is read without the queue lock.
PeekHead(c) ==
  /\ pc[c] = "peek"
  /\ Goto(c, IF head[0] = NoProc THEN "lock" ELSE "deq2")
  /\ UNCHANGED <<modeVars, tableVars, fieldVars, listVars, lockVars,
                 proc, pick, last, lvl, arg, eq, ret, idx, after>>

\* Mutant of PickSecond: with the list emptied since the peek, the code loops
\* without putting current_proc back.
PickSecondDrops(c) ==
  /\ pc[c] = "deq2"
  /\ pick' = [pick EXCEPT ![c] = head[0]]
  /\ \/ /\ head[0] = NoProc
        /\ Goto(c, "sched")
        /\ UNCHANGED <<listVars, arg, ret>>
     \/ /\ head[0] # NoProc
        /\ Unlink(0)
        /\ CallEnqueue(c, last[c], "lock")
  /\ UNCHANGED <<modeVars, tableVars, fieldVars, lockVars,
                 proc, last, lvl, eq, idx, after>>

\* p = dequeue(0); enqueue(current_proc).  Another CPU may have emptied the
\* list since the peek.
PickSecond(c) ==
  /\ pc[c] = "deq2"
  /\ IF head[0] = NoProc THEN UNCHANGED listVars ELSE Unlink(0)
  /\ pick' = [pick EXCEPT ![c] = head[0]]
  /\ CallEnqueue(c, last[c], IF head[0] = NoProc THEN "sched" ELSE "lock")
  /\ UNCHANGED <<modeVars, tableVars, fieldVars, lockVars,
                 proc, last, lvl, eq, idx, after>>

\* Mutant of Dispatch: it does not wait for p->lock.
DispatchUnlocked(c) ==
  LET p == pick[c] IN
  /\ pc[c] = "lock"
  /\ plock' = [plock EXCEPT ![p] = c]
  /\ state' = [state EXCEPT ![p] = "RUNNING"]
  /\ proc' = [proc EXCEPT ![c] = p]
  /\ last' = [last EXCEPT ![c] = p]
  /\ pick' = [pick EXCEPT ![c] = NoProc]
  /\ Goto(c, "resume")
  /\ UNCHANGED <<modeVars, pid, nextpid, ctx, fieldVars, listVars,
                 modeLock, tickLock, lvl, arg, eq, ret, idx, after>>

\* acquire(&p->lock), RUNNING whatever the state was, swtch to p's context.
Dispatch(c) ==
  LET p == pick[c] IN
  /\ pc[c] = "lock"
  /\ plock[p] = NoCpu
  /\ plock' = [plock EXCEPT ![p] = c]
  /\ state' = [state EXCEPT ![p] = "RUNNING"]
  /\ proc' = [proc EXCEPT ![c] = p]
  /\ last' = [last EXCEPT ![c] = p]
  /\ pick' = [pick EXCEPT ![c] = NoProc]
  /\ Goto(c, "resume")
  /\ UNCHANGED <<modeVars, pid, nextpid, ctx, fieldVars, listVars,
                 modeLock, tickLock, lvl, arg, eq, ret, idx, after>>

\* The process has switched back: c->proc = 0; release(&p->lock).
Back(c) ==
  /\ pc[c] = "back"
  /\ plock' = [plock EXCEPT ![proc[c]] = NoCpu]
  /\ proc' = [proc EXCEPT ![c] = NoProc]
  /\ Goto(c, "tickchk")
  /\ UNCHANGED <<modeVars, tableVars, fieldVars, listVars, modeLock,
                 tickLock, pick, last, lvl, arg, eq, ret, idx, after>>

\* Under sched_mode_lock and tickslock: every BOOST ticks start mlfqinit(),
\* which keeps both locks.  The two are taken in one step, when both are free:
\* that a CPU has the first and waits for the second is not represented.
CheckBoost(c) ==
  /\ pc[c] = "tickchk"
  /\ modeLock = NoCpu
  /\ \/ /\ mode # "MLFQ" \/ (tickLock = NoCpu /\ ticks # 0)
        /\ Goto(c, "sched")
        /\ UNCHANGED <<modeLock, tickLock, idx, after>>
     \/ /\ mode = "MLFQ" /\ tickLock = NoCpu /\ ticks = 0
        /\ modeLock' = c
        /\ tickLock' = c
        /\ idx' = [idx EXCEPT ![c] = 1]
        /\ after' = [after EXCEPT ![c] = "sched"]
        /\ Goto(c, "reset")
  /\ UNCHANGED <<modeVars, tableVars, fieldVars, listVars, plock,
                 proc, pick, last, lvl, arg, eq, ret>>
-----------------------------------------------------------------------------
(* enqueue() *)

\* The unlocked reads of sched_mode and p->level.  Level -1 makes the code
\* index mlfq[-1]: nothing is defined from there on.
ChooseQueue(c) ==
  /\ pc[c] = "enq"
  /\ \/ /\ mode = "FCFS"
        /\ Goto(c, "insF")
        /\ UNCHANGED eq
     \/ /\ mode = "MLFQ" /\ lev[arg[c]] \in 0..2
        /\ eq' = [eq EXCEPT ![c] = QueueOf(arg[c])]
        /\ Goto(c, "insM")
     \/ /\ mode = "MLFQ" /\ lev[arg[c]] \notin 0..2
        /\ Goto(c, "wild")
        /\ UNCHANGED eq
  /\ UNCHANGED <<modeVars, tableVars, fieldVars, listVars, lockVars,
                 proc, pick, last, lvl, arg, ret, idx, after>>

\* Mutant of ReleasesAt: yield() releases p->lock before sched().
ReleasesAtSwtch(r) == r \in {"wake", "scan", "run", "swtch"}

\* Back at point r, the caller of enqueue() releases the lock of the process:
\* the loops, fork() and kill() do, yield() keeps it.
ReleasesAt(r) == r \in {"wake", "scan", "run"}

\* The queue is linked under its lock, then the caller goes on.
Insert(c) ==
  LET p == arg[c] IN
  /\ \/ pc[c] = "insF" /\ LinkByPid(p)
     \/ pc[c] = "insM" /\ LinkLast(p, eq[c])
  /\ plock' = IF ReleasesAt(ret[c])
              THEN [plock EXCEPT ![p] = NoCpu] ELSE plock
  /\ idx' = IF ret[c] \in {"wake", "scan"}
            THEN [idx EXCEPT ![c] = @ + 1] ELSE idx
  /\ arg' = [arg EXCEPT ![c] = NoProc]
  /\ eq' = [eq EXCEPT ![c] = 0]
  /\ ret' = [ret EXCEPT ![c] = "sched"]
  /\ Goto(c, ret[c])
  /\ UNCHANGED <<modeVars, tableVars, fieldVars, modeLock, tickLock,
                 proc, pick, last, lvl, after>>
-----------------------------------------------------------------------------
(* The process on CPU c. *)

\* Back from swtch: yield(), sleep() and forkret() release p->lock; exit() has
\* nothing to return to.
Resume(c) ==
  LET p == proc[c] IN
  /\ pc[c] = "resume"
  /\ IF ctx[p] = "exit"
     THEN Goto(c, "panic") /\ UNCHANGED plock
     ELSE Goto(c, "run") /\ plock' = [plock EXCEPT ![p] = NoCpu]
  /\ UNCHANGED <<modeVars, tableVars, fieldVars, listVars, modeLock, tickLock,
                 proc, pick, last, lvl, arg, eq, ret, idx, after>>

\* yield(), from sys_yield() or from a timer interrupt in MLFQ mode.
Yield(c) ==
  LET p == proc[c] IN
  /\ \/ pc[c] = "run" /\ ("yield" \in Ops \/ mode = "MLFQ")
     \/ pc[c] = "preempt" /\ mode = "MLFQ"
  /\ plock[p] = NoCpu
  /\ plock' = [plock EXCEPT ![p] = c]
  /\ state' = [state EXCEPT ![p] = "RUNNABLE"]
  /\ ctx' = [ctx EXCEPT ![p] = "sched"]
  /\ Charge(p)
  /\ CallEnqueue(c, p, "swtch")
  /\ UNCHANGED <<modeVars, pid, nextpid, listVars, modeLock, tickLock,
                 proc, pick, last, lvl, eq, idx, after>>

\* A timer interrupt preempts nobody in FCFS mode.
NoPreempt(c) ==
  /\ pc[c] = "preempt"
  /\ mode = "FCFS"
  /\ Goto(c, "run")
  /\ UNCHANGED <<modeVars, tableVars, fieldVars, listVars, lockVars,
                 proc, pick, last, lvl, arg, eq, ret, idx, after>>

\* sleep(): SLEEPING, charged like a tick, then sched().
Sleep(c) ==
  LET p == proc[c] IN
  /\ pc[c] = "run" /\ "sleep" \in Ops
  /\ plock[p] = NoCpu
  /\ plock' = [plock EXCEPT ![p] = c]
  /\ state' = [state EXCEPT ![p] = "SLEEPING"]
  /\ ctx' = [ctx EXCEPT ![p] = "sched"]
  /\ Charge(p)
  /\ Goto(c, "swtch")
  /\ UNCHANGED <<modeVars, pid, nextpid, listVars, modeLock, tickLock,
                 proc, pick, last, lvl, arg, eq, ret, idx, after>>

\* exit() of any process but init: wake the parent first ...
ExitWake(c) ==
  /\ pc[c] = "run" /\ "exit" \in Ops
  /\ proc[c] # InitProc
  /\ plock[proc[c]] # c
  /\ idx' = [idx EXCEPT ![c] = 1]
  /\ after' = [after EXCEPT ![c] = "exit"]
  /\ Goto(c, "wake")
  /\ UNCHANGED <<modeVars, tableVars, fieldVars, listVars, lockVars,
                 proc, pick, last, lvl, arg, eq, ret>>

\* ... then ZOMBIE under p->lock, into the scheduler.
ExitZombie(c) ==
  LET p == proc[c] IN
  /\ pc[c] = "exit"
  /\ plock[p] = NoCpu
  /\ plock' = [plock EXCEPT ![p] = c]
  /\ state' = [state EXCEPT ![p] = "ZOMBIE"]
  /\ ctx' = [ctx EXCEPT ![p] = "exit"]
  /\ Goto(c, "swtch")
  /\ UNCHANGED <<modeVars, pid, nextpid, fieldVars, listVars, modeLock,
                 tickLock, proc, pick, last, lvl, arg, eq, ret, idx, after>>

\* sched(): its assertions, then swtch to the scheduler of this CPU.
Sched(c) ==
  /\ pc[c] = "swtch"
  /\ Goto(c, IF HoldsOnly(c, proc[c]) THEN "back" ELSE "panic")
  /\ UNCHANGED <<modeVars, tableVars, fieldVars, listVars, lockVars,
                 proc, pick, last, lvl, arg, eq, ret, idx, after>>

\* allocproc() in fork(): the slot, its pid and the fields of the mode in force.
\* Not here: a fork() that finds no slot or no memory, which leaves an unused slot
\* as it was but for the pid it has used up; and a timer interrupt while the
\* parent holds no lock before it acquires the child's again.
Fork(c) ==
  \E np \in Proc :
    /\ pc[c] = "run" /\ "fork" \in Ops
    /\ plock[proc[c]] # c
    /\ state[np] = "UNUSED"
    /\ plock[np] = NoCpu
    /\ nextpid <= MAXPID
    /\ pid' = [pid EXCEPT ![np] = nextpid]
    /\ nextpid' = nextpid + 1
    /\ state' = [state EXCEPT ![np] = "USED"]
    /\ ctx' = [ctx EXCEPT ![np] = "forkret"]
    /\ next' = [next EXCEPT ![np] = NoProc]
    /\ lev' = [lev EXCEPT ![np] = IF mode = "FCFS" THEN -1 ELSE 0]
    /\ tq' = [tq EXCEPT ![np] = IF mode = "FCFS" THEN -1 ELSE 0]
    /\ prio' = [prio EXCEPT ![np] = IF mode = "FCFS" THEN -1 ELSE MAXPRIO]
    /\ arg' = [arg EXCEPT ![c] = np]
    /\ Goto(c, "fork2")
    /\ UNCHANGED <<modeVars, head, tail, lockVars, proc, pick, last, lvl, eq,
                   ret, idx, after>>

\* The end of fork(): RUNNABLE and queued under the child's lock.
ForkStart(c) ==
  LET np == arg[c] IN
  /\ pc[c] = "fork2"
  /\ plock[np] = NoCpu
  /\ plock' = [plock EXCEPT ![np] = c]
  /\ state' = [state EXCEPT ![np] = "RUNNABLE"]
  /\ CallEnqueue(c, np, "run")
  /\ UNCHANGED <<modeVars, pid, nextpid, ctx, fieldVars, listVars, modeLock,
                 tickLock, proc, pick, last, lvl, eq, idx, after>>

\* wait() finds a zombie whose lock is free, that is, one that has left its
\* CPU, and frees the slot.  Which process is whose parent is not kept here.
Reap(c) ==
  \E q \in Proc :
    /\ pc[c] = "run" /\ "wait" \in Ops
    /\ plock[proc[c]] # c
    /\ q # proc[c]
    /\ state[q] = "ZOMBIE"
    /\ plock[q] = NoCpu
    /\ state' = [state EXCEPT ![q] = "UNUSED"]
    /\ pid' = [pid EXCEPT ![q] = 0]
    /\ UNCHANGED <<modeVars, nextpid, ctx, fieldVars, listVars, lockVars,
                   cpuVars>>

\* kill() of a sleeping process makes it runnable.
Kill(c) ==
  \E q \in Proc :
    /\ pc[c] = "run" /\ "kill" \in Ops
    /\ plock[proc[c]] # c
    /\ state[q] = "SLEEPING"
    /\ plock[q] = NoCpu
    /\ plock' = [plock EXCEPT ![q] = c]
    /\ state' = [state EXCEPT ![q] = "RUNNABLE"]
    /\ CallEnqueue(c, q, "run")
    /\ UNCHANGED <<modeVars, pid, nextpid, ctx, fieldVars, listVars, modeLock,
                   tickLock, proc, pick, last, lvl, eq, idx, after>>

\* setpriority(): the range test rejects nothing, and the return on success
\* keeps p->lock.  One value too large stands for all that are out of range; pid
\* 0 finds the first unused slot.
SetPriority(c) ==
  \E q \in Proc, v \in 0..(MAXPRIO + 1) :
    /\ pc[c] = "run" /\ "setpriority" \in Ops
    /\ plock[proc[c]] # c
    /\ pid[q] = 0 => \A r \in Proc : r < q => pid[r] # 0
    /\ plock[q] = NoCpu
    /\ prio' = [prio EXCEPT ![q] = v]
    /\ plock' = [plock EXCEPT ![q] = c]
    /\ UNCHANGED <<modeVars, tableVars, lev, tq, listVars, modeLock, tickLock,
                   cpuVars>>
-----------------------------------------------------------------------------
(* Interrupts and wakeup(). *)

\* Interrupts are on in a running process and, with no lock held, between the
\* steps of scheduler().
TakesIntr(c) ==
  /\ pc[c] \in SchedPts \cup {"run"}
  /\ \A p \in Proc : plock[p] # c

\* clockintr() on the boot CPU: ticks++ and wakeup(&ticks) under tickslock; a
\* running process then gets to the preemption test of the trap handler.
ClockIntr(c) ==
  /\ "tick" \in Ops /\ c = BootCpu
  /\ TakesIntr(c)
  /\ tickLock = NoCpu
  /\ tickLock' = c
  /\ ticks' = (ticks + 1) % BOOST
  /\ idx' = [idx EXCEPT ![c] = 1]
  /\ after' = [after EXCEPT ![c] = IF pc[c] = "run" THEN "preempt" ELSE pc[c]]
  /\ Goto(c, "wake")
  /\ UNCHANGED <<mode, tableVars, fieldVars, listVars, plock, modeLock,
                 proc, pick, last, lvl, arg, eq, ret>>

\* A wakeup() from a device interrupt or a system call.
Wakeup(c) ==
  /\ "wakeup" \in Ops
  /\ TakesIntr(c)
  /\ idx' = [idx EXCEPT ![c] = 1]
  /\ after' = [after EXCEPT ![c] = pc[c]]
  /\ Goto(c, "wake")
  /\ UNCHANGED <<modeVars, tableVars, fieldVars, listVars, lockVars,
                 proc, pick, last, lvl, arg, eq, ret>>

\* Mutant of Wakeable: a zombie still on the channel is woken too.
WakeableZombie(p) == state[p] \in {"SLEEPING", "ZOMBIE"}

\* wakeup() may wake the process.
Wakeable(p) == state[p] = "SLEEPING"

\* One round of wakeup()'s loop.  Channels are left out: a sleeper met by the
\* loop may sleep on the channel woken, or on another.
WakeOne(c) ==
  LET p == idx[c] IN
  /\ pc[c] = "wake"
  /\ p \in Proc
  /\ p # proc[c] => plock[p] = NoCpu
  /\ \/ /\ p # proc[c] /\ Wakeable(p)
        /\ plock' = [plock EXCEPT ![p] = c]
        /\ state' = [state EXCEPT ![p] = "RUNNABLE"]
        /\ CallEnqueue(c, p, "wake")
        /\ UNCHANGED idx
     \/ /\ idx' = [idx EXCEPT ![c] = p + 1]
        /\ UNCHANGED <<plock, state, arg, ret, pc>>
  /\ UNCHANGED <<modeVars, pid, nextpid, ctx, fieldVars, listVars, modeLock,
                 tickLock, proc, pick, last, lvl, eq, after>>

\* The end of wakeup(); clockintr() releases tickslock.
WakeDone(c) ==
  /\ pc[c] = "wake"
  /\ idx[c] > NPROC
  /\ tickLock' = IF tickLock = c THEN NoCpu ELSE tickLock
  /\ Return(c, after[c])
  /\ UNCHANGED <<modeVars, tableVars, fieldVars, listVars, plock, modeLock,
                 proc, pick, last, lvl, arg, eq, ret>>
-----------------------------------------------------------------------------
(* Mode changes and the priority boost. *)

\* mlfqmode() from FCFS mode (from MLFQ mode it changes nothing).
MlfqMode(c) ==
  /\ pc[c] = "run" /\ "mlfqmode" \in Ops
  /\ plock[proc[c]] # c
  /\ modeLock = NoCpu
  /\ mode = "FCFS"
  /\ modeLock' = c
  /\ mode' = "MLFQ"
  /\ idx' = [idx EXCEPT ![c] = 1]
  /\ after' = [after EXCEPT ![c] = "run"]
  /\ Goto(c, "reset")
  /\ UNCHANGED <<ticks, tableVars, fieldVars, listVars, plock, tickLock,
                 proc, pick, last, lvl, arg, eq, ret>>

\* Mutants of FirstDrained: the loop starts at level 2, or at level 0.
FirstDrainedTwo == 2
FirstDrainedZero == 0

\* The second loop of mlfqinit() empties the queues from this one on.
FirstDrained == 1

\* Mutant of ResetFields: only a process that waits for a CPU is reset.
ResetFieldsQueued(p) ==
  /\ lev' = [lev EXCEPT ![p] = IF state[p] = "RUNNABLE" THEN 0 ELSE @]
  /\ tq' = [tq EXCEPT ![p] = 0]
  /\ prio' = [prio EXCEPT ![p] = MAXPRIO]

\* Level 0 with a fresh quantum.
ResetFields(p) ==
  /\ lev' = [lev EXCEPT ![p] = 0]
  /\ tq' = [tq EXCEPT ![p] = 0]
  /\ prio' = [prio EXCEPT ![p] = MAXPRIO]

\* mlfqinit(), first loop: every process is reset under its lock.
ResetOne(c) ==
  LET p == idx[c] IN
  /\ pc[c] = "reset"
  /\ IF p \in Proc
     THEN /\ plock[p] = NoCpu
          /\ ResetFields(p)
          /\ idx' = [idx EXCEPT ![c] = p + 1]
          /\ UNCHANGED pc
     ELSE /\ idx' = [idx EXCEPT ![c] = FirstDrained]
          /\ Goto(c, "drain")
          /\ UNCHANGED fieldVars
  /\ UNCHANGED <<modeVars, tableVars, listVars, lockVars,
                 proc, pick, last, lvl, arg, eq, ret, after>>

\* mlfqinit(), second loop: while((p = dequeue(lv))) enqueue(p), for lv from 1.
DrainOne(c) ==
  LET q == idx[c] IN
  /\ pc[c] = "drain"
  /\ q \in Queue
  /\ IF head[q] # NoProc
     THEN /\ Unlink(q)
          /\ CallEnqueue(c, head[q], "drain")
          /\ UNCHANGED idx
     ELSE /\ idx' = [idx EXCEPT ![c] = q + 1]
          /\ UNCHANGED <<listVars, arg, ret, pc>>
  /\ UNCHANGED <<modeVars, tableVars, fieldVars, lockVars,
                 proc, pick, last, lvl, eq, after>>

\* Mutant of DrainDone: sched_mode_lock is not released.
DrainDoneHolds(c) ==
  /\ pc[c] = "drain"
  /\ idx[c] > LastQ
  /\ \/ after[c] = "sched" /\ tickLock' = NoCpu /\ UNCHANGED ticks
     \/ after[c] = "run" /\ tickLock = NoCpu /\ ticks' = 0 /\ UNCHANGED tickLock
  /\ Return(c, after[c])
  /\ UNCHANGED <<mode, tableVars, fieldVars, listVars, plock, modeLock,
                 proc, pick, last, lvl, arg, eq, ret>>

\* The end of a boost: both locks go.  The end of mlfqmode(): ticks = 0 under
\* tickslock, then sched_mode_lock goes.
DrainDone(c) ==
  /\ pc[c] = "drain"
  /\ idx[c] > LastQ
  /\ \/ after[c] = "sched" /\ tickLock' = NoCpu /\ UNCHANGED ticks
     \/ after[c] = "run" /\ tickLock = NoCpu /\ ticks' = 0 /\ UNCHANGED tickLock
  /\ modeLock' = NoCpu
  /\ Return(c, after[c])
  /\ UNCHANGED <<mode, tableVars, fieldVars, listVars, plock,
                 proc, pick, last, lvl, arg, eq, ret>>

\* fcfsmode() from MLFQ mode.
FcfsMode(c) ==
  /\ pc[c] = "run" /\ "fcfsmode" \in Ops
  /\ plock[proc[c]] # c
  /\ modeLock = NoCpu
  /\ mode = "MLFQ"
  /\ modeLock' = c
  /\ mode' = "FCFS"
  /\ idx' = [idx EXCEPT ![c] = 0]
  /\ Goto(c, "clear")
  /\ UNCHANGED <<ticks, tableVars, fieldVars, listVars, plock, tickLock,
                 proc, pick, last, lvl, arg, eq, ret, after>>

\* Every list is forgotten ...
ClearOne(c) ==
  LET q == idx[c] IN
  /\ pc[c] = "clear"
  /\ head' = [head EXCEPT ![q] = NoProc]
  /\ tail' = [tail EXCEPT ![q] = NoProc]
  /\ idx' = [idx EXCEPT ![c] = IF q = LastQ THEN 1 ELSE q + 1]
  /\ Goto(c, IF q = LastQ THEN "scan" ELSE "clear")
  /\ UNCHANGED <<modeVars, tableVars, fieldVars, next, lockVars,
                 proc, pick, last, lvl, arg, eq, ret, after>>

\* fcfsmode() queues the process.
Requeued(p) == state[p] = "RUNNABLE"

\* ... and rebuilt from the process table, RUNNABLE processes only.
ScanOne(c) ==
  LET p == idx[c] IN
  /\ pc[c] = "scan"
  /\ p \in Proc
  /\ plock[p] = NoCpu
  /\ next' = [next EXCEPT ![p] = NoProc]
  /\ lev' = [lev EXCEPT ![p] = -1]
  /\ tq' = [tq EXCEPT ![p] = -1]
  /\ prio' = [prio EXCEPT ![p] = -1]
  /\ IF Requeued(p)
     THEN /\ plock' = [plock EXCEPT ![p] = c]
          /\ CallEnqueue(c, p, "scan")
          /\ UNCHANGED idx
     ELSE /\ idx' = [idx EXCEPT ![c] = p + 1]
          /\ UNCHANGED <<plock, arg, ret, pc>>
  /\ UNCHANGED <<modeVars, tableVars, head, tail, modeLock, tickLock,
                 proc, pick, last, lvl, eq, after>>

\* ticks = 0 under tickslock, then fcfsmode() returns.
ScanDone(c) ==
  /\ pc[c] = "scan"
  /\ idx[c] > NPROC
  /\ tickLock = NoCpu
  /\ ticks' = 0
  /\ modeLock' = NoCpu
  /\ Return(c, "run")
  /\ UNCHANGED <<mode, tableVars, fieldVars, listVars, plock, tickLock,
                 proc, pick, last, lvl, arg, eq, ret>>
-----------------------------------------------------------------------------
\* The process whose lock the next step of CPU c takes; in a running process
\* that is killed(myproc()) on the way in and out of the kernel.
Wants(c) ==
  CASE pc[c] = "lock" -> pick[c]
    [] pc[c] \in {"run", "preempt", "exit"} -> proc[c]
    [] pc[c] = "fork2" -> arg[c]
    [] pc[c] \in {"reset", "scan"} /\ idx[c] \in Proc -> idx[c]
    [] pc[c] = "wake" /\ idx[c] \in Proc /\ idx[c] # proc[c] -> idx[c]
    [] OTHER -> NoProc

\* acquire() of a lock this CPU already holds: panic("acquire").
PanicAcquire(c) ==
  /\ Wants(c) # NoProc
  /\ plock[Wants(c)] = c
  /\ Goto(c, "panic")
  /\ UNCHANGED <<modeVars, tableVars, fieldVars, listVars, lockVars,
                 proc, pick, last, lvl, arg, eq, ret, idx, after>>

SchedulerStep(c) ==
  \/ ReadMode(c) \/ PickFirst(c) \/ PickLevel(c) \/ PeekHead(c)
  \/ PickSecond(c) \/ Dispatch(c) \/ Back(c) \/ CheckBoost(c)
  \/ ResetOne(c) \/ DrainOne(c) \/ DrainDone(c)

QueueStep(c) == ChooseQueue(c) \/ Insert(c)

\* Steps a process in the kernel takes once it has started something.
KernelStep(c) ==
  \/ Resume(c) \/ NoPreempt(c) \/ ExitZombie(c) \/ Sched(c) \/ ForkStart(c)
  \/ WakeOne(c) \/ WakeDone(c) \/ ClearOne(c) \/ ScanOne(c) \/ ScanDone(c)
  \/ PanicAcquire(c)

\* What the workload and the devices may start at any time.
Request(c) ==
  \/ Yield(c) \/ Sleep(c) \/ ExitWake(c) \/ Fork(c) \/ Reap(c) \/ Kill(c)
  \/ SetPriority(c) \/ ClockIntr(c) \/ Wakeup(c) \/ MlfqMode(c) \/ FcfsMode(c)

CpuStep(c) == SchedulerStep(c) \/ QueueStep(c) \/ KernelStep(c)

Next == \E c \in Cpu : CpuStep(c) \/ Request(c)

Spec == Init /\ [][Next]_vars
-----------------------------------------------------------------------------
TypeOK ==
  /\ mode \in {"FCFS", "MLFQ"}
  /\ ticks \in 0..(BOOST - 1)
  /\ state \in [Proc -> PState]
  /\ pid \in [Proc -> Nat] /\ nextpid \in Nat
  /\ ctx \in [Proc -> {"forkret", "sched", "exit"}]
  /\ lev \in [Proc -> -1..2] /\ tq \in [Proc -> Int] /\ prio \in [Proc -> Int]
  /\ next \in [Proc -> Proc \cup {NoProc}]
  /\ head \in [Queue -> Proc \cup {NoProc}]
  /\ tail \in [Queue -> Proc \cup {NoProc}]
  /\ plock \in [Proc -> Cpu \cup {NoCpu}]
  /\ modeLock \in Cpu \cup {NoCpu} /\ tickLock \in Cpu \cup {NoCpu}
  /\ pc \in [Cpu -> Points]
  /\ proc \in [Cpu -> Proc \cup {NoProc}]
  /\ pick \in [Cpu -> Proc \cup {NoProc}]
  /\ last \in [Cpu -> Proc \cup {NoProc}]
  /\ arg \in [Cpu -> Proc \cup {NoProc}]
  /\ lvl \in [Cpu -> Queue] /\ eq \in [Cpu -> Queue]
  /\ ret \in [Cpu -> Points] /\ after \in [Cpu -> Points]
  /\ idx \in [Cpu -> Nat]
-----------------------------------------------------------------------------
(* What the lists hold. *)

List(q) == {p \in Proc : \E k \in 0..NPROC : Walk(head[q])[k] = p}

\* The CPU is giving up its process: the state is set, swtch still to come.
Leaving(c) ==
  \/ pc[c] \in {"swtch", "back"}
  \/ pc[c] \in {"enq", "insF", "insM"} /\ ret[c] = "swtch"

\* The process whose code CPU c executes; a CPU that has panicked executes none.
OnCpu(c) == IF Leaving(c) \/ pc[c] \in {"panic", "wild"} THEN NoProc ELSE proc[c]

\* The process enqueue() is about to link, for CPU c.
Pending(c) == IF pc[c] \in {"enq", "insF", "insM"} THEN arg[c] ELSE NoProc

\* Everything through which some CPU will come to dispatch p.
Claims(p) ==
  {<<"list", q>> : q \in {q \in Queue : p \in List(q)}}
    \cup {<<"pick", c>> : c \in {c \in Cpu : pick[c] = p}}
    \cup {<<"enqueue", c>> : c \in {c \in Cpu : Pending(c) = p}}

\* fcfsmode() has dropped the lists and not yet rebuilt them.
Rebuilding == mode = "FCFS" /\ modeLock # NoCpu

\* No process is on two CPUs, the time it takes to leave one included:
\* scheduler() (proc.c:502-507) dispatches what dequeue() gave it without
\* looking at the state, so only the lists and p->lock keep CPUs apart.
NoDoubleRun ==
  \A c, d \in Cpu : c # d /\ proc[c] # NoProc => proc[c] # proc[d]

\* A RUNNABLE process is in exactly one place from which it will be
\* dispatched, any other process in none: wakeups, yields, boosts and completed
\* mode changes neither lose a process nor queue it twice.
RunnableOnce ==
  ~Rebuilding => \A p \in Proc :
    Cardinality(Claims(p)) = IF state[p] = "RUNNABLE" THEN 1 ELSE 0

\* Every list ends, at its tail; the tail is set exactly when the head is; a
\* process outside the lists has no successor (enqueue() in MLFQ mode links
\* without clearing p->next).
ListsSound ==
  /\ \A q \in Queue :
       /\ Walk(head[q])[NPROC] = NoProc
       /\ head[q] = NoProc <=> tail[q] = NoProc
       /\ head[q] # NoProc => tail[q] \in List(q) /\ next[tail[q]] = NoProc
  /\ ~Rebuilding => \A p \in Proc :
       next[p] # NoProc => \E q \in Queue : p \in List(q)

\* In FCFS mode, no mode change being under way, the list is by pid: the
\* oldest process comes first.
OldestFirst ==
  mode = "FCFS" /\ modeLock = NoCpu =>
    \A p \in List(0) : next[p] # NoProc => pid[p] < pid[next[p]]

\* In MLFQ mode a queued process is in the queue of its level and priority,
\* except while a boost or a mode change is under way.
PlacedByLevel ==
  mode = "MLFQ" /\ modeLock = NoCpu =>
    \A q \in Queue : \A p \in List(q) : QueueOf(p) = q

\* "Jump into the scheduler, never to return" (proc.c:409): a process that has
\* called exit() is not switched to again.
NoZombieResume ==
  \A c \in Cpu : pc[c] = "resume" => ctx[proc[c]] # "exit"

\* No CPU stops in an assertion of acquire(), sched() or exit(); the one of
\* sched(), "Must hold only p->lock" (proc.c:531), would not be met either.
NoPanic ==
  \A c \in Cpu : pc[c] # "panic" /\ (pc[c] = "swtch" => HoldsOnly(c, proc[c]))

\* What getlev() returns to a process in MLFQ mode is a level (test.c:70).
GetlevInRange ==
  \A c \in Cpu : pc[c] = "run" /\ mode = "MLFQ" => lev[proc[c]] \in 0..2
-----------------------------------------------------------------------------
(* The scheduler implements RunQueue: the place of a process is the CPU that *)
(* executes it, Ready when it is RUNNABLE, Off otherwise.                     *)
where == [p \in Proc |->
            IF \E c \in Cpu : OnCpu(c) = p THEN CHOOSE c \in Cpu : OnCpu(c) = p
            ELSE IF state[p] = "RUNNABLE" THEN 0 ELSE -1]

RQ == INSTANCE RunQueue WITH Ready <- 0, Off <- -1

\* Every step of every CPU is a step of RunQueue or changes nothing it sees:
\* no dispatch of a process that is not ready, no process on a second CPU.
ImplementsRunQueue == RQ!Spec
-----------------------------------------------------------------------------
(* Liveness.  A CPU never stops executing, so its steps are weakly fair;     *)
(* interrupts are far enough apart for scheduler() to advance between two    *)
(* of them, so its steps are strongly fair; in MLFQ mode a timer interrupt   *)
(* ends the turn of any running process.                                     *)
FairSpec ==
  /\ Spec
  /\ \A c \in Cpu :
       /\ WF_vars(CpuStep(c))
       /\ SF_vars(SchedulerStep(c))
       /\ WF_vars(mode = "MLFQ" /\ Yield(c))

\* "It loops, doing: choose a process to run" (proc.c:466): a scheduler() that
\* starts a priority boost gets back to its loop.
BoostEnds ==
  \A c \in Cpu : (pc[c] = "reset" /\ after[c] = "sched") ~> (pc[c] = "sched")

\* In MLFQ mode a RUNNABLE process is not passed over for ever.
NoStarvation ==
  \A p \in Proc : state[p] = "RUNNABLE" ~> state[p] # "RUNNABLE"
=============================================================================
