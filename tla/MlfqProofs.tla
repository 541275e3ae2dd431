----------------------------- MODULE MlfqProofs -----------------------------
(***************************************************************************)
(* The scheduler without fcfsmode(), for every number of processes and     *)
(* CPUs.                                                                   *)
(*                                                                         *)
(* What matters first needs no recursion over the lists: a process is      *)
(* reached by at most one pointer, list head or next field, only RUNNABLE  *)
(* processes are reached, and a process which has given up its CPU keeps   *)
(* p->lock until the CPU has let go of it.  From this follow NoDoubleRun   *)
(* and the refinement of RunQueue, and, with what each control point says  *)
(* of the locks, that no assertion fails.                                  *)
(*                                                                         *)
(* Then the lists: each is a sequence of processes that the pointers spell *)
(* out, and dequeue() and enqueue() are Tail and an insertion.             *)
(***************************************************************************)
EXTENDS Mlfq, TLAPS, Sequences, FiniteSetTheorems, WellFoundedInduction

\* Where a CPU may be when fcfsmode() is not used.
ControlOK ==
  \A c \in Cpu :
    /\ pc[c] \notin {"clear", "scan"}
    /\ ret[c] \in {"swtch", "run", "wake", "drain", "lock", "sched"}
    /\ after[c] \in SchedPts \cup {"run", "preempt", "exit"}

\* At most one pointer leads to a process.
OnePointer ==
  /\ \A q, r \in Queue : head[q] = head[r] /\ head[q] # NoProc => q = r
  /\ \A p, r \in Proc : next[p] = next[r] /\ next[p] # NoProc => p = r
  /\ \A q \in Queue, p \in Proc : head[q] # NoProc => next[p] # head[q]

Linked(p) == (\E q \in Queue : head[q] = p) \/ (\E r \in Proc : next[r] = p)

\* A process has at most one place from which it will be dispatched: the lists,
\* scheduler()'s p on one CPU, an enqueue() under way on one CPU.  In any of
\* them it is RUNNABLE.
PlaceOK(p) ==
  /\ Linked(p) => /\ state[p] = "RUNNABLE"
                  /\ \A c \in Cpu : pick[c] # p /\ Pending(c) # p
  /\ \A c \in Cpu : pick[c] = p =>
       /\ state[p] = "RUNNABLE"
       /\ \A d \in Cpu : Pending(d) # p /\ (d # c => pick[d] # p)
  /\ \A c \in Cpu : Pending(c) = p =>
       /\ state[p] = "RUNNABLE"
       /\ \A d \in Cpu : d # c => Pending(d) # p

PlacesOK == \A p \in Proc : PlaceOK(p)

\* The CPU is inside enqueue().
Enqueuing(c) == pc[c] \in {"enq", "insF", "insM"}

\* The lock that goes when enqueue() returns is the linked process's, not that
\* of the process the CPU is running.
EnqueueLock ==
  \A c \in Cpu : Enqueuing(c) =>
    /\ arg[c] # NoProc
    /\ ret[c] \in {"wake", "run"} => plock[arg[c]] = c /\ arg[c] # proc[c]

\* At a control point, on the way back to it, or on the way out of enqueue().
Heading(c, points) ==
  \/ pc[c] \in points
  \/ Enqueuing(c) /\ ret[c] \in points
  \/ /\ \/ pc[c] \in {"wake", "reset", "drain"}
        \/ Enqueuing(c) /\ ret[c] \in {"wake", "drain"}
     /\ after[c] \in points

\* What a control point says of the CPU's own variables.
PointOK ==
  \A c \in Cpu :
    /\ Heading(c, {"peek", "deq2", "lock"}) => pick[c] # NoProc
    /\ Heading(c, {"peek", "deq2"}) => pick[c] = last[c]
    /\ Heading(c, {"resume", "run", "preempt", "exit", "fork2", "swtch",
                   "back"})
         => proc[c] # NoProc

\* A process that executes is RUNNING; one that has given up the CPU still has
\* its lock held by that CPU.
RunningOK ==
  \A c \in Cpu :
    /\ OnCpu(c) # NoProc => state[OnCpu(c)] = "RUNNING"
    /\ proc[c] # NoProc => state[proc[c]] = "RUNNING" \/ plock[proc[c]] = c

\* A slot that fork() is filling belongs to one caller.
ForkOK ==
  \A c \in Cpu : pc[c] = "fork2" =>
    /\ arg[c] # NoProc
    /\ state[arg[c]] = "USED"
    /\ \A d \in Cpu : d # c /\ pc[d] = "fork2" => arg[d] # arg[c]

\* A process that has called exit() is never scheduled again.
ExitOK == \A p \in Proc : ctx[p] = "exit" => state[p] \in {"ZOMBIE", "UNUSED"}

IInv ==
  /\ TypeOK
  /\ ControlOK
  /\ OnePointer
  /\ PlacesOK
  /\ EnqueueLock
  /\ PointOK
  /\ RunningOK
  /\ ForkOK
  /\ ExitOK
  /\ NoDoubleRun
-----------------------------------------------------------------------------
USE DEF modeVars, tableVars, fieldVars, listVars, lockVars, cpuVars

\* The indexes scheduler() walks through.
LEMMA QueueFacts ==
  /\ 0 \in Queue
  /\ \A q \in Queue : q < LastQ => q + 1 \in Queue
BY ModelAssumption DEF Queue, LastQ

\* The tick count modulo the boost period.
LEMMA TickFacts ==
  0 \in 0..(BOOST - 1) /\ \A n \in Nat : n % BOOST \in 0..(BOOST - 1)
BY ModelAssumption

\* The null pointer is no process, the free lock has no CPU.
LEMMA NoneFacts == NoProc \notin Proc /\ NoCpu \notin Cpu
BY DEF Proc, NoProc, Cpu, NoCpu

\* enqueue() indexes mlfq[] within its bounds when the level is one.
LEMMA QueueOfType ==
  ASSUME TypeOK, NEW p, lev[p] \in 0..2
  PROVE  QueueOf(p) \in Queue
BY ModelAssumption DEF QueueOf, Queue, LastQ

\* dequeue() keeps the types of the lists.
LEMMA UnlinkType ==
  ASSUME TypeOK, NEW q \in Queue, head[q] # NoProc, Unlink(q)
  PROVE  /\ next' \in [Proc -> Proc \cup {NoProc}]
         /\ head' \in [Queue -> Proc \cup {NoProc}]
         /\ tail' \in [Queue -> Proc \cup {NoProc}]
BY DEF TypeOK, Unlink

\* enqueue() too.
LEMMA LinkType ==
  ASSUME TypeOK, NEW p \in Proc,
         LinkByPid(p) \/ \E q \in Queue : LinkLast(p, q)
  PROVE  /\ next' \in [Proc -> Proc \cup {NoProc}]
         /\ head' \in [Queue -> Proc \cup {NoProc}]
         /\ tail' \in [Queue -> Proc \cup {NoProc}]
<1>1. CASE LinkByPid(p)
  <2>1. CASE head[0] = NoProc
    BY <1>1, <2>1, QueueFacts DEF TypeOK, LinkByPid
  <2>2. CASE /\ head[0] # NoProc
             /\ next' = [next EXCEPT ![p] = head[0]]
             /\ head' = [head EXCEPT ![0] = p]
             /\ UNCHANGED tail
    BY <2>2, QueueFacts DEF TypeOK
  <2>3. CASE /\ \E cur \in FcfsSpot(p) : next' = [next EXCEPT ![p] = next[cur], ![cur] = p]
             /\ tail' = [tail EXCEPT ![0] = IF next'[p] = NoProc THEN p ELSE @]
             /\ UNCHANGED head
    BY <2>3, QueueFacts DEF TypeOK, FcfsSpot
  <2> QED BY <1>1, <2>1, <2>2, <2>3 DEF LinkByPid
<1>2. CASE \E q \in Queue : LinkLast(p, q)
  BY <1>2 DEF TypeOK, LinkLast
<1> QED BY <1>1, <1>2

\* Charging a tick keeps the types of the three scheduling fields.
LEMMA ChargeType ==
  ASSUME TypeOK, NEW p, Charge(p)
  PROVE  /\ lev' \in [Proc -> -1..2]
         /\ tq' \in [Proc -> Int]
         /\ prio' \in [Proc -> Int]
BY DEF TypeOK, Charge


\* dequeue() takes the last pointer to a process away and adds none.
LEMMA UnlinkPointers ==
  ASSUME IInv, NEW q \in Queue, head[q] # NoProc, Unlink(q)
  PROVE  /\ OnePointer'
         /\ \A p \in Proc : Linked(p)' => Linked(p) /\ p # head[q]
<1> DEFINE h == head[q]
<1>1. h \in Proc /\ head \in [Queue -> Proc \cup {NoProc}] /\ next \in [Proc -> Proc \cup {NoProc}]
  BY DEF IInv, TypeOK
<1>2. next[h] # h /\ \A r \in Queue : head[r] = h => r = q
  BY <1>1 DEF IInv, OnePointer
<1>3. OnePointer'
  BY <1>1, <1>2 DEF IInv, OnePointer, Unlink
<1>4. \A p \in Proc : Linked(p)' => Linked(p) /\ p # h
  BY <1>1, <1>2, NoneFacts DEF IInv, OnePointer, Unlink, Linked
<1> QED BY <1>3, <1>4

\* enqueue() of a process nothing points to adds one pointer, to that process.
LEMMA LinkPointers ==
  ASSUME IInv, NEW p \in Proc, ~Linked(p),
         LinkByPid(p) \/ \E q \in Queue : LinkLast(p, q)
  PROVE  /\ OnePointer'
         /\ \A r \in Proc : Linked(r)' => Linked(r) \/ r = p
<1>1. /\ head \in [Queue -> Proc \cup {NoProc}]
      /\ next \in [Proc -> Proc \cup {NoProc}]
      /\ p # NoProc
      /\ \A q \in Queue : head[q] # p
      /\ \A r \in Proc : next[r] # p
  BY NoneFacts DEF IInv, TypeOK, Linked
<1>2. CASE \E q \in Queue : LinkLast(p, q)
  <2>1. PICK q \in Queue : LinkLast(p, q)
    BY <1>2
  <2>2. CASE head[q] = NoProc
    BY <1>1, <2>1, <2>2 DEF IInv, OnePointer, LinkLast, Linked
  <2>3. CASE head[q] # NoProc
    BY <1>1, <2>1, <2>3 DEF IInv, OnePointer, LinkLast, Linked
  <2> QED BY <2>2, <2>3
<1>3. CASE LinkByPid(p)
  <2>1. CASE head[0] = NoProc
    BY <1>1, <1>3, <2>1, QueueFacts DEF IInv, OnePointer, LinkByPid, Linked
  <2>2. CASE head[0] # NoProc /\ next' = [next EXCEPT ![p] = head[0]] /\ head' = [head EXCEPT ![0] = p]
    BY <1>1, <2>2, QueueFacts DEF IInv, OnePointer, Linked
  <2>3. CASE /\ \E cur \in FcfsSpot(p) : next' = [next EXCEPT ![p] = next[cur], ![cur] = p]
             /\ UNCHANGED head
    <3>1. PICK cur \in Proc : next' = [next EXCEPT ![p] = next[cur], ![cur] = p]
      BY <2>3 DEF FcfsSpot
    <3>2. CASE cur = p
      BY <1>1, <2>3, <3>1, <3>2 DEF IInv, OnePointer, Linked
    <3>3. CASE cur # p
      BY <1>1, <2>3, <3>1, <3>3 DEF IInv, OnePointer, Linked
    <3> QED BY <3>2, <3>3
  <2> QED BY <1>3, <2>1, <2>2, <2>3 DEF LinkByPid
<1> QED BY <1>2, <1>3
-----------------------------------------------------------------------------
(* Places. *)

\* A process that gains no place and stays RUNNABLE keeps its place.
LEMMA PlaceKept ==
  ASSUME IInv, NEW p \in Proc,
         Linked(p)' => Linked(p),
         \A d \in Cpu : pick'[d] = p => pick[d] = p,
         \A d \in Cpu : Pending(d)' = p => Pending(d) = p,
         state[p] = "RUNNABLE" => state'[p] = "RUNNABLE"
  PROVE  PlaceOK(p)'
BY DEF IInv, PlacesOK, PlaceOK

\* A process that is not RUNNABLE has no place.
LEMMA NoPlace ==
  ASSUME IInv, NEW p \in Proc, state[p] # "RUNNABLE"
  PROVE  ~Linked(p) /\ \A d \in Cpu : pick[d] # p /\ Pending(d) # p
BY DEF IInv, PlacesOK, PlaceOK

\* The process a CPU executes is RUNNING.
LEMMA Executing ==
  ASSUME IInv, NEW c \in Cpu, pc[c] \in {"resume", "run", "preempt", "exit", "fork2"}
  PROVE  proc[c] \in Proc /\ state[proc[c]] = "RUNNING"
BY DEF IInv, TypeOK, PointOK, Heading, RunningOK, OnCpu, Leaving

\* The fields mlfqinit() resets keep their types.
LEMMA ResetType ==
  ASSUME lev \in [Proc -> -1..2], tq \in [Proc -> Int], prio \in [Proc -> Int],
         NEW p \in Proc, ResetFields(p)
  PROVE  lev' \in [Proc -> -1..2] /\ tq' \in [Proc -> Int] /\ prio' \in [Proc -> Int]
<1>1. lev' \in [Proc -> -1..2]
  BY DEF ResetFields
<1>2. tq' \in [Proc -> Int]
  BY DEF ResetFields
<1>3. prio' \in [Proc -> Int]
  BY ModelAssumption DEF ResetFields
<1> QED BY <1>1, <1>2, <1>3

\* Types are preserved by every action but those of fcfsmode().
LEMMA TypePreserved ==
  ASSUME IInv, "fcfsmode" \notin Ops, NEW c \in Cpu, CpuStep(c) \/ Request(c)
  PROVE  TypeOK'
<1>0. TypeOK /\ EnqueueLock
  BY DEF IInv
<1> USE <1>0 DEF TypeOK, Points, SchedPts, ProcPts, CallPts, Goto, Return, CallEnqueue
<1>1. CASE ReadMode(c)
  BY <1>1 DEF ReadMode, PState
<1>2. CASE PickFirst(c)
  BY <1>2, UnlinkType, QueueFacts DEF PickFirst, PState
<1>3. CASE PickLevel(c)
  <2>1. CASE head[lvl[c]] # NoProc
    BY SMTT(60), <1>3, <2>1, UnlinkType, QueueFacts DEF PickLevel
  <2>2. CASE head[lvl[c]] = NoProc
    BY <1>3, <2>2, QueueFacts DEF PickLevel
  <2> QED BY <2>1, <2>2
<1>4. CASE PeekHead(c)
  BY <1>4 DEF PeekHead, PState
<1>5. CASE PickSecond(c)
  BY <1>5, UnlinkType, QueueFacts DEF PickSecond, PState
<1>6. CASE Dispatch(c)
  BY <1>6 DEF Dispatch, PState
<1>7. CASE Back(c)
  BY <1>7 DEF Back, PState
<1>8. CASE CheckBoost(c)
  BY <1>8 DEF CheckBoost, PState
<1>9. CASE ResetOne(c)
  <2>1. CASE idx[c] \in Proc
    BY <1>9, <2>1, ResetType DEF ResetOne
  <2>2. CASE idx[c] \notin Proc
    BY <1>9, <2>2 DEF ResetOne, ResetFields, FirstDrained
  <2> QED BY <2>1, <2>2
<1>10. CASE DrainOne(c)
  <2>1. CASE head[idx[c]] # NoProc
    BY SMTT(60), <1>10, <2>1, UnlinkType DEF DrainOne
  <2>2. CASE head[idx[c]] = NoProc
    BY <1>10, <2>2 DEF DrainOne
  <2> QED BY <2>1, <2>2
<1>11. CASE DrainDone(c)
  BY <1>11, TickFacts DEF DrainDone, PState
<1>12. CASE ChooseQueue(c)
  BY <1>12, QueueOfType DEF ChooseQueue, PState
<1>13. CASE Insert(c)
  <2>1. arg[c] \in Proc
    BY <1>13 DEF Insert, ReleasesAt, EnqueueLock, Enqueuing
  <2>2. LinkByPid(arg[c]) \/ \E q \in Queue : LinkLast(arg[c], q)
    BY <1>13 DEF Insert, ReleasesAt
  <2>3. plock' \in [Proc -> Cpu \cup {NoCpu}]
    BY <1>13 DEF Insert, ReleasesAt
  <2>4. idx' \in [Cpu -> Nat]
    BY <1>13 DEF Insert, ReleasesAt
  <2> QED BY <1>13, <2>1, <2>2, <2>3, <2>4, LinkType, QueueFacts DEF Insert, ReleasesAt
<1>14. CASE Resume(c)
  BY <1>14 DEF Resume, PState
<1>15. CASE NoPreempt(c)
  BY <1>15 DEF NoPreempt, PState
<1>16. CASE ExitZombie(c)
  BY <1>16 DEF ExitZombie, PState
<1>17. CASE Sched(c)
  BY <1>17 DEF Sched, PState
<1>18. CASE ForkStart(c)
  BY <1>18 DEF ForkStart, PState
<1>19. CASE WakeOne(c)
  <2>1. CASE CallEnqueue(c, idx[c], "wake") /\ UNCHANGED idx
    BY SMTT(60), <1>19, <2>1 DEF WakeOne, Wakeable, PState
  <2>2. CASE idx' = [idx EXCEPT ![c] = idx[c] + 1]
    BY <1>19, <2>2 DEF WakeOne, Wakeable, PState
  <2> QED BY <1>19, <2>1, <2>2 DEF WakeOne, Wakeable
<1>20. CASE WakeDone(c)
  BY <1>20 DEF WakeDone, PState
<1>21. CASE PanicAcquire(c)
  BY <1>21 DEF PanicAcquire, PState
<1>22. CASE Yield(c)
  BY <1>22, ChargeType DEF Yield, PState
<1>23. CASE Sleep(c)
  BY <1>23, ChargeType DEF Sleep, PState
<1>24. CASE ExitWake(c)
  BY <1>24 DEF ExitWake, PState
<1>25. CASE Fork(c)
  <2>1. PICK np \in Proc : Fork(c)!(np)
    BY <1>25 DEF Fork
  <2>2. nextpid' \in Nat /\ pid' \in [Proc -> Nat]
    BY <2>1
  <2>3. lev' \in [Proc -> -1..2] /\ tq' \in [Proc -> Int] /\ prio' \in [Proc -> Int]
    BY <2>1, ModelAssumption
  <2> QED BY <2>1, <2>2, <2>3 DEF PState
<1>26. CASE Reap(c)
  BY <1>26 DEF Reap, PState
<1>27. CASE Kill(c)
  BY <1>27 DEF Kill, PState
<1>28. CASE SetPriority(c)
  BY <1>28 DEF SetPriority, PState
<1>29. CASE ClockIntr(c)
  BY <1>29, TickFacts DEF ClockIntr, PState
<1>30. CASE Wakeup(c)
  BY <1>30 DEF Wakeup, PState
<1>31. CASE MlfqMode(c)
  BY <1>31 DEF MlfqMode, PState
<1>32. pc[c] \notin {"clear", "scan"}
  BY DEF IInv, ControlOK
<1> QED BY <1>1, <1>2, <1>3, <1>4, <1>5, <1>6, <1>7, <1>8, <1>9, <1>10, <1>11,
       <1>12, <1>13, <1>14, <1>15, <1>16, <1>17, <1>18, <1>19, <1>20, <1>21,
       <1>22, <1>23, <1>24, <1>25, <1>26, <1>27, <1>28, <1>29, <1>30, <1>31,
       <1>32 DEF CpuStep, Request, SchedulerStep, QueueStep, KernelStep,
       FcfsMode, ClearOne, ScanOne, Requeued, ScanDone
-----------------------------------------------------------------------------
(* Every action keeps the invariant: where processes are, then what each CPU *)
(* relies on at its control point.                                           *)

\* Reading sched_mode moves nothing.
LEMMA ReadModeKeeps ==
  ASSUME IInv, TypeOK', NEW c \in Cpu, ReadMode(c)
  PROVE  IInv'
<1> USE NoneFacts DEF IInv, ReadMode, Goto
<1>0. IInv /\ TypeOK'
  OBVIOUS
<1>1. \A p \in Proc : Linked(p)' = Linked(p)
  BY <1>0 DEF Linked
<1>2. \A d \in Cpu : Pending(d)' \in {Pending(d), NoProc}
  BY <1>0 DEF TypeOK, Pending
<1>3. PlacesOK'
  <2>1. \A p \in Proc : PlaceOK(p)'
    BY <1>0, <1>1, <1>2, PlaceKept
  <2> QED BY <1>0, <2>1 DEF TypeOK, PlacesOK
<1>4. ControlOK'
  BY <1>0 DEF ControlOK, SchedPts, TypeOK
<1>5. EnqueueLock'
  BY <1>0 DEF EnqueueLock, Enqueuing, TypeOK
<1>6. PointOK'
  BY <1>0 DEF PointOK, Heading, Enqueuing, SchedPts, TypeOK
<1>7. RunningOK'
  BY <1>0 DEF RunningOK, OnCpu, Leaving, TypeOK
<1>8. ForkOK'
  BY <1>0 DEF ForkOK, TypeOK
<1>9. OnePointer' /\ ExitOK' /\ NoDoubleRun'
  BY <1>0 DEF OnePointer, ExitOK, NoDoubleRun, TypeOK
<1> QED BY <1>0, <1>3, <1>4, <1>5, <1>6, <1>7, <1>8, <1>9

\* The head of the FCFS list becomes the process the CPU has picked.
LEMMA PickFirstKeeps ==
  ASSUME IInv, TypeOK', NEW c \in Cpu, PickFirst(c)
  PROVE  IInv'
<1> USE NoneFacts DEF IInv, PickFirst, Goto
<1>0. IInv /\ TypeOK'
  OBVIOUS
<1>1. \A p \in Proc : Linked(p)' => Linked(p) /\ (head[0] # NoProc => p #
          head[0])
  BY <1>0, UnlinkPointers, QueueFacts DEF Linked
<1>2. \A d \in Cpu : Pending(d)' = Pending(d)
  BY <1>0 DEF TypeOK, Pending
<1>3. PlacesOK'
  <2>1. \A p \in Proc : p = head[0] => PlaceOK(p)'
    BY <1>0, <1>1, <1>2, QueueFacts DEF TypeOK, PlacesOK, PlaceOK, Linked
  <2>2. \A p \in Proc : p # head[0] => PlaceOK(p)'
    BY <1>0, <1>1, <1>2, PlaceKept DEF TypeOK
  <2> QED BY <1>0, <2>1, <2>2 DEF TypeOK, PlacesOK
<1>4. ControlOK'
  BY <1>0 DEF ControlOK, SchedPts, TypeOK
<1>5. OnePointer'
  BY <1>0, UnlinkPointers, QueueFacts DEF OnePointer, TypeOK
<1>6. EnqueueLock'
  BY <1>0 DEF EnqueueLock, Enqueuing, TypeOK
<1>7. PointOK'
  BY <1>0 DEF PointOK, Heading, Enqueuing, SchedPts, TypeOK
<1>8. RunningOK'
  BY <1>0 DEF RunningOK, OnCpu, Leaving, TypeOK
<1>9. ForkOK'
  BY <1>0 DEF ForkOK, TypeOK
<1>10. ExitOK' /\ NoDoubleRun'
  BY <1>0 DEF ExitOK, NoDoubleRun, TypeOK
<1> QED BY <1>0, <1>3, <1>4, <1>5, <1>6, <1>7, <1>8, <1>9, <1>10

\* The same for the head of a level queue.
LEMMA PickLevelKeeps ==
  ASSUME IInv, TypeOK', NEW c \in Cpu, PickLevel(c)
  PROVE  IInv'
<1> USE NoneFacts DEF IInv, PickLevel, Goto
<1>0. IInv /\ TypeOK'
  OBVIOUS
<1>1. \A p \in Proc : Linked(p)' => Linked(p) /\ (head[lvl[c]] # NoProc => p #
          head[lvl[c]])
  BY <1>0, UnlinkPointers DEF Linked, TypeOK
<1>2. \A d \in Cpu : Pending(d)' = Pending(d)
  BY <1>0 DEF TypeOK, Pending
<1>3. PlacesOK'
  <2>1. \A p \in Proc : p = head[lvl[c]] => PlaceOK(p)'
    BY SMTT(60), <1>0, <1>1, <1>2 DEF TypeOK, PlacesOK, PlaceOK, Linked
  <2>2. \A p \in Proc : p # head[lvl[c]] => PlaceOK(p)'
    BY <1>0, <1>1, <1>2, PlaceKept DEF TypeOK
  <2> QED BY <1>0, <2>1, <2>2 DEF TypeOK, PlacesOK
<1>4. ControlOK'
  BY <1>0 DEF ControlOK, SchedPts, TypeOK
<1>5. OnePointer'
  BY <1>0, UnlinkPointers DEF OnePointer, TypeOK
<1>6. EnqueueLock'
  BY <1>0 DEF EnqueueLock, Enqueuing, TypeOK
<1>7. PointOK'
  BY <1>0 DEF PointOK, Heading, Enqueuing, SchedPts, TypeOK
<1>8. RunningOK'
  BY <1>0 DEF RunningOK, OnCpu, Leaving, TypeOK
<1>9. ForkOK'
  BY <1>0 DEF ForkOK, TypeOK
<1>10. ExitOK' /\ NoDoubleRun'
  BY <1>0 DEF ExitOK, NoDoubleRun, TypeOK
<1> QED BY <1>0, <1>3, <1>4, <1>5, <1>6, <1>7, <1>8, <1>9, <1>10

\* Peeking at the list moves nothing; the CPU still has its pick.
LEMMA PeekHeadKeeps ==
  ASSUME IInv, TypeOK', NEW c \in Cpu, PeekHead(c)
  PROVE  IInv'
<1> USE NoneFacts DEF IInv, PeekHead, Goto
<1>0. IInv /\ TypeOK'
  OBVIOUS
<1>1. \A p \in Proc : Linked(p)' = Linked(p)
  BY <1>0 DEF Linked
<1>2. \A d \in Cpu : Pending(d)' \in {Pending(d), NoProc}
  BY <1>0 DEF TypeOK, Pending
<1>3. PlacesOK'
  <2>1. \A p \in Proc : PlaceOK(p)'
    BY <1>0, <1>1, <1>2, PlaceKept
  <2> QED BY <1>0, <2>1 DEF TypeOK, PlacesOK
<1>4. ControlOK'
  BY <1>0 DEF ControlOK, SchedPts, TypeOK
<1>5. EnqueueLock'
  BY <1>0 DEF EnqueueLock, Enqueuing, TypeOK
<1>6. PointOK'
  BY <1>0 DEF PointOK, Heading, Enqueuing, SchedPts, TypeOK
<1>7. RunningOK'
  BY <1>0 DEF RunningOK, OnCpu, Leaving, TypeOK
<1>8. ForkOK'
  BY <1>0 DEF ForkOK, TypeOK
<1>9. OnePointer' /\ ExitOK' /\ NoDoubleRun'
  BY <1>0 DEF OnePointer, ExitOK, NoDoubleRun, TypeOK
<1> QED BY <1>0, <1>3, <1>4, <1>5, <1>6, <1>7, <1>8, <1>9

\* Two processes move: the head is picked, the one picked before goes to
\* enqueue().
LEMMA PickSecondKeeps ==
  ASSUME IInv, TypeOK', NEW c \in Cpu, PickSecond(c)
  PROVE  IInv'
<1> USE NoneFacts DEF IInv, PickSecond, Goto, CallEnqueue
<1>0. IInv /\ TypeOK'
  OBVIOUS
<1>1. pick[c] \in Proc /\ pick[c] = last[c]
  BY <1>0 DEF TypeOK, PointOK, Heading
<1>2. \A p \in Proc : Linked(p)' => Linked(p) /\ (head[0] # NoProc => p #
          head[0])
  BY <1>0, UnlinkPointers, QueueFacts DEF Linked
<1>3. \A d \in Cpu : Pending(d)' = IF d = c THEN last[c] ELSE Pending(d)
  BY <1>0 DEF TypeOK, Pending
<1>4. \A d \in Cpu : pick'[d] = IF d = c THEN head[0] ELSE pick[d]
  BY <1>0 DEF TypeOK
<1>5. head[0] # NoProc => head[0] \in Proc /\ Linked(head[0])
  BY <1>0, QueueFacts DEF TypeOK, Linked
<1>6. state' = state
  BY <1>0
<1>7. head[0] # pick[c] /\ ~Linked(pick[c])
  BY <1>1, <1>5 DEF PlacesOK, PlaceOK
<1>8. PlacesOK'
  <2>1. \A p \in Proc : p = head[0] => PlaceOK(p)'
    BY <1>0, <1>1, <1>2, <1>3, <1>4, <1>5, <1>6, <1>7 DEF PlacesOK, PlaceOK
  <2>2. \A p \in Proc : p = last[c] => PlaceOK(p)'
    BY <1>0, <1>1, <1>2, <1>3, <1>4, <1>5, <1>6, <1>7 DEF PlacesOK, PlaceOK
  <2>3. \A p \in Proc : p # head[0] /\ p # last[c] => PlaceOK(p)'
    BY <1>0, <1>2, <1>3, <1>4, <1>6, PlaceKept
  <2> QED BY <1>0, <2>1, <2>2, <2>3 DEF TypeOK, PlacesOK
<1>9. ControlOK'
  BY <1>0 DEF ControlOK, SchedPts, TypeOK
<1>10. OnePointer'
  BY <1>0, UnlinkPointers, QueueFacts DEF OnePointer, TypeOK
<1>11. EnqueueLock'
  BY <1>0, <1>1 DEF EnqueueLock, Enqueuing, TypeOK
<1>12. PointOK'
  BY <1>0 DEF PointOK, Heading, Enqueuing, SchedPts, TypeOK
<1>13. RunningOK'
  BY <1>0 DEF RunningOK, OnCpu, Leaving, TypeOK
<1>14. ForkOK'
  BY <1>0 DEF ForkOK, TypeOK
<1>15. ExitOK' /\ NoDoubleRun'
  BY <1>0 DEF ExitOK, NoDoubleRun, TypeOK
<1> QED BY <1>0, <1>8, <1>9, <1>10, <1>11, <1>12, <1>13, <1>14, <1>15

\* The pick is RUNNABLE and its lock is free, so no CPU has it: it can run.
LEMMA DispatchKeeps ==
  ASSUME IInv, TypeOK', NEW c \in Cpu, Dispatch(c)
  PROVE  IInv'
<1> USE NoneFacts DEF IInv, Dispatch, Goto
<1>0. IInv /\ TypeOK'
  OBVIOUS
<1>1. pick[c] \in Proc
  BY <1>0 DEF TypeOK, PointOK, Heading
<1>2. /\ state[pick[c]] = "RUNNABLE"
      /\ ~Linked(pick[c])
      /\ \A d \in Cpu : Pending(d) # pick[c] /\ (d # c => pick[d] # pick[c])
  BY <1>0, <1>1 DEF PlacesOK, PlaceOK
<1>3. \A d \in Cpu : proc[d] # pick[c]
  BY <1>0, <1>1, <1>2 DEF RunningOK, TypeOK
<1>4. \A p \in Proc : Linked(p)' = Linked(p)
  BY <1>0 DEF Linked
<1>5. \A d \in Cpu : Pending(d)' = Pending(d)
  BY <1>0 DEF TypeOK, Pending
<1>6. PlacesOK'
  <2>1. \A p \in Proc : p = pick[c] => PlaceOK(p)'
    BY <1>0, <1>1, <1>2, <1>4, <1>5 DEF TypeOK, PlaceOK
  <2>2. \A p \in Proc : p # pick[c] => PlaceOK(p)'
    BY <1>0, <1>4, <1>5, PlaceKept DEF TypeOK
  <2> QED BY <1>0, <2>1, <2>2 DEF TypeOK, PlacesOK
<1>7. ControlOK'
  BY <1>0 DEF ControlOK, SchedPts, TypeOK
<1>8. OnePointer'
  BY <1>0 DEF OnePointer, TypeOK
<1>9. EnqueueLock'
  BY <1>0, <1>1, <1>2, <1>3 DEF EnqueueLock, Enqueuing, TypeOK
<1>10. PointOK'
  BY <1>0 DEF PointOK, Heading, Enqueuing, SchedPts, TypeOK
<1>11. RunningOK'
  BY <1>0, <1>1, <1>2, <1>3 DEF RunningOK, OnCpu, Leaving, TypeOK
<1>12. ForkOK'
  BY <1>0, <1>1, <1>2, <1>3 DEF ForkOK, TypeOK
<1>13. ExitOK' /\ NoDoubleRun'
  BY <1>0, <1>1, <1>2, <1>3 DEF ExitOK, NoDoubleRun, TypeOK
<1> QED BY <1>0, <1>6, <1>7, <1>8, <1>9, <1>10, <1>11, <1>12, <1>13

\* The CPU lets go of the process and of its lock.
LEMMA BackKeeps ==
  ASSUME IInv, TypeOK', NEW c \in Cpu, Back(c)
  PROVE  IInv'
<1> USE NoneFacts DEF IInv, Back, Goto
<1>0. IInv /\ TypeOK'
  OBVIOUS
<1>1. \A p \in Proc : Linked(p)' = Linked(p)
  BY <1>0 DEF Linked
<1>2. \A d \in Cpu : Pending(d)' = Pending(d)
  BY <1>0 DEF TypeOK, Pending
<1>3. \A d \in Cpu : d # c /\ proc[c] # NoProc => proc[d] # proc[c]
  BY <1>0 DEF NoDoubleRun
<1>4. /\ plock' = [plock EXCEPT ![proc[c]] = NoCpu]
      /\ proc' = [proc EXCEPT ![c] = NoProc]
      /\ pc' = [pc EXCEPT ![c] = "tickchk"]
      /\ UNCHANGED <<arg, ret>>
  BY <1>0
<1>5. \A d \in Cpu : Enqueuing(d) => arg[d] \in Proc /\ state[arg[d]] =
          "RUNNABLE"
  BY <1>0 DEF EnqueueLock, Enqueuing, Pending, PlacesOK, PlaceOK, TypeOK
<1>6. \A d \in Cpu : Enqueuing(d) /\ ret[d] \in {"wake", "run"} =>
          plock[arg[d]] = d /\ (proc[c] # NoProc => arg[d] # proc[c])
  BY <1>0, <1>5 DEF EnqueueLock, Enqueuing, RunningOK
<1>7. PlacesOK'
  <2>1. \A p \in Proc : PlaceOK(p)'
    BY <1>0, <1>1, <1>2, PlaceKept
  <2> QED BY <1>0, <2>1 DEF TypeOK, PlacesOK
<1>8. ControlOK'
  BY <1>0 DEF ControlOK, SchedPts, TypeOK
<1>9. OnePointer'
  BY <1>0 DEF OnePointer, TypeOK
<1>10. EnqueueLock'
  BY <1>0, <1>6 DEF EnqueueLock, Enqueuing, TypeOK
<1>11. PointOK'
  BY <1>0 DEF PointOK, Heading, Enqueuing, SchedPts, TypeOK
<1>12. RunningOK'
  BY <1>0 DEF RunningOK, OnCpu, Leaving, TypeOK
<1>13. ForkOK'
  BY <1>0 DEF ForkOK, TypeOK
<1>14. ExitOK' /\ NoDoubleRun'
  BY <1>0 DEF ExitOK, NoDoubleRun, TypeOK
<1> QED BY <1>0, <1>7, <1>8, <1>9, <1>10, <1>11, <1>12, <1>13, <1>14

\* Taking sched_mode_lock and tickslock moves nothing.
LEMMA CheckBoostKeeps ==
  ASSUME IInv, TypeOK', NEW c \in Cpu, CheckBoost(c)
  PROVE  IInv'
<1> USE NoneFacts DEF IInv, CheckBoost, Goto
<1>0. IInv /\ TypeOK'
  OBVIOUS
<1>1. \A p \in Proc : Linked(p)' = Linked(p)
  BY <1>0 DEF Linked
<1>2. \A d \in Cpu : Pending(d)' \in {Pending(d), NoProc}
  BY <1>0 DEF TypeOK, Pending
<1>3. PlacesOK'
  <2>1. \A p \in Proc : PlaceOK(p)'
    BY <1>0, <1>1, <1>2, PlaceKept
  <2> QED BY <1>0, <2>1 DEF TypeOK, PlacesOK
<1>4. ControlOK'
  BY <1>0 DEF ControlOK, SchedPts, TypeOK
<1>5. EnqueueLock'
  BY <1>0 DEF EnqueueLock, Enqueuing, TypeOK
<1>6. PointOK'
  BY <1>0 DEF PointOK, Heading, Enqueuing, SchedPts, TypeOK
<1>7. RunningOK'
  BY <1>0 DEF RunningOK, OnCpu, Leaving, TypeOK
<1>8. ForkOK'
  BY <1>0 DEF ForkOK, TypeOK
<1>9. OnePointer' /\ ExitOK' /\ NoDoubleRun'
  BY <1>0 DEF OnePointer, ExitOK, NoDoubleRun, TypeOK
<1> QED BY <1>0, <1>3, <1>4, <1>5, <1>6, <1>7, <1>8, <1>9

\* Resetting the scheduling fields moves nothing.
LEMMA ResetOneKeeps ==
  ASSUME IInv, TypeOK', NEW c \in Cpu, ResetOne(c)
  PROVE  IInv'
<1> USE NoneFacts DEF IInv, ResetOne, ResetFields, FirstDrained, Goto
<1>0. IInv /\ TypeOK'
  OBVIOUS
<1>1. \A p \in Proc : Linked(p)' = Linked(p)
  BY <1>0 DEF Linked
<1>2. \A d \in Cpu : Pending(d)' \in {Pending(d), NoProc}
  BY <1>0 DEF TypeOK, Pending
<1>3. PlacesOK'
  <2>1. \A p \in Proc : PlaceOK(p)'
    BY <1>0, <1>1, <1>2, PlaceKept
  <2> QED BY <1>0, <2>1 DEF TypeOK, PlacesOK
<1>4. ControlOK'
  BY <1>0 DEF ControlOK, SchedPts, TypeOK
<1>5. EnqueueLock'
  BY <1>0 DEF EnqueueLock, Enqueuing, TypeOK
<1>6. PointOK'
  BY <1>0 DEF PointOK, Heading, Enqueuing, SchedPts, TypeOK
<1>7. RunningOK'
  BY <1>0 DEF RunningOK, OnCpu, Leaving, TypeOK
<1>8. ForkOK'
  BY <1>0 DEF ForkOK, TypeOK
<1>9. OnePointer' /\ ExitOK' /\ NoDoubleRun'
  BY <1>0 DEF OnePointer, ExitOK, NoDoubleRun, TypeOK
<1> QED BY <1>0, <1>3, <1>4, <1>5, <1>6, <1>7, <1>8, <1>9

\* A process leaves a list for the enqueue() that follows at once.
LEMMA DrainOneKeeps ==
  ASSUME IInv, TypeOK', NEW c \in Cpu, DrainOne(c)
  PROVE  IInv'
<1> USE NoneFacts DEF IInv, DrainOne, Goto, CallEnqueue
<1>0. IInv /\ TypeOK'
  OBVIOUS
<1>1. \A p \in Proc : Linked(p)' => Linked(p) /\ (head[idx[c]] # NoProc => p #
          head[idx[c]])
  BY <1>0, UnlinkPointers DEF Linked
<1>2. \A d \in Cpu : Pending(d)' = IF d = c THEN head[idx[c]] ELSE Pending(d)
  BY <1>0 DEF TypeOK, Pending
<1>3. \A p \in Proc : p = head[idx[c]] => Linked(p) /\ p # NoProc
  BY <1>0 DEF Linked
<1>4. state' = state /\ pick' = pick
  BY <1>0
<1>5. PlacesOK'
  <2>1. \A p \in Proc : p = head[idx[c]] => PlaceOK(p)'
    BY <1>0, <1>1, <1>2, <1>3, <1>4 DEF PlacesOK, PlaceOK
  <2>2. \A p \in Proc : p # head[idx[c]] => PlaceOK(p)'
    BY <1>0, <1>1, <1>2, PlaceKept DEF TypeOK
  <2> QED BY <1>0, <2>1, <2>2 DEF TypeOK, PlacesOK
<1>6. ControlOK'
  BY <1>0 DEF ControlOK, SchedPts, TypeOK
<1>7. OnePointer'
  BY <1>0, UnlinkPointers DEF OnePointer, TypeOK
<1>8. EnqueueLock'
  BY <1>0 DEF EnqueueLock, Enqueuing, TypeOK
<1>9. PointOK'
  BY <1>0 DEF PointOK, Heading, Enqueuing, SchedPts, TypeOK
<1>10. RunningOK'
  BY <1>0 DEF RunningOK, OnCpu, Leaving, TypeOK
<1>11. ForkOK'
  BY <1>0 DEF ForkOK, TypeOK
<1>12. ExitOK' /\ NoDoubleRun'
  BY <1>0 DEF ExitOK, NoDoubleRun, TypeOK
<1> QED BY <1>0, <1>5, <1>6, <1>7, <1>8, <1>9, <1>10, <1>11, <1>12

\* Releasing the locks of a boost or a mode change moves nothing.
LEMMA DrainDoneKeeps ==
  ASSUME IInv, TypeOK', NEW c \in Cpu, DrainDone(c)
  PROVE  IInv'
<1> USE NoneFacts DEF IInv, DrainDone, Goto, Return
<1>0. IInv /\ TypeOK'
  OBVIOUS
<1>1. \A p \in Proc : Linked(p)' = Linked(p)
  BY <1>0 DEF Linked
<1>2. \A d \in Cpu : Pending(d)' \in {Pending(d), NoProc}
  BY <1>0 DEF TypeOK, Pending
<1>3. PlacesOK'
  <2>1. \A p \in Proc : PlaceOK(p)'
    BY <1>0, <1>1, <1>2, PlaceKept
  <2> QED BY <1>0, <2>1 DEF TypeOK, PlacesOK
<1>4. ControlOK'
  BY <1>0 DEF ControlOK, SchedPts, TypeOK
<1>5. EnqueueLock'
  BY <1>0 DEF EnqueueLock, Enqueuing, ControlOK, SchedPts, TypeOK
<1>6. PointOK'
  BY <1>0 DEF PointOK, Heading, Enqueuing, SchedPts, ControlOK, TypeOK
<1>7. RunningOK'
  BY <1>0 DEF RunningOK, OnCpu, Leaving, ControlOK, SchedPts, TypeOK
<1>8. ForkOK'
  BY <1>0 DEF ForkOK, ControlOK, SchedPts, TypeOK
<1>9. OnePointer' /\ ExitOK' /\ NoDoubleRun'
  BY <1>0 DEF OnePointer, ExitOK, NoDoubleRun, ControlOK, SchedPts, TypeOK
<1> QED BY <1>0, <1>3, <1>4, <1>5, <1>6, <1>7, <1>8, <1>9

\* Computing the queue index moves nothing.
LEMMA ChooseQueueKeeps ==
  ASSUME IInv, TypeOK', NEW c \in Cpu, ChooseQueue(c)
  PROVE  IInv'
<1> USE NoneFacts DEF IInv, ChooseQueue, Goto
<1>0. IInv /\ TypeOK'
  OBVIOUS
<1>1. \A p \in Proc : Linked(p)' = Linked(p)
  BY <1>0 DEF Linked
<1>2. \A d \in Cpu : Pending(d)' \in {Pending(d), NoProc}
  BY <1>0 DEF TypeOK, Pending
<1>3. PlacesOK'
  <2>1. \A p \in Proc : PlaceOK(p)'
    BY <1>0, <1>1, <1>2, PlaceKept
  <2> QED BY <1>0, <2>1 DEF TypeOK, PlacesOK
<1>4. ControlOK'
  BY <1>0 DEF ControlOK, SchedPts, TypeOK
<1>5. EnqueueLock'
  BY <1>0 DEF EnqueueLock, Enqueuing, TypeOK
<1>6. PointOK'
  BY <1>0 DEF PointOK, Heading, Enqueuing, SchedPts, TypeOK
<1>7. RunningOK'
  BY <1>0 DEF RunningOK, OnCpu, Leaving, TypeOK
<1>8. ForkOK'
  BY <1>0 DEF ForkOK, TypeOK
<1>9. OnePointer' /\ ExitOK' /\ NoDoubleRun'
  BY <1>0 DEF OnePointer, ExitOK, NoDoubleRun, TypeOK
<1> QED BY <1>0, <1>3, <1>4, <1>5, <1>6, <1>7, <1>8, <1>9

\* The process enqueue() was called for gets its only pointer; the lock
\* released is that process's.
LEMMA InsertKeeps ==
  ASSUME IInv, TypeOK', NEW c \in Cpu, Insert(c)
  PROVE  IInv'
<1> USE NoneFacts DEF IInv, Insert, ReleasesAt, Goto
<1>0. IInv /\ TypeOK'
  OBVIOUS
<1>1. /\ arg[c] \in Proc
      /\ Pending(c) = arg[c]
      /\ (ret[c] \in {"wake", "run"} => plock[arg[c]] = c /\ arg[c] # proc[c])
  BY <1>0 DEF TypeOK, EnqueueLock, Enqueuing, Pending
<1>2. state[arg[c]] = "RUNNABLE" /\ ~Linked(arg[c])
  BY <1>0, <1>1 DEF PlacesOK, PlaceOK
<1>3. LinkByPid(arg[c]) \/ \E q \in Queue : LinkLast(arg[c], q)
  BY <1>0 DEF TypeOK
<1>4. OnePointer' /\ \A p \in Proc : Linked(p)' => Linked(p) \/ p = arg[c]
  BY <1>0, <1>1, <1>2, <1>3, LinkPointers
<1>5. /\ ret[c] \in {"swtch", "run", "wake", "drain", "lock", "sched"}
      /\ pc' = [pc EXCEPT ![c] = ret[c]]
  BY <1>0 DEF ControlOK
<1>6. /\ UNCHANGED <<state, ctx, pick, proc, last, after>>
      /\ arg' = [arg EXCEPT ![c] = NoProc]
      /\ ret' = [ret EXCEPT ![c] = "sched"]
  BY <1>0
<1>7. plock' = IF ret[c] \in {"wake", "run"} THEN [plock EXCEPT ![arg[c]] =
          NoCpu] ELSE plock
  BY <1>0, <1>5
<1>8. \A d \in Cpu : Pending(d)' = IF d = c THEN NoProc ELSE Pending(d)
  BY <1>0, <1>5, <1>6 DEF TypeOK, Pending
<1>9. PlacesOK'
  <2>1. \A p \in Proc : p = arg[c] => PlaceOK(p)'
    BY <1>0, <1>1, <1>2, <1>6, <1>8 DEF PlacesOK, PlaceOK
  <2>2. \A p \in Proc : p # arg[c] => PlaceOK(p)'
    BY <1>0, <1>4, <1>6, <1>8, PlaceKept
  <2> QED BY <1>0, <2>1, <2>2 DEF TypeOK, PlacesOK
<1>10. ControlOK'
  BY <1>0 DEF ControlOK, SchedPts, TypeOK
<1>11. OnePointer'
  BY <1>0, <1>4 DEF OnePointer, TypeOK
<1>12. EnqueueLock'
  BY <1>0, <1>1, <1>5, <1>6, <1>7, <1>8 DEF EnqueueLock, Enqueuing, TypeOK
<1>13. PointOK'
  BY <1>0, <1>5, <1>6 DEF PointOK, Heading, Enqueuing, SchedPts, TypeOK
<1>14. RunningOK'
  BY <1>0, <1>1, <1>2, <1>5, <1>6, <1>7 DEF RunningOK, OnCpu, Leaving, TypeOK
<1>15. ForkOK'
  BY <1>0, <1>1, <1>2, <1>5, <1>6 DEF ForkOK, TypeOK
<1>16. ExitOK' /\ NoDoubleRun'
  BY <1>0 DEF ExitOK, NoDoubleRun, TypeOK
<1> QED BY <1>0, <1>9, <1>10, <1>11, <1>12, <1>13, <1>14, <1>15, <1>16

\* The lock released is that of a process that executes, not one in enqueue().
LEMMA ResumeKeeps ==
  ASSUME IInv, TypeOK', NEW c \in Cpu, Resume(c)
  PROVE  IInv'
<1> USE NoneFacts DEF IInv, Resume, Goto
<1>0. IInv /\ TypeOK'
  OBVIOUS
<1>1. \A p \in Proc : Linked(p)' = Linked(p)
  BY <1>0 DEF Linked
<1>2. \A d \in Cpu : Pending(d)' \in {Pending(d), NoProc}
  BY <1>0 DEF TypeOK, Pending
<1>3. \A d \in Cpu : Enqueuing(d) => arg[d] # proc[c]
  BY <1>0, Executing DEF EnqueueLock, Enqueuing, Pending, PlacesOK, PlaceOK,
     TypeOK
<1>4. PlacesOK'
  <2>1. \A p \in Proc : PlaceOK(p)'
    BY <1>0, <1>1, <1>2, PlaceKept
  <2> QED BY <1>0, <2>1 DEF TypeOK, PlacesOK
<1>5. ControlOK'
  BY <1>0 DEF ControlOK, SchedPts, TypeOK
<1>6. EnqueueLock'
  BY <1>0, <1>3 DEF EnqueueLock, Enqueuing, TypeOK
<1>7. PointOK'
  BY <1>0 DEF PointOK, Heading, Enqueuing, SchedPts, TypeOK
<1>8. RunningOK'
  BY <1>0 DEF RunningOK, OnCpu, Leaving, TypeOK
<1>9. ForkOK'
  BY <1>0 DEF ForkOK, TypeOK
<1>10. OnePointer' /\ ExitOK' /\ NoDoubleRun'
  BY <1>0 DEF OnePointer, ExitOK, NoDoubleRun, TypeOK
<1> QED BY <1>0, <1>4, <1>5, <1>6, <1>7, <1>8, <1>9, <1>10

\* A timer interrupt without preemption moves nothing.
LEMMA NoPreemptKeeps ==
  ASSUME IInv, TypeOK', NEW c \in Cpu, NoPreempt(c)
  PROVE  IInv'
<1> USE NoneFacts DEF IInv, NoPreempt, Goto
<1>0. IInv /\ TypeOK'
  OBVIOUS
<1>1. \A p \in Proc : Linked(p)' = Linked(p)
  BY <1>0 DEF Linked
<1>2. \A d \in Cpu : Pending(d)' \in {Pending(d), NoProc}
  BY <1>0 DEF TypeOK, Pending
<1>3. PlacesOK'
  <2>1. \A p \in Proc : PlaceOK(p)'
    BY <1>0, <1>1, <1>2, PlaceKept
  <2> QED BY <1>0, <2>1 DEF TypeOK, PlacesOK
<1>4. ControlOK'
  BY <1>0 DEF ControlOK, SchedPts, TypeOK
<1>5. EnqueueLock'
  BY <1>0 DEF EnqueueLock, Enqueuing, TypeOK
<1>6. PointOK'
  BY <1>0 DEF PointOK, Heading, Enqueuing, SchedPts, TypeOK
<1>7. RunningOK'
  BY <1>0 DEF RunningOK, OnCpu, Leaving, TypeOK
<1>8. ForkOK'
  BY <1>0 DEF ForkOK, TypeOK
<1>9. OnePointer' /\ ExitOK' /\ NoDoubleRun'
  BY <1>0 DEF OnePointer, ExitOK, NoDoubleRun, TypeOK
<1> QED BY <1>0, <1>3, <1>4, <1>5, <1>6, <1>7, <1>8, <1>9

\* A ZOMBIE has no place and stays locked until its CPU lets go.
LEMMA ExitZombieKeeps ==
  ASSUME IInv, TypeOK', NEW c \in Cpu, ExitZombie(c)
  PROVE  IInv'
<1> USE NoneFacts DEF IInv, ExitZombie, Goto
<1>0. IInv /\ TypeOK'
  OBVIOUS
<1>1. proc[c] \in Proc /\ state[proc[c]] = "RUNNING"
  BY <1>0, Executing
<1>2. /\ ~Linked(proc[c])
      /\ \A d \in Cpu : pick[d] # proc[c] /\ Pending(d) # proc[c]
  BY <1>0, <1>1, NoPlace
<1>3. \A d \in Cpu : d # c => proc[d] # proc[c]
  BY <1>0, <1>1 DEF NoDoubleRun
<1>4. \A p \in Proc : Linked(p)' = Linked(p)
  BY <1>0 DEF Linked
<1>5. \A d \in Cpu : Pending(d)' = Pending(d)
  BY <1>0 DEF TypeOK, Pending
<1>6. PlacesOK'
  <2>1. \A p \in Proc : p = proc[c] => PlaceOK(p)'
    BY <1>0, <1>1, <1>2, <1>4, <1>5 DEF TypeOK, PlaceOK
  <2>2. \A p \in Proc : p # proc[c] => PlaceOK(p)'
    BY <1>0, <1>4, <1>5, PlaceKept DEF TypeOK
  <2> QED BY <1>0, <2>1, <2>2 DEF TypeOK, PlacesOK
<1>7. ControlOK'
  BY <1>0 DEF ControlOK, SchedPts, TypeOK
<1>8. OnePointer'
  BY <1>0 DEF OnePointer, TypeOK
<1>9. EnqueueLock'
  BY <1>0, <1>1, <1>2 DEF EnqueueLock, Enqueuing, TypeOK
<1>10. PointOK'
  BY <1>0, <1>1 DEF PointOK, Heading, Enqueuing, SchedPts, TypeOK
<1>11. RunningOK'
  BY <1>0, <1>1, <1>3 DEF RunningOK, OnCpu, Leaving, TypeOK
<1>12. ForkOK'
  BY <1>0, <1>1 DEF ForkOK, TypeOK
<1>13. ExitOK' /\ NoDoubleRun'
  BY <1>0, <1>1 DEF ExitOK, NoDoubleRun, TypeOK
<1> QED BY <1>0, <1>6, <1>7, <1>8, <1>9, <1>10, <1>11, <1>12, <1>13

\* sched() switches or panics; nothing moves.
LEMMA SchedKeeps ==
  ASSUME IInv, TypeOK', NEW c \in Cpu, Sched(c)
  PROVE  IInv'
<1> USE NoneFacts DEF IInv, Sched, Goto
<1>0. IInv /\ TypeOK'
  OBVIOUS
<1>1. \A p \in Proc : Linked(p)' = Linked(p)
  BY <1>0 DEF Linked
<1>2. \A d \in Cpu : Pending(d)' \in {Pending(d), NoProc}
  BY <1>0 DEF TypeOK, Pending
<1>3. PlacesOK'
  <2>1. \A p \in Proc : PlaceOK(p)'
    BY <1>0, <1>1, <1>2, PlaceKept
  <2> QED BY <1>0, <2>1 DEF TypeOK, PlacesOK
<1>4. ControlOK'
  BY <1>0 DEF ControlOK, SchedPts, TypeOK
<1>5. EnqueueLock'
  BY <1>0 DEF EnqueueLock, Enqueuing, TypeOK
<1>6. PointOK'
  BY <1>0 DEF PointOK, Heading, Enqueuing, SchedPts, TypeOK
<1>7. RunningOK'
  BY <1>0 DEF RunningOK, OnCpu, Leaving, TypeOK
<1>8. ForkOK'
  BY <1>0 DEF ForkOK, TypeOK
<1>9. OnePointer' /\ ExitOK' /\ NoDoubleRun'
  BY <1>0 DEF OnePointer, ExitOK, NoDoubleRun, TypeOK
<1> QED BY <1>0, <1>3, <1>4, <1>5, <1>6, <1>7, <1>8, <1>9

\* The child goes from its caller to enqueue().
LEMMA ForkStartKeeps ==
  ASSUME IInv, TypeOK', NEW c \in Cpu, ForkStart(c)
  PROVE  IInv'
<1> USE NoneFacts DEF IInv, ForkStart, Goto, CallEnqueue
<1>0. IInv /\ TypeOK'
  OBVIOUS
<1>1. /\ arg[c] \in Proc
      /\ state[arg[c]] = "USED"
      /\ \A d \in Cpu : d # c /\ pc[d] = "fork2" => arg[d] # arg[c]
  BY <1>0 DEF ForkOK, TypeOK
<1>2. proc[c] \in Proc /\ state[proc[c]] = "RUNNING"
  BY <1>0, Executing
<1>3. ~Linked(arg[c]) /\ \A d \in Cpu : pick[d] # arg[c] /\ Pending(d) # arg[c]
  BY <1>0, <1>1, NoPlace
<1>4. \A p \in Proc : Linked(p)' = Linked(p)
  BY <1>0 DEF Linked
<1>5. \A d \in Cpu : Pending(d)' = IF d = c THEN arg[c] ELSE Pending(d)
  BY <1>0 DEF TypeOK, Pending
<1>6. PlacesOK'
  <2>1. \A p \in Proc : p = arg[c] => PlaceOK(p)'
    BY <1>0, <1>1, <1>3, <1>4, <1>5 DEF TypeOK, PlaceOK
  <2>2. \A p \in Proc : p # arg[c] => PlaceOK(p)'
    BY <1>0, <1>4, <1>5, PlaceKept DEF TypeOK
  <2> QED BY <1>0, <2>1, <2>2 DEF TypeOK, PlacesOK
<1>7. ControlOK'
  BY <1>0 DEF ControlOK, SchedPts, TypeOK
<1>8. OnePointer'
  BY <1>0 DEF OnePointer, TypeOK
<1>9. EnqueueLock'
  BY <1>0, <1>1, <1>2 DEF EnqueueLock, Enqueuing, TypeOK
<1>10. PointOK'
  BY <1>0, <1>1, <1>2 DEF PointOK, Heading, Enqueuing, SchedPts, TypeOK
<1>11. RunningOK'
  BY <1>0, <1>1, <1>2 DEF RunningOK, OnCpu, Leaving, TypeOK
<1>12. ForkOK'
  BY <1>0, <1>1 DEF ForkOK, TypeOK
<1>13. ExitOK' /\ NoDoubleRun'
  BY <1>0, <1>1 DEF ExitOK, NoDoubleRun, TypeOK
<1> QED BY <1>0, <1>6, <1>7, <1>8, <1>9, <1>10, <1>11, <1>12, <1>13

\* A process wakeup() passes by does not move.
LEMMA WakeOneSkipsKeeps ==
  ASSUME IInv, TypeOK', NEW c \in Cpu, WakeOne(c), UNCHANGED <<plock, state, arg, ret, pc>>
  PROVE  IInv'
<1> USE NoneFacts DEF IInv, WakeOne, Wakeable, Goto, CallEnqueue
<1>0. IInv /\ TypeOK'
  OBVIOUS
<1>1. \A p \in Proc : Linked(p)' = Linked(p)
  BY <1>0 DEF Linked
<1>2. \A d \in Cpu : Pending(d)' \in {Pending(d), NoProc}
  BY <1>0 DEF TypeOK, Pending
<1>3. PlacesOK'
  <2>1. \A p \in Proc : PlaceOK(p)'
    BY <1>0, <1>1, <1>2, PlaceKept
  <2> QED BY <1>0, <2>1 DEF TypeOK, PlacesOK
<1>4. ControlOK'
  BY <1>0 DEF ControlOK, SchedPts, TypeOK
<1>5. EnqueueLock'
  BY <1>0 DEF EnqueueLock, Enqueuing, TypeOK
<1>6. PointOK'
  BY <1>0 DEF PointOK, Heading, Enqueuing, SchedPts, TypeOK
<1>7. RunningOK'
  BY <1>0 DEF RunningOK, OnCpu, Leaving, TypeOK
<1>8. ForkOK'
  BY <1>0 DEF ForkOK, TypeOK
<1>9. OnePointer' /\ ExitOK' /\ NoDoubleRun'
  BY <1>0 DEF OnePointer, ExitOK, NoDoubleRun, TypeOK
<1> QED BY <1>0, <1>3, <1>4, <1>5, <1>6, <1>7, <1>8, <1>9

\* A sleeper has no place, so the enqueue() of wakeup() is its only one.
LEMMA WakeOneWakesKeeps ==
  ASSUME IInv, TypeOK', NEW c \in Cpu, WakeOne(c), state'[idx[c]] # state[idx[c]]
  PROVE  IInv'
<1> USE NoneFacts DEF IInv, WakeOne, Wakeable, Goto, CallEnqueue
<1>0. IInv /\ TypeOK'
  OBVIOUS
<1>1. idx[c] \in Proc /\ state[idx[c]] = "SLEEPING" /\ idx[c] # proc[c]
  BY <1>0
<1>2. ~Linked(idx[c]) /\ \A d \in Cpu : pick[d] # idx[c] /\ Pending(d) # idx[c]
  BY <1>0, <1>1, NoPlace
<1>3. \A p \in Proc : Linked(p)' = Linked(p)
  BY <1>0 DEF Linked
<1>4. \A d \in Cpu : Pending(d)' = IF d = c THEN idx[c] ELSE Pending(d)
  BY <1>0, <1>1 DEF TypeOK, Pending
<1>5. PlacesOK'
  <2>1. \A p \in Proc : p = idx[c] => PlaceOK(p)'
    BY <1>0, <1>1, <1>2, <1>3, <1>4 DEF TypeOK, PlaceOK
  <2>2. \A p \in Proc : p # idx[c] => PlaceOK(p)'
    BY <1>0, <1>3, <1>4, PlaceKept DEF TypeOK
  <2> QED BY <1>0, <2>1, <2>2 DEF TypeOK, PlacesOK
<1>6. ControlOK'
  BY <1>0, <1>1 DEF ControlOK, SchedPts, TypeOK
<1>7. OnePointer'
  BY <1>0, <1>1 DEF OnePointer, TypeOK
<1>8. EnqueueLock'
  BY <1>0, <1>1 DEF EnqueueLock, Enqueuing, TypeOK
<1>9. PointOK'
  BY <1>0, <1>1 DEF PointOK, Heading, Enqueuing, SchedPts, TypeOK
<1>10. RunningOK'
  BY <1>0, <1>1 DEF RunningOK, OnCpu, Leaving, TypeOK
<1>11. ForkOK'
  BY <1>0, <1>1 DEF ForkOK, TypeOK
<1>12. ExitOK' /\ NoDoubleRun'
  BY <1>0, <1>1 DEF ExitOK, NoDoubleRun, TypeOK
<1> QED BY <1>0, <1>5, <1>6, <1>7, <1>8, <1>9, <1>10, <1>11, <1>12

\* The end of wakeup() moves nothing.
LEMMA WakeDoneKeeps ==
  ASSUME IInv, TypeOK', NEW c \in Cpu, WakeDone(c)
  PROVE  IInv'
<1> USE NoneFacts DEF IInv, WakeDone, Goto, Return
<1>0. IInv /\ TypeOK'
  OBVIOUS
<1>1. \A p \in Proc : Linked(p)' = Linked(p)
  BY <1>0 DEF Linked
<1>2. \A d \in Cpu : Pending(d)' \in {Pending(d), NoProc}
  BY <1>0 DEF TypeOK, Pending, ControlOK, SchedPts
<1>3. PlacesOK'
  <2>1. \A p \in Proc : PlaceOK(p)'
    BY <1>0, <1>1, <1>2, PlaceKept
  <2> QED BY <1>0, <2>1 DEF TypeOK, PlacesOK
<1>4. ControlOK'
  BY <1>0 DEF ControlOK, SchedPts, TypeOK
<1>5. EnqueueLock'
  BY <1>0 DEF EnqueueLock, Enqueuing, ControlOK, SchedPts, TypeOK
<1>6. PointOK'
  BY <1>0 DEF PointOK, Heading, Enqueuing, SchedPts, ControlOK, TypeOK
<1>7. RunningOK'
  BY <1>0 DEF RunningOK, OnCpu, Leaving, ControlOK, SchedPts, TypeOK
<1>8. ForkOK'
  BY <1>0 DEF ForkOK, ControlOK, SchedPts, TypeOK
<1>9. OnePointer' /\ ExitOK' /\ NoDoubleRun'
  BY <1>0 DEF OnePointer, ExitOK, NoDoubleRun, ControlOK, SchedPts, TypeOK
<1> QED BY <1>0, <1>3, <1>4, <1>5, <1>6, <1>7, <1>8, <1>9

\* A panic in acquire() moves nothing.
LEMMA PanicAcquireKeeps ==
  ASSUME IInv, TypeOK', NEW c \in Cpu, PanicAcquire(c)
  PROVE  IInv'
<1> USE NoneFacts DEF IInv, PanicAcquire, Goto
<1>0. IInv /\ TypeOK'
  OBVIOUS
<1>1. \A p \in Proc : Linked(p)' = Linked(p)
  BY <1>0 DEF Linked
<1>2. \A d \in Cpu : Pending(d)' \in {Pending(d), NoProc}
  BY <1>0 DEF TypeOK, Pending
<1>3. PlacesOK'
  <2>1. \A p \in Proc : PlaceOK(p)'
    BY <1>0, <1>1, <1>2, PlaceKept
  <2> QED BY <1>0, <2>1 DEF TypeOK, PlacesOK
<1>4. ControlOK'
  BY <1>0 DEF ControlOK, SchedPts, TypeOK
<1>5. EnqueueLock'
  BY <1>0 DEF EnqueueLock, Enqueuing, TypeOK
<1>6. PointOK'
  BY <1>0 DEF PointOK, Heading, Enqueuing, SchedPts, TypeOK
<1>7. RunningOK'
  BY <1>0 DEF RunningOK, OnCpu, Leaving, TypeOK
<1>8. ForkOK'
  BY <1>0 DEF ForkOK, TypeOK
<1>9. OnePointer' /\ ExitOK' /\ NoDoubleRun'
  BY <1>0 DEF OnePointer, ExitOK, NoDoubleRun, TypeOK
<1> QED BY <1>0, <1>3, <1>4, <1>5, <1>6, <1>7, <1>8, <1>9

\* A process that yields is RUNNABLE in enqueue() and locked by its CPU.
LEMMA YieldKeeps ==
  ASSUME IInv, TypeOK', NEW c \in Cpu, Yield(c)
  PROVE  IInv'
<1> USE NoneFacts DEF IInv, Yield, Goto, CallEnqueue
<1>0. IInv /\ TypeOK'
  OBVIOUS
<1>1. proc[c] \in Proc /\ state[proc[c]] = "RUNNING"
  BY <1>0, Executing
<1>2. /\ ~Linked(proc[c])
      /\ \A d \in Cpu : pick[d] # proc[c] /\ Pending(d) # proc[c]
  BY <1>0, <1>1, NoPlace
<1>3. \A d \in Cpu : d # c => proc[d] # proc[c]
  BY <1>0, <1>1 DEF NoDoubleRun
<1>4. \A p \in Proc : Linked(p)' = Linked(p)
  BY <1>0 DEF Linked
<1>5. \A d \in Cpu : Pending(d)' = IF d = c THEN proc[c] ELSE Pending(d)
  BY <1>0 DEF TypeOK, Pending
<1>6. PlacesOK'
  <2>1. \A p \in Proc : p = proc[c] => PlaceOK(p)'
    BY <1>0, <1>1, <1>2, <1>4, <1>5 DEF TypeOK, PlaceOK
  <2>2. \A p \in Proc : p # proc[c] => PlaceOK(p)'
    BY <1>0, <1>4, <1>5, PlaceKept DEF TypeOK
  <2> QED BY <1>0, <2>1, <2>2 DEF TypeOK, PlacesOK
<1>7. ControlOK'
  BY <1>0 DEF ControlOK, SchedPts, TypeOK
<1>8. OnePointer'
  BY <1>0 DEF OnePointer, TypeOK
<1>9. EnqueueLock'
  BY <1>0, <1>1, <1>2 DEF EnqueueLock, Enqueuing, TypeOK
<1>10. PointOK'
  BY <1>0, <1>1 DEF PointOK, Heading, Enqueuing, SchedPts, TypeOK
<1>11. RunningOK'
  BY <1>0, <1>1, <1>3 DEF RunningOK, OnCpu, Leaving, TypeOK
<1>12. ForkOK'
  BY <1>0, <1>1 DEF ForkOK, TypeOK
<1>13. ExitOK' /\ NoDoubleRun'
  BY <1>0, <1>1 DEF ExitOK, NoDoubleRun, TypeOK
<1> QED BY <1>0, <1>6, <1>7, <1>8, <1>9, <1>10, <1>11, <1>12, <1>13

\* A sleeper has no place and stays locked until its CPU lets go.
LEMMA SleepKeeps ==
  ASSUME IInv, TypeOK', NEW c \in Cpu, Sleep(c)
  PROVE  IInv'
<1> USE NoneFacts DEF IInv, Sleep, Goto
<1>0. IInv /\ TypeOK'
  OBVIOUS
<1>1. proc[c] \in Proc /\ state[proc[c]] = "RUNNING"
  BY <1>0, Executing
<1>2. /\ ~Linked(proc[c])
      /\ \A d \in Cpu : pick[d] # proc[c] /\ Pending(d) # proc[c]
  BY <1>0, <1>1, NoPlace
<1>3. \A d \in Cpu : d # c => proc[d] # proc[c]
  BY <1>0, <1>1 DEF NoDoubleRun
<1>4. \A p \in Proc : Linked(p)' = Linked(p)
  BY <1>0 DEF Linked
<1>5. \A d \in Cpu : Pending(d)' = Pending(d)
  BY <1>0 DEF TypeOK, Pending
<1>6. PlacesOK'
  <2>1. \A p \in Proc : p = proc[c] => PlaceOK(p)'
    BY <1>0, <1>1, <1>2, <1>4, <1>5 DEF TypeOK, PlaceOK
  <2>2. \A p \in Proc : p # proc[c] => PlaceOK(p)'
    BY <1>0, <1>4, <1>5, PlaceKept DEF TypeOK
  <2> QED BY <1>0, <2>1, <2>2 DEF TypeOK, PlacesOK
<1>7. ControlOK'
  BY <1>0 DEF ControlOK, SchedPts, TypeOK
<1>8. OnePointer'
  BY <1>0 DEF OnePointer, TypeOK
<1>9. EnqueueLock'
  BY <1>0, <1>1, <1>2 DEF EnqueueLock, Enqueuing, TypeOK
<1>10. PointOK'
  BY <1>0, <1>1 DEF PointOK, Heading, Enqueuing, SchedPts, TypeOK
<1>11. RunningOK'
  BY <1>0, <1>1, <1>3 DEF RunningOK, OnCpu, Leaving, TypeOK
<1>12. ForkOK'
  BY <1>0, <1>1 DEF ForkOK, TypeOK
<1>13. ExitOK' /\ NoDoubleRun'
  BY <1>0, <1>1 DEF ExitOK, NoDoubleRun, TypeOK
<1> QED BY <1>0, <1>6, <1>7, <1>8, <1>9, <1>10, <1>11, <1>12, <1>13

\* The start of exit() moves nothing.
LEMMA ExitWakeKeeps ==
  ASSUME IInv, TypeOK', NEW c \in Cpu, ExitWake(c)
  PROVE  IInv'
<1> USE NoneFacts DEF IInv, ExitWake, Goto
<1>0. IInv /\ TypeOK'
  OBVIOUS
<1>1. \A p \in Proc : Linked(p)' = Linked(p)
  BY <1>0 DEF Linked
<1>2. \A d \in Cpu : Pending(d)' \in {Pending(d), NoProc}
  BY <1>0 DEF TypeOK, Pending
<1>3. PlacesOK'
  <2>1. \A p \in Proc : PlaceOK(p)'
    BY <1>0, <1>1, <1>2, PlaceKept
  <2> QED BY <1>0, <2>1 DEF TypeOK, PlacesOK
<1>4. ControlOK'
  BY <1>0 DEF ControlOK, SchedPts, TypeOK
<1>5. EnqueueLock'
  BY <1>0 DEF EnqueueLock, Enqueuing, TypeOK
<1>6. PointOK'
  BY <1>0 DEF PointOK, Heading, Enqueuing, SchedPts, TypeOK
<1>7. RunningOK'
  BY <1>0 DEF RunningOK, OnCpu, Leaving, TypeOK
<1>8. ForkOK'
  BY <1>0 DEF ForkOK, TypeOK
<1>9. OnePointer' /\ ExitOK' /\ NoDoubleRun'
  BY <1>0 DEF OnePointer, ExitOK, NoDoubleRun, TypeOK
<1> QED BY <1>0, <1>3, <1>4, <1>5, <1>6, <1>7, <1>8, <1>9

\* An UNUSED slot has no place; it becomes one caller's USED slot.
LEMMA ForkKeeps ==
  ASSUME IInv, TypeOK', NEW c \in Cpu, Fork(c)
  PROVE  IInv'
<1> USE NoneFacts DEF IInv, Fork, Goto
<1>0. IInv /\ TypeOK'
  OBVIOUS
<1>1. PICK np \in Proc : Fork(c)!(np)
  BY <1>0
<1>2. proc[c] \in Proc /\ state[proc[c]] = "RUNNING"
  BY <1>0, Executing
<1>3. ~Linked(np) /\ \A d \in Cpu : pick[d] # np /\ Pending(d) # np
  BY <1>0, <1>1, NoPlace
<1>4. OnePointer' /\ \A p \in Proc : Linked(p)' => Linked(p)
  BY SMTT(60), <1>0, <1>1 DEF OnePointer, Linked, TypeOK
<1>5. \A d \in Cpu : Pending(d)' = Pending(d)
  BY <1>0, <1>1 DEF TypeOK, Pending
<1>6. PlacesOK'
  <2>1. PlaceOK(np)'
    BY <1>0, <1>1, <1>3, <1>4, <1>5 DEF TypeOK, PlaceOK
  <2>2. \A p \in Proc : p # np => PlaceOK(p)'
    BY <1>0, <1>1, <1>4, <1>5, PlaceKept DEF TypeOK
  <2> QED BY <1>0, <2>1, <2>2 DEF TypeOK, PlacesOK
<1>7. ControlOK'
  BY <1>0, <1>1, <1>2 DEF ControlOK, SchedPts, TypeOK
<1>8. OnePointer'
  BY <1>0, <1>4 DEF OnePointer, TypeOK
<1>9. EnqueueLock'
  BY <1>0, <1>1, <1>2 DEF EnqueueLock, Enqueuing, TypeOK
<1>10. PointOK'
  BY <1>0, <1>1, <1>2 DEF PointOK, Heading, Enqueuing, SchedPts, TypeOK
<1>11. RunningOK'
  BY <1>0, <1>1, <1>2 DEF RunningOK, OnCpu, Leaving, TypeOK
<1>12. ForkOK'
  BY <1>0, <1>1, <1>2 DEF ForkOK, TypeOK
<1>13. ExitOK' /\ NoDoubleRun'
  BY <1>0, <1>1, <1>2 DEF ExitOK, NoDoubleRun, TypeOK
<1> QED BY <1>0, <1>6, <1>7, <1>8, <1>9, <1>10, <1>11, <1>12, <1>13

\* A zombie has no place and its slot keeps none.
LEMMA ReapKeeps ==
  ASSUME IInv, TypeOK', NEW c \in Cpu, Reap(c)
  PROVE  IInv'
<1> USE NoneFacts DEF IInv, Reap
<1>0. IInv /\ TypeOK'
  OBVIOUS
<1>1. PICK q \in Proc : Reap(c)!(q)
  BY <1>0
<1>2. \A p \in Proc : Linked(p)' = Linked(p)
  BY <1>0 DEF Linked
<1>3. \A d \in Cpu : Pending(d)' = Pending(d)
  BY <1>0 DEF Pending
<1>4. PlacesOK'
  <2>1. \A p \in Proc : PlaceOK(p)'
    BY <1>0, <1>1, <1>2, <1>3, PlaceKept DEF TypeOK
  <2> QED BY <1>0, <2>1 DEF TypeOK, PlacesOK
<1>5. ControlOK'
  BY <1>0, <1>1 DEF ControlOK, SchedPts, TypeOK
<1>6. OnePointer'
  BY <1>0, <1>1 DEF OnePointer, TypeOK
<1>7. EnqueueLock'
  BY <1>0, <1>1 DEF EnqueueLock, Enqueuing, TypeOK
<1>8. PointOK'
  BY <1>0, <1>1 DEF PointOK, Heading, Enqueuing, SchedPts, TypeOK
<1>9. RunningOK'
  BY <1>0, <1>1 DEF RunningOK, OnCpu, Leaving, TypeOK
<1>10. ForkOK'
  BY <1>0, <1>1 DEF ForkOK, TypeOK
<1>11. ExitOK' /\ NoDoubleRun'
  BY <1>0, <1>1 DEF ExitOK, NoDoubleRun, TypeOK
<1> QED BY <1>0, <1>4, <1>5, <1>6, <1>7, <1>8, <1>9, <1>10, <1>11

\* A sleeper that is killed goes to enqueue(), its only place.
LEMMA KillKeeps ==
  ASSUME IInv, TypeOK', NEW c \in Cpu, Kill(c)
  PROVE  IInv'
<1> USE NoneFacts DEF IInv, Kill, Goto, CallEnqueue
<1>0. IInv /\ TypeOK'
  OBVIOUS
<1>1. PICK q \in Proc : Kill(c)!(q)
  BY <1>0
<1>2. proc[c] \in Proc /\ state[proc[c]] = "RUNNING"
  BY <1>0, Executing
<1>3. ~Linked(q) /\ \A d \in Cpu : pick[d] # q /\ Pending(d) # q
  BY <1>0, <1>1, NoPlace
<1>4. \A p \in Proc : Linked(p)' = Linked(p)
  BY <1>0 DEF Linked
<1>5. \A d \in Cpu : Pending(d)' = IF d = c THEN q ELSE Pending(d)
  BY <1>0, <1>1 DEF TypeOK, Pending
<1>6. PlacesOK'
  <2>1. PlaceOK(q)'
    BY <1>0, <1>1, <1>3, <1>4, <1>5 DEF TypeOK, PlaceOK
  <2>2. \A p \in Proc : p # q => PlaceOK(p)'
    BY <1>0, <1>1, <1>4, <1>5, PlaceKept DEF TypeOK
  <2> QED BY <1>0, <2>1, <2>2 DEF TypeOK, PlacesOK
<1>7. ControlOK'
  BY <1>0, <1>1, <1>2 DEF ControlOK, SchedPts, TypeOK
<1>8. OnePointer'
  BY <1>0, <1>4 DEF OnePointer, TypeOK
<1>9. EnqueueLock'
  BY <1>0, <1>1, <1>2 DEF EnqueueLock, Enqueuing, TypeOK
<1>10. PointOK'
  BY <1>0, <1>1, <1>2 DEF PointOK, Heading, Enqueuing, SchedPts, TypeOK
<1>11. RunningOK'
  BY <1>0, <1>1, <1>2 DEF RunningOK, OnCpu, Leaving, TypeOK
<1>12. ForkOK'
  BY <1>0, <1>1, <1>2 DEF ForkOK, TypeOK
<1>13. ExitOK' /\ NoDoubleRun'
  BY <1>0, <1>1, <1>2 DEF ExitOK, NoDoubleRun, TypeOK
<1> QED BY <1>0, <1>6, <1>7, <1>8, <1>9, <1>10, <1>11, <1>12, <1>13

\* setpriority() takes a free lock and keeps it, which takes no lock from
\* anybody else.
LEMMA SetPriorityKeeps ==
  ASSUME IInv, TypeOK', NEW c \in Cpu, SetPriority(c)
  PROVE  IInv'
<1> USE NoneFacts DEF IInv, SetPriority
<1>0. IInv /\ TypeOK'
  OBVIOUS
<1>1. \A p \in Proc : Linked(p)' = Linked(p)
  BY <1>0 DEF Linked
<1>2. \A d \in Cpu : Pending(d)' \in {Pending(d), NoProc}
  BY <1>0 DEF TypeOK, Pending
<1>3. PlacesOK'
  <2>1. \A p \in Proc : PlaceOK(p)'
    BY <1>0, <1>1, <1>2, PlaceKept
  <2> QED BY <1>0, <2>1 DEF TypeOK, PlacesOK
<1>4. ControlOK'
  BY <1>0 DEF ControlOK, SchedPts, TypeOK
<1>5. EnqueueLock'
  BY <1>0 DEF EnqueueLock, Enqueuing, TypeOK
<1>6. PointOK'
  BY <1>0 DEF PointOK, Heading, Enqueuing, SchedPts, TypeOK
<1>7. RunningOK'
  BY <1>0 DEF RunningOK, OnCpu, Leaving, TypeOK
<1>8. ForkOK'
  BY <1>0 DEF ForkOK, TypeOK
<1>9. OnePointer' /\ ExitOK' /\ NoDoubleRun'
  BY <1>0 DEF OnePointer, ExitOK, NoDoubleRun, TypeOK
<1> QED BY <1>0, <1>3, <1>4, <1>5, <1>6, <1>7, <1>8, <1>9

\* A clock interrupt starts wakeup() and moves nothing by itself.
LEMMA ClockIntrKeeps ==
  ASSUME IInv, TypeOK', NEW c \in Cpu, ClockIntr(c)
  PROVE  IInv'
<1> USE NoneFacts DEF IInv, ClockIntr, Goto
<1>0. IInv /\ TypeOK'
  OBVIOUS
<1>1. \A p \in Proc : Linked(p)' = Linked(p)
  BY <1>0 DEF Linked
<1>2. \A d \in Cpu : Pending(d)' \in {Pending(d), NoProc}
  BY <1>0 DEF TypeOK, Pending
<1>3. PlacesOK'
  <2>1. \A p \in Proc : PlaceOK(p)'
    BY <1>0, <1>1, <1>2, PlaceKept
  <2> QED BY <1>0, <2>1 DEF TypeOK, PlacesOK
<1>4. ControlOK'
  BY <1>0 DEF ControlOK, SchedPts, TakesIntr, TypeOK
<1>5. EnqueueLock'
  BY <1>0 DEF EnqueueLock, Enqueuing, TakesIntr, TypeOK
<1>6. PointOK'
  BY <1>0 DEF PointOK, Heading, Enqueuing, SchedPts, TakesIntr, TypeOK
<1>7. RunningOK'
  BY <1>0 DEF RunningOK, OnCpu, Leaving, TakesIntr, TypeOK
<1>8. ForkOK'
  BY <1>0 DEF ForkOK, TakesIntr, TypeOK
<1>9. OnePointer' /\ ExitOK' /\ NoDoubleRun'
  BY <1>0 DEF OnePointer, ExitOK, NoDoubleRun, TakesIntr, TypeOK
<1> QED BY <1>0, <1>3, <1>4, <1>5, <1>6, <1>7, <1>8, <1>9

\* The start of wakeup() moves nothing.
LEMMA WakeupKeeps ==
  ASSUME IInv, TypeOK', NEW c \in Cpu, Wakeup(c)
  PROVE  IInv'
<1> USE NoneFacts DEF IInv, Wakeup, Goto
<1>0. IInv /\ TypeOK'
  OBVIOUS
<1>1. \A p \in Proc : Linked(p)' = Linked(p)
  BY <1>0 DEF Linked
<1>2. \A d \in Cpu : Pending(d)' \in {Pending(d), NoProc}
  BY <1>0 DEF TypeOK, Pending
<1>3. PlacesOK'
  <2>1. \A p \in Proc : PlaceOK(p)'
    BY <1>0, <1>1, <1>2, PlaceKept
  <2> QED BY <1>0, <2>1 DEF TypeOK, PlacesOK
<1>4. ControlOK'
  BY <1>0 DEF ControlOK, SchedPts, TakesIntr, TypeOK
<1>5. EnqueueLock'
  BY <1>0 DEF EnqueueLock, Enqueuing, TakesIntr, TypeOK
<1>6. PointOK'
  BY <1>0 DEF PointOK, Heading, Enqueuing, SchedPts, TakesIntr, TypeOK
<1>7. RunningOK'
  BY <1>0 DEF RunningOK, OnCpu, Leaving, TakesIntr, TypeOK
<1>8. ForkOK'
  BY <1>0 DEF ForkOK, TakesIntr, TypeOK
<1>9. OnePointer' /\ ExitOK' /\ NoDoubleRun'
  BY <1>0 DEF OnePointer, ExitOK, NoDoubleRun, TakesIntr, TypeOK
<1> QED BY <1>0, <1>3, <1>4, <1>5, <1>6, <1>7, <1>8, <1>9

\* mlfqmode() leaves the lists as they are until the drain.
LEMMA MlfqModeKeeps ==
  ASSUME IInv, TypeOK', NEW c \in Cpu, MlfqMode(c)
  PROVE  IInv'
<1> USE NoneFacts DEF IInv, MlfqMode, Goto
<1>0. IInv /\ TypeOK'
  OBVIOUS
<1>1. \A p \in Proc : Linked(p)' = Linked(p)
  BY <1>0 DEF Linked
<1>2. \A d \in Cpu : Pending(d)' \in {Pending(d), NoProc}
  BY <1>0 DEF TypeOK, Pending
<1>3. PlacesOK'
  <2>1. \A p \in Proc : PlaceOK(p)'
    BY <1>0, <1>1, <1>2, PlaceKept
  <2> QED BY <1>0, <2>1 DEF TypeOK, PlacesOK
<1>4. ControlOK'
  BY <1>0 DEF ControlOK, SchedPts, TypeOK
<1>5. EnqueueLock'
  BY <1>0 DEF EnqueueLock, Enqueuing, TypeOK
<1>6. PointOK'
  BY <1>0 DEF PointOK, Heading, Enqueuing, SchedPts, TypeOK
<1>7. RunningOK'
  BY <1>0 DEF RunningOK, OnCpu, Leaving, TypeOK
<1>8. ForkOK'
  BY <1>0 DEF ForkOK, TypeOK
<1>9. OnePointer' /\ ExitOK' /\ NoDoubleRun'
  BY <1>0 DEF OnePointer, ExitOK, NoDoubleRun, TypeOK
<1> QED BY <1>0, <1>3, <1>4, <1>5, <1>6, <1>7, <1>8, <1>9
-----------------------------------------------------------------------------
(* The theorems. *)

\* After boot, init is RUNNABLE at the head of mlfq[0].
LEMMA InitOK == Init => IInv
<1> SUFFICES ASSUME Init PROVE IInv
  OBVIOUS
<1>1. InitProc \in Proc /\ 0 \in Queue /\ NoProc \notin Proc
  BY ModelAssumption, QueueFacts, NoneFacts DEF InitProc, Proc
<1>2. TypeOK
  BY <1>1, ModelAssumption, TickFacts DEF Init, TypeOK, PState, Points, SchedPts
<1>3. ControlOK /\ EnqueueLock /\ PointOK /\ RunningOK /\ ForkOK
  BY DEF Init, ControlOK, SchedPts, EnqueueLock, Enqueuing, PointOK, Heading,
         RunningOK, OnCpu, Leaving, ForkOK
<1>4. OnePointer
  BY <1>1 DEF Init, OnePointer
<1>5. PlacesOK
  BY <1>1 DEF Init, PlacesOK, PlaceOK, Linked, Pending
<1>6. ExitOK /\ NoDoubleRun
  BY DEF Init, ExitOK, NoDoubleRun
<1> QED BY <1>2, <1>3, <1>4, <1>5, <1>6 DEF IInv

\* WakeOne either wakes the process it has come to or passes it by.
LEMMA WakeOneKeeps ==
  ASSUME IInv, TypeOK', NEW c \in Cpu, WakeOne(c)
  PROVE  IInv'
<1>1. CASE state'[idx[c]] # state[idx[c]]
  BY <1>1, WakeOneWakesKeeps
<1>2. CASE UNCHANGED <<plock, state, arg, ret, pc>>
  BY <1>2, WakeOneSkipsKeeps
<1>3. state'[idx[c]] # state[idx[c]] \/ UNCHANGED <<plock, state, arg, ret, pc>>
  BY DEF WakeOne, Wakeable, IInv, TypeOK
<1> QED BY <1>1, <1>2, <1>3

\* A step that changes no variable keeps the invariant.
LEMMA StutterKeeps ==
  ASSUME IInv, UNCHANGED vars
  PROVE  IInv'
BY DEF IInv, vars, TypeOK, ControlOK, OnePointer, PlacesOK, PlaceOK, Linked,
       Pending, EnqueueLock, Enqueuing, PointOK, Heading, RunningOK, OnCpu,
       Leaving, ForkOK, ExitOK, NoDoubleRun

\* The invariant is inductive as long as nobody calls fcfsmode().
THEOREM Inductive ==
  ASSUME "fcfsmode" \notin Ops
  PROVE  Spec => []IInv
<1>1. IInv /\ [Next]_vars => IInv'
  <2> SUFFICES ASSUME IInv, [Next]_vars PROVE IInv'
    OBVIOUS
  <2>1. CASE UNCHANGED vars
    BY <2>1, StutterKeeps
  <2>2. CASE Next
    <3>1. PICK c \in Cpu : CpuStep(c) \/ Request(c)
      BY <2>2 DEF Next
    <3>2. TypeOK'
      BY <3>1, TypePreserved
    <3>3. pc[c] \notin {"clear", "scan"}
      BY DEF IInv, ControlOK
    <3>4. CASE SchedulerStep(c) \/ QueueStep(c)
      BY <3>2, <3>4, ReadModeKeeps, PickFirstKeeps, PickLevelKeeps,
         PeekHeadKeeps, PickSecondKeeps, DispatchKeeps, BackKeeps,
         CheckBoostKeeps, ResetOneKeeps, DrainOneKeeps, DrainDoneKeeps,
         ChooseQueueKeeps, InsertKeeps
         DEF SchedulerStep, QueueStep
    <3>5. CASE KernelStep(c)
      BY <3>2, <3>3, <3>5, ResumeKeeps, NoPreemptKeeps, ExitZombieKeeps,
         SchedKeeps, ForkStartKeeps, WakeOneKeeps, WakeDoneKeeps,
         PanicAcquireKeeps
         DEF KernelStep, ClearOne, ScanOne, Requeued, ScanDone
    <3>6. CASE Request(c)
      BY <3>2, <3>6, YieldKeeps, SleepKeeps, ExitWakeKeeps, ForkKeeps,
         ReapKeeps, KillKeeps, SetPriorityKeeps, ClockIntrKeeps,
         WakeupKeeps, MlfqModeKeeps
         DEF Request, FcfsMode
    <3> QED BY <3>1, <3>4, <3>5, <3>6 DEF CpuStep
  <2> QED BY <2>1, <2>2
<1> QED BY <1>1, InitOK, PTL DEF Spec

\* scheduler() (proc.c:471-529) never puts a process on a CPU while another CPU
\* still has it: for any number of processes and CPUs, any workload of yields,
\* sleeps, wakeups, forks, exits, kills, priority changes and mlfqmode() calls.
THEOREM NeverOnTwoCpus ==
  ASSUME "fcfsmode" \notin Ops
  PROVE  Spec => []NoDoubleRun
<1>1. IInv => NoDoubleRun
  BY DEF IInv
<1> QED BY <1>1, Inductive, PTL

\* "Jump into the scheduler, never to return" (proc.c:409) holds under the same
\* condition: a process that has exited is never switched to.
THEOREM ExitIsFinal ==
  ASSUME "fcfsmode" \notin Ops
  PROVE  Spec => []NoZombieResume
<1>1. IInv => NoZombieResume
  <2> SUFFICES ASSUME IInv, NEW c \in Cpu, pc[c] = "resume"
               PROVE  ctx[proc[c]] # "exit"
    BY DEF NoZombieResume
  <2>1. proc[c] \in Proc /\ state[proc[c]] = "RUNNING"
    BY Executing
  <2> QED BY <2>1 DEF IInv, ExitOK
<1> QED BY <1>1, Inductive, PTL

\* Every variable keeps its type; in particular enqueue() computes queue indexes
\* within mlfq[] from any level in 0..2.
THEOREM TypeCorrect ==
  ASSUME "fcfsmode" \notin Ops
  PROVE  Spec => []TypeOK
<1>1. IInv => TypeOK
  BY DEF IInv
<1> QED BY <1>1, Inductive, PTL
-----------------------------------------------------------------------------
(* The refinement of RunQueue. *)

\* In scheduler() between two processes a CPU has none.
IdleOK ==
  \A c \in Cpu : Heading(c, SchedPts \cup {"tickchk"}) => proc[c] = NoProc

\* The steps of a CPU when nobody calls fcfsmode().
LEMMA StepsOf ==
  ASSUME IInv, "fcfsmode" \notin Ops, NEW c \in Cpu, CpuStep(c) \/ Request(c)
  PROVE  \/ ReadMode(c) \/ PickFirst(c) \/ PickLevel(c) \/ PeekHead(c)
         \/ PickSecond(c) \/ Dispatch(c) \/ Back(c) \/ CheckBoost(c)
         \/ ResetOne(c) \/ DrainOne(c) \/ DrainDone(c) \/ ChooseQueue(c)
         \/ Insert(c) \/ Resume(c) \/ NoPreempt(c) \/ ExitZombie(c) \/ Sched(c)
         \/ ForkStart(c) \/ WakeOne(c) \/ WakeDone(c) \/ PanicAcquire(c)
         \/ Yield(c) \/ Sleep(c) \/ ExitWake(c) \/ Fork(c) \/ Reap(c) \/ Kill(c)
         \/ SetPriority(c) \/ ClockIntr(c) \/ Wakeup(c) \/ MlfqMode(c)
<1>1. pc[c] \notin {"clear", "scan"}
  BY DEF IInv, ControlOK
<1> QED BY <1>1 DEF CpuStep, Request, SchedulerStep, QueueStep, KernelStep,
       FcfsMode, ClearOne, ScanOne, Requeued, ScanDone

\* A CPU gets a process in Dispatch and has lost it when it is back in
\* scheduler().
LEMMA IdleKeeps ==
  ASSUME IInv, TypeOK', IdleOK, "fcfsmode" \notin Ops,
         NEW c \in Cpu, CpuStep(c) \/ Request(c)
  PROVE  IdleOK'
<1>0. TypeOK /\ ControlOK
  BY DEF IInv
<1> USE <1>0 DEF TypeOK, ControlOK, IdleOK, Heading, Enqueuing, SchedPts, Goto, Return, CallEnqueue
<1>1. CASE ReadMode(c)
  BY <1>1 DEF ReadMode
<1>2. CASE PickFirst(c)
  BY <1>2 DEF PickFirst, Unlink
<1>3. CASE PickLevel(c)
  BY <1>3 DEF PickLevel, Unlink
<1>4. CASE PeekHead(c)
  BY <1>4 DEF PeekHead
<1>5. CASE PickSecond(c)
  BY <1>5 DEF PickSecond, Unlink
<1>6. CASE Dispatch(c)
  BY <1>6 DEF Dispatch
<1>7. CASE Back(c)
  BY <1>7 DEF Back
<1>8. CASE CheckBoost(c)
  BY <1>8 DEF CheckBoost
<1>9. CASE ResetOne(c)
  BY <1>9 DEF ResetOne, FirstDrained
<1>10. CASE DrainOne(c)
  BY <1>10 DEF DrainOne, Unlink
<1>11. CASE DrainDone(c)
  BY <1>11 DEF DrainDone
<1>12. CASE ChooseQueue(c)
  BY <1>12 DEF ChooseQueue
<1>13. CASE Insert(c)
  BY <1>13 DEF Insert, ReleasesAt
<1>14. CASE Resume(c)
  BY <1>14 DEF Resume
<1>15. CASE NoPreempt(c)
  BY <1>15 DEF NoPreempt
<1>16. CASE ExitZombie(c)
  BY <1>16 DEF ExitZombie
<1>17. CASE Sched(c)
  BY <1>17 DEF Sched
<1>18. CASE ForkStart(c)
  BY <1>18 DEF ForkStart
<1>19. CASE WakeOne(c)
  BY <1>19 DEF WakeOne, Wakeable
<1>20. CASE WakeDone(c)
  BY <1>20 DEF WakeDone
<1>21. CASE PanicAcquire(c)
  BY <1>21 DEF PanicAcquire
<1>22. CASE Yield(c)
  BY <1>22 DEF Yield
<1>23. CASE Sleep(c)
  BY <1>23 DEF Sleep
<1>24. CASE ExitWake(c)
  BY <1>24 DEF ExitWake
<1>25. CASE Fork(c)
  BY <1>25 DEF Fork
<1>26. CASE Reap(c)
  BY <1>26 DEF Reap
<1>27. CASE Kill(c)
  BY <1>27 DEF Kill
<1>28. CASE SetPriority(c)
  BY <1>28 DEF SetPriority
<1>29. CASE ClockIntr(c)
  BY <1>29 DEF ClockIntr
<1>30. CASE Wakeup(c)
  BY <1>30 DEF Wakeup
<1>31. CASE MlfqMode(c)
  BY <1>31 DEF MlfqMode
<1> QED BY <1>1, <1>2, <1>3, <1>4, <1>5, <1>6, <1>7, <1>8, <1>9, <1>10, <1>11, <1>12,
     <1>13, <1>14, <1>15, <1>16, <1>17, <1>18, <1>19, <1>20, <1>21, <1>22, <1>23, <1>24,
     <1>25, <1>26, <1>27, <1>28, <1>29, <1>30, <1>31, StepsOf

\* The place of a process: the CPU that executes it, else Ready or Off.
LEMMA PlaceOf ==
  IInv => /\ DOMAIN where = Proc
          /\ where = [r \in Proc |-> where[r]]
          /\ \A p \in Proc, c \in Cpu : OnCpu(c) = p => where[p] = c
          /\ \A p \in Proc : (\A c \in Cpu : OnCpu(c) # p) =>
               where[p] = IF state[p] = "RUNNABLE" THEN 0 ELSE -1
<1> SUFFICES ASSUME IInv PROVE
      /\ DOMAIN where = Proc
      /\ where = [r \in Proc |-> where[r]]
      /\ \A p \in Proc, c \in Cpu : OnCpu(c) = p => where[p] = c
      /\ \A p \in Proc : (\A c \in Cpu : OnCpu(c) # p) =>
           where[p] = IF state[p] = "RUNNABLE" THEN 0 ELSE -1
  OBVIOUS
<1>1. ASSUME NEW p \in Proc, NEW c \in Cpu, OnCpu(c) = p
      PROVE  where[p] = c
  <2>1. \A d \in Cpu : OnCpu(d) = p <=> d = c
    BY <1>1, NoneFacts DEF IInv, NoDoubleRun, OnCpu
  <2>2. (CHOOSE d \in Cpu : OnCpu(d) = p) = c
    BY <2>1
  <2> QED BY <2>1, <2>2 DEF where
<1>2. DOMAIN where = Proc /\ where = [r \in Proc |-> where[r]]
  BY DEF where
<1>3. \A p \in Proc : (\A c \in Cpu : OnCpu(c) # p) =>
        where[p] = IF state[p] = "RUNNABLE" THEN 0 ELSE -1
  BY DEF where
<1> QED BY <1>1, <1>2, <1>3

\* The first process is RUNNABLE and no CPU has one yet.
LEMMA InitWhere == Init => RQ!Init
<1> SUFFICES ASSUME Init PROVE RQ!Init
  OBVIOUS
<1>1. \A c \in Cpu : OnCpu(c) = NoProc
  BY DEF Init, OnCpu
<1>2. \A p \in Proc : where[p] \in {0, -1}
  BY <1>1, NoneFacts DEF where
<1>3. where = [p \in Proc |-> where[p]]
  BY DEF where
<1> QED BY <1>2, <1>3 DEF RQ!Init

\* The place after a step, with what PlaceOf says of it.
LEMMA PlaceOfNext ==
  IInv' => /\ DOMAIN where' = Proc
           /\ where' = [r \in Proc |-> where'[r]]
           /\ \A p \in Proc, c \in Cpu : OnCpu(c)' = p => where'[p] = c
           /\ \A p \in Proc : (\A c \in Cpu : OnCpu(c)' # p) =>
                where'[p] = IF state'[p] = "RUNNABLE" THEN 0 ELSE -1
<1>1. (IInv => /\ DOMAIN where = Proc
               /\ where = [r \in Proc |-> where[r]]
               /\ \A p \in Proc, c \in Cpu : OnCpu(c) = p => where[p] = c
               /\ \A p \in Proc : (\A c \in Cpu : OnCpu(c) # p) =>
                    where[p] = IF state[p] = "RUNNABLE" THEN 0 ELSE -1)'
  BY PlaceOf, PTL
<1> QED BY <1>1

\* A process that no CPU takes or leaves and that stays RUNNABLE or not keeps
\* its place.
SamePlace(p) ==
  /\ \A d \in Cpu : OnCpu(d)' = p <=> OnCpu(d) = p
  /\ state'[p] = "RUNNABLE" <=> state[p] = "RUNNABLE"

\* Such a process is where it was.
LEMMA SameWhere ==
  ASSUME IInv, IInv', NEW p \in Proc, SamePlace(p)
  PROVE  where'[p] = where[p]
<1>1. CASE \E d \in Cpu : OnCpu(d) = p
  BY <1>1, PlaceOf, PlaceOfNext DEF SamePlace
<1>2. CASE \A d \in Cpu : OnCpu(d) # p
  BY <1>2, PlaceOf, PlaceOfNext DEF SamePlace
<1> QED BY <1>1, <1>2

\* Nothing moves: a stutter of RunQueue.
LEMMA WhereStutters ==
  ASSUME IInv, IInv', \A p \in Proc : SamePlace(p)
  PROVE  where' = where
BY SameWhere, PlaceOf, PlaceOfNext

\* One process moves.
LEMMA WhereMoves ==
  ASSUME IInv, IInv', NEW p \in Proc, \A r \in Proc : r # p => SamePlace(r)
  PROVE  RQ!Move(p, where'[p])
<1>1. \A r \in Proc : r # p => where'[r] = where[r]
  BY SameWhere
<1>2. where' = [where EXCEPT ![p] = where'[p]]
  BY <1>1, PlaceOf, PlaceOfNext
<1> QED BY <1>2 DEF RQ!Move

\* A process that waits for a CPU: admitted from Off to Ready.
LEMMA Admitted ==
  ASSUME IInv, IInv', NEW p \in Proc,
         state[p] \notin {"RUNNABLE", "RUNNING"}, state'[p] = "RUNNABLE",
         \A r \in Proc : r # p => SamePlace(r)
  PROVE  RQ!Next
<1>1. \A d \in Cpu : OnCpu(d) # p /\ OnCpu(d)' # p
  BY NoneFacts DEF IInv, RunningOK
<1>2. where[p] = -1 /\ where'[p] = 0
  BY <1>1, PlaceOf, PlaceOfNext
<1>3. RQ!Admit(p)
  BY <1>2, WhereMoves DEF RQ!Admit
<1> QED BY <1>3 DEF RQ!Next

\* A process whose CPU stops executing it.
LEMMA GivenUp ==
  ASSUME IInv, IInv', NEW c \in Cpu, OnCpu(c) # NoProc, OnCpu(c) = proc[c],
         \A d \in Cpu : d # c => OnCpu(d)' = OnCpu(d),
         OnCpu(c)' = NoProc,
         \A r \in Proc : r # proc[c] => (state'[r] = "RUNNABLE" <=> state[r] = "RUNNABLE")
  PROVE  RQ!Next
<1> DEFINE p == proc[c]
<1>1. p \in Proc
  BY DEF IInv, TypeOK
<1>2. \A d \in Cpu : d # c => OnCpu(d) # p
  BY <1>1, NoneFacts DEF IInv, NoDoubleRun, OnCpu
<1>3. \A d \in Cpu : OnCpu(d)' # p
  BY <1>1, <1>2, NoneFacts
<1>4. \A r \in Proc : r # p => SamePlace(r)
  BY <1>1, NoneFacts DEF SamePlace
<1>5. where[p] = c /\ where'[p] \in {0, -1}
  BY <1>1, <1>3, PlaceOf, PlaceOfNext
<1>6. RQ!Move(p, where'[p])
  BY <1>1, <1>4, WhereMoves
<1>7. RQ!GiveUp(p)
  BY <1>5, <1>6 DEF RQ!GiveUp
<1> QED BY <1>1, <1>7 DEF RQ!Next

\* scheduler() takes a process that is RUNNABLE, when it has none.
LEMMA DispatchTakes ==
  ASSUME IInv, IInv', IdleOK, NEW c \in Cpu, Dispatch(c)
  PROVE  RQ!Next
<1> DEFINE p == pick[c]
<1>1. p \in Proc /\ proc[c] = NoProc
  BY DEF Dispatch, IInv, TypeOK, PointOK, Heading, IdleOK, SchedPts
<1>2. state[p] = "RUNNABLE"
  BY <1>1 DEF IInv, PlacesOK, PlaceOK
<1>3. \A d \in Cpu : OnCpu(d) # p
  BY <1>1, <1>2, NoneFacts DEF IInv, RunningOK
<1>4. OnCpu(c) = NoProc /\ OnCpu(c)' = p /\ \A d \in Cpu : d # c => OnCpu(d)' = OnCpu(d)
  BY <1>1 DEF Dispatch, Goto, OnCpu, Leaving, IInv, TypeOK
<1>5. \A r \in Proc : r # p => SamePlace(r)
  BY <1>1, <1>4, NoneFacts DEF SamePlace, Dispatch, IInv, TypeOK
<1>6. where[p] = 0 /\ where'[p] = c
  BY <1>1, <1>2, <1>3, <1>4, PlaceOf, PlaceOfNext
<1>7. \A r \in Proc : where[r] # c
  <2> SUFFICES ASSUME NEW r \in Proc PROVE where[r] # c
    OBVIOUS
  <2>1. OnCpu(c) # r
    BY <1>4, NoneFacts
  <2>2. CASE \E d \in Cpu : OnCpu(d) = r
    <3>1. PICK d \in Cpu : OnCpu(d) = r
      BY <2>2
    <3> QED BY <2>1, <3>1, PlaceOf
  <2>3. CASE \A d \in Cpu : OnCpu(d) # r
    <3>1. where[r] \in {0, -1}
      BY <2>3, PlaceOf
    <3> QED BY <3>1 DEF Cpu
  <2> QED BY <2>2, <2>3
<1>8. RQ!Take(p, c)
  BY <1>1, <1>5, <1>6, <1>7, WhereMoves DEF RQ!Take
<1> QED BY <1>1, <1>8 DEF RQ!Next

\* wakeup(), fork() and kill() make a process ready.
LEMMA WakesAdmit ==
  ASSUME IInv, IInv', NEW c \in Cpu, WakeOne(c) \/ ForkStart(c) \/ Kill(c)
  PROVE  RQ!Next \/ where' = where
<1>0. TypeOK
  BY DEF IInv
<1>1. CASE WakeOne(c)
  <2>1. \A d \in Cpu : OnCpu(d)' = OnCpu(d)
    BY <1>0, <1>1 DEF WakeOne, Wakeable, CallEnqueue, Goto, OnCpu, Leaving, TypeOK
  <2>2. CASE UNCHANGED state
    BY <2>1, <2>2, WhereStutters DEF SamePlace
  <2>3. CASE /\ idx[c] \in Proc /\ state[idx[c]] = "SLEEPING"
             /\ state' = [state EXCEPT ![idx[c]] = "RUNNABLE"]
    <3>1. \A r \in Proc : r # idx[c] => SamePlace(r)
      BY <1>0, <2>1, <2>3 DEF SamePlace, TypeOK
    <3>2. state'[idx[c]] = "RUNNABLE"
      BY <1>0, <2>3 DEF TypeOK
    <3> QED BY <2>3, <3>1, <3>2, Admitted
  <2> QED BY <1>1, <2>2, <2>3 DEF WakeOne, Wakeable
<1>2. CASE ForkStart(c)
  <2>1. \A d \in Cpu : OnCpu(d)' = OnCpu(d)
    BY <1>0, <1>2 DEF ForkStart, CallEnqueue, Goto, OnCpu, Leaving, TypeOK
  <2>2. arg[c] \in Proc /\ state[arg[c]] = "USED"
    BY <1>2 DEF ForkStart, IInv, ForkOK, TypeOK
  <2>3. /\ state'[arg[c]] = "RUNNABLE"
        /\ \A r \in Proc : r # arg[c] => SamePlace(r)
    BY <1>0, <1>2, <2>1, <2>2 DEF ForkStart, SamePlace, TypeOK
  <2> QED BY <2>2, <2>3, Admitted
<1>3. CASE Kill(c)
  <2>1. \A d \in Cpu : OnCpu(d)' = OnCpu(d)
    BY <1>0, <1>3 DEF Kill, CallEnqueue, Goto, OnCpu, Leaving, TypeOK
  <2>2. PICK q \in Proc : /\ state[q] = "SLEEPING"
                          /\ state' = [state EXCEPT ![q] = "RUNNABLE"]
    BY <1>3 DEF Kill
  <2>3. /\ state'[q] = "RUNNABLE"
        /\ \A r \in Proc : r # q => SamePlace(r)
    BY <1>0, <2>1, <2>2 DEF SamePlace, TypeOK
  <2> QED BY <2>2, <2>3, Admitted
<1> QED BY <1>1, <1>2, <1>3

\* yield(), sleep(), exit(), and an assertion or an undefined access that stops
\* the CPU, end the turn of a process.
LEMMA TurnEnds ==
  ASSUME IInv, IInv', NEW c \in Cpu,
         \/ Yield(c) \/ Sleep(c) \/ ExitZombie(c)
         \/ Resume(c) \/ PanicAcquire(c) \/ ChooseQueue(c)
  PROVE  RQ!Next \/ where' = where
<1>0. TypeOK /\ ControlOK
  BY DEF IInv
<1>1. \A d \in Cpu : d # c => OnCpu(d)' = OnCpu(d)
  BY <1>0 DEF TypeOK, OnCpu, Leaving, Yield, Sleep, ExitZombie, Resume, PanicAcquire,
     ChooseQueue, Goto, CallEnqueue
<1>2. \A r \in Proc : r # proc[c] => (state'[r] = "RUNNABLE" <=> state[r] = "RUNNABLE")
  BY <1>0 DEF TypeOK, Yield, Sleep, ExitZombie, Resume, PanicAcquire, ChooseQueue
<1>3. CASE OnCpu(c) # NoProc /\ OnCpu(c)' = NoProc
  <2>1. OnCpu(c) = proc[c]
    BY <1>3 DEF OnCpu
  <2> QED BY <1>1, <1>2, <1>3, <2>1, GivenUp
<1>4. CASE OnCpu(c)' = OnCpu(c) /\ UNCHANGED state
  BY <1>1, <1>4, WhereStutters DEF SamePlace
<1>5. Yield(c) \/ Sleep(c) \/ ExitZombie(c) => OnCpu(c) # NoProc /\ OnCpu(c)' = NoProc
  BY <1>0, NoneFacts, Executing
     DEF TypeOK, OnCpu, Leaving, Yield, Sleep, ExitZombie, Goto, CallEnqueue
<1>6. Resume(c) \/ PanicAcquire(c) \/ ChooseQueue(c) =>
        /\ OnCpu(c)' \in {NoProc, OnCpu(c)}
        /\ UNCHANGED state
  BY <1>0 DEF TypeOK, OnCpu, Leaving, Resume, PanicAcquire, ChooseQueue, Goto
<1> QED BY <1>3, <1>4, <1>5, <1>6

\* Every other step moves no process.
LEMMA OthersStutter ==
  ASSUME IInv, IInv', IdleOK, NEW c \in Cpu,
         \/ ReadMode(c) \/ PickFirst(c) \/ PickLevel(c) \/ PeekHead(c)
         \/ PickSecond(c) \/ Back(c) \/ CheckBoost(c) \/ ResetOne(c)
         \/ DrainOne(c) \/ DrainDone(c) \/ Insert(c) \/ NoPreempt(c)
         \/ Sched(c) \/ WakeDone(c) \/ ExitWake(c) \/ Fork(c)
         \/ Reap(c) \/ SetPriority(c) \/ ClockIntr(c) \/ Wakeup(c)
         \/ MlfqMode(c)
  PROVE  where' = where
<1>0. TypeOK /\ ControlOK /\ PointOK
  BY DEF IInv
<1>1. SUFFICES \A p \in Proc : SamePlace(p)
  BY WhereStutters
<1> USE <1>0, NoneFacts DEF TypeOK, ControlOK, OnCpu, Leaving, SamePlace, Goto, Return, CallEnqueue
<1>2. CASE ReadMode(c)
  BY <1>2 DEF ReadMode
<1>3. CASE PickFirst(c)
  BY <1>3 DEF PickFirst
<1>4. CASE PickLevel(c)
  BY <1>4 DEF PickLevel
<1>5. CASE PeekHead(c)
  BY <1>5 DEF PeekHead
<1>6. CASE PickSecond(c)
  BY <1>6 DEF PickSecond, SchedPts, IdleOK, Heading, Enqueuing
<1>7. CASE Back(c)
  BY <1>7 DEF Back, SchedPts, IdleOK, Heading, Enqueuing
<1>8. CASE CheckBoost(c)
  BY <1>8 DEF CheckBoost
<1>9. CASE ResetOne(c)
  BY <1>9 DEF ResetOne
<1>10. CASE DrainOne(c)
  BY <1>10 DEF DrainOne, SchedPts, IdleOK, Heading, Enqueuing
<1>11. CASE DrainDone(c)
  BY <1>11 DEF DrainDone, SchedPts, IdleOK, Heading, Enqueuing
<1>12. CASE Insert(c)
  BY <1>12 DEF Insert, ReleasesAt, SchedPts, IdleOK, Heading, Enqueuing
<1>13. CASE NoPreempt(c)
  BY <1>13 DEF NoPreempt
<1>14. CASE Sched(c)
  BY <1>14 DEF Sched
<1>15. CASE WakeDone(c)
  BY <1>15 DEF WakeDone, SchedPts, IdleOK, Heading, Enqueuing
<1>16. CASE ExitWake(c)
  BY <1>16 DEF ExitWake
<1>17. CASE Fork(c)
  BY <1>17 DEF Fork
<1>18. CASE Reap(c)
  BY <1>18 DEF Reap
<1>19. CASE SetPriority(c)
  BY <1>19 DEF SetPriority
<1>20. CASE ClockIntr(c)
  BY <1>20 DEF ClockIntr, TakesIntr, SchedPts, IdleOK, Heading, Enqueuing
<1>21. CASE Wakeup(c)
  BY <1>21 DEF Wakeup, TakesIntr, SchedPts, IdleOK, Heading, Enqueuing
<1>22. CASE MlfqMode(c)
  BY <1>22 DEF MlfqMode
<1> QED BY <1>2, <1>3, <1>4, <1>5, <1>6, <1>7, <1>8, <1>9, <1>10, <1>11, <1>12, <1>13,
     <1>14, <1>15, <1>16, <1>17, <1>18, <1>19, <1>20, <1>21, <1>22

\* IdleOK is an invariant too.
LEMMA IdleInvariant ==
  ASSUME "fcfsmode" \notin Ops
  PROVE  Spec => [](IInv /\ IdleOK)
<1>1. Init => IdleOK
  BY DEF Init, IdleOK
<1>2. IInv /\ IInv' /\ IdleOK /\ [Next]_vars => IdleOK'
  <2> SUFFICES ASSUME IInv, IInv', IdleOK, [Next]_vars PROVE IdleOK'
    OBVIOUS
  <2>1. CASE UNCHANGED vars
    BY <2>1 DEF vars, IdleOK, Heading, Enqueuing
  <2>2. CASE Next
    BY <2>2, IdleKeeps DEF Next, IInv
  <2> QED BY <2>1, <2>2
<1> QED BY <1>1, <1>2, Inductive, PTL DEF Spec

\* The scheduler keeps RunQueue's promise, step by step: scheduler() (proc.c:466)
\* takes only a process that is ready and on no CPU, and only when its CPU has
\* none; wakeups and forks make ready only what was off.  Any number of
\* processes and CPUs, every interleaving, boosts and mlfqmode() included.
THEOREM Refinement ==
  ASSUME "fcfsmode" \notin Ops
  PROVE  Spec => ImplementsRunQueue
<1>1. IInv /\ IInv' /\ IdleOK /\ [Next]_vars => [RQ!Next]_where
  <2> SUFFICES ASSUME IInv, IInv', IdleOK, [Next]_vars PROVE RQ!Next \/ where' = where
    OBVIOUS
  <2>1. CASE UNCHANGED vars
    BY <2>1, WhereStutters DEF vars, SamePlace, OnCpu, Leaving
  <2>2. CASE Next
    <3>1. PICK c \in Cpu : CpuStep(c) \/ Request(c)
      BY <2>2 DEF Next
    <3> QED BY <3>1, StepsOf, DispatchTakes, WakesAdmit, TurnEnds, OthersStutter
  <2> QED BY <2>1, <2>2
<1> QED BY <1>1, IdleInvariant, InitWhere, PTL DEF ImplementsRunQueue, RQ!Spec, Spec
-----------------------------------------------------------------------------
(* The locks. *)

\* At a control point, or in an enqueue() that returns to it.
Busy(c, points) == pc[c] \in points \/ (Enqueuing(c) /\ ret[c] \in points)

\* The process whose lock a CPU holds: its own around a switch, the one it is
\* queueing for wakeup(), fork(), kill() or yield().
Held(c) ==
  IF pc[c] \in {"resume", "swtch", "back"} THEN {proc[c]}
  ELSE IF Enqueuing(c) /\ ret[c] \in {"swtch", "run", "wake"} THEN {arg[c]}
  ELSE {}

\* Which locks a CPU holds follows from where it is; one gone wild holds what it
\* held.
LocksOK ==
  \A c \in Cpu : pc[c] # "wild" =>
    /\ \A x \in Proc : plock[x] = c <=> x \in Held(c)
    /\ Enqueuing(c) /\ ret[c] = "swtch" => arg[c] = proc[c]
    /\ modeLock = c <=> Busy(c, {"reset", "drain"})
    /\ tickLock = c => \/ Busy(c, {"wake"})
                       \/ Busy(c, {"reset", "drain"}) /\ after[c] = "sched"
    /\ Busy(c, {"reset", "drain"}) => after[c] \in {"sched", "run"}

\* No assertion has stopped a CPU.
NoneStopped == \A c \in Cpu : pc[c] # "panic"

\* A step of one CPU takes and releases locks for itself only.
LEMMA LocksKeep ==
  ASSUME IInv, TypeOK', LocksOK, NoneStopped,
         "fcfsmode" \notin Ops, "setpriority" \notin Ops,
         NEW c \in Cpu, CpuStep(c) \/ Request(c)
  PROVE  LocksOK' /\ NoneStopped'
<1>0. TypeOK /\ ControlOK /\ PointOK /\ EnqueueLock
  BY DEF IInv
<1> USE <1>0, NoneFacts DEF TypeOK, LocksOK, NoneStopped, Busy, Held, Enqueuing, Goto, Return, CallEnqueue
<1>1. CASE ReadMode(c)
  BY <1>1 DEF ReadMode
<1>2. CASE PickFirst(c)
  <2>1. UNCHANGED <<plock, modeLock, tickLock, proc, arg, ret, after>>
    BY <1>2 DEF PickFirst
  <2>2. pc[c] = "deqF" /\ \E l \in {"peek", "lock", "sched"} : pc' = [pc EXCEPT ![c] = l]
    BY <1>2 DEF PickFirst
  <2> QED BY <2>1, <2>2
<1>3. CASE PickLevel(c)
  BY <1>3 DEF PickLevel, Unlink
<1>4. CASE PeekHead(c)
  BY <1>4 DEF PeekHead
<1>5. CASE PickSecond(c)
  BY <1>5 DEF PickSecond, Unlink
<1>6. CASE Dispatch(c)
  BY <1>6 DEF Dispatch, PointOK, Heading
<1>7. CASE Back(c)
  BY <1>7 DEF Back
<1>8. CASE CheckBoost(c)
  BY <1>8 DEF CheckBoost
<1>9. CASE ResetOne(c)
  BY <1>9 DEF ResetOne, FirstDrained
<1>10. CASE DrainOne(c)
  BY <1>10 DEF DrainOne, Unlink
<1>11. CASE DrainDone(c)
  BY <1>11 DEF DrainDone
<1>12. CASE ChooseQueue(c)
  BY <1>12 DEF ChooseQueue
<1>13. CASE Insert(c)
  <2>1. arg[c] \in Proc /\ Enqueuing(c)
    BY <1>13 DEF Insert, EnqueueLock
  <2>2. /\ UNCHANGED <<modeLock, tickLock, proc, after>>
        /\ pc' = [pc EXCEPT ![c] = ret[c]]
        /\ arg' = [arg EXCEPT ![c] = NoProc]
        /\ ret' = [ret EXCEPT ![c] = "sched"]
        /\ plock' = IF ret[c] \in {"wake", "run"} THEN [plock EXCEPT ![arg[c]] = NoCpu] ELSE plock
    BY <1>13 DEF Insert, ReleasesAt, ControlOK
  <2>3. \A d \in Cpu : d # c => \A x \in Proc : plock'[x] = d <=> plock[x] = d
    <3>1. ret[c] \in {"wake", "run"} => plock[arg[c]] = c
      BY <2>1 DEF EnqueueLock
    <3> QED BY <2>1, <2>2, <3>1
  <2>4. \A d \in Cpu : d # c => pc'[d] = pc[d] /\ arg'[d] = arg[d] /\ ret'[d] = ret[d]
    BY <2>2
  <2>5. ret[c] \in {"swtch", "run", "wake", "drain", "lock", "sched"}
    BY DEF ControlOK
  <2>6. pc[c] \notin {"wild", "panic"} /\ ret[c] \notin {"wild", "panic"} /\ pc'[c] = ret[c]
    BY <2>1, <2>2, <2>5
  <2>7. \A x \in Proc : plock'[x] = c <=> x \in Held(c)'
    BY <2>1, <2>2, <2>5, <2>6
  <2>8. NoneStopped'
    BY <2>4, <2>6
  <2>9. Held(c)' = IF ret[c] = "swtch" THEN {proc[c]} ELSE {}
    BY <2>2, <2>5, <2>6
  <2>10. /\ ~Enqueuing(c)'
         /\ modeLock' = c <=> Busy(c, {"reset", "drain"})'
         /\ tickLock' = c => \/ Busy(c, {"wake"})'
                             \/ Busy(c, {"reset", "drain"})' /\ after'[c] = "sched"
         /\ Busy(c, {"reset", "drain"})' => after'[c] \in {"sched", "run"}
    <3>1. /\ modeLock = c <=> ret[c] \in {"reset", "drain"}
          /\ tickLock = c => \/ ret[c] = "wake"
                             \/ ret[c] \in {"reset", "drain"} /\ after[c] = "sched"
          /\ ret[c] \in {"reset", "drain"} => after[c] \in {"sched", "run"}
      BY <2>1, <2>6
    <3>2. pc'[c] \notin {"enq", "insF", "insM"}
      BY <2>5, <2>6
    <3>3. ~Enqueuing(c)' /\ modeLock' = modeLock /\ tickLock' = tickLock /\ after'[c] = after[c]
      BY <2>2, <3>2
    <3>4. Busy(c, {"reset", "drain"})' <=> ret[c] \in {"reset", "drain"}
      BY <2>2, <2>6, <3>2
    <3>5. Busy(c, {"wake"})' <=> ret[c] = "wake"
      BY <2>2, <2>6, <3>2
    <3> HIDE DEF Busy, Enqueuing, LocksOK
    <3> QED BY <3>1, <3>3, <3>4, <3>5
  <2> QED BY <2>2, <2>3, <2>4, <2>7, <2>8, <2>10
<1>14. CASE Resume(c)
  <2>1. proc[c] \in Proc /\ ctx[proc[c]] # "exit"
    <3>1. proc[c] \in Proc /\ state[proc[c]] = "RUNNING"
      BY <1>14, Executing DEF Resume
    <3> QED BY <3>1 DEF IInv, ExitOK
  <2> QED BY <1>14, <2>1 DEF Resume
<1>15. CASE NoPreempt(c)
  BY <1>15 DEF NoPreempt
<1>16. CASE ExitZombie(c)
  BY <1>16 DEF ExitZombie, PointOK, Heading
<1>17. CASE Sched(c)
  BY <1>17 DEF Sched, HoldsOnly
<1>18. CASE ForkStart(c)
  BY <1>18 DEF ForkStart
<1>19. CASE WakeOne(c)
  BY <1>19 DEF WakeOne, Wakeable
<1>20. CASE WakeDone(c)
  BY <1>20 DEF WakeDone, ControlOK, SchedPts
<1>21. CASE PanicAcquire(c)
  <2>1. Wants(c) \in Proc /\ Held(c) = {} /\ pc[c] # "wild"
    BY <1>21 DEF PanicAcquire, Wants
  <2>2. plock[Wants(c)] = c
    BY <1>21 DEF PanicAcquire
  <2>3. Wants(c) \in Held(c)
    <3>1. \A x \in Proc : plock[x] = c <=> x \in Held(c)
      BY <2>1 DEF LocksOK
    <3> HIDE DEF Held
    <3> QED BY <2>1, <2>2, <3>1
  <2> HIDE DEF Held
  <2> QED BY <2>1, <2>3
<1>22. CASE Yield(c)
  BY <1>22 DEF Yield, PointOK, Heading
<1>23. CASE Sleep(c)
  BY <1>23 DEF Sleep, PointOK, Heading
<1>24. CASE ExitWake(c)
  BY <1>24 DEF ExitWake
<1>25. CASE Fork(c)
  BY <1>25 DEF Fork
<1>26. CASE Reap(c)
  BY <1>26 DEF Reap
<1>27. CASE Kill(c)
  BY <1>27 DEF Kill
<1>28. CASE SetPriority(c)
  BY <1>28 DEF SetPriority
<1>29. CASE ClockIntr(c)
  BY <1>29 DEF ClockIntr, TakesIntr, SchedPts
<1>30. CASE Wakeup(c)
  BY <1>30 DEF Wakeup, TakesIntr, SchedPts
<1>31. CASE MlfqMode(c)
  BY <1>31 DEF MlfqMode
<1> QED BY <1>1, <1>2, <1>3, <1>4, <1>5, <1>6, <1>7, <1>8, <1>9, <1>10, <1>11, <1>12,
     <1>13, <1>14, <1>15, <1>16, <1>17, <1>18, <1>19, <1>20, <1>21, <1>22, <1>23, <1>24,
     <1>25, <1>26, <1>27, <1>28, <1>29, <1>30, <1>31, StepsOf

\* The locks, with the invariant they rest on.
LEMMA LocksInvariant ==
  ASSUME "fcfsmode" \notin Ops, "setpriority" \notin Ops
  PROVE  Spec => [](IInv /\ LocksOK /\ NoneStopped)
<1>1. Init => LocksOK /\ NoneStopped
  BY NoneFacts DEF Init, LocksOK, NoneStopped, Held, Busy, Enqueuing
<1>2. IInv /\ IInv' /\ LocksOK /\ NoneStopped /\ [Next]_vars => LocksOK' /\ NoneStopped'
  <2> SUFFICES ASSUME IInv, IInv', LocksOK, NoneStopped, [Next]_vars
               PROVE  LocksOK' /\ NoneStopped'
    OBVIOUS
  <2>1. CASE UNCHANGED vars
    BY <2>1 DEF vars, LocksOK, NoneStopped, Held, Busy, Enqueuing
  <2>2. CASE Next
    BY <2>2, LocksKeep DEF Next, IInv
  <2> QED BY <2>1, <2>2
<1> QED BY <1>1, <1>2, Inductive, PTL DEF Spec

\* No assertion of acquire(), sched() (proc.c:531) or exit() stops a CPU, for
\* any number of processes and CPUs, as long as setpriority(), which returns
\* with p->lock held, is not called either.
THEOREM AssertionsHold ==
  ASSUME "fcfsmode" \notin Ops, "setpriority" \notin Ops
  PROVE  Spec => []NoPanic
<1>1. IInv /\ LocksOK /\ NoneStopped => NoPanic
  <2> SUFFICES ASSUME IInv, LocksOK, NoneStopped, NEW c \in Cpu
               PROVE  pc[c] # "panic" /\ (pc[c] = "swtch" => HoldsOnly(c, proc[c]))
    BY DEF NoPanic
  <2> QED BY DEF NoneStopped, LocksOK, Held, Busy, Enqueuing, HoldsOnly
<1> QED BY <1>1, LocksInvariant, PTL
-----------------------------------------------------------------------------
(* The lists. *)

\* The lists as sequences: L[q] is what the code meets on the way from
\* mlfq[q].head to mlfq[q].tail; nothing is in two places, and what is in no
\* list has no successor.
Rep(L) ==
  /\ \A q \in Queue :
       /\ head[q] = IF Len(L[q]) = 0 THEN NoProc ELSE L[q][1]
       /\ tail[q] = IF Len(L[q]) = 0 THEN NoProc ELSE L[q][Len(L[q])]
       /\ \A i \in 1..Len(L[q]) :
            next[L[q][i]] = IF i = Len(L[q]) THEN NoProc ELSE L[q][i + 1]
  /\ \A q, r \in Queue : \A i \in 1..Len(L[q]), j \in 1..Len(L[r]) :
       L[q][i] = L[r][j] => q = r /\ i = j
  /\ \A p \in Proc : next[p] # NoProc =>
       \E q \in Queue : \E i \in 1..Len(L[q]) : L[q][i] = p

ListOK == \E L \in [Queue -> Seq(Proc)] : Rep(L)

\* A set of naturals has a least element.
LEMMA Least ==
  ASSUME NEW S \in SUBSET Nat, S # {}
  PROVE  \E x \in S : \A y \in S : x <= y
<1> DEFINE T == {0..x : x \in S}
           R == StrictSubsetOrdering(Nat)
           F == FiniteSubsetsOf(Nat)
<1>1. IsWellFoundedOn(R, F)
  BY FS_StrictSubsetOrderingWellFounded
<1>2. \A x \in S : 0..x \in F /\ 0..x \in SUBSET Nat
  BY FS_Interval DEF FiniteSubsetsOf
<1>3. T \subseteq F /\ T # {}
  BY <1>2
<1>4. \E t \in T : \A u \in T : ~(<<u, t>> \in R)
  <2> HIDE DEF T, R, F
  <2> QED BY <1>1, <1>3, WFMin
<1>5. PICK x \in S : \A y \in S : ~(<<0..y, 0..x>> \in R)
  BY <1>4
<1>6. ASSUME NEW y \in S PROVE x <= y
  <2>1. ~(0..y \subseteq 0..x /\ 0..y # 0..x)
    BY <1>2, <1>5 DEF StrictSubsetOrdering
  <2>2. y < x => 0..y \subseteq 0..x /\ x \in 0..x /\ x \notin 0..y
    OBVIOUS
  <2> QED BY <2>1, <2>2
<1> QED BY <1>6

\* A list in which nothing occurs twice is no longer than the process table.
LEMMA ListFits ==
  ASSUME NEW s \in Seq(Proc),
         \A i, j \in 1..Len(s) : s[i] = s[j] => i = j
  PROVE  Len(s) <= NPROC
<1>1. Len(s) \in Nat /\ NPROC \in Nat /\ s \in [1..Len(s) -> Proc]
  BY ModelAssumption
<1>2. IsFiniteSet(1..Len(s)) /\ Cardinality(1..Len(s)) = Len(s)
  <2>1. Cardinality(1..Len(s)) = IF 1 > Len(s) THEN 0 ELSE Len(s) - 1 + 1
    BY <1>1, FS_Interval
  <2> QED BY <1>1, <2>1, FS_Interval
<1>3. IsFiniteSet(Proc) /\ Cardinality(Proc) = NPROC
  <2>1. Cardinality(1..NPROC) = IF 1 > NPROC THEN 0 ELSE NPROC - 1 + 1
    BY <1>1, FS_Interval
  <2> QED BY <1>1, <2>1, FS_Interval DEF Proc
<1>4. s \in Injection(1..Len(s), Proc)
  BY <1>1 DEF Injection, IsInjective
<1> QED BY <1>2, <1>3, <1>4, FS_Injection

\* The walk along p->next meets the elements of the list one after the other.
LEMMA WalkIs ==
  ASSUME TypeOK, NEW L \in [Queue -> Seq(Proc)], Rep(L), NEW q \in Queue
  PROVE  Walk(head[q]) = [k \in 0..NPROC |-> IF k < Len(L[q]) THEN L[q][k + 1] ELSE NoProc]
<1> DEFINE s == L[q]
           f == [k \in 0..NPROC |-> IF k < Len(s) THEN s[k + 1] ELSE NoProc]
           W(g) == [k \in 0..NPROC |->
                      IF k = 0 THEN head[q]
                      ELSE IF g[k - 1] = NoProc THEN NoProc ELSE next[g[k - 1]]]
<1>0. s \in Seq(Proc) /\ Len(s) \in Nat /\ NPROC \in Nat /\ \A i \in 1..Len(s) : s[i] \in Proc
  BY ModelAssumption
<1>1. /\ head[q] = IF Len(s) = 0 THEN NoProc ELSE s[1]
      /\ \A i \in 1..Len(s) : next[s[i]] = IF i = Len(s) THEN NoProc ELSE s[i + 1]
  BY DEF Rep
<1>2. f = W(f)
  <2>1. ASSUME NEW k \in 0..NPROC PROVE f[k] = W(f)[k]
    <3> HIDE DEF s
    <3>1. CASE k = 0
      BY <1>0, <1>1, <3>1
    <3>2. CASE k # 0
      <4>1. k - 1 \in 0..NPROC
        BY <1>0, <3>2
      <4>2. f[k - 1] = IF k - 1 < Len(s) THEN s[k] ELSE NoProc
        BY <1>0, <4>1
      <4>3. k <= Len(s) => s[k] # NoProc /\ next[s[k]] = IF k = Len(s) THEN NoProc ELSE s[k + 1]
        BY <1>0, <1>1, <3>2, NoneFacts
      <4>4. f[k] = IF k < Len(s) THEN s[k + 1] ELSE NoProc
        OBVIOUS
      <4>5. W(f)[k] = IF f[k - 1] = NoProc THEN NoProc ELSE next[f[k - 1]]
        BY <3>2
      <4> HIDE DEF f, W
      <4> QED BY <1>0, <4>2, <4>3, <4>4, <4>5
    <3> QED BY <3>1, <3>2
  <2> QED BY <2>1
<1>3. ASSUME NEW g, g = W(g) PROVE g = f
  <2> DEFINE D == {k \in 0..NPROC : g[k] # f[k]}
  <2>1. CASE D # {}
    <3>1. PICK k \in D : \A j \in D : k <= j
      <4>1. D \in SUBSET Nat
        OBVIOUS
      <4> HIDE DEF D
      <4> QED BY <2>1, <4>1, Least
    <3>2. k \in 0..NPROC /\ g[k] # f[k]
      OBVIOUS
    <3>3. g[k] = W(g)[k] /\ f[k] = W(f)[k]
      BY <1>2, <1>3
    <3>4. k # 0
      <4>1. W(g)[0] = head[q] /\ W(f)[0] = head[q]
        BY <1>0
      <4> HIDE DEF W, f
      <4> QED BY <3>2, <3>3, <4>1
    <3>5. g[k - 1] = f[k - 1]
      <4>1. k - 1 \notin D
        <5> HIDE DEF D
        <5> QED BY <3>1, <3>2, <1>0
      <4>2. k - 1 \in 0..NPROC
        BY <3>2, <3>4, <1>0
      <4> HIDE DEF f
      <4> QED BY <4>1, <4>2
    <3>6. W(g)[k] = W(f)[k]
      <4> HIDE DEF f
      <4> QED BY <3>2, <3>4, <3>5
    <3> HIDE DEF W, f
    <3> QED BY <3>2, <3>3, <3>6
  <2>2. CASE D = {}
    <3>1. \A k \in 0..NPROC : g[k] = f[k]
      <4> HIDE DEF f
      <4> QED BY <2>2
    <3>2. g = [k \in 0..NPROC |-> g[k]]
      <4>1. W(g) = [k \in 0..NPROC |-> W(g)[k]]
        OBVIOUS
      <4> HIDE DEF W
      <4> QED BY <1>3, <4>1
    <3>3. f = [k \in 0..NPROC |-> f[k]]
      OBVIOUS
    <3> HIDE DEF f, W
    <3> QED BY <3>1, <3>2, <3>3
  <2> QED BY <2>1, <2>2
<1>4. Walk(head[q]) = CHOOSE g : g = W(g)
  BY DEF Walk
<1>5. (CHOOSE g : g = W(g)) = f
  <2> HIDE DEF f, W
  <2> QED BY <1>2, <1>3
<1> QED BY <1>4, <1>5

\* The elements of a list, in the sequence that represents it.
LEMMA ListIs ==
  ASSUME TypeOK, NEW L \in [Queue -> Seq(Proc)], Rep(L), NEW q \in Queue
  PROVE  /\ List(q) = {L[q][i] : i \in 1..Len(L[q])}
         /\ Walk(head[q])[NPROC] = NoProc
<1> DEFINE s == L[q]
           f == [k \in 0..NPROC |-> IF k < Len(s) THEN s[k + 1] ELSE NoProc]
<1>0. s \in Seq(Proc) /\ Len(s) \in Nat /\ NPROC \in Nat /\ \A i \in 1..Len(s) : s[i] \in Proc
  BY ModelAssumption
<1>1. Walk(head[q]) = f
  BY WalkIs
<1>2. Len(s) <= NPROC
  <2>1. \A i, j \in 1..Len(s) : s[i] = s[j] => i = j
    BY DEF Rep
  <2> HIDE DEF s
  <2> QED BY <1>0, <2>1, ListFits
<1>3. ASSUME NEW p \in Proc
      PROVE  (\E k \in 0..NPROC : f[k] = p) <=> \E i \in 1..Len(s) : s[i] = p
  <2> HIDE DEF s
  <2>1. ASSUME NEW k \in 0..NPROC, f[k] = p PROVE \E i \in 1..Len(s) : s[i] = p
    <3>1. k < Len(s) /\ s[k + 1] = p
      BY <2>1, NoneFacts
    <3>2. k + 1 \in 1..Len(s)
      BY <3>1, <1>0
    <3> QED BY <3>1, <3>2
  <2>2. ASSUME NEW i \in 1..Len(s), s[i] = p PROVE \E k \in 0..NPROC : f[k] = p
    <3>1. i - 1 \in 0..NPROC /\ i - 1 < Len(s) /\ (i - 1) + 1 = i
      BY <1>0, <1>2
    <3>2. f[i - 1] = p
      BY <2>2, <3>1
    <3> QED BY <3>1, <3>2
  <2> QED BY <2>1, <2>2
<1>4. f[NPROC] = NoProc
  BY <1>0, <1>2
<1>5. \A i \in 1..Len(s) : s[i] \in Proc
  BY <1>0
<1>6. List(q) = {p \in Proc : \E k \in 0..NPROC : f[k] = p}
  BY <1>1 DEF List
<1> HIDE DEF f
<1>7. List(q) = {p \in Proc : \E i \in 1..Len(s) : s[i] = p}
  BY <1>3, <1>6
<1>8. {p \in Proc : \E i \in 1..Len(s) : s[i] = p} = {s[i] : i \in 1..Len(s)}
  <2> HIDE DEF s
  <2> QED BY <1>5
<1> QED BY <1>1, <1>4, <1>7, <1>8

\* What the representation says of heads, tails and successors: a process is
\* linked exactly when it is in a list, it is in one list only, and it has no
\* successor otherwise.
LEMMA ListFacts ==
  ASSUME TypeOK, ListOK
  PROVE  /\ ListsSound
         /\ \A p \in Proc : Linked(p) <=> \E q \in Queue : p \in List(q)
         /\ \A p \in Proc : ~Linked(p) => next[p] = NoProc
         /\ \A q, r \in Queue : \A p \in Proc : p \in List(q) /\ p \in List(r) => q = r
         /\ \A q \in Queue : head[q] # NoProc => head[q] \in List(q)
<1>1. PICK L \in [Queue -> Seq(Proc)] : Rep(L)
  BY DEF ListOK
<1>2. \A q \in Queue : L[q] \in Seq(Proc) /\ Len(L[q]) \in Nat /\ \A i \in 1..Len(L[q]) : L[q][i] \in Proc
  OBVIOUS
<1>3. \A q \in Queue : /\ List(q) = {L[q][i] : i \in 1..Len(L[q])}
                       /\ Walk(head[q])[NPROC] = NoProc
  BY <1>1, ListIs
<1>4. /\ \A q \in Queue :
           /\ head[q] = IF Len(L[q]) = 0 THEN NoProc ELSE L[q][1]
           /\ tail[q] = IF Len(L[q]) = 0 THEN NoProc ELSE L[q][Len(L[q])]
           /\ \A i \in 1..Len(L[q]) :
                next[L[q][i]] = IF i = Len(L[q]) THEN NoProc ELSE L[q][i + 1]
      /\ \A q, r \in Queue : \A i \in 1..Len(L[q]), j \in 1..Len(L[r]) :
           L[q][i] = L[r][j] => q = r /\ i = j
      /\ \A p \in Proc : next[p] # NoProc =>
           \E q \in Queue : \E i \in 1..Len(L[q]) : L[q][i] = p
  BY <1>1 DEF Rep
<1>5. \A p \in Proc : next[p] # NoProc => \E q \in Queue : p \in List(q)
  BY <1>3, <1>4
<1>6. ASSUME NEW q \in Queue, head[q] # NoProc
      PROVE  head[q] \in List(q) /\ tail[q] \in List(q) /\ next[tail[q]] = NoProc /\ tail[q] # NoProc
  <2>1. Len(L[q]) # 0 /\ 1 \in 1..Len(L[q]) /\ Len(L[q]) \in 1..Len(L[q])
    BY <1>2, <1>4, <1>6
  <2>2. head[q] = L[q][1] /\ tail[q] = L[q][Len(L[q])] /\ next[L[q][Len(L[q])]] = NoProc
    BY <1>4, <2>1
  <2>3. L[q][1] \in List(q) /\ L[q][Len(L[q])] \in List(q)
    BY <1>3, <2>1
  <2> QED BY <1>2, <2>1, <2>2, <2>3, NoneFacts
<1>7. \A q \in Queue : head[q] = NoProc => tail[q] = NoProc
  <2> SUFFICES ASSUME NEW q \in Queue, head[q] = NoProc PROVE tail[q] = NoProc
    OBVIOUS
  <2>1. Len(L[q]) = 0
    <3>1. Len(L[q]) # 0 => 1 \in 1..Len(L[q])
      BY <1>2
    <3> QED BY <1>2, <1>4, <3>1, NoneFacts
  <2> QED BY <1>4, <2>1
<1>8. ASSUME NEW p \in Proc, Linked(p) PROVE \E q \in Queue : p \in List(q)
  <2>1. CASE \E q \in Queue : head[q] = p
    BY <1>6, <2>1, NoneFacts
  <2>2. ASSUME NEW r \in Proc, next[r] = p PROVE \E q \in Queue : p \in List(q)
    <3>0. PICK q \in Queue : \E i \in 1..Len(L[q]) : L[q][i] = r
      BY <1>4, <2>2, NoneFacts
    <3>1. PICK i \in 1..Len(L[q]) : L[q][i] = r
      BY <3>0
    <3>2. i # Len(L[q]) /\ p = L[q][i + 1]
      BY <1>4, <2>2, <3>1, NoneFacts
    <3>3. i + 1 \in 1..Len(L[q])
      BY <1>2, <3>2
    <3> QED BY <1>3, <3>2, <3>3
  <2> QED BY <1>8, <2>1, <2>2 DEF Linked
<1>9. ASSUME NEW p \in Proc, NEW q \in Queue, p \in List(q) PROVE Linked(p)
  <2>1. PICK i \in 1..Len(L[q]) : p = L[q][i]
    BY <1>3, <1>9
  <2>2. CASE i = 1
    <3>1. Len(L[q]) # 0
      BY <1>2, <2>1
    <3> QED BY <1>4, <2>1, <2>2, <3>1 DEF Linked
  <2>3. CASE i # 1
    <3>1. i - 1 \in 1..Len(L[q]) /\ i - 1 # Len(L[q]) /\ (i - 1) + 1 = i
      BY <1>2, <2>3
    <3>2. next[L[q][i - 1]] = p /\ L[q][i - 1] \in Proc
      BY <1>2, <1>4, <2>1, <3>1
    <3> QED BY <3>2 DEF Linked
  <2> QED BY <2>2, <2>3
<1>10. \A q, r \in Queue : \A p \in Proc : p \in List(q) /\ p \in List(r) => q = r
  BY <1>3, <1>4
<1>11. ListsSound
  BY <1>3, <1>5, <1>6, <1>7 DEF ListsSound
<1> QED BY <1>5, <1>6, <1>8, <1>9, <1>10, <1>11

\* The same after a step.
LEMMA ListFactsNext ==
  ASSUME TypeOK', ListOK'
  PROVE  /\ ListsSound'
         /\ \A p \in Proc : Linked(p)' <=> \E q \in Queue : p \in List(q)'
         /\ \A p \in Proc : ~Linked(p)' => next'[p] = NoProc
         /\ \A q, r \in Queue : \A p \in Proc : p \in List(q)' /\ p \in List(r)' => q = r
         /\ \A q \in Queue : head'[q] # NoProc => head'[q] \in List(q)'
<1>1. (TypeOK /\ ListOK =>
         /\ ListsSound
         /\ \A p \in Proc : Linked(p) <=> \E q \in Queue : p \in List(q)
         /\ \A p \in Proc : ~Linked(p) => next[p] = NoProc
         /\ \A q, r \in Queue : \A p \in Proc : p \in List(q) /\ p \in List(r) => q = r
         /\ \A q \in Queue : head[q] # NoProc => head[q] \in List(q))'
  BY ListFacts, PTL
<1> QED BY <1>1

\* The same after a step.
LEMMA ListIsNext ==
  ASSUME TypeOK', NEW L \in [Queue -> Seq(Proc)], Rep(L)', NEW q \in Queue
  PROVE  List(q)' = {L[q][i] : i \in 1..Len(L[q])}
<1>1. (TypeOK /\ Rep(L) => List(q) = {L[q][i] : i \in 1..Len(L[q])})'
  BY ListIs, PTL
<1> QED BY <1>1

\* dequeue(q) takes the head off its list and touches no other list.
LEMMA UnlinkLists ==
  ASSUME TypeOK, TypeOK', ListOK, NEW q \in Queue, head[q] # NoProc, Unlink(q)
  PROVE  /\ ListOK'
         /\ \A r \in Queue : List(r)' = List(r) \ {head[q]}
<1>1. PICK L \in [Queue -> Seq(Proc)] : Rep(L)
  BY DEF ListOK
<1> DEFINE s == L[q]
           n == Len(s)
           u == Tail(s)
           M == [L EXCEPT ![q] = u]
<1>2. \A r \in Queue : L[r] \in Seq(Proc) /\ Len(L[r]) \in Nat /\ \A i \in 1..Len(L[r]) : L[r][i] \in Proc
  OBVIOUS
<1>3. /\ \A r \in Queue :
           /\ head[r] = IF Len(L[r]) = 0 THEN NoProc ELSE L[r][1]
           /\ tail[r] = IF Len(L[r]) = 0 THEN NoProc ELSE L[r][Len(L[r])]
           /\ \A i \in 1..Len(L[r]) :
                next[L[r][i]] = IF i = Len(L[r]) THEN NoProc ELSE L[r][i + 1]
      /\ \A r, t \in Queue : \A i \in 1..Len(L[r]), j \in 1..Len(L[t]) :
           L[r][i] = L[t][j] => r = t /\ i = j
      /\ \A p \in Proc : next[p] # NoProc =>
           \E r \in Queue : \E i \in 1..Len(L[r]) : L[r][i] = p
  BY <1>1 DEF Rep
<1>4. n \in Nat \ {0} /\ head[q] = s[1] /\ s[1] \in Proc
  <2>1. n # 0
    BY <1>3
  <2>2. 1 \in 1..n
    BY <1>2, <2>1
  <2> QED BY <1>2, <1>3, <2>1, <2>2
<1>5. /\ u \in Seq(Proc) /\ Len(u) = n - 1
      /\ \A i \in 1..(n - 1) : u[i] = s[i + 1]
  <2>1. s \in Seq(Proc) /\ s # <<>>
    BY <1>2, <1>4
  <2> HIDE DEF s
  <2> QED BY <2>1, <1>4
<1>6. M \in [Queue -> Seq(Proc)] /\ M[q] = u /\ \A r \in Queue : r # q => M[r] = L[r]
  <2> HIDE DEF u
  <2> QED BY <1>5
<1>7. next[s[1]] = IF n = 1 THEN NoProc ELSE s[2]
  <2>1. 1 \in 1..Len(L[q]) /\ 1 + 1 = 2
    BY <1>4
  <2>2. next[L[q][1]] = IF 1 = Len(L[q]) THEN NoProc ELSE L[q][1 + 1]
    BY <1>3, <2>1
  <2> QED BY <2>1, <2>2
<1>8. /\ \A r \in Queue : head'[r] = IF r = q THEN next[s[1]] ELSE head[r]
      /\ \A r \in Queue : tail'[r] = IF r = q /\ next[s[1]] = NoProc THEN NoProc ELSE tail[r]
      /\ \A p \in Proc : next'[p] = IF p = s[1] THEN NoProc ELSE next[p]
  BY <1>4 DEF Unlink, TypeOK
<1> HIDE DEF M, n, s, u
<1>9. ASSUME NEW r \in Queue
      PROVE  /\ head'[r] = IF Len(M[r]) = 0 THEN NoProc ELSE M[r][1]
             /\ tail'[r] = IF Len(M[r]) = 0 THEN NoProc ELSE M[r][Len(M[r])]
             /\ \A i \in 1..Len(M[r]) :
                  next'[M[r][i]] = IF i = Len(M[r]) THEN NoProc ELSE M[r][i + 1]
  <2>1. CASE r = q
    <3>1. n # 1 => 2 \in 1..n /\ 1 \in 1..(n - 1) /\ n - 1 \in 1..(n - 1) /\ (n - 1) + 1 = n /\ 1 + 1 = 2
      BY <1>4
    <3>2. n # 1 => s[2] \in Proc /\ s[2] # NoProc
      BY <1>2, <3>1, NoneFacts DEF s, n
    <3>3. head'[q] = IF n = 1 THEN NoProc ELSE s[2]
      BY <1>7, <1>8
    <3>4. tail'[q] = IF n = 1 THEN NoProc ELSE s[n]
      BY <1>3, <1>4, <1>7, <1>8, <3>2 DEF s, n
    <3>5. Len(M[q]) = n - 1 /\ (n - 1 = 0 <=> n = 1)
      BY <1>4, <1>5, <1>6
    <3>6. head'[q] = IF Len(M[q]) = 0 THEN NoProc ELSE M[q][1]
      BY <1>5, <1>6, <3>1, <3>3, <3>5
    <3>7. tail'[q] = IF Len(M[q]) = 0 THEN NoProc ELSE M[q][Len(M[q])]
      BY <1>5, <1>6, <3>1, <3>4, <3>5
    <3>8. ASSUME NEW i \in 1..(n - 1)
          PROVE  next'[s[i + 1]] = IF i = n - 1 THEN NoProc ELSE s[(i + 1) + 1]
      <4>1. i + 1 \in 1..n /\ 1 \in 1..n /\ i + 1 # 1 /\ (i + 1 = n <=> i = n - 1)
        BY <1>4
      <4>2. s[i + 1] \in Proc /\ s[i + 1] # s[1]
        BY <1>2, <1>3, <4>1 DEF s, n
      <4>3. next[s[i + 1]] = IF i + 1 = n THEN NoProc ELSE s[(i + 1) + 1]
        BY <1>3, <4>1 DEF s, n
      <4> QED BY <1>8, <4>1, <4>2, <4>3
    <3>9. \A i \in 1..(n - 1) : i # n - 1 => i + 1 \in 1..(n - 1)
      BY <1>4
    <3>10. ASSUME NEW i \in 1..(n - 1)
           PROVE  next'[M[q][i]] = IF i = n - 1 THEN NoProc ELSE M[q][i + 1]
      <4>1. M[q][i] = s[i + 1]
        BY <1>5, <1>6
      <4>2. i # n - 1 => M[q][i + 1] = s[(i + 1) + 1]
        BY <1>5, <1>6, <3>9
      <4> QED BY <3>8, <4>1, <4>2
    <3> QED BY <1>5, <1>6, <2>1, <3>6, <3>7, <3>10
  <2>2. CASE r # q
    <3>1. \A i \in 1..Len(L[r]) : L[r][i] \in Proc /\ L[r][i] # s[1]
      <4>1. 1 \in 1..n
        BY <1>4
      <4> QED BY <1>2, <1>3, <2>2, <4>1 DEF s, n
    <3>2. head'[r] = head[r] /\ tail'[r] = tail[r] /\ M[r] = L[r]
      BY <1>6, <1>8, <2>2
    <3>3. \A i \in 1..Len(L[r]) : next'[L[r][i]] = next[L[r][i]]
      BY <1>8, <3>1
    <3>4. /\ head'[r] = IF Len(L[r]) = 0 THEN NoProc ELSE L[r][1]
          /\ tail'[r] = IF Len(L[r]) = 0 THEN NoProc ELSE L[r][Len(L[r])]
      BY <1>3, <3>2
    <3>5. \A i \in 1..Len(L[r]) :
            next'[L[r][i]] = IF i = Len(L[r]) THEN NoProc ELSE L[r][i + 1]
      BY <1>3, <3>3
    <3> QED BY <3>2, <3>4, <3>5
  <2> QED BY <2>1, <2>2
<1>10. ASSUME NEW r \in Queue, NEW i \in 1..Len(M[r])
       PROVE  \E j \in 1..Len(L[r]) : /\ M[r][i] = L[r][j]
                                      /\ IF r = q THEN j = i + 1 ELSE j = i
  <2>1. CASE r = q
    <3>0. i \in 1..(n - 1)
      BY <1>5, <1>6, <2>1
    <3>1. i + 1 \in 1..n /\ M[r][i] = s[i + 1]
      BY <1>4, <1>5, <1>6, <2>1, <3>0
    <3> QED BY <2>1, <3>1 DEF s, n
  <2>2. CASE r # q
    BY <1>6, <2>2
  <2> QED BY <2>1, <2>2
<1>11. ASSUME NEW r \in Queue, NEW t \in Queue, NEW i \in 1..Len(M[r]),
              NEW j \in 1..Len(M[t]), M[r][i] = M[t][j]
       PROVE  r = t /\ i = j
  <2>1. PICK k \in 1..Len(L[r]) : M[r][i] = L[r][k] /\ IF r = q THEN k = i + 1 ELSE k = i
    BY <1>10
  <2>2. PICK m \in 1..Len(L[t]) : M[t][j] = L[t][m] /\ IF t = q THEN m = j + 1 ELSE m = j
    BY <1>10
  <2>3. r = t /\ k = m
    <3>1. L[r][k] = L[t][m]
      BY <1>11, <2>1, <2>2
    <3> QED BY <1>3, <3>1
  <2>4. i \in Int /\ j \in Int
    OBVIOUS
  <2> QED BY <2>1, <2>2, <2>3, <2>4
<1>12. ASSUME NEW r \in Queue, NEW j \in 1..Len(L[r]), L[r][j] # s[1]
       PROVE  \E i \in 1..Len(M[r]) : M[r][i] = L[r][j]
  <2>1. CASE r = q
    <3>1. j # 1
      BY <1>12, <2>1 DEF s
    <3>2. j - 1 \in 1..(n - 1) /\ (j - 1) + 1 = j
      BY <1>4, <2>1, <3>1 DEF s, n
    <3>3. u[j - 1] = s[j]
      BY <1>5, <3>2
    <3> QED BY <1>5, <1>6, <2>1, <3>2, <3>3 DEF s
  <2>2. CASE r # q
    BY <1>6, <2>2
  <2> QED BY <2>1, <2>2
<1>13. ASSUME NEW p \in Proc, next'[p] # NoProc
       PROVE  \E r \in Queue : \E i \in 1..Len(M[r]) : M[r][i] = p
  <2>1. p # s[1] /\ next[p] # NoProc
    BY <1>8, <1>13
  <2>2. PICK r \in Queue : \E i \in 1..Len(L[r]) : L[r][i] = p
    BY <1>3, <2>1
  <2> QED BY <1>12, <2>1, <2>2
<1>14. Rep(M)'
  BY <1>9, <1>11, <1>13 DEF Rep
<1>15. ListOK'
  BY <1>6, <1>14 DEF ListOK
<1>16. ASSUME NEW r \in Queue PROVE List(r)' = List(r) \ {head[q]}
  <2>1. List(r)' = {M[r][i] : i \in 1..Len(M[r])}
    BY <1>6, <1>14, ListIsNext
  <2>2. List(r) = {L[r][i] : i \in 1..Len(L[r])}
    BY <1>1, ListIs
  <2>3. ASSUME NEW i \in 1..Len(M[r]) PROVE M[r][i] \in List(r) /\ M[r][i] # s[1]
    <3>1. PICK j \in 1..Len(L[r]) : M[r][i] = L[r][j] /\ IF r = q THEN j = i + 1 ELSE j = i
      BY <1>10
    <3>2. 1 \in 1..n /\ (r = q => j # 1)
      BY <1>4, <3>1
    <3>3. L[r][j] # s[1]
      BY <1>3, <3>2 DEF s, n
    <3> QED BY <2>2, <3>1, <3>3
  <2>4. \A x \in List(r) : x # s[1] => x \in List(r)'
    <3> SUFFICES ASSUME NEW j \in 1..Len(L[r]), L[r][j] # s[1]
                 PROVE  L[r][j] \in List(r)'
      BY <2>2
    <3> QED BY <1>12, <2>1
  <2> QED BY <1>4, <2>1, <2>3, <2>4
<1> QED BY <1>15, <1>16

\* A process put behind the first k elements of its list: where the pointers
\* lead afterwards.
PutAt(L, q, k, p) ==
  /\ \A r \in Queue : head'[r] = IF r = q /\ k = 0 THEN p ELSE head[r]
  /\ \A r \in Queue : tail'[r] = IF r = q /\ k = Len(L[q]) THEN p ELSE tail[r]
  /\ \A x \in Proc : next'[x] =
       IF x = p THEN IF k = Len(L[q]) THEN NoProc ELSE L[q][k + 1]
       ELSE IF k > 0 /\ x = L[q][k] THEN p ELSE next[x]

\* An insertion keeps the lists sound and adds just the process.
LEMMA PutLists ==
  ASSUME TypeOK, TypeOK', NEW L \in [Queue -> Seq(Proc)], Rep(L),
         NEW q \in Queue, NEW p \in Proc, NEW k \in 0..Len(L[q]),
         \A r \in Queue : \A i \in 1..Len(L[r]) : L[r][i] # p,
         PutAt(L, q, k, p)
  PROVE  /\ ListOK'
         /\ \A r \in Queue : List(r)' = List(r) \cup (IF r = q THEN {p} ELSE {})
<1> DEFINE s == L[q]
           n == Len(s)
           u == [i \in 1..(n + 1) |-> IF i <= k THEN s[i] ELSE IF i = k + 1 THEN p ELSE s[i - 1]]
           M == [L EXCEPT ![q] = u]
<1>1. \A r \in Queue : L[r] \in Seq(Proc) /\ Len(L[r]) \in Nat /\ \A i \in 1..Len(L[r]) : L[r][i] \in Proc
  OBVIOUS
<1>2. n \in Nat /\ k \in Nat /\ k <= n /\ \A i \in 1..n : s[i] \in Proc /\ s[i] # p
  BY <1>1
<1>3. /\ \A r \in Queue :
           /\ head[r] = IF Len(L[r]) = 0 THEN NoProc ELSE L[r][1]
           /\ tail[r] = IF Len(L[r]) = 0 THEN NoProc ELSE L[r][Len(L[r])]
           /\ \A i \in 1..Len(L[r]) :
                next[L[r][i]] = IF i = Len(L[r]) THEN NoProc ELSE L[r][i + 1]
      /\ \A r, t \in Queue : \A i \in 1..Len(L[r]), j \in 1..Len(L[t]) :
           L[r][i] = L[t][j] => r = t /\ i = j
      /\ \A x \in Proc : next[x] # NoProc =>
           \E r \in Queue : \E i \in 1..Len(L[r]) : L[r][i] = x
  BY DEF Rep
<1>4. /\ u \in Seq(Proc) /\ Len(u) = n + 1
      /\ \A i \in 1..k : u[i] = s[i]
      /\ u[k + 1] = p
      /\ \A i \in (k + 1)..n : u[i + 1] = s[i]
  <2> HIDE DEF s, n
  <2>1. \A i \in 1..(n + 1) : (IF i <= k THEN s[i] ELSE IF i = k + 1 THEN p ELSE s[i - 1]) \in Proc
    <3> SUFFICES ASSUME NEW i \in 1..(n + 1)
                 PROVE  (IF i <= k THEN s[i] ELSE IF i = k + 1 THEN p ELSE s[i - 1]) \in Proc
      OBVIOUS
    <3>1. i <= k => i \in 1..n
      BY <1>2
    <3>2. i > k /\ i # k + 1 => i - 1 \in 1..n
      BY <1>2
    <3> QED BY <1>2, <3>1, <3>2
  <2>2. u \in [1..(n + 1) -> Proc]
    BY <2>1
  <2>3. u \in Seq(Proc) /\ Len(u) = n + 1
    <3>1. n + 1 \in Nat
      BY <1>2
    <3>2. DOMAIN u = 1..(n + 1)
      OBVIOUS
    <3> HIDE DEF u
    <3>3. u \in Seq(Proc)
      BY <2>2, <3>1
    <3> QED BY <3>1, <3>2, <3>3
  <2>4. \A i \in 1..k : u[i] = s[i]
    BY <1>2
  <2>5. u[k + 1] = p
    BY <1>2
  <2>6. ASSUME NEW i \in (k + 1)..n PROVE u[i + 1] = s[i]
    <3>1. i + 1 \in 1..(n + 1) /\ ~(i + 1 <= k) /\ i + 1 # k + 1 /\ (i + 1) - 1 = i
      BY <1>2
    <3> QED BY <3>1
  <2> QED BY <2>3, <2>4, <2>5, <2>6
<1>5. M \in [Queue -> Seq(Proc)] /\ M[q] = u /\ \A r \in Queue : r # q => M[r] = L[r]
  <2> HIDE DEF u
  <2> QED BY <1>4
<1>6. /\ \A r \in Queue : head'[r] = IF r = q /\ k = 0 THEN p ELSE head[r]
      /\ \A r \in Queue : tail'[r] = IF r = q /\ k = n THEN p ELSE tail[r]
      /\ \A x \in Proc : next'[x] =
           IF x = p THEN IF k = n THEN NoProc ELSE s[k + 1]
           ELSE IF k > 0 /\ x = s[k] THEN p ELSE next[x]
  BY DEF PutAt
<1>7. /\ head[q] = IF n = 0 THEN NoProc ELSE s[1]
      /\ tail[q] = IF n = 0 THEN NoProc ELSE s[n]
      /\ \A i \in 1..n : next[s[i]] = IF i = n THEN NoProc ELSE s[i + 1]
      /\ \A i, j \in 1..n : s[i] = s[j] => i = j
  <2>1. \A i, j \in 1..Len(L[q]) : L[q][i] = L[q][j] => i = j
    BY <1>3
  <2>2. /\ head[q] = IF Len(L[q]) = 0 THEN NoProc ELSE L[q][1]
        /\ tail[q] = IF Len(L[q]) = 0 THEN NoProc ELSE L[q][Len(L[q])]
        /\ \A i \in 1..Len(L[q]) :
             next[L[q][i]] = IF i = Len(L[q]) THEN NoProc ELSE L[q][i + 1]
    BY <1>3
  <2> QED BY <2>1, <2>2
<1> HIDE DEF M, n, s, u
<1>8. /\ head'[q] = u[1]
      /\ tail'[q] = u[n + 1]
      /\ \A i \in 1..(n + 1) : next'[u[i]] = IF i = n + 1 THEN NoProc ELSE u[i + 1]
  <2>1. head'[q] = u[1]
    <3>1. k # 0 => 1 \in 1..k /\ n # 0
      BY <1>2
    <3> QED BY <1>2, <1>4, <1>6, <1>7, <3>1
  <2>2. tail'[q] = u[n + 1]
    <3>1. k # n => n \in (k + 1)..n /\ n # 0
      BY <1>2
    <3> QED BY <1>2, <1>4, <1>6, <1>7, <3>1
  <2>3. ASSUME NEW i \in 1..(n + 1)
        PROVE  next'[u[i]] = IF i = n + 1 THEN NoProc ELSE u[i + 1]
    <3>1. CASE i < k
      <4>1. i \in 1..k /\ i + 1 \in 1..k /\ i \in 1..n /\ k \in 1..n /\ i # k /\ i # n /\ i # n + 1
        BY <1>2, <3>1
      <4>2. u[i] = s[i] /\ u[i + 1] = s[i + 1]
        BY <1>4, <4>1
      <4>3. s[i] \in Proc /\ s[i] # p /\ s[i] # s[k]
        BY <1>2, <1>7, <4>1
      <4>4. next'[s[i]] = next[s[i]]
        BY <1>6, <4>3
      <4> QED BY <1>7, <4>1, <4>2, <4>4
    <3>2. CASE i = k
      <4>1. i \in 1..k /\ i \in 1..n /\ k > 0 /\ i # n + 1
        BY <1>2, <3>2
      <4>2. u[i] = s[k] /\ u[i + 1] = p /\ s[k] \in Proc /\ s[k] # p
        BY <1>2, <1>4, <3>2, <4>1
      <4> QED BY <1>6, <4>1, <4>2
    <3>3. CASE i = k + 1
      <4>1. k # n => k + 1 \in (k + 1)..n
        BY <1>2
      <4>2. i = n + 1 <=> k = n
        BY <1>2, <3>3
      <4>3. next'[p] = IF k = n THEN NoProc ELSE s[k + 1]
        BY <1>6
      <4> QED BY <1>4, <3>3, <4>1, <4>2, <4>3
    <3>4. CASE i > k + 1
      <4>1. i - 1 \in (k + 1)..n /\ (i - 1) + 1 = i /\ i - 1 \in 1..n /\ i - 1 # k
        BY <1>2, <3>4
      <4>2. k > 0 => k \in 1..n
        BY <1>2
      <4>3. u[i] = s[i - 1]
        BY <1>4, <4>1
      <4>4. s[i - 1] \in Proc /\ s[i - 1] # p /\ (k > 0 => s[i - 1] # s[k])
        BY <1>2, <1>7, <4>1, <4>2
      <4>5. next'[s[i - 1]] = next[s[i - 1]]
        BY <1>6, <4>4
      <4>6. next[s[i - 1]] = IF i - 1 = n THEN NoProc ELSE s[i]
        BY <1>7, <4>1
      <4>7. i # n + 1 => i \in (k + 1)..n
        BY <1>2, <4>1
      <4>8. i = n + 1 <=> i - 1 = n
        BY <1>2
      <4> QED BY <1>4, <4>3, <4>5, <4>6, <4>7, <4>8
    <3>5. i < k \/ i = k \/ i = k + 1 \/ i > k + 1
      BY <1>2
    <3> QED BY <3>1, <3>2, <3>3, <3>4, <3>5
  <2> QED BY <2>1, <2>2, <2>3
<1>9. ASSUME NEW r \in Queue
      PROVE  /\ head'[r] = IF Len(M[r]) = 0 THEN NoProc ELSE M[r][1]
             /\ tail'[r] = IF Len(M[r]) = 0 THEN NoProc ELSE M[r][Len(M[r])]
             /\ \A i \in 1..Len(M[r]) :
                  next'[M[r][i]] = IF i = Len(M[r]) THEN NoProc ELSE M[r][i + 1]
  <2>1. CASE r = q
    <3>1. n + 1 # 0
      BY <1>2
    <3> QED BY <1>4, <1>5, <1>8, <2>1, <3>1
  <2>2. CASE r # q
    <3>1. head'[r] = head[r] /\ tail'[r] = tail[r] /\ M[r] = L[r]
      BY <1>5, <1>6, <2>2
    <3>2. k > 0 => k \in 1..Len(L[q])
      BY <1>2 DEF n, s
    <3>3. ASSUME NEW i \in 1..Len(L[r]) PROVE next'[L[r][i]] = next[L[r][i]]
      <4>1. L[r][i] \in Proc /\ L[r][i] # p
        BY <1>1
      <4>2. k > 0 => L[r][i] # s[k]
        BY <1>3, <2>2, <3>2 DEF s
      <4> QED BY <1>6, <4>1, <4>2
    <3>4. /\ head'[r] = IF Len(L[r]) = 0 THEN NoProc ELSE L[r][1]
          /\ tail'[r] = IF Len(L[r]) = 0 THEN NoProc ELSE L[r][Len(L[r])]
      BY <1>3, <3>1
    <3>5. \A i \in 1..Len(L[r]) :
            next'[L[r][i]] = IF i = Len(L[r]) THEN NoProc ELSE L[r][i + 1]
      BY <1>3, <3>3
    <3> QED BY <3>1, <3>4, <3>5
  <2> QED BY <2>1, <2>2
\* An element of the new list is p or one of the old list, at its new place.
<1>10. ASSUME NEW r \in Queue, NEW i \in 1..Len(M[r])
       PROVE  \/ r = q /\ i = k + 1 /\ M[r][i] = p
              \/ \E j \in 1..Len(L[r]) :
                   /\ M[r][i] = L[r][j]
                   /\ IF r = q /\ j > k THEN i = j + 1 ELSE i = j
  <2>1. CASE r = q
    <3>1. i \in 1..(n + 1)
      BY <1>4, <1>5, <2>1
    <3>2. CASE i <= k
      <4>1. i \in 1..k /\ i \in 1..n
        BY <1>2, <3>1, <3>2
      <4>2. M[r][i] = L[r][i] /\ i \in 1..Len(L[r]) /\ ~(i > k)
        BY <1>4, <1>5, <2>1, <4>1 DEF s, n
      <4> QED BY <4>2
    <3>3. CASE i = k + 1
      BY <1>4, <1>5, <2>1, <3>3
    <3>4. CASE i > k + 1
      <4>1. i - 1 \in (k + 1)..n /\ i - 1 \in 1..n /\ (i - 1) + 1 = i /\ i - 1 > k
        BY <1>2, <3>1, <3>4
      <4>2. M[r][i] = L[r][i - 1]
        BY <1>4, <1>5, <2>1, <4>1 DEF s
      <4> QED BY <2>1, <4>1, <4>2 DEF s, n
    <3> QED BY <1>2, <3>1, <3>2, <3>3, <3>4
  <2>2. CASE r # q
    BY <1>5, <2>2
  <2> QED BY <2>1, <2>2
<1>11. ASSUME NEW r \in Queue, NEW t \in Queue, NEW i \in 1..Len(M[r]),
              NEW j \in 1..Len(M[t]), M[r][i] = M[t][j]
       PROVE  r = t /\ i = j
  <2>1. CASE r = q /\ i = k + 1 /\ M[r][i] = p
    <3>1. t = q /\ j = k + 1
      BY <1>10, <1>11, <2>1
    <3> QED BY <2>1, <3>1
  <2>2. CASE t = q /\ j = k + 1 /\ M[t][j] = p
    <3>1. r = q /\ i = k + 1
      BY <1>10, <1>11, <2>2
    <3> QED BY <2>2, <3>1
  <2>3. ASSUME NEW x \in 1..Len(L[r]), M[r][i] = L[r][x], IF r = q /\ x > k THEN i = x + 1 ELSE i = x,
               NEW y \in 1..Len(L[t]), M[t][j] = L[t][y], IF t = q /\ y > k THEN j = y + 1 ELSE j = y
        PROVE  r = t /\ i = j
    <3>1. L[r][x] = L[t][y]
      BY <1>11, <2>3
    <3>2. r = t /\ x = y
      BY <1>3, <3>1
    <3> QED BY <2>3, <3>2
  <2> QED BY <1>10, <2>1, <2>2, <2>3
<1>12. ASSUME NEW r \in Queue, NEW j \in 1..Len(L[r])
       PROVE  \E i \in 1..Len(M[r]) : M[r][i] = L[r][j]
  <2>1. CASE r = q
    <3>1. j \in 1..n
      BY <2>1 DEF n, s
    <3>2. CASE j <= k
      <4>1. j \in 1..k /\ j \in 1..(n + 1)
        BY <1>2, <3>1, <3>2
      <4> QED BY <1>4, <1>5, <2>1, <4>1 DEF s
    <3>3. CASE j > k
      <4>1. j \in (k + 1)..n /\ j + 1 \in 1..(n + 1)
        BY <1>2, <3>1, <3>3
      <4> QED BY <1>4, <1>5, <2>1, <4>1 DEF s
    <3> QED BY <1>2, <3>1, <3>2, <3>3
  <2>2. CASE r # q
    BY <1>5, <2>2
  <2> QED BY <2>1, <2>2
<1>13. \E i \in 1..Len(M[q]) : M[q][i] = p
  <2>1. k + 1 \in 1..(n + 1)
    BY <1>2
  <2> QED BY <1>4, <1>5, <2>1
<1>14. ASSUME NEW x \in Proc, next'[x] # NoProc
       PROVE  \E r \in Queue : \E i \in 1..Len(M[r]) : M[r][i] = x
  <2>1. CASE x = p
    BY <1>13, <2>1
  <2>2. CASE x # p /\ k > 0 /\ x = s[k]
    <3>1. k \in 1..Len(L[q]) /\ x = L[q][k]
      BY <1>2, <2>2 DEF n, s
    <3> QED BY <1>12, <3>1
  <2>3. CASE x # p /\ ~(k > 0 /\ x = s[k])
    <3>1. next[x] # NoProc
      BY <1>6, <1>14, <2>3
    <3>2. PICK r \in Queue : \E i \in 1..Len(L[r]) : L[r][i] = x
      BY <1>3, <3>1
    <3> QED BY <1>12, <3>2
  <2> QED BY <2>1, <2>2, <2>3
<1>15. Rep(M)'
  BY <1>9, <1>11, <1>14 DEF Rep
<1>16. ListOK'
  BY <1>5, <1>15 DEF ListOK
<1>17. ASSUME NEW r \in Queue PROVE List(r)' = List(r) \cup (IF r = q THEN {p} ELSE {})
  <2>1. List(r)' = {M[r][i] : i \in 1..Len(M[r])}
    BY <1>5, <1>15, ListIsNext
  <2>2. List(r) = {L[r][i] : i \in 1..Len(L[r])}
    BY ListIs
  <2>3. ASSUME NEW i \in 1..Len(M[r]) PROVE M[r][i] \in List(r) \/ (r = q /\ M[r][i] = p)
    BY <1>10, <2>2
  <2>4. ASSUME NEW j \in 1..Len(L[r]) PROVE L[r][j] \in List(r)'
    <3>1. PICK i \in 1..Len(M[r]) : M[r][i] = L[r][j]
      BY <1>12
    <3> QED BY <2>1, <3>1
  <2>5. r = q => p \in List(r)'
    BY <1>13, <2>1
  <2>6. List(r)' \subseteq List(r) \cup (IF r = q THEN {p} ELSE {})
    BY <2>1, <2>3
  <2>7. List(r) \subseteq List(r)'
    BY <2>2, <2>4
  <2> QED BY <2>5, <2>6, <2>7
<1> QED BY <1>16, <1>17

\* What is in no list is not on any way and has no successor.
LEMMA Unlisted ==
  ASSUME TypeOK, NEW L \in [Queue -> Seq(Proc)], Rep(L), NEW p \in Proc, ~Linked(p)
  PROVE  /\ \A r \in Queue : \A i \in 1..Len(L[r]) : L[r][i] # p
         /\ next[p] = NoProc
<1>1. ListOK
  BY DEF ListOK
<1>2. \A r \in Queue : p \notin List(r)
  BY <1>1, ListFacts
<1>3. \A r \in Queue : \A i \in 1..Len(L[r]) : L[r][i] # p
  BY <1>2, ListIs
<1>4. next[p] = NoProc
  BY <1>1, ListFacts
<1> QED BY <1>3, <1>4

\* enqueue() in MLFQ mode adds the process to the queue chosen.
LEMMA LinkLastLists ==
  ASSUME TypeOK, TypeOK', ListOK, NEW p \in Proc, ~Linked(p), NEW q \in Queue, LinkLast(p, q)
  PROVE  /\ ListOK'
         /\ \A r \in Queue : List(r)' = List(r) \cup (IF r = q THEN {p} ELSE {})
<1>1. PICK L \in [Queue -> Seq(Proc)] : Rep(L)
  BY DEF ListOK
<1> DEFINE n == Len(L[q])
<1>2. /\ \A r \in Queue : \A i \in 1..Len(L[r]) : L[r][i] # p
      /\ next[p] = NoProc
  BY <1>1, Unlisted
<1>3. n \in Nat /\ \A i \in 1..n : L[q][i] \in Proc
  OBVIOUS
<1>4. n \in 0..n /\ (n # 0 => 1 \in 1..n /\ n \in 1..n /\ n > 0)
  BY <1>3
<1>5. /\ head[q] = IF n = 0 THEN NoProc ELSE L[q][1]
      /\ tail[q] = IF n = 0 THEN NoProc ELSE L[q][n]
      /\ \A i \in 1..n : next[L[q][i]] = IF i = n THEN NoProc ELSE L[q][i + 1]
  BY <1>1 DEF Rep
<1>6. head[q] = NoProc <=> n = 0
  BY <1>3, <1>4, <1>5, NoneFacts
<1> HIDE DEF n
<1>7. \A r \in Queue : head'[r] = IF r = q /\ n = 0 THEN p ELSE head[r]
  BY <1>6 DEF LinkLast, TypeOK
<1>8. \A r \in Queue : tail'[r] = IF r = q THEN p ELSE tail[r]
  BY DEF LinkLast, TypeOK
<1>9. ASSUME NEW x \in Proc
      PROVE  next'[x] = IF x = p THEN NoProc
                        ELSE IF n > 0 /\ x = L[q][n] THEN p ELSE next[x]
  <2>1. CASE n = 0
    BY <1>2, <1>6, <2>1 DEF LinkLast
  <2>2. CASE n # 0
    <3>1. tail[q] = L[q][n] /\ L[q][n] # p /\ L[q][n] \in Proc
      BY <1>2, <1>3, <1>4, <1>5, <2>2 DEF n
    <3>2. next' = [next EXCEPT ![tail[q]] = p]
      BY <1>6, <2>2 DEF LinkLast
    <3> QED BY <1>2, <1>4, <2>2, <3>1, <3>2 DEF TypeOK
  <2> QED BY <2>1, <2>2
<1>10. PutAt(L, q, n, p)
  BY <1>7, <1>8, <1>9 DEF PutAt, n
<1> QED BY <1>1, <1>2, <1>4, <1>10, PutLists DEF n

\* The place enqueue() finds in FCFS mode: behind the first element, or behind
\* one with a smaller pid, and before no element with a smaller one.
LEMMA SpotIs ==
  ASSUME TypeOK, NEW L \in [Queue -> Seq(Proc)], Rep(L), NEW p \in Proc,
         NEW cur \in FcfsSpot(p)
  PROVE  \E i \in 1..Len(L[0]) :
           /\ cur = L[0][i]
           /\ i = 1 \/ pid[cur] < pid[p]
           /\ next[cur] = NoProc \/ pid[next[cur]] >= pid[p]
<1> DEFINE n == Len(L[0])
           f == Walk(head[0])
           stop(x) == next[x] = NoProc \/ pid[next[x]] >= pid[p]
<1>1. n \in Nat /\ NPROC \in Nat /\ 0 \in Queue /\ \A i \in 1..n : L[0][i] \in Proc
  BY QueueFacts, ModelAssumption
<1>2. f = [k \in 0..NPROC |-> IF k < n THEN L[0][k + 1] ELSE NoProc]
  BY <1>1, WalkIs
<1>3. \A i \in 1..n : next[L[0][i]] = IF i = n THEN NoProc ELSE L[0][i + 1]
  BY <1>1 DEF Rep
<1>4. cur \in Proc /\ \E k \in 0..NPROC : f[k] = cur /\ stop(cur) /\ \A j \in 0..(k - 1) : ~stop(f[j])
  BY DEF FcfsSpot
<1>5. PICK k \in 0..NPROC : f[k] = cur /\ stop(cur) /\ \A j \in 0..(k - 1) : ~stop(f[j])
  BY <1>4
<1> HIDE DEF n, f
<1>6. k < n /\ cur = L[0][k + 1]
  BY <1>2, <1>4, <1>5, NoneFacts
<1>7. k + 1 \in 1..n
  BY <1>1, <1>6
<1>8. k + 1 = 1 \/ pid[cur] < pid[p]
  <2> SUFFICES ASSUME k # 0 PROVE pid[cur] < pid[p]
    OBVIOUS
  <2>1. k - 1 \in 0..(k - 1) /\ k - 1 \in 0..NPROC /\ k - 1 < n /\ (k - 1) + 1 = k /\ k \in 1..n /\ k # n
    BY <1>1, <1>6
  <2>2. f[k - 1] = L[0][k] /\ ~stop(f[k - 1])
    BY <1>2, <1>5, <2>1
  <2>3. next[L[0][k]] = cur
    BY <1>3, <1>6, <2>1
  <2>4. pid[cur] \in Nat /\ pid[p] \in Nat
    BY <1>4 DEF TypeOK
  <2> QED BY <2>2, <2>3, <2>4
<1> QED BY <1>5, <1>6, <1>7, <1>8 DEF n

\* enqueue() in FCFS mode adds the process to mlfq[0].
LEMMA LinkByPidLists ==
  ASSUME TypeOK, TypeOK', ListOK, NEW p \in Proc, ~Linked(p), LinkByPid(p)
  PROVE  /\ ListOK'
         /\ \A r \in Queue : List(r)' = List(r) \cup (IF r = 0 THEN {p} ELSE {})
<1>1. PICK L \in [Queue -> Seq(Proc)] : Rep(L)
  BY DEF ListOK
<1> DEFINE n == Len(L[0])
<1>2. /\ \A r \in Queue : \A i \in 1..Len(L[r]) : L[r][i] # p
      /\ next[p] = NoProc
  BY <1>1, Unlisted
<1>3. n \in Nat /\ 0 \in Queue /\ \A i \in 1..n : L[0][i] \in Proc
  BY QueueFacts
<1>4. n \in 0..n /\ 0 \in 0..n /\ (n # 0 => 1 \in 1..n /\ n \in 1..n /\ n > 0)
  BY <1>3
<1>5. /\ head[0] = IF n = 0 THEN NoProc ELSE L[0][1]
      /\ tail[0] = IF n = 0 THEN NoProc ELSE L[0][n]
      /\ \A i \in 1..n : next[L[0][i]] = IF i = n THEN NoProc ELSE L[0][i + 1]
      /\ \A i, j \in 1..n : L[0][i] = L[0][j] => i = j
  BY <1>1, <1>3 DEF Rep
<1>6. head[0] = NoProc <=> n = 0
  BY <1>3, <1>4, <1>5, NoneFacts
<1>7. \E k \in 0..n : PutAt(L, 0, k, p)
  <2> HIDE DEF n
  <2>1. CASE head[0] = NoProc
    <3>1. n = 0 /\ head' = [head EXCEPT ![0] = p] /\ tail' = [tail EXCEPT ![0] = p] /\ next' = next
      BY <1>6, <2>1 DEF LinkByPid
    <3>2. /\ \A r \in Queue : head'[r] = IF r = 0 THEN p ELSE head[r]
          /\ \A r \in Queue : tail'[r] = IF r = 0 THEN p ELSE tail[r]
      BY <1>3, <3>1 DEF TypeOK
    <3>3. PutAt(L, 0, 0, p)
      BY <1>2, <3>1, <3>2 DEF PutAt, n
    <3> QED BY <1>4, <3>3
  <2>2. CASE /\ head[0] # NoProc
             /\ next' = [next EXCEPT ![p] = head[0]]
             /\ head' = [head EXCEPT ![0] = p]
             /\ UNCHANGED tail
    <3>1. n # 0 /\ head[0] = L[0][1]
      BY <1>5, <1>6, <2>2
    <3>2. \A r \in Queue : head'[r] = IF r = 0 THEN p ELSE head[r]
      BY <1>3, <2>2 DEF TypeOK
    <3>3. \A x \in Proc : next'[x] = IF x = p THEN L[0][1] ELSE next[x]
      BY <2>2, <3>1 DEF TypeOK
    <3>4. PutAt(L, 0, 0, p)
      BY <2>2, <3>1, <3>2, <3>3 DEF PutAt, n
    <3> QED BY <1>4, <3>4
  <2>3. ASSUME NEW cur \in FcfsSpot(p),
               next' = [next EXCEPT ![p] = next[cur], ![cur] = p],
               tail' = [tail EXCEPT ![0] = IF next'[p] = NoProc THEN p ELSE @],
               UNCHANGED head
        PROVE  \E k \in 0..n : PutAt(L, 0, k, p)
    <3>1. PICK k \in 1..n : cur = L[0][k]
      BY <1>1, SpotIs DEF n
    <3>2. cur \in Proc /\ cur # p /\ k # 0 /\ k > 0 /\ k \in 0..n
      BY <1>2, <1>3, <3>1 DEF n
    <3>3. next[cur] = IF k = n THEN NoProc ELSE L[0][k + 1]
      BY <1>5, <3>1
    <3>4. \A x \in Proc : next'[x] = IF x = p THEN next[cur] ELSE IF x = cur THEN p ELSE next[x]
      BY <2>3, <3>2 DEF TypeOK
    <3>5. k # n => next[cur] # NoProc
      <4>1. k # n => k + 1 \in 1..n
        BY <1>3
      <4> QED BY <1>3, <3>3, <4>1, NoneFacts
    <3>6. next'[p] = NoProc <=> k = n
      BY <3>3, <3>4, <3>5
    <3>7. \A r \in Queue : tail'[r] = IF r = 0 /\ k = n THEN p ELSE tail[r]
      BY <1>3, <2>3, <3>6 DEF TypeOK
    <3>8. PutAt(L, 0, k, p)
      BY <2>3, <3>1, <3>2, <3>3, <3>4, <3>7 DEF PutAt, n
    <3> QED BY <3>2, <3>8
  <2> QED BY <2>1, <2>2, <2>3 DEF LinkByPid
<1>8. PICK k \in 0..n : PutAt(L, 0, k, p)
  BY <1>7
<1> QED BY <1>1, <1>2, <1>3, <1>8, PutLists

\* It keeps the list sorted: a process gets in before the first one with a
\* larger pid.
LEMMA LinkByPidSorted ==
  ASSUME TypeOK, ListOK, NEW p \in Proc, ~Linked(p), LinkByPid(p), pid' = pid,
         \A x \in Proc : next[x] # NoProc => pid[x] < pid[next[x]],
         \A x \in Proc : Linked(x) => pid[x] # pid[p]
  PROVE  \A x \in Proc : next'[x] # NoProc => pid'[x] < pid'[next'[x]]
<1>1. PICK L \in [Queue -> Seq(Proc)] : Rep(L)
  BY DEF ListOK
<1>2. \A x \in Proc : pid[x] \in Nat /\ next[x] \in Proc \cup {NoProc}
  BY DEF TypeOK
<1>3. 0 \in Queue /\ head[0] \in Proc \cup {NoProc} /\ (head[0] # NoProc => Linked(head[0]))
  BY QueueFacts DEF TypeOK, Linked
<1>4. CASE UNCHANGED next
  BY <1>4
<1>5. CASE /\ head[0] # NoProc
           /\ pid[p] < pid[head[0]]
           /\ next' = [next EXCEPT ![p] = head[0]]
  BY <1>2, <1>3, <1>5 DEF TypeOK
<1>6. ASSUME head[0] # NoProc, pid[p] >= pid[head[0]], NEW cur \in FcfsSpot(p),
             next' = [next EXCEPT ![p] = next[cur], ![cur] = p]
      PROVE  \A x \in Proc : next'[x] # NoProc => pid'[x] < pid'[next'[x]]
  <2>1. PICK i \in 1..Len(L[0]) :
           /\ cur = L[0][i]
           /\ i = 1 \/ pid[cur] < pid[p]
           /\ next[cur] = NoProc \/ pid[next[cur]] >= pid[p]
    BY <1>1, SpotIs
  <2>2. cur \in Proc /\ cur # p
    <3>1. cur \in Proc
      BY DEF FcfsSpot
    <3>2. cur \in List(0)
      BY <1>1, <1>3, <2>1, ListIs
    <3> QED BY <1>3, <3>1, <3>2, ListFacts
  <2>3. i = 1 => cur = head[0]
    <3>1. Len(L[0]) # 0
      BY <1>3
    <3> QED BY <1>1, <1>3, <2>1, <3>1 DEF Rep
  <2>4. pid[cur] < pid[p]
    BY <1>2, <1>3, <1>6, <2>1, <2>2, <2>3
  <2>5. next[cur] # NoProc => pid[p] < pid[next[cur]]
    <3>1. next[cur] # NoProc => Linked(next[cur])
      BY <1>2, <2>2 DEF Linked
    <3> QED BY <1>2, <2>1, <2>2, <3>1
  <2>6. \A x \in Proc : next'[x] = IF x = cur THEN p ELSE IF x = p THEN next[cur] ELSE next[x]
    BY <1>6, <2>2 DEF TypeOK
  <2> QED BY <2>2, <2>4, <2>5, <2>6
<1> QED BY <1>4, <1>5, <1>6 DEF LinkByPid
-----------------------------------------------------------------------------
(* Every RUNNABLE process is in one place. *)

\* Outside of dequeue() and enqueue() the lists stay as they are.
LEMMA ListsStay ==
  ASSUME TypeOK, TypeOK', ListOK, UNCHANGED <<next, head, tail>>
  PROVE  /\ ListOK'
         /\ \A r \in Queue : List(r)' = List(r)
         /\ \A p \in Proc : Linked(p)' = Linked(p)
<1>1. PICK L \in [Queue -> Seq(Proc)] : Rep(L)
  BY DEF ListOK
<1>2. Rep(L)'
  BY <1>1 DEF Rep
<1>3. ListOK'
  BY <1>2 DEF ListOK
<1>4. \A r \in Queue : List(r)' = List(r)
  BY <1>1, <1>2, ListIs, ListIsNext
<1>5. \A p \in Proc : Linked(p)' = Linked(p)
  BY DEF Linked
<1> QED BY <1>3, <1>4, <1>5

\* dequeue() leaves all others linked.
LEMMA UnlinkLinked ==
  ASSUME TypeOK, TypeOK', ListOK, NEW q \in Queue, head[q] # NoProc, Unlink(q)
  PROVE  /\ ListOK'
         /\ \A p \in Proc : Linked(p) => p = head[q] \/ Linked(p)'
<1>1. ListOK' /\ \A r \in Queue : List(r)' = List(r) \ {head[q]}
  BY UnlinkLists
<1>2. \A p \in Proc : Linked(p) => \E r \in Queue : p \in List(r)
  BY ListFacts
<1>3. \A p \in Proc : (\E r \in Queue : p \in List(r)') => Linked(p)'
  BY <1>1, ListFactsNext
<1> QED BY <1>1, <1>2, <1>3

\* The end of enqueue(): the process is linked, and all others still are.
LEMMA InsertLinked ==
  ASSUME IInv, TypeOK', ListOK, NEW c \in Cpu, Insert(c)
  PROVE  /\ arg[c] \in Proc /\ ~Linked(arg[c])
         /\ ListOK'
         /\ \A p \in Proc : Linked(p) \/ p = arg[c] => Linked(p)'
         /\ \A r \in Queue : List(r)' = List(r) \cup
              (IF r = (IF pc[c] = "insF" THEN 0 ELSE eq[c]) THEN {arg[c]} ELSE {})
<1> DEFINE p == arg[c]
           q == IF pc[c] = "insF" THEN 0 ELSE eq[c]
<1>1. p \in Proc /\ ~Linked(p)
  <2>1. p \in Proc
    BY DEF Insert, IInv, TypeOK, EnqueueLock, Enqueuing
  <2>2. Pending(c) = p
    BY DEF Insert, Pending
  <2> QED BY <2>1, <2>2 DEF IInv, PlacesOK, PlaceOK
<1>2. \/ pc[c] = "insF" /\ LinkByPid(p)
      \/ pc[c] = "insM" /\ LinkLast(p, eq[c])
  BY DEF Insert
<1>3. TypeOK /\ q \in Queue
  BY QueueFacts DEF IInv, TypeOK
<1>4. ListOK' /\ \A r \in Queue : List(r)' = List(r) \cup (IF r = q THEN {p} ELSE {})
  <2>1. CASE pc[c] = "insF" /\ LinkByPid(p)
    BY <1>1, <1>3, <2>1, LinkByPidLists
  <2>2. CASE pc[c] = "insM" /\ LinkLast(p, eq[c])
    BY <1>1, <1>3, <2>2, LinkLastLists
  <2> QED BY <1>2, <2>1, <2>2
<1>5. \A x \in Proc : Linked(x) => \E r \in Queue : x \in List(r)
  BY <1>3, ListFacts
<1>6. \A x \in Proc : (\E r \in Queue : x \in List(r)') => Linked(x)'
  BY <1>4, ListFactsNext
<1>7. \A x \in Proc : Linked(x) \/ x = p => Linked(x)'
  BY <1>3, <1>4, <1>5, <1>6
<1> QED BY <1>1, <1>4, <1>7

\* fork() clears the next pointer of a slot that is in no list, hence clear.
LEMMA ForkLists ==
  ASSUME IInv, ListOK, NEW c \in Cpu, Fork(c)
  PROVE  UNCHANGED <<next, head, tail>>
<1>0. TypeOK
  BY DEF IInv
<1>1. PICK np \in Proc : /\ state[np] = "UNUSED"
                         /\ next' = [next EXCEPT ![np] = NoProc]
  BY DEF Fork
<1>2. ~Linked(np)
  BY <1>1, NoPlace
<1>3. next[np] = NoProc
  BY <1>0, <1>2, ListFacts
<1>4. next' = next
  BY <1>0, <1>1, <1>3 DEF TypeOK
<1> QED BY <1>4 DEF Fork

\* The lists stay sound in every step.
LEMMA ListsKeep ==
  ASSUME IInv, TypeOK', ListOK, "fcfsmode" \notin Ops,
         NEW c \in Cpu, CpuStep(c) \/ Request(c)
  PROVE  ListOK'
<1>0. TypeOK
  BY DEF IInv
<1>1. CASE UNCHANGED <<next, head, tail>>
  BY <1>0, <1>1, ListsStay
<1>2. ASSUME NEW q \in Queue, head[q] # NoProc, Unlink(q) PROVE ListOK'
  BY <1>0, <1>2, UnlinkLinked
<1>3. CASE PickFirst(c)
  BY <1>1, <1>2, <1>3, QueueFacts DEF PickFirst
<1>4. CASE PickLevel(c)
  <2>1. lvl[c] \in Queue
    BY <1>0 DEF TypeOK
  <2> QED BY <1>1, <1>2, <1>4, <2>1 DEF PickLevel
<1>5. CASE PickSecond(c)
  BY <1>1, <1>2, <1>5, QueueFacts DEF PickSecond
<1>6. CASE DrainOne(c)
  BY <1>1, <1>2, <1>6 DEF DrainOne
<1>7. CASE Insert(c)
  BY <1>7, InsertLinked
<1>8. CASE Fork(c)
  BY <1>1, <1>8, ForkLists
<1>9. PickFirst(c) \/ PickLevel(c) \/ PickSecond(c) \/ DrainOne(c) \/ Insert(c)
        \/ Fork(c) \/ UNCHANGED <<next, head, tail>>
  BY StepsOf DEF ReadMode, PeekHead, Dispatch, Back, CheckBoost, ResetOne, DrainDone,
     ChooseQueue, Resume, NoPreempt, ExitZombie, Sched, ForkStart, WakeOne, WakeDone,
     PanicAcquire, Yield, Sleep, ExitWake, Reap, Kill, SetPriority, ClockIntr, Wakeup,
     MlfqMode
<1> QED BY <1>1, <1>3, <1>4, <1>5, <1>6, <1>7, <1>8, <1>9

\* scheduler()'s p is set only between a dequeue() and the dispatch.
PickOK ==
  \A c \in Cpu : pick[c] # NoProc /\ pc[c] \notin {"panic", "wild"} =>
    Heading(c, {"peek", "deq2", "lock"})

\* Either no mlfqmode() call is made or no other CPU runs meanwhile.
OneAtATime == NCPU = 1 \/ "mlfqmode" \notin Ops

\* In MLFQ mode every process has a level, except those mlfqmode() has not come
\* to yet (or never will, after a panic).
LevelOK ==
  /\ mode = "MLFQ" => \A p \in Proc :
       \/ lev[p] \in 0..2
       \/ "mlfqmode" \in Ops /\ \E c \in Cpu :
            pc[c] \in {"reset", "panic"} /\ after[c] = "run" /\ idx[c] <= p
  /\ \A c \in Cpu : pc[c] = "reset" => idx[c] # 0

\* enqueue() has not been called with a level that is none.
NoWild == OneAtATime => \A c \in Cpu : pc[c] # "wild"

\* A RUNNABLE process has a place.
Has(p) ==
  \/ Linked(p)
  \/ \E c \in Cpu : pick[c] = p
  \/ \E c \in Cpu : Pending(c) = p

Tracked == OneAtATime => \A p \in Proc : state[p] = "RUNNABLE" => Has(p)

\* Every step keeps PickOK.
LEMMA PickKeeps ==
  ASSUME IInv, TypeOK', PickOK, "fcfsmode" \notin Ops,
         NEW c \in Cpu, CpuStep(c) \/ Request(c)
  PROVE  PickOK'
<1>0. TypeOK /\ ControlOK /\ PointOK
  BY DEF IInv
<1> USE <1>0, NoneFacts DEF TypeOK, PickOK, Heading, Enqueuing, Goto, Return, CallEnqueue
<1>1. CASE ReadMode(c)
  BY <1>1 DEF ReadMode
<1>2. CASE PickFirst(c)
  BY <1>2 DEF PickFirst, Unlink
<1>3. CASE PickLevel(c)
  BY <1>3 DEF PickLevel, Unlink
<1>4. CASE PeekHead(c)
  BY <1>4 DEF PeekHead
<1>5. CASE PickSecond(c)
  BY <1>5 DEF PickSecond, Unlink
<1>6. CASE Dispatch(c)
  BY <1>6 DEF Dispatch
<1>7. CASE Back(c)
  BY <1>7 DEF Back
<1>8. CASE CheckBoost(c)
  BY <1>8 DEF CheckBoost
<1>9. CASE ResetOne(c)
  BY <1>9 DEF ResetOne, FirstDrained
<1>10. CASE DrainOne(c)
  BY <1>10 DEF DrainOne, Unlink
<1>11. CASE DrainDone(c)
  BY <1>11 DEF DrainDone
<1>12. CASE ChooseQueue(c)
  BY <1>12 DEF ChooseQueue
<1>13. CASE Insert(c)
  BY <1>13 DEF Insert, ReleasesAt, ControlOK
<1>14. CASE Resume(c)
  BY <1>14 DEF Resume
<1>15. CASE NoPreempt(c)
  BY <1>15 DEF NoPreempt
<1>16. CASE ExitZombie(c)
  BY <1>16 DEF ExitZombie
<1>17. CASE Sched(c)
  BY <1>17 DEF Sched
<1>18. CASE ForkStart(c)
  BY <1>18 DEF ForkStart
<1>19. CASE WakeOne(c)
  BY <1>19 DEF WakeOne, Wakeable
<1>20. CASE WakeDone(c)
  BY <1>20 DEF WakeDone, ControlOK, SchedPts
<1>21. CASE PanicAcquire(c)
  BY <1>21 DEF PanicAcquire
<1>22. CASE Yield(c)
  BY <1>22 DEF Yield
<1>23. CASE Sleep(c)
  BY <1>23 DEF Sleep
<1>24. CASE ExitWake(c)
  BY <1>24 DEF ExitWake
<1>25. CASE Fork(c)
  BY <1>25 DEF Fork
<1>26. CASE Reap(c)
  BY <1>26 DEF Reap
<1>27. CASE Kill(c)
  BY <1>27 DEF Kill
<1>28. CASE SetPriority(c)
  BY <1>28 DEF SetPriority
<1>29. CASE ClockIntr(c)
  BY <1>29 DEF ClockIntr, TakesIntr, SchedPts
<1>30. CASE Wakeup(c)
  BY <1>30 DEF Wakeup, TakesIntr, SchedPts
<1>31. CASE MlfqMode(c)
  BY <1>31 DEF MlfqMode
<1> QED BY <1>1, <1>2, <1>3, <1>4, <1>5, <1>6, <1>7, <1>8, <1>9, <1>10, <1>11, <1>12,
     <1>13, <1>14, <1>15, <1>16, <1>17, <1>18, <1>19, <1>20, <1>21, <1>22, <1>23, <1>24,
     <1>25, <1>26, <1>27, <1>28, <1>29, <1>30, <1>31, StepsOf

\* The loop over the process table.
LEMMA TableBounds ==
  /\ \A n \in Nat, p \in Proc : n # 0 /\ n \notin Proc => ~(n <= p)
  /\ \A n \in Nat, p \in Proc : n <= p /\ p # n => n + 1 <= p
BY ModelAssumption DEF Proc

\* Every step keeps LevelOK.
LEMMA LevelKeeps ==
  ASSUME IInv, TypeOK', LevelOK, "fcfsmode" \notin Ops,
         NEW c \in Cpu, CpuStep(c) \/ Request(c)
  PROVE  LevelOK'
<1>0. TypeOK /\ ControlOK
  BY DEF IInv
<1> USE <1>0, NoneFacts DEF TypeOK, LevelOK, Goto, Return, CallEnqueue
<1>1. CASE ReadMode(c)
  BY <1>1 DEF ReadMode
<1>2. CASE PickFirst(c)
  BY <1>2 DEF PickFirst, Unlink
<1>3. CASE PickLevel(c)
  <2>1. UNCHANGED <<mode, lev, idx, after>> /\ pc[c] = "deqM"
    BY <1>3 DEF PickLevel
  <2>2. UNCHANGED pc \/ \E l \in {"lock", "sched"} : pc' = [pc EXCEPT ![c] = l]
    BY <1>3 DEF PickLevel
  <2> QED BY <2>1, <2>2
<1>4. CASE PeekHead(c)
  BY <1>4 DEF PeekHead
<1>5. CASE PickSecond(c)
  BY <1>5 DEF PickSecond, Unlink
<1>6. CASE Dispatch(c)
  BY <1>6 DEF Dispatch
<1>7. CASE Back(c)
  BY <1>7 DEF Back
<1>8. CASE CheckBoost(c)
  BY <1>8 DEF CheckBoost
<1>9. CASE ResetOne(c)
  <2>1. CASE idx[c] \in Proc
    <3>1. /\ lev' = [lev EXCEPT ![idx[c]] = 0] /\ idx' = [idx EXCEPT ![c] = idx[c] + 1]
          /\ UNCHANGED <<mode, pc, after>>
      BY <1>9, <2>1 DEF ResetOne, ResetFields
    <3>2. ASSUME NEW p \in Proc, lev[p] \in 0..2 PROVE lev'[p] \in 0..2
      BY <2>1, <3>1, <3>2
    <3>3. ASSUME NEW p \in Proc, NEW d \in Cpu, idx[d] <= p, lev'[p] \notin 0..2
          PROVE  idx'[d] <= p
      <4>1. p # idx[c]
        BY <2>1, <3>1, <3>3
      <4>2. p \in Int /\ idx[c] \in Int
        BY DEF Proc
      <4>3. idx'[c] = idx[c] + 1 /\ (d # c => idx'[d] = idx[d])
        BY <3>1
      <4> QED BY <3>3, <4>1, <4>2, <4>3, TableBounds
    <3>4. \A d \in Cpu : idx[d] # 0 => idx'[d] # 0
      BY <3>1
    <3> QED BY <3>1, <3>2, <3>3, <3>4
  <2>2. CASE idx[c] \notin Proc
    <3>1. /\ idx' = [idx EXCEPT ![c] = 1] /\ pc' = [pc EXCEPT ![c] = "drain"]
          /\ UNCHANGED <<mode, lev, after>> /\ pc[c] = "reset"
      BY <1>9, <2>2 DEF ResetOne, FirstDrained
    <3>2. \A p \in Proc : ~(idx[c] <= p)
      <4>1. idx[c] \in Nat /\ idx[c] # 0
        BY <3>1
      <4> QED BY <2>2, <4>1, TableBounds
    <3>3. \A d \in Cpu : d # c => pc'[d] = pc[d] /\ idx'[d] = idx[d]
      BY <3>1
    <3> QED BY <3>1, <3>2, <3>3
  <2> QED BY <2>1, <2>2
<1>10. CASE DrainOne(c)
  BY <1>10 DEF DrainOne, Unlink
<1>11. CASE DrainDone(c)
  BY <1>11 DEF DrainDone, ControlOK, SchedPts
<1>12. CASE ChooseQueue(c)
  BY <1>12 DEF ChooseQueue
<1>13. CASE Insert(c)
  BY <1>13 DEF Insert, ReleasesAt, ControlOK
<1>14. CASE Resume(c)
  BY <1>14 DEF Resume
<1>15. CASE NoPreempt(c)
  BY <1>15 DEF NoPreempt
<1>16. CASE ExitZombie(c)
  BY <1>16 DEF ExitZombie
<1>17. CASE Sched(c)
  BY <1>17 DEF Sched
<1>18. CASE ForkStart(c)
  BY <1>18 DEF ForkStart
<1>19. CASE WakeOne(c)
  BY <1>19 DEF WakeOne, Wakeable
<1>20. CASE WakeDone(c)
  BY <1>20 DEF WakeDone, ControlOK, SchedPts
<1>21. CASE PanicAcquire(c)
  BY <1>21 DEF PanicAcquire, Wants
<1>22. CASE Yield(c)
  BY <1>22 DEF Yield, Charge
<1>23. CASE Sleep(c)
  BY <1>23 DEF Sleep, Charge
<1>24. CASE ExitWake(c)
  BY <1>24 DEF ExitWake
<1>25. CASE Fork(c)
  BY <1>25 DEF Fork
<1>26. CASE Reap(c)
  BY <1>26 DEF Reap
<1>27. CASE Kill(c)
  BY <1>27 DEF Kill
<1>28. CASE SetPriority(c)
  BY <1>28 DEF SetPriority
<1>29. CASE ClockIntr(c)
  BY <1>29 DEF ClockIntr, TakesIntr, SchedPts
<1>30. CASE Wakeup(c)
  BY <1>30 DEF Wakeup, TakesIntr, SchedPts
<1>31. CASE MlfqMode(c)
  <2>1. "mlfqmode" \in Ops /\ pc'[c] = "reset" /\ after'[c] = "run" /\ idx'[c] = 1
    BY <1>31 DEF MlfqMode
  <2>2. \A p \in Proc : idx'[c] <= p
    BY <2>1 DEF Proc
  <2>3. \A d \in Cpu : pc'[d] = "reset" => idx'[d] # 0
    BY <1>31, <2>1 DEF MlfqMode
  <2> QED BY <2>1, <2>2, <2>3
<1> QED BY <1>1, <1>2, <1>3, <1>4, <1>5, <1>6, <1>7, <1>8, <1>9, <1>10, <1>11, <1>12,
     <1>13, <1>14, <1>15, <1>16, <1>17, <1>18, <1>19, <1>20, <1>21, <1>22, <1>23, <1>24,
     <1>25, <1>26, <1>27, <1>28, <1>29, <1>30, <1>31, StepsOf

\* A CPU that is not in mlfqinit() finds a level in every process.
LEMMA InRange ==
  ASSUME LevelOK, OneAtATime, mode = "MLFQ", NEW c \in Cpu, pc[c] \notin {"reset", "panic"}
  PROVE  \A p \in Proc : lev[p] \in 0..2
<1>1. CASE "mlfqmode" \notin Ops
  BY <1>1 DEF LevelOK
<1>2. CASE NCPU = 1
  <2>1. \A d \in Cpu : d = c
    BY <1>2 DEF Cpu
  <2> QED BY <2>1 DEF LevelOK
<1> QED BY <1>1, <1>2 DEF OneAtATime

\* Then enqueue() stays within mlfq[].
LEMMA WildKeeps ==
  ASSUME IInv, TypeOK', LevelOK, NoWild, "fcfsmode" \notin Ops,
         NEW c \in Cpu, CpuStep(c) \/ Request(c)
  PROVE  NoWild'
<1> SUFFICES ASSUME OneAtATime PROVE \A d \in Cpu : pc'[d] # "wild"
  BY DEF NoWild, OneAtATime
<1>0. TypeOK /\ ControlOK /\ EnqueueLock /\ \A d \in Cpu : pc[d] # "wild"
  BY DEF IInv, NoWild
<1>1. CASE ChooseQueue(c)
  <2>1. arg[c] \in Proc /\ pc[c] = "enq"
    BY <1>0, <1>1 DEF ChooseQueue, EnqueueLock, Enqueuing, TypeOK
  <2>2. mode = "MLFQ" => lev[arg[c]] \in 0..2
    BY <2>1, InRange
  <2>3. \E l \in {"insF", "insM"} : pc' = [pc EXCEPT ![c] = l]
    BY <1>1, <2>2 DEF ChooseQueue, Goto
  <2> QED BY <1>0, <2>3 DEF TypeOK
<1>2. CASE Insert(c) \/ WakeDone(c) \/ DrainDone(c)
  <2>1. \E l \in Points \ {"wild"} : pc' = [pc EXCEPT ![c] = l]
    BY <1>0, <1>2 DEF Insert, WakeDone, DrainDone, Goto, Return, ControlOK, Points,
       SchedPts, ProcPts, CallPts
  <2> QED BY <1>0, <2>1 DEF TypeOK
<1>3. CASE UNCHANGED pc
  BY <1>0, <1>3
<1>4. CASE \E l \in Points \ {"wild"} : pc' = [pc EXCEPT ![c] = l]
  BY <1>0, <1>4 DEF TypeOK
<1>5. \/ ChooseQueue(c) \/ Insert(c) \/ WakeDone(c) \/ DrainDone(c) \/ UNCHANGED pc
      \/ \E l \in Points \ {"wild"} : pc' = [pc EXCEPT ![c] = l]
  BY StepsOf DEF ReadMode, PickFirst, PickLevel, PeekHead, PickSecond, Dispatch, Back,
     CheckBoost, ResetOne, DrainOne, Resume, NoPreempt, ExitZombie, Sched, ForkStart,
     WakeOne, PanicAcquire, Yield, Sleep, ExitWake, Fork, Reap, Kill, SetPriority,
     ClockIntr, Wakeup, MlfqMode, Goto, CallEnqueue, Points, SchedPts, ProcPts, CallPts
<1> QED BY <1>1, <1>2, <1>3, <1>4, <1>5

\* No step loses a RUNNABLE process: what leaves a list or a pick goes into a
\* pick, an enqueue() or onto the CPU, and what becomes RUNNABLE is enqueued.
LEMMA TrackKeeps ==
  ASSUME IInv, TypeOK', ListOK, PickOK, LevelOK, NoWild, Tracked, "fcfsmode" \notin Ops,
         NEW c \in Cpu, CpuStep(c) \/ Request(c)
  PROVE  Tracked'
<1> SUFFICES ASSUME OneAtATime, NEW p \in Proc, state'[p] = "RUNNABLE" PROVE Has(p)'
  BY DEF Tracked, OneAtATime
<1>0. TypeOK /\ ControlOK /\ EnqueueLock /\ PointOK /\ \A d \in Cpu : pc[d] # "wild"
  BY DEF IInv, NoWild
<1>1. state[p] = "RUNNABLE" => Has(p)
  BY DEF Tracked
\* Pointers, picks and enqueues that stay give a place to who had one.
<1>2. ASSUME state[p] = "RUNNABLE",
             Linked(p) => Has(p)',
             \A d \in Cpu : pick[d] = p => Has(p)',
             \A d \in Cpu : Pending(d) = p => Has(p)'
      PROVE  Has(p)'
  BY <1>1, <1>2 DEF Has
<1>3. ASSUME NEW d \in Cpu, Pending(d)' = p PROVE Has(p)'
  BY <1>3 DEF Has
<1>4. ASSUME NEW d \in Cpu, pick'[d] = p PROVE Has(p)'
  BY <1>4 DEF Has
<1>5. UNCHANGED <<next, head, tail>> => (Linked(p) => Has(p)')
  BY DEF Linked, Has
<1>6. ASSUME NEW q \in Queue, head[q] # NoProc, Unlink(q)
      PROVE  Linked(p) => p = head[q] \/ Has(p)'
  BY <1>0, <1>6, UnlinkLinked DEF Has
<1>7. pc[c] \in {"deqF", "deqM"} => pick[c] = NoProc
  BY <1>0 DEF PickOK, Heading, Enqueuing
<1> USE NoneFacts DEF Goto, CallEnqueue
<1>8. CASE ReadMode(c)
  <2>1. UNCHANGED <<next, head, tail, pick>> /\ state[p] = "RUNNABLE"
    BY <1>0, <1>8 DEF ReadMode, TypeOK
  <2>2. \A d \in Cpu : Pending(d)' = Pending(d)
    BY <1>0, <1>8 DEF ReadMode, Pending, TypeOK
  <2> QED BY <1>2, <1>3, <1>4, <1>5, <2>1, <2>2
<1>9. CASE PickFirst(c)
  <2>1. UNCHANGED state /\ pick[c] = NoProc
    BY <1>9, <1>7 DEF PickFirst
  <2>2. \A d \in Cpu : Pending(d)' = Pending(d)
    BY <1>0, <1>9 DEF PickFirst, Pending, TypeOK
  <2>3. CASE head[0] # NoProc /\ Unlink(0) /\ pick' = [pick EXCEPT ![c] = head[0]]
    <3>1. Linked(p) => Has(p)'
      BY <1>0, <1>4, <1>6, <2>3, QueueFacts DEF TypeOK
    <3>2. \A d \in Cpu : pick[d] = p => pick'[d] = p
      BY <1>0, <2>1, <2>3 DEF TypeOK
    <3> QED BY <1>2, <1>3, <1>4, <2>1, <2>2, <3>1, <3>2
  <2>4. CASE UNCHANGED <<next, head, tail, pick>>
    BY <1>2, <1>3, <1>4, <1>5, <2>1, <2>2, <2>4
  <2> QED BY <1>9, <2>3, <2>4 DEF PickFirst
<1>10. CASE PickLevel(c)
  <2>1. UNCHANGED state /\ pick[c] = NoProc
    BY <1>10, <1>7 DEF PickLevel
  <2>2. \A d \in Cpu : Pending(d)' = Pending(d)
    BY <1>0, <1>10 DEF PickLevel, Pending, TypeOK
  <2>3. CASE head[lvl[c]] # NoProc /\ Unlink(lvl[c]) /\ pick' = [pick EXCEPT ![c] = head[lvl[c]]]
    <3>1. Linked(p) => Has(p)'
      BY <1>0, <1>4, <1>6, <2>3 DEF TypeOK
    <3>2. \A d \in Cpu : pick[d] = p => pick'[d] = p
      BY <1>0, <2>1, <2>3 DEF TypeOK
    <3> QED BY <1>2, <1>3, <1>4, <2>1, <2>2, <3>1, <3>2
  <2>4. CASE UNCHANGED <<next, head, tail, pick>>
    BY <1>2, <1>3, <1>4, <1>5, <2>1, <2>2, <2>4
  <2> QED BY <1>10, <2>3, <2>4 DEF PickLevel
<1>11. CASE PeekHead(c)
  <2>1. UNCHANGED <<next, head, tail, pick>> /\ state[p] = "RUNNABLE"
    BY <1>0, <1>11 DEF PeekHead, TypeOK
  <2>2. \A d \in Cpu : Pending(d)' = Pending(d)
    BY <1>0, <1>11 DEF PeekHead, Pending, TypeOK
  <2> QED BY <1>2, <1>3, <1>4, <1>5, <2>1, <2>2
<1>12. CASE PickSecond(c)
  <2>1. UNCHANGED state /\ pick[c] = last[c] /\ pick' = [pick EXCEPT ![c] = head[0]]
    BY <1>0, <1>12 DEF PickSecond, PointOK, Heading
  <2>2. Pending(c) = NoProc /\ Pending(c)' = pick[c] /\ \A d \in Cpu : d # c => Pending(d)' = Pending(d)
    BY <1>0, <1>12, <2>1 DEF PickSecond, Pending, TypeOK
  <2>3. \A d \in Cpu : Pending(d) = p => Has(p)'
    BY <1>3, <2>2
  <2>4. \A d \in Cpu : pick[d] = p => Has(p)'
    BY <1>0, <1>3, <1>4, <2>1, <2>2 DEF TypeOK
  <2>5. Linked(p) => Has(p)'
    <3>1. CASE head[0] = NoProc
      BY <1>12, <1>5, <3>1 DEF PickSecond
    <3>2. CASE head[0] # NoProc
      BY <1>0, <1>12, <1>4, <1>6, <2>1, <3>2, QueueFacts DEF PickSecond, TypeOK
    <3> QED BY <3>1, <3>2
  <2> QED BY <1>2, <2>1, <2>3, <2>4, <2>5
<1>13. CASE Dispatch(c)
  <2>1. pick[c] \in Proc /\ UNCHANGED <<next, head, tail>>
    BY <1>0, <1>13 DEF Dispatch, PointOK, Heading, TypeOK
  <2>2. p # pick[c] /\ state[p] = "RUNNABLE"
    BY <1>0, <1>13, <2>1 DEF Dispatch, TypeOK
  <2>3. \A d \in Cpu : pick[d] = p => pick'[d] = p
    BY <1>0, <1>13, <2>2 DEF Dispatch, TypeOK
  <2>4. \A d \in Cpu : Pending(d)' = Pending(d)
    BY <1>0, <1>13 DEF Dispatch, Pending, TypeOK
  <2> QED BY <1>2, <1>3, <1>4, <1>5, <2>1, <2>2, <2>3, <2>4
<1>14. CASE Back(c)
  <2>1. UNCHANGED <<next, head, tail, pick>> /\ state[p] = "RUNNABLE"
    BY <1>0, <1>14 DEF Back, TypeOK
  <2>2. \A d \in Cpu : Pending(d)' = Pending(d)
    BY <1>0, <1>14 DEF Back, Pending, TypeOK
  <2> QED BY <1>2, <1>3, <1>4, <1>5, <2>1, <2>2
<1>15. CASE CheckBoost(c)
  <2>1. UNCHANGED <<next, head, tail, pick>> /\ state[p] = "RUNNABLE"
    BY <1>0, <1>15 DEF CheckBoost, TypeOK
  <2>2. \A d \in Cpu : Pending(d)' = Pending(d)
    BY <1>0, <1>15 DEF CheckBoost, Pending, TypeOK
  <2> QED BY <1>2, <1>3, <1>4, <1>5, <2>1, <2>2
<1>16. CASE ResetOne(c)
  <2>1. UNCHANGED <<next, head, tail, pick>> /\ state[p] = "RUNNABLE"
    BY <1>0, <1>16 DEF ResetOne, TypeOK
  <2>2. \A d \in Cpu : Pending(d)' = Pending(d)
    BY <1>0, <1>16 DEF ResetOne, Pending, TypeOK
  <2> QED BY <1>2, <1>3, <1>4, <1>5, <2>1, <2>2
<1>17. CASE DrainOne(c)
  <2>1. UNCHANGED <<state, pick>> /\ idx[c] \in Queue
    BY <1>17 DEF DrainOne
  <2>2. Pending(c) = NoProc /\ \A d \in Cpu : d # c => Pending(d)' = Pending(d)
    BY <1>0, <1>17 DEF DrainOne, Pending, TypeOK
  <2>3. CASE head[idx[c]] # NoProc
    <3>1. Unlink(idx[c]) /\ Pending(c)' = head[idx[c]]
      BY <1>0, <1>17, <2>3 DEF DrainOne, Pending, TypeOK
    <3>2. Linked(p) => Has(p)'
      BY <1>3, <1>6, <2>1, <2>3, <3>1
    <3> QED BY <1>2, <1>3, <1>4, <2>1, <2>2, <3>2
  <2>4. CASE head[idx[c]] = NoProc
    BY <1>17, <1>2, <1>3, <1>4, <1>5, <2>1, <2>2, <2>4 DEF DrainOne
  <2> QED BY <2>3, <2>4
<1>18. CASE DrainDone(c)
  <2>1. UNCHANGED <<next, head, tail, pick>> /\ state[p] = "RUNNABLE"
    BY <1>0, <1>18 DEF DrainDone, TypeOK
  <2>2. \A d \in Cpu : Pending(d)' = Pending(d)
    BY <1>0, <1>18 DEF DrainDone, Pending, TypeOK, Return, ControlOK, SchedPts
  <2> QED BY <1>2, <1>3, <1>4, <1>5, <2>1, <2>2
<1>19. CASE ChooseQueue(c)
  <2>1. arg[c] \in Proc /\ pc[c] = "enq" /\ UNCHANGED <<state, next, head, tail, pick>>
    BY <1>0, <1>19 DEF ChooseQueue, EnqueueLock, Enqueuing, TypeOK
  <2>2. mode = "MLFQ" => lev[arg[c]] \in 0..2
    BY <2>1, InRange
  <2>3. \A d \in Cpu : Pending(d)' = Pending(d)
    BY <1>0, <1>19, <2>1, <2>2 DEF ChooseQueue, Pending, TypeOK
  <2> QED BY <1>2, <1>3, <1>4, <1>5, <2>1, <2>3
<1>20. CASE Insert(c)
  <2>1. UNCHANGED <<state, pick>> /\ Pending(c) = arg[c]
    BY <1>0, <1>20 DEF Insert, Pending
  <2>2. \A d \in Cpu : d # c => Pending(d)' = Pending(d)
    BY <1>0, <1>20 DEF Insert, Pending, TypeOK
  <2>3. Linked(p) \/ p = arg[c] => Has(p)'
    BY <1>20, InsertLinked DEF Has
  <2> QED BY <1>2, <1>3, <1>4, <2>1, <2>2, <2>3
<1>21. CASE Resume(c)
  <2>1. UNCHANGED <<next, head, tail, pick>> /\ state[p] = "RUNNABLE"
    BY <1>0, <1>21 DEF Resume, TypeOK
  <2>2. \A d \in Cpu : Pending(d)' = Pending(d)
    BY <1>0, <1>21 DEF Resume, Pending, TypeOK
  <2> QED BY <1>2, <1>3, <1>4, <1>5, <2>1, <2>2
<1>22. CASE NoPreempt(c)
  <2>1. UNCHANGED <<next, head, tail, pick>> /\ state[p] = "RUNNABLE"
    BY <1>0, <1>22 DEF NoPreempt, TypeOK
  <2>2. \A d \in Cpu : Pending(d)' = Pending(d)
    BY <1>0, <1>22 DEF NoPreempt, Pending, TypeOK
  <2> QED BY <1>2, <1>3, <1>4, <1>5, <2>1, <2>2
<1>23. CASE ExitZombie(c)
  <2>1. UNCHANGED <<next, head, tail, pick>> /\ state[p] = "RUNNABLE"
    BY <1>0, <1>23 DEF ExitZombie, TypeOK
  <2>2. \A d \in Cpu : Pending(d)' = Pending(d)
    BY <1>0, <1>23 DEF ExitZombie, Pending, TypeOK
  <2> QED BY <1>2, <1>3, <1>4, <1>5, <2>1, <2>2
<1>24. CASE Sched(c)
  <2>1. UNCHANGED <<next, head, tail, pick>> /\ state[p] = "RUNNABLE"
    BY <1>0, <1>24 DEF Sched, TypeOK
  <2>2. \A d \in Cpu : Pending(d)' = Pending(d)
    BY <1>0, <1>24 DEF Sched, Pending, TypeOK
  <2> QED BY <1>2, <1>3, <1>4, <1>5, <2>1, <2>2
<1>25. CASE ForkStart(c)
  <2>1. UNCHANGED <<next, head, tail, pick>> /\ Pending(c) = NoProc /\ Pending(c)' = arg[c]
    BY <1>0, <1>25 DEF ForkStart, Pending, TypeOK
  <2>2. p # arg[c] => state[p] = "RUNNABLE"
    BY <1>0, <1>25 DEF ForkStart, TypeOK
  <2>3. \A d \in Cpu : d # c => Pending(d)' = Pending(d)
    BY <1>0, <1>25 DEF ForkStart, Pending, TypeOK
  <2> QED BY <1>2, <1>3, <1>4, <1>5, <2>1, <2>2, <2>3
<1>26. CASE WakeOne(c)
  <2>1. UNCHANGED <<next, head, tail, pick>> /\ Pending(c) = NoProc
    BY <1>0, <1>26 DEF WakeOne, Pending
  <2>2. \A d \in Cpu : d # c => Pending(d)' = Pending(d)
    BY <1>0, <1>26 DEF WakeOne, Pending, TypeOK
  <2>3. CASE UNCHANGED <<state, arg, pc>>
    BY <1>2, <1>3, <1>4, <1>5, <2>1, <2>2, <2>3 DEF Pending
  <2>4. CASE /\ state' = [state EXCEPT ![idx[c]] = "RUNNABLE"]
             /\ CallEnqueue(c, idx[c], "wake")
    <3>1. Pending(c)' = idx[c] /\ (p # idx[c] => state[p] = "RUNNABLE")
      BY <1>0, <2>4 DEF Pending, TypeOK
    <3> QED BY <1>2, <1>3, <1>4, <1>5, <2>1, <2>2, <3>1
  <2> QED BY <1>26, <2>3, <2>4 DEF WakeOne
<1>27. CASE WakeDone(c)
  <2>1. UNCHANGED <<next, head, tail, pick>> /\ state[p] = "RUNNABLE"
    BY <1>0, <1>27 DEF WakeDone, TypeOK
  <2>2. \A d \in Cpu : Pending(d)' = Pending(d)
    BY <1>0, <1>27 DEF WakeDone, Pending, TypeOK, Return, ControlOK, SchedPts
  <2> QED BY <1>2, <1>3, <1>4, <1>5, <2>1, <2>2
<1>28. CASE PanicAcquire(c)
  <2>1. UNCHANGED <<next, head, tail, pick>> /\ state[p] = "RUNNABLE"
    BY <1>0, <1>28 DEF PanicAcquire, TypeOK
  <2>2. \A d \in Cpu : Pending(d)' = Pending(d)
    BY <1>0, <1>28 DEF PanicAcquire, Pending, TypeOK, Wants
  <2> QED BY <1>2, <1>3, <1>4, <1>5, <2>1, <2>2
<1>29. CASE Yield(c)
  <2>1. UNCHANGED <<next, head, tail, pick>> /\ Pending(c) = NoProc /\ Pending(c)' = proc[c]
    BY <1>0, <1>29 DEF Yield, Pending, TypeOK
  <2>2. p # proc[c] => state[p] = "RUNNABLE"
    BY <1>0, <1>29 DEF Yield, TypeOK
  <2>3. \A d \in Cpu : d # c => Pending(d)' = Pending(d)
    BY <1>0, <1>29 DEF Yield, Pending, TypeOK
  <2> QED BY <1>2, <1>3, <1>4, <1>5, <2>1, <2>2, <2>3
<1>30. CASE Sleep(c)
  <2>1. UNCHANGED <<next, head, tail, pick>> /\ state[p] = "RUNNABLE"
    BY <1>0, <1>30 DEF Sleep, TypeOK
  <2>2. \A d \in Cpu : Pending(d)' = Pending(d)
    BY <1>0, <1>30 DEF Sleep, Pending, TypeOK
  <2> QED BY <1>2, <1>3, <1>4, <1>5, <2>1, <2>2
<1>31. CASE ExitWake(c)
  <2>1. UNCHANGED <<next, head, tail, pick>> /\ state[p] = "RUNNABLE"
    BY <1>0, <1>31 DEF ExitWake, TypeOK
  <2>2. \A d \in Cpu : Pending(d)' = Pending(d)
    BY <1>0, <1>31 DEF ExitWake, Pending, TypeOK
  <2> QED BY <1>2, <1>3, <1>4, <1>5, <2>1, <2>2
<1>32. CASE Fork(c)
  <2>1. UNCHANGED <<next, head, tail>>
    BY <1>32, ForkLists
  <2>2. UNCHANGED pick /\ state[p] = "RUNNABLE"
    BY <1>0, <1>32 DEF Fork, TypeOK
  <2>3. \A d \in Cpu : Pending(d)' = Pending(d)
    BY <1>0, <1>32 DEF Fork, Pending, TypeOK
  <2> QED BY <1>2, <1>3, <1>4, <1>5, <2>1, <2>2, <2>3
<1>33. CASE Reap(c)
  <2>1. UNCHANGED <<next, head, tail, pick>> /\ state[p] = "RUNNABLE"
    BY <1>0, <1>33 DEF Reap, TypeOK
  <2>2. \A d \in Cpu : Pending(d)' = Pending(d)
    BY <1>0, <1>33 DEF Reap, Pending, TypeOK
  <2> QED BY <1>2, <1>3, <1>4, <1>5, <2>1, <2>2
<1>34. CASE Kill(c)
  <2>1. PICK q \in Proc : state' = [state EXCEPT ![q] = "RUNNABLE"] /\ CallEnqueue(c, q, "run")
    BY <1>34 DEF Kill
  <2>2. UNCHANGED <<next, head, tail, pick>> /\ Pending(c) = NoProc /\ Pending(c)' = q
    BY <1>0, <1>34, <2>1 DEF Kill, Pending, TypeOK
  <2>3. p # q => state[p] = "RUNNABLE"
    BY <1>0, <2>1 DEF TypeOK
  <2>4. \A d \in Cpu : d # c => Pending(d)' = Pending(d)
    BY <1>0, <1>34 DEF Kill, Pending, TypeOK
  <2> QED BY <1>2, <1>3, <1>4, <1>5, <2>2, <2>3, <2>4
<1>35. CASE SetPriority(c)
  <2>1. UNCHANGED <<next, head, tail, pick>> /\ state[p] = "RUNNABLE"
    BY <1>0, <1>35 DEF SetPriority, TypeOK
  <2>2. \A d \in Cpu : Pending(d)' = Pending(d)
    BY <1>0, <1>35 DEF SetPriority, Pending, TypeOK
  <2> QED BY <1>2, <1>3, <1>4, <1>5, <2>1, <2>2
<1>36. CASE ClockIntr(c)
  <2>1. UNCHANGED <<next, head, tail, pick>> /\ state[p] = "RUNNABLE"
    BY <1>0, <1>36 DEF ClockIntr, TypeOK
  <2>2. \A d \in Cpu : Pending(d)' = Pending(d)
    BY <1>0, <1>36 DEF ClockIntr, Pending, TypeOK, TakesIntr, SchedPts
  <2> QED BY <1>2, <1>3, <1>4, <1>5, <2>1, <2>2
<1>37. CASE Wakeup(c)
  <2>1. UNCHANGED <<next, head, tail, pick>> /\ state[p] = "RUNNABLE"
    BY <1>0, <1>37 DEF Wakeup, TypeOK
  <2>2. \A d \in Cpu : Pending(d)' = Pending(d)
    BY <1>0, <1>37 DEF Wakeup, Pending, TypeOK, TakesIntr, SchedPts
  <2> QED BY <1>2, <1>3, <1>4, <1>5, <2>1, <2>2
<1>38. CASE MlfqMode(c)
  <2>1. UNCHANGED <<next, head, tail, pick>> /\ state[p] = "RUNNABLE"
    BY <1>0, <1>38 DEF MlfqMode, TypeOK
  <2>2. \A d \in Cpu : Pending(d)' = Pending(d)
    BY <1>0, <1>38 DEF MlfqMode, Pending, TypeOK
  <2> QED BY <1>2, <1>3, <1>4, <1>5, <2>1, <2>2
<1> QED BY <1>8, <1>9, <1>10, <1>11, <1>12, <1>13, <1>14, <1>15, <1>16, <1>17, <1>18,
     <1>19, <1>20, <1>21, <1>22, <1>23, <1>24, <1>25, <1>26, <1>27, <1>28, <1>29, <1>30,
     <1>31, <1>32, <1>33, <1>34, <1>35, <1>36, <1>37, <1>38, StepsOf

\* After boot only the first list has an element, init.
LEMMA InitLists == Init => ListOK
<1> SUFFICES ASSUME Init PROVE ListOK
  OBVIOUS
<1> DEFINE L == [q \in Queue |-> IF q = 0 THEN <<InitProc>> ELSE <<>>]
<1>1. InitProc \in Proc /\ 0 \in Queue /\ InitProc # NoProc
  BY ModelAssumption, QueueFacts DEF InitProc, Proc, NoProc
<1>2. L \in [Queue -> Seq(Proc)]
  BY <1>1
<1>3. \A q \in Queue : Len(L[q]) = (IF q = 0 THEN 1 ELSE 0) /\ (q = 0 => L[q][1] = InitProc)
  OBVIOUS
<1> HIDE DEF L
<1>4. Rep(L)
  BY <1>1, <1>3 DEF Init, Rep
<1> QED BY <1>2, <1>4 DEF ListOK

\* ListOK and its companions are invariants.
LEMMA ListsInvariant ==
  ASSUME "fcfsmode" \notin Ops
  PROVE  Spec => [](IInv /\ ListOK /\ PickOK /\ LevelOK /\ NoWild /\ Tracked)
<1>1. Init => ListOK
  BY InitLists
<1>2. Init => PickOK /\ LevelOK /\ NoWild
  BY ModelAssumption DEF Init, PickOK, LevelOK, NoWild
<1>3. Init => Tracked
  <2> SUFFICES ASSUME Init, NEW p \in Proc, state[p] = "RUNNABLE" PROVE Linked(p)
    BY DEF Tracked, Has
  <2> QED BY QueueFacts DEF Init, Linked
<1>4. IInv /\ IInv' /\ ListOK /\ PickOK /\ LevelOK /\ NoWild /\ Tracked /\ [Next]_vars
        => ListOK' /\ PickOK' /\ LevelOK' /\ NoWild' /\ Tracked'
  <2> SUFFICES ASSUME IInv, IInv', ListOK, PickOK, LevelOK, NoWild, Tracked, [Next]_vars
               PROVE  ListOK' /\ PickOK' /\ LevelOK' /\ NoWild' /\ Tracked'
    OBVIOUS
  <2>0. TypeOK /\ TypeOK'
    BY DEF IInv
  <2>1. CASE UNCHANGED vars
    <3>1. ListOK' /\ \A p \in Proc : Linked(p)' = Linked(p)
      BY <2>0, <2>1, ListsStay DEF vars
    <3>2. PickOK' /\ LevelOK' /\ NoWild'
      BY <2>1 DEF vars, PickOK, LevelOK, NoWild, Heading, Enqueuing
    <3>3. Tracked'
      BY <2>1, <3>1 DEF vars, Tracked, Has, Pending
    <3> QED BY <3>1, <3>2, <3>3
  <2>2. CASE Next
    <3>1. PICK c \in Cpu : CpuStep(c) \/ Request(c)
      BY <2>2 DEF Next
    <3> QED BY <2>0, <3>1, ListsKeep, PickKeeps, LevelKeeps, WildKeeps, TrackKeeps
  <2> QED BY <2>1, <2>2
<1> QED BY <1>1, <1>2, <1>3, <1>4, Inductive, PTL DEF Spec

\* The lists of enqueue() and dequeue() (proc.c:87-189) are well formed for any
\* number of processes and CPUs and every interleaving without fcfsmode(): they
\* end at their tails, and nothing outside them has a successor.
THEOREM ListsWellFormed ==
  ASSUME "fcfsmode" \notin Ops
  PROVE  Spec => []ListsSound
<1>1. IInv /\ ListOK => ListsSound
  BY ListFacts DEF IInv
<1> QED BY <1>1, ListsInvariant, PTL

\* A RUNNABLE process is in exactly one place from which it will be dispatched,
\* any other process in none, for any number of processes and CPUs, as long as
\* the mode does not change under another CPU.
THEOREM NeitherLostNorDoubled ==
  ASSUME "fcfsmode" \notin Ops, OneAtATime
  PROVE  Spec => []RunnableOnce
<1>1. IInv /\ ListOK /\ Tracked => RunnableOnce
  <2> SUFFICES ASSUME IInv, ListOK, Tracked, NEW p \in Proc
               PROVE  Cardinality(Claims(p)) = IF state[p] = "RUNNABLE" THEN 1 ELSE 0
    BY DEF RunnableOnce
  <2>1. /\ Linked(p) <=> \E q \in Queue : p \in List(q)
        /\ \A q, r \in Queue : p \in List(q) /\ p \in List(r) => q = r
    BY ListFacts DEF IInv
  <2>2. PlaceOK(p)
    BY DEF IInv, PlacesOK
  <2>3. CASE state[p] # "RUNNABLE"
    <3>1. ~Linked(p) /\ \A c \in Cpu : pick[c] # p /\ Pending(c) # p
      BY <2>3, NoPlace
    <3>2. Claims(p) = {}
      BY <2>1, <3>1 DEF Claims
    <3> QED BY <2>3, <3>2, FS_EmptySet
  <2>4. CASE state[p] = "RUNNABLE"
    <3>1. Has(p)
      BY <2>4 DEF Tracked
    <3>2. \E x : Claims(p) = {x}
      <4>1. CASE Linked(p)
        <5>1. PICK q \in Queue : p \in List(q)
          BY <2>1, <4>1
        <5>2. {r \in Queue : p \in List(r)} = {q}
          BY <2>1, <5>1
        <5>3. {c \in Cpu : pick[c] = p} = {} /\ {c \in Cpu : Pending(c) = p} = {}
          BY <2>2, <4>1 DEF PlaceOK
        <5>4. Claims(p) = {<<"list", q>>}
          BY <5>2, <5>3 DEF Claims
        <5> QED BY <5>4
      <4>2. ASSUME NEW c \in Cpu, pick[c] = p PROVE \E x : Claims(p) = {x}
        <5>1. {r \in Queue : p \in List(r)} = {}
          BY <2>1, <2>2, <4>2 DEF PlaceOK
        <5>2. {d \in Cpu : pick[d] = p} = {c} /\ {d \in Cpu : Pending(d) = p} = {}
          BY <2>2, <4>2 DEF PlaceOK
        <5>3. Claims(p) = {<<"pick", c>>}
          BY <5>1, <5>2 DEF Claims
        <5> QED BY <5>3
      <4>3. ASSUME NEW c \in Cpu, Pending(c) = p PROVE \E x : Claims(p) = {x}
        <5>1. {r \in Queue : p \in List(r)} = {}
          BY <2>1, <2>2, <4>3 DEF PlaceOK
        <5>2. {d \in Cpu : pick[d] = p} = {} /\ {d \in Cpu : Pending(d) = p} = {c}
          BY <2>2, <4>3 DEF PlaceOK
        <5>3. Claims(p) = {<<"enqueue", c>>}
          BY <5>1, <5>2 DEF Claims
        <5> QED BY <5>3
      <4> QED BY <3>1, <4>1, <4>2, <4>3 DEF Has
    <3> QED BY <2>4, <3>2, FS_Singleton
  <2> QED BY <2>3, <2>4
<1> QED BY <1>1, ListsInvariant, PTL

\* A process that runs in MLFQ mode has one of the three levels (test.c:70
\* reads it with getlev()), under the same condition.
THEOREM LevelsAreLevels ==
  ASSUME "fcfsmode" \notin Ops, OneAtATime
  PROVE  Spec => []GetlevInRange
<1>1. IInv /\ LevelOK => GetlevInRange
  <2> SUFFICES ASSUME IInv, LevelOK, NEW c \in Cpu, pc[c] = "run", mode = "MLFQ"
               PROVE  lev[proc[c]] \in 0..2
    BY DEF GetlevInRange
  <2>1. proc[c] \in Proc
    BY Executing
  <2> QED BY <2>1, InRange
<1> QED BY <1>1, ListsInvariant, PTL
-----------------------------------------------------------------------------
(* The order of the list in FCFS mode. *)

\* No two processes have the same pid, and a slot in use has one.
PidOK ==
  /\ \A p \in Proc : pid[p] < nextpid /\ (state[p] # "UNUSED" => pid[p] # 0)
  /\ \A p, q \in Proc : pid[p] = pid[q] /\ pid[p] # 0 => p = q

\* Whatever enqueue() links in FCFS mode, it links by pid.
SortOK ==
  mode = "FCFS" =>
    /\ \A c \in Cpu : pc[c] # "insM"
    /\ \A p \in Proc : next[p] # NoProc => pid[p] < pid[next[p]]

\* fork() hands out a new pid, wait() takes one back with the slot.
LEMMA PidKeeps ==
  ASSUME IInv, TypeOK', PidOK, "fcfsmode" \notin Ops,
         NEW c \in Cpu, CpuStep(c) \/ Request(c)
  PROVE  PidOK'
<1>0. TypeOK
  BY DEF IInv
<1>1. CASE Fork(c)
  <2>1. PICK np \in Proc : /\ pid' = [pid EXCEPT ![np] = nextpid]
                           /\ nextpid' = nextpid + 1
                           /\ state' = [state EXCEPT ![np] = "USED"]
    BY <1>1 DEF Fork
  <2>2. /\ nextpid \in Nat /\ pid'[np] = nextpid
        /\ \A p \in Proc : pid[p] \in Nat /\ pid[p] < nextpid
        /\ \A p \in Proc : p # np => pid'[p] = pid[p] /\ state'[p] = state[p]
    BY <1>0, <2>1 DEF TypeOK, PidOK
  <2>3. \A p \in Proc : pid'[p] < nextpid' /\ (state'[p] # "UNUSED" => pid'[p] # 0)
    BY <2>1, <2>2 DEF PidOK
  <2>4. \A p \in Proc : p # np => pid'[p] # nextpid
    BY <2>2
  <2>5. ASSUME NEW p \in Proc, NEW q \in Proc, pid'[p] = pid'[q], pid'[p] # 0 PROVE p = q
    BY <2>2, <2>4, <2>5 DEF PidOK
  <2> QED BY <2>3, <2>5 DEF PidOK
<1>2. CASE Reap(c)
  <2>1. PICK q \in Proc : /\ pid' = [pid EXCEPT ![q] = 0]
                          /\ state' = [state EXCEPT ![q] = "UNUSED"]
                          /\ UNCHANGED nextpid
    BY <1>2 DEF Reap
  <2>2. 0 < nextpid
    BY <1>0 DEF TypeOK, PidOK
  <2> QED BY <1>0, <2>1, <2>2 DEF TypeOK, PidOK
<1>3. ASSUME UNCHANGED <<pid, nextpid>>, \A p \in Proc : state[p] = "UNUSED" => state'[p] = "UNUSED"
      PROVE  PidOK'
  BY <1>3 DEF PidOK
<1>4. CASE Dispatch(c)
  <2>1. pick[c] \in Proc /\ state[pick[c]] = "RUNNABLE"
    BY <1>0, <1>4 DEF Dispatch, IInv, PointOK, Heading, PlacesOK, PlaceOK, TypeOK
  <2> QED BY <1>3, <1>4, <2>1 DEF Dispatch
<1>5. CASE Yield(c) \/ Sleep(c) \/ ExitZombie(c)
  <2>1. proc[c] \in Proc /\ state[proc[c]] = "RUNNING"
    BY <1>5, Executing DEF Yield, Sleep, ExitZombie
  <2>2. UNCHANGED <<pid, nextpid>> /\ \E s : state' = [state EXCEPT ![proc[c]] = s]
    BY <1>5 DEF Yield, Sleep, ExitZombie
  <2>3. \A p \in Proc : state[p] = "UNUSED" => state'[p] = "UNUSED"
    BY <1>0, <2>1, <2>2 DEF TypeOK
  <2> QED BY <1>3, <2>2, <2>3
<1>6. CASE ForkStart(c)
  <2>1. arg[c] \in Proc /\ state[arg[c]] = "USED"
    BY <1>0, <1>6 DEF ForkStart, IInv, ForkOK, TypeOK
  <2> QED BY <1>3, <1>6, <2>1 DEF ForkStart
<1>7. CASE WakeOne(c) \/ Kill(c)
  <2>1. UNCHANGED <<pid, nextpid>>
    BY <1>7 DEF WakeOne, Kill
  <2>2. UNCHANGED state \/ \E q \in Proc : /\ state[q] = "SLEEPING"
                                         /\ state' = [state EXCEPT ![q] = "RUNNABLE"]
    BY <1>7 DEF WakeOne, Wakeable, Kill
  <2>3. \A p \in Proc : state[p] = "UNUSED" => state'[p] = "UNUSED"
    BY <1>0, <2>2 DEF TypeOK
  <2> QED BY <1>3, <2>1, <2>3
<1>8. CASE UNCHANGED tableVars
  BY <1>3, <1>8
<1>9. \/ Fork(c) \/ Reap(c) \/ Dispatch(c) \/ Yield(c) \/ Sleep(c) \/ ExitZombie(c)
      \/ ForkStart(c) \/ WakeOne(c) \/ Kill(c) \/ UNCHANGED tableVars
  BY StepsOf DEF ReadMode, PickFirst, PickLevel, PeekHead, PickSecond, Back, CheckBoost,
     ResetOne, DrainOne, DrainDone, ChooseQueue, Insert, Resume, NoPreempt, Sched,
     WakeDone, PanicAcquire, ExitWake, SetPriority, ClockIntr, Wakeup, MlfqMode
<1> QED BY <1>1, <1>2, <1>4, <1>5, <1>6, <1>7, <1>8, <1>9

\* The list stays sorted: what leaves is its head, what comes is put by pid, and
\* a pid changes only outside the lists.
LEMMA SortKeeps ==
  ASSUME IInv, TypeOK', ListOK, PidOK, SortOK, "fcfsmode" \notin Ops,
         NEW c \in Cpu, CpuStep(c) \/ Request(c)
  PROVE  SortOK'
<1>0. TypeOK
  BY DEF IInv
<1>1. mode' = "FCFS" => mode = "FCFS" /\ \A d \in Cpu : pc'[d] # "insM"
  <2>1. mode' = "FCFS" => mode = "FCFS"
    BY StepsOf DEF ReadMode, PickFirst, PickLevel, PeekHead, PickSecond, Dispatch, Back,
       CheckBoost, ResetOne, DrainOne, DrainDone, ChooseQueue, Insert, Resume, NoPreempt,
       ExitZombie, Sched, ForkStart, WakeOne, WakeDone, PanicAcquire, Yield, Sleep, ExitWake,
       Fork, Reap, Kill, SetPriority, ClockIntr, Wakeup, MlfqMode
  <2>2. CASE UNCHANGED pc
    BY <2>1, <2>2 DEF SortOK
  <2>3. CASE \E l \in Points \ {"insM"} : pc' = [pc EXCEPT ![c] = l]
    BY <1>0, <2>1, <2>3 DEF SortOK, TypeOK
  <2>4. CASE ChooseQueue(c)
    <3>1. CASE mode = "FCFS"
      <4>1. pc' = [pc EXCEPT ![c] = "insF"]
        BY <2>4, <3>1 DEF ChooseQueue, Goto
      <4> QED BY <2>3, <4>1 DEF Points, CallPts
    <3>2. CASE mode # "FCFS"
      BY <2>1, <3>2
    <3> QED BY <3>1, <3>2
  <2>5. CASE Insert(c) \/ WakeDone(c) \/ DrainDone(c)
    <3>1. /\ ret[c] \in {"swtch", "run", "wake", "drain", "lock", "sched"}
          /\ after[c] \in {"sched", "deqF", "peek", "deq2", "deqM", "lock", "run",
                           "preempt", "exit"}
      BY DEF IInv, ControlOK, SchedPts
    <3>2. \E l \in Points \ {"insM"} : pc' = [pc EXCEPT ![c] = l]
      BY <2>5, <3>1 DEF Insert, WakeDone, DrainDone, Goto, Return, Points, SchedPts,
         ProcPts, CallPts
    <3> QED BY <2>3, <3>2
  <2>6. \/ ChooseQueue(c) \/ Insert(c) \/ WakeDone(c) \/ DrainDone(c) \/ UNCHANGED pc
        \/ \E l \in Points \ {"insM"} : pc' = [pc EXCEPT ![c] = l]
    BY StepsOf DEF ReadMode, PickFirst, PickLevel, PeekHead, PickSecond, Dispatch, Back,
       CheckBoost, ResetOne, DrainOne, Resume, NoPreempt, ExitZombie, Sched, ForkStart,
       WakeOne, PanicAcquire, Yield, Sleep, ExitWake, Fork, Reap, Kill, SetPriority,
       ClockIntr, Wakeup, MlfqMode, Goto, CallEnqueue, Points, SchedPts, ProcPts, CallPts
  <2> QED BY <2>2, <2>3, <2>4, <2>5, <2>6
<1> SUFFICES ASSUME mode' = "FCFS", mode = "FCFS"
             PROVE  \A p \in Proc : next'[p] # NoProc => pid'[p] < pid'[next'[p]]
  BY <1>1 DEF SortOK
<1>2. /\ \A d \in Cpu : pc[d] # "insM"
      /\ \A p \in Proc : next[p] # NoProc => pid[p] < pid[next[p]]
  BY DEF SortOK
<1>3. CASE UNCHANGED <<next, pid>>
  BY <1>2, <1>3
<1>4. ASSUME NEW q \in Queue, head[q] # NoProc, Unlink(q), UNCHANGED pid
      PROVE  \A p \in Proc : next'[p] # NoProc => pid'[p] < pid'[next'[p]]
  <2>1. next' = [next EXCEPT ![head[q]] = NoProc]
    BY <1>4 DEF Unlink
  <2>2. \A p \in Proc : next'[p] # NoProc => next'[p] = next[p]
    BY <1>0, <2>1 DEF TypeOK
  <2> QED BY <1>2, <1>4, <2>2
<1>5. CASE PickFirst(c) \/ PickSecond(c)
  BY <1>3, <1>4, <1>5, QueueFacts DEF PickFirst, PickSecond
<1>6. CASE PickLevel(c) \/ DrainOne(c)
  <2>1. lvl[c] \in Queue
    BY <1>0 DEF TypeOK
  <2> QED BY <1>3, <1>4, <1>6, <2>1 DEF PickLevel, DrainOne
<1>7. CASE Insert(c)
  <2>1. arg[c] \in Proc /\ ~Linked(arg[c]) /\ LinkByPid(arg[c]) /\ pid' = pid
    BY <1>2, <1>7, InsertLinked DEF Insert
  <2>2. state[arg[c]] = "RUNNABLE"
    BY <1>7, <2>1, NoPlace DEF Insert, Pending
  <2>3. \A x \in Proc : Linked(x) => x # arg[c] /\ state[x] = "RUNNABLE"
    BY <2>1, NoPlace
  <2>4. \A x \in Proc : Linked(x) => pid[x] # pid[arg[c]]
    BY <2>1, <2>2, <2>3 DEF PidOK
  <2> QED BY <1>0, <1>2, <2>1, <2>4, LinkByPidSorted
<1>8. ASSUME NEW x \in Proc, state[x] # "RUNNABLE", UNCHANGED next,
             \A p \in Proc : p # x => pid'[p] = pid[p]
      PROVE  \A p \in Proc : next'[p] # NoProc => pid'[p] < pid'[next'[p]]
  <2>1. ~Linked(x)
    BY <1>8, NoPlace
  <2>2. next[x] = NoProc
    BY <1>0, <2>1, ListFacts
  <2>3. \A p \in Proc : next[p] # x
    BY <2>1 DEF Linked
  <2>4. \A p \in Proc : next[p] # NoProc => next[p] \in Proc
    BY <1>0 DEF TypeOK
  <2> QED BY <1>2, <1>8, <2>2, <2>3, <2>4
<1>9. CASE Fork(c)
  <2>1. UNCHANGED next
    BY <1>9, ForkLists
  <2>2. PICK np \in Proc : state[np] = "UNUSED" /\ pid' = [pid EXCEPT ![np] = nextpid]
    BY <1>9 DEF Fork
  <2>3. \A p \in Proc : p # np => pid'[p] = pid[p]
    BY <1>0, <2>2 DEF TypeOK
  <2> QED BY <1>8, <2>1, <2>2, <2>3
<1>10. CASE Reap(c)
  <2>1. PICK q \in Proc : state[q] = "ZOMBIE" /\ pid' = [pid EXCEPT ![q] = 0] /\ UNCHANGED next
    BY <1>10 DEF Reap
  <2>2. \A p \in Proc : p # q => pid'[p] = pid[p]
    BY <1>0, <2>1 DEF TypeOK
  <2> QED BY <1>8, <2>1, <2>2
<1>11. \/ PickFirst(c) \/ PickSecond(c) \/ PickLevel(c) \/ DrainOne(c) \/ Insert(c) \/ Fork(c)
       \/ Reap(c) \/ UNCHANGED <<next, pid>>
  BY StepsOf DEF ReadMode, PeekHead, Dispatch, Back, CheckBoost, ResetOne, DrainDone,
     ChooseQueue, Resume, NoPreempt, ExitZombie, Sched, ForkStart, WakeOne, WakeDone,
     PanicAcquire, Yield, Sleep, ExitWake, Kill, SetPriority, ClockIntr, Wakeup, MlfqMode
<1> QED BY <1>3, <1>5, <1>6, <1>7, <1>9, <1>10, <1>11

\* In FCFS mode the list is by pid (proc.c:96-125), for any number of processes
\* and CPUs: every successor on a list was created later.
THEOREM OldestComesFirst ==
  ASSUME "fcfsmode" \notin Ops
  PROVE  Spec => []OldestFirst
<1>1. Init => PidOK /\ SortOK
  BY NoneFacts DEF Init, PidOK, SortOK
<1>2. IInv /\ IInv' /\ ListOK /\ PidOK /\ SortOK /\ [Next]_vars => PidOK' /\ SortOK'
  <2> SUFFICES ASSUME IInv, IInv', ListOK, PidOK, SortOK, [Next]_vars PROVE PidOK' /\ SortOK'
    OBVIOUS
  <2>1. CASE UNCHANGED vars
    BY <2>1 DEF vars, PidOK, SortOK
  <2>2. CASE Next
    <3>1. PICK c \in Cpu : CpuStep(c) \/ Request(c)
      BY <2>2 DEF Next
    <3> QED BY <3>1, PidKeeps, SortKeeps DEF IInv
  <2> QED BY <2>1, <2>2
<1>3. SortOK => OldestFirst
  BY DEF SortOK, OldestFirst, List
<1> QED BY <1>1, <1>2, <1>3, Inductive, ListsInvariant, PTL DEF Spec
-----------------------------------------------------------------------------
(* The queue a process is in, in MLFQ mode. *)

\* What a control point says of the mode, if the mode does not change under
\* another CPU: mlfqinit() and the insertion by level belong to MLFQ mode, what
\* scheduler() does about one list to FCFS mode.
ModeOK ==
  \A c \in Cpu :
    /\ Busy(c, {"reset", "drain"}) => mode = "MLFQ"
    /\ pc[c] = "insM" => mode = "MLFQ"
    /\ \/ pc[c] = "insF"
       \/ Heading(c, {"deqF", "peek", "deq2"})
       \/ Enqueuing(c) /\ ret[c] \in {"lock", "sched"}
       => mode = "FCFS"

\* In FCFS mode there are no levels and only the first list is used.
FcfsOK ==
  mode = "FCFS" => /\ \A p \in Proc : lev[p] \notin 0..2
                   /\ \A q \in Queue : q # 0 => head[q] = NoProc

\* The index enqueue() has computed is still that of its process.
EqOK == \A c \in Cpu : pc[c] = "insM" => eq[c] = QueueOf(arg[c])

\* mlfqinit() has still to empty the queue.
Sweeping(q) ==
  \E c \in Cpu : \/ pc[c] = "reset" /\ q > 0
                 \/ Busy(c, {"drain"}) /\ q >= idx[c]

\* A process is out of its queue only until the sweep comes to it, or to the
\* process itself.
QueuesOK ==
  mode = "MLFQ" => \A q \in Queue : \A p \in List(q) :
    \/ QueueOf(p) = q
    \/ lev[p] = 0 /\ Sweeping(q)
    \/ lev[p] \notin 0..2 /\ q = 0

ByLevelOK == ModeOK /\ FcfsOK /\ EqOK /\ QueuesOK

\* A step of one CPU leaves the variables of the others alone.
LEMMA OthersStay ==
  ASSUME IInv, "fcfsmode" \notin Ops, NEW c \in Cpu, CpuStep(c) \/ Request(c),
         NEW d \in Cpu, d # c
  PROVE  /\ pc'[d] = pc[d] /\ ret'[d] = ret[d] /\ idx'[d] = idx[d]
         /\ eq'[d] = eq[d] /\ arg'[d] = arg[d]
<1>0. TypeOK
  BY DEF IInv
<1> USE <1>0 DEF TypeOK, Goto, Return, CallEnqueue
<1>1. CASE ReadMode(c)
  BY <1>1 DEF ReadMode
<1>2. CASE PickFirst(c)
  BY <1>2 DEF PickFirst, Unlink
<1>3. CASE PickLevel(c)
  BY <1>3 DEF PickLevel, Unlink
<1>4. CASE PeekHead(c)
  BY <1>4 DEF PeekHead
<1>5. CASE PickSecond(c)
  BY <1>5 DEF PickSecond, Unlink
<1>6. CASE Dispatch(c)
  BY <1>6 DEF Dispatch
<1>7. CASE Back(c)
  BY <1>7 DEF Back
<1>8. CASE CheckBoost(c)
  BY <1>8 DEF CheckBoost
<1>9. CASE ResetOne(c)
  BY <1>9 DEF ResetOne, FirstDrained
<1>10. CASE DrainOne(c)
  BY <1>10 DEF DrainOne, Unlink
<1>11. CASE DrainDone(c)
  BY <1>11 DEF DrainDone
<1>12. CASE ChooseQueue(c)
  BY <1>12 DEF ChooseQueue
<1>13. CASE Insert(c)
  BY <1>13 DEF Insert, ReleasesAt
<1>14. CASE Resume(c)
  BY <1>14 DEF Resume
<1>15. CASE NoPreempt(c)
  BY <1>15 DEF NoPreempt
<1>16. CASE ExitZombie(c)
  BY <1>16 DEF ExitZombie
<1>17. CASE Sched(c)
  BY <1>17 DEF Sched
<1>18. CASE ForkStart(c)
  BY <1>18 DEF ForkStart
<1>19. CASE WakeOne(c)
  BY <1>19 DEF WakeOne, Wakeable
<1>20. CASE WakeDone(c)
  BY <1>20 DEF WakeDone
<1>21. CASE PanicAcquire(c)
  BY <1>21 DEF PanicAcquire
<1>22. CASE Yield(c)
  BY <1>22 DEF Yield
<1>23. CASE Sleep(c)
  BY <1>23 DEF Sleep
<1>24. CASE ExitWake(c)
  BY <1>24 DEF ExitWake
<1>25. CASE Fork(c)
  BY <1>25 DEF Fork
<1>26. CASE Reap(c)
  BY <1>26 DEF Reap
<1>27. CASE Kill(c)
  BY <1>27 DEF Kill
<1>28. CASE SetPriority(c)
  BY <1>28 DEF SetPriority
<1>29. CASE ClockIntr(c)
  BY <1>29 DEF ClockIntr
<1>30. CASE Wakeup(c)
  BY <1>30 DEF Wakeup
<1>31. CASE MlfqMode(c)
  BY <1>31 DEF MlfqMode
<1> QED BY <1>1, <1>2, <1>3, <1>4, <1>5, <1>6, <1>7, <1>8, <1>9, <1>10, <1>11, <1>12,
     <1>13, <1>14, <1>15, <1>16, <1>17, <1>18, <1>19, <1>20, <1>21, <1>22, <1>23, <1>24,
     <1>25, <1>26, <1>27, <1>28, <1>29, <1>30, <1>31, StepsOf

\* Level and priority change in a process that runs, that is being created, or
\* that mlfqinit() resets.
LEMMA FieldsStep ==
  ASSUME IInv, "fcfsmode" \notin Ops, "setpriority" \notin Ops,
         NEW c \in Cpu, CpuStep(c) \/ Request(c), NEW p \in Proc
  PROVE  \/ lev'[p] = lev[p] /\ prio'[p] = prio[p]
         \/ state[p] \in {"RUNNING", "UNUSED"} /\ (mode = "FCFS" => lev'[p] = -1)
         \/ pc[c] = "reset" /\ pc' = pc /\ plock[p] = NoCpu /\ lev'[p] = 0
<1>0. TypeOK
  BY DEF IInv
<1>1. CASE Yield(c) \/ Sleep(c)
  <2>1. proc[c] \in Proc /\ state[proc[c]] = "RUNNING"
    BY <1>1, Executing DEF Yield, Sleep
  <2>2. Charge(proc[c])
    BY <1>1 DEF Yield, Sleep
  <2>3. CASE mode = "FCFS"
    BY <2>2, <2>3 DEF Charge
  <2>4. CASE mode # "FCFS"
    BY <1>0, <2>1, <2>2, <2>4 DEF Charge, TypeOK
  <2> QED BY <2>3, <2>4
<1>2. CASE Fork(c)
  <2>1. PICK np \in Proc :
          /\ state[np] = "UNUSED"
          /\ lev' = [lev EXCEPT ![np] = IF mode = "FCFS" THEN -1 ELSE 0]
          /\ prio' = [prio EXCEPT ![np] = IF mode = "FCFS" THEN -1 ELSE MAXPRIO]
    BY <1>2 DEF Fork
  <2> QED BY <1>0, <2>1 DEF TypeOK
<1>3. CASE ResetOne(c)
  <2>1. CASE idx[c] \in Proc
    <3>1. /\ pc[c] = "reset" /\ pc' = pc /\ plock[idx[c]] = NoCpu
          /\ lev' = [lev EXCEPT ![idx[c]] = 0]
          /\ prio' = [prio EXCEPT ![idx[c]] = MAXPRIO]
      BY <1>3, <2>1 DEF ResetOne, ResetFields
    <3> QED BY <1>0, <3>1 DEF TypeOK
  <2>2. CASE idx[c] \notin Proc
    BY <1>3, <2>2 DEF ResetOne
  <2> QED BY <2>1, <2>2
<1>4. Yield(c) \/ Sleep(c) \/ Fork(c) \/ ResetOne(c) \/ UNCHANGED fieldVars
  BY StepsOf DEF ReadMode, PickFirst, PickLevel, PeekHead, PickSecond, Dispatch, Back,
     CheckBoost, DrainOne, DrainDone, ChooseQueue, Insert, Resume, NoPreempt,
     ExitZombie, Sched, ForkStart, WakeOne, WakeDone, PanicAcquire, ExitWake,
     Reap, Kill, SetPriority, ClockIntr, Wakeup, MlfqMode
<1> QED BY <1>1, <1>2, <1>3, <1>4

\* Only enqueue() adds to a list.
LEMMA ListsShrink ==
  ASSUME IInv, TypeOK', ListOK, "fcfsmode" \notin Ops,
         NEW c \in Cpu, CpuStep(c) \/ Request(c), ~Insert(c)
  PROVE  \A r \in Queue : List(r)' \subseteq List(r)
<1>0. TypeOK
  BY DEF IInv
<1>1. CASE UNCHANGED <<next, head, tail>>
  BY <1>0, <1>1, ListsStay
<1>2. ASSUME NEW q \in Queue, head[q] # NoProc, Unlink(q)
      PROVE  \A r \in Queue : List(r)' \subseteq List(r)
  BY <1>0, <1>2, UnlinkLists
<1>3. CASE PickFirst(c)
  BY <1>1, <1>2, <1>3, QueueFacts DEF PickFirst
<1>4. CASE PickLevel(c)
  <2>1. lvl[c] \in Queue
    BY <1>0 DEF TypeOK
  <2> QED BY <1>1, <1>2, <1>4, <2>1 DEF PickLevel
<1>5. CASE PickSecond(c)
  BY <1>1, <1>2, <1>5, QueueFacts DEF PickSecond
<1>6. CASE DrainOne(c)
  BY <1>1, <1>2, <1>6 DEF DrainOne
<1>8. CASE Fork(c)
  BY <1>1, <1>8, ForkLists
<1>9. PickFirst(c) \/ PickLevel(c) \/ PickSecond(c) \/ DrainOne(c)
        \/ Fork(c) \/ UNCHANGED <<next, head, tail>>
  BY StepsOf DEF ReadMode, PeekHead, Dispatch, Back, CheckBoost, ResetOne, DrainDone,
     ChooseQueue, Resume, NoPreempt, ExitZombie, Sched, ForkStart, WakeOne, WakeDone,
     PanicAcquire, Yield, Sleep, ExitWake, Reap, Kill, SetPriority, ClockIntr, Wakeup,
     MlfqMode
<1> QED BY <1>1, <1>3, <1>4, <1>5, <1>6, <1>8, <1>9

\* A list without a head is empty.
LEMMA EmptyList ==
  ASSUME TypeOK, ListOK, NEW q \in Queue, head[q] = NoProc
  PROVE  List(q) = {}
<1>1. PICK L \in [Queue -> Seq(Proc)] : Rep(L)
  BY DEF ListOK
<1>2. List(q) = {L[q][i] : i \in 1..Len(L[q])}
  BY <1>1, ListIs
<1>3. L[q] \in Seq(Proc) /\ Len(L[q]) \in Nat /\ \A i \in 1..Len(L[q]) : L[q][i] \in Proc
  OBVIOUS
<1>4. Len(L[q]) = 0
  <2>3. head[q] = IF Len(L[q]) = 0 THEN NoProc ELSE L[q][1]
    BY <1>1 DEF Rep
  <2> SUFFICES ASSUME Len(L[q]) # 0 PROVE FALSE
    OBVIOUS
  <2>1. 1 \in 1..Len(L[q])
    BY <1>3
  <2>2. L[q][1] \in Proc
    BY <1>3, <2>1
  <2> QED BY <2>2, <2>3, NoneFacts
<1> QED BY <1>2, <1>4

\* Every step keeps ModeOK.
LEMMA ModeKeeps ==
  ASSUME IInv, TypeOK', ModeOK, OneAtATime, "fcfsmode" \notin Ops,
         NEW c \in Cpu, CpuStep(c) \/ Request(c)
  PROVE  ModeOK'
<1>0. TypeOK /\ ControlOK
  BY DEF IInv
<1> USE <1>0 DEF TypeOK, ModeOK, Busy, Heading, Enqueuing, Goto, Return, CallEnqueue
<1>1. CASE ReadMode(c)
  BY <1>1 DEF ReadMode
<1>2. CASE PickFirst(c)
  BY <1>2 DEF PickFirst, Unlink
<1>3. CASE PickLevel(c)
  BY <1>3 DEF PickLevel, Unlink
<1>4. CASE PeekHead(c)
  BY <1>4 DEF PeekHead
<1>5. CASE PickSecond(c)
  BY <1>5 DEF PickSecond, Unlink
<1>6. CASE Dispatch(c)
  BY <1>6 DEF Dispatch
<1>7. CASE Back(c)
  BY <1>7 DEF Back
<1>8. CASE CheckBoost(c)
  BY <1>8 DEF CheckBoost
<1>9. CASE ResetOne(c)
  BY <1>9 DEF ResetOne, FirstDrained
<1>10. CASE DrainOne(c)
  BY <1>10 DEF DrainOne, Unlink
<1>11. CASE DrainDone(c)
  BY <1>11 DEF DrainDone
<1>12. CASE ChooseQueue(c)
  BY <1>12 DEF ChooseQueue
<1>13. CASE Insert(c)
  BY <1>13 DEF Insert, ReleasesAt, ControlOK
<1>14. CASE Resume(c)
  BY <1>14 DEF Resume
<1>15. CASE NoPreempt(c)
  BY <1>15 DEF NoPreempt
<1>16. CASE ExitZombie(c)
  BY <1>16 DEF ExitZombie
<1>17. CASE Sched(c)
  BY <1>17 DEF Sched
<1>18. CASE ForkStart(c)
  BY <1>18 DEF ForkStart
<1>19. CASE WakeOne(c)
  BY <1>19 DEF WakeOne, Wakeable
<1>20. CASE WakeDone(c)
  BY <1>20 DEF WakeDone, ControlOK, SchedPts
<1>21. CASE PanicAcquire(c)
  BY <1>21 DEF PanicAcquire
<1>22. CASE Yield(c)
  BY <1>22 DEF Yield
<1>23. CASE Sleep(c)
  BY <1>23 DEF Sleep
<1>24. CASE ExitWake(c)
  BY <1>24 DEF ExitWake
<1>25. CASE Fork(c)
  BY <1>25 DEF Fork
<1>26. CASE Reap(c)
  BY <1>26 DEF Reap
<1>27. CASE Kill(c)
  BY <1>27 DEF Kill
<1>28. CASE SetPriority(c)
  BY <1>28 DEF SetPriority
<1>29. CASE ClockIntr(c)
  BY <1>29 DEF ClockIntr, ClockIntr, TakesIntr, SchedPts
<1>30. CASE Wakeup(c)
  BY <1>30 DEF Wakeup, TakesIntr, SchedPts
<1>31. CASE MlfqMode(c)
  <2>1. /\ mode' = "MLFQ" /\ pc' = [pc EXCEPT ![c] = "reset"]
        /\ after' = [after EXCEPT ![c] = "run"] /\ "mlfqmode" \in Ops
    BY <1>31 DEF MlfqMode
  <2>2. \A d \in Cpu : d = c
    BY <2>1 DEF OneAtATime, Cpu
  <2> QED BY <2>1, <2>2
<1> QED BY <1>1, <1>2, <1>3, <1>4, <1>5, <1>6, <1>7, <1>8, <1>9, <1>10, <1>11, <1>12,
     <1>13, <1>14, <1>15, <1>16, <1>17, <1>18, <1>19, <1>20, <1>21, <1>22, <1>23, <1>24,
     <1>25, <1>26, <1>27, <1>28, <1>29, <1>30, <1>31, StepsOf

\* Every step keeps FcfsOK: what enqueue() links in FCFS mode goes to list 0.
LEMMA FcfsKeeps ==
  ASSUME IInv, TypeOK', ModeOK, FcfsOK, "fcfsmode" \notin Ops, "setpriority" \notin Ops,
         NEW c \in Cpu, CpuStep(c) \/ Request(c)
  PROVE  FcfsOK'
<1>0. TypeOK
  BY DEF IInv
<1>1. mode' = "FCFS" => mode = "FCFS"
  BY StepsOf DEF ReadMode, PickFirst, PickLevel, PeekHead, PickSecond, Dispatch, Back,
     CheckBoost, ResetOne, DrainOne, DrainDone, ChooseQueue, Insert, Resume, NoPreempt,
     ExitZombie, Sched, ForkStart, WakeOne, WakeDone, PanicAcquire, Yield, Sleep, ExitWake,
     Fork, Reap, Kill, SetPriority, ClockIntr, Wakeup, MlfqMode
<1> SUFFICES ASSUME mode = "FCFS"
             PROVE  /\ \A p \in Proc : lev'[p] \notin 0..2
                    /\ \A q \in Queue : q # 0 => head'[q] = NoProc
  BY <1>1 DEF FcfsOK
<1>2. \A p \in Proc : lev'[p] \notin 0..2
  <2>1. pc[c] # "reset"
    BY DEF ModeOK, Busy
  <2> QED BY <2>1, FieldsStep DEF FcfsOK
<1> SUFFICES \A r \in Queue : r # 0 => head'[r] = NoProc
  BY <1>2
<1>3. ASSUME NEW q \in Queue, head[q] # NoProc, Unlink(q)
      PROVE  \A r \in Queue : r # 0 => head'[r] = NoProc
  <2>1. q = 0 /\ head' = [head EXCEPT ![q] = next[head[q]]]
    BY <1>3 DEF FcfsOK, Unlink
  <2> QED BY <1>0, <2>1 DEF TypeOK, FcfsOK
<1>4. CASE UNCHANGED head
  BY <1>4 DEF FcfsOK
<1>5. CASE Insert(c)
  <2>1. LinkByPid(arg[c])
    BY <1>5 DEF Insert, ModeOK
  <2>2. \A r \in Queue : r # 0 => head'[r] = head[r]
    BY <1>0, <2>1 DEF LinkByPid, TypeOK
  <2> QED BY <2>2 DEF FcfsOK
<1>6. CASE PickFirst(c) \/ PickSecond(c)
  BY <1>3, <1>4, <1>6, QueueFacts DEF PickFirst, PickSecond
<1>7. CASE PickLevel(c) \/ DrainOne(c)
  <2>1. lvl[c] \in Queue
    BY <1>0 DEF TypeOK
  <2> QED BY <1>3, <1>4, <1>7, <2>1 DEF PickLevel, DrainOne
<1>8. PickFirst(c) \/ PickSecond(c) \/ PickLevel(c) \/ DrainOne(c) \/ Insert(c) \/ UNCHANGED head
  BY StepsOf DEF ReadMode, PeekHead, Dispatch, Back, CheckBoost, ResetOne, DrainDone,
     ChooseQueue, Resume, NoPreempt, ExitZombie, Sched, ForkStart, WakeOne, WakeDone,
     PanicAcquire, Yield, Sleep, ExitWake, Fork, Reap, Kill, SetPriority, ClockIntr,
     Wakeup, MlfqMode
<1> QED BY <1>4, <1>5, <1>6, <1>7, <1>8

\* The locks keep mlfqinit() from the process until enqueue() has linked it.
LEMMA EqKeeps ==
  ASSUME IInv, TypeOK', LocksOK, ModeOK, EqOK, "fcfsmode" \notin Ops, "setpriority" \notin Ops,
         NEW c \in Cpu, CpuStep(c) \/ Request(c)
  PROVE  EqOK'
<1>0. TypeOK /\ EnqueueLock /\ ControlOK
  BY DEF IInv
<1> SUFFICES ASSUME NEW d \in Cpu, pc'[d] = "insM" PROVE eq'[d] = QueueOf(arg[d])' 
  BY DEF EqOK
<1>1. CASE d = c
  <2>1. CASE ChooseQueue(c)
    <3>1. /\ UNCHANGED <<arg, lev, prio>>
          /\ eq' = [eq EXCEPT ![c] = QueueOf(arg[c])]
      BY <1>0, <1>1, <2>1 DEF ChooseQueue, Goto, TypeOK
    <3> QED BY <1>0, <1>1, <3>1 DEF QueueOf, TypeOK
  <2>2. CASE Insert(c) \/ WakeDone(c) \/ DrainDone(c)
    BY <1>0, <1>1, <2>2 DEF Insert, WakeDone, DrainDone, Goto, Return, ControlOK,
       SchedPts, TypeOK
  <2>3. \/ ChooseQueue(c) \/ Insert(c) \/ WakeDone(c) \/ DrainDone(c)
        \/ pc[c] # "insM" /\ UNCHANGED pc
        \/ \E l \in Points \ {"insM"} : pc' = [pc EXCEPT ![c] = l]
    BY StepsOf DEF ReadMode, PickFirst, PickLevel, PeekHead, PickSecond, Dispatch, Back,
       CheckBoost, ResetOne, DrainOne, Resume, NoPreempt, ExitZombie, Sched, ForkStart,
       WakeOne, PanicAcquire, Yield, Sleep, ExitWake, Fork, Reap, Kill, SetPriority,
       ClockIntr, Wakeup, MlfqMode, Goto, CallEnqueue, Points, SchedPts, ProcPts, CallPts
  <2> QED BY <1>0, <1>1, <2>1, <2>2, <2>3 DEF TypeOK
<1>2. CASE d # c
  <2> DEFINE a == arg[d]
  <2>1. pc[d] = "insM" /\ eq'[d] = eq[d] /\ arg'[d] = a /\ Enqueuing(d)
    BY <1>2, OthersStay DEF Enqueuing
  <2>2. a \in Proc /\ state[a] = "RUNNABLE"
    <3>1. a \in Proc
      BY <1>0, <2>1 DEF EnqueueLock, TypeOK
    <3> QED BY <2>1, <3>1, NoPlace DEF Pending
  <2>3. ~(pc[c] = "reset" /\ plock[a] = NoCpu)
    <3> SUFFICES ASSUME pc[c] = "reset", plock[a] = NoCpu PROVE FALSE
      OBVIOUS
    <3>1. modeLock = c
      BY DEF LocksOK, Busy
    <3>2. ret[d] # "drain"
      BY <1>2, <2>1, <3>1 DEF LocksOK, Busy
    <3>3. ret[d] \notin {"lock", "sched"}
      BY <2>1 DEF ModeOK
    <3>4. ret[d] \in {"swtch", "run", "wake"}
      BY <1>0, <3>2, <3>3 DEF ControlOK
    <3>5. a \in Held(d)
      BY <2>1, <3>4 DEF Held
    <3>6. plock[a] = d
      BY <2>1, <2>2, <3>5 DEF LocksOK
    <3> QED BY <3>6, NoneFacts
  <2>4. lev'[a] = lev[a] /\ prio'[a] = prio[a]
    BY <2>2, <2>3, FieldsStep
  <2>5. eq[d] = QueueOf(a)
    BY <2>1 DEF EqOK
  <2> QED BY <2>1, <2>4, <2>5 DEF QueueOf
<1> QED BY <1>1, <1>2

\* The sweep leaves a queue behind only when it is empty.
LEMMA SweepKeeps ==
  ASSUME IInv, TypeOK', ListOK, NoWild', NoneStopped', OneAtATime, "fcfsmode" \notin Ops,
         NEW c \in Cpu, CpuStep(c) \/ Request(c),
         NEW q \in Queue, Sweeping(q), List(q) # {}
  PROVE  Sweeping(q)'
<1>0. TypeOK /\ ControlOK
  BY DEF IInv
<1>1. PICK d \in Cpu : \/ pc[d] = "reset" /\ q > 0
                       \/ Busy(d, {"drain"}) /\ q >= idx[d]
  BY DEF Sweeping
<1>2. ASSUME \/ pc'[d] = "reset" /\ q > 0
             \/ Busy(d, {"drain"})' /\ q >= idx'[d]
      PROVE  Sweeping(q)'
  BY <1>2 DEF Sweeping
<1>3. CASE d # c
  BY <1>1, <1>2, <1>3, OthersStay DEF Busy, Enqueuing
<1>4. CASE d = c
  <2>1. pc[c] \in {"reset", "drain"} \/ (Enqueuing(c) /\ ret[c] = "drain")
    BY <1>1, <1>4 DEF Busy
  <2>2. ResetOne(c) \/ DrainOne(c) \/ DrainDone(c) \/ ChooseQueue(c) \/ Insert(c)
    <3>1. ~PanicAcquire(c)
      BY <1>0 DEF PanicAcquire, Goto, NoneStopped, TypeOK
    <3> QED BY <2>1, <3>1, StepsOf DEF Enqueuing, ReadMode, PickFirst, PickLevel, PeekHead,
       PickSecond, Dispatch, Back, CheckBoost, Resume, NoPreempt, ExitZombie, Sched,
       ForkStart, WakeOne, WakeDone, Yield, Sleep, ExitWake, Fork, Reap, Kill, SetPriority,
       ClockIntr, Wakeup, MlfqMode, TakesIntr, SchedPts
  <2>3. CASE ResetOne(c)
    <3>1. pc[c] = "reset" /\ q > 0
      BY <1>1, <1>4, <2>3 DEF ResetOne, Busy, Enqueuing
    <3>2. CASE idx[c] \in Proc
      BY <1>2, <1>4, <2>3, <3>1, <3>2 DEF ResetOne
    <3>3. CASE idx[c] \notin Proc
      <4>1. pc'[c] = "drain" /\ idx'[c] = 1
        BY <1>0, <2>3, <3>3 DEF ResetOne, Goto, FirstDrained, TypeOK
      <4> QED BY <1>2, <1>4, <3>1, <4>1 DEF Busy, Queue
    <3> QED BY <3>2, <3>3
  <2>4. CASE DrainOne(c)
    <3>1. pc[c] = "drain" /\ q >= idx[c] /\ idx[c] \in Queue
      BY <1>1, <1>4, <2>4 DEF DrainOne, Busy, Enqueuing
    <3>2. CASE head[idx[c]] # NoProc
      <4>1. pc'[c] = "enq" /\ ret'[c] = "drain" /\ idx'[c] = idx[c]
        BY <1>0, <2>4, <3>2 DEF DrainOne, CallEnqueue, Goto, TypeOK
      <4> QED BY <1>2, <1>4, <3>1, <4>1 DEF Busy, Enqueuing
    <3>3. CASE head[idx[c]] = NoProc
      <4>1. pc'[c] = "drain" /\ idx'[c] = idx[c] + 1
        BY <1>0, <2>4, <3>1, <3>3 DEF DrainOne, TypeOK
      <4>2. q # idx[c]
        BY <1>0, <3>1, <3>3, EmptyList
      <4>3. q >= idx[c] + 1
        BY <3>1, <4>2 DEF Queue
      <4> QED BY <1>2, <1>4, <4>1, <4>3 DEF Busy
    <3> QED BY <3>2, <3>3
  <2>5. CASE DrainDone(c)
    <3>1. q >= idx[c] /\ idx[c] > LastQ /\ idx[c] \in Nat
      BY <1>0, <1>1, <1>4, <2>5 DEF DrainDone, Busy, Enqueuing, TypeOK
    <3> QED BY <3>1, ModelAssumption DEF Queue, LastQ
  <2>6. CASE ChooseQueue(c)
    <3>1. ret[c] = "drain" /\ q >= idx[c]
      BY <1>1, <1>4, <2>6 DEF ChooseQueue, Busy
    <3>2. ret'[c] = "drain" /\ idx'[c] = idx[c]
      BY <2>6, <3>1 DEF ChooseQueue
    <3>3. pc'[c] \in {"insF", "insM"}
      <4>1. pc'[c] # "wild"
        BY DEF NoWild
      <4> QED BY <1>0, <2>6, <4>1 DEF ChooseQueue, Goto, TypeOK
    <3> QED BY <1>2, <1>4, <3>1, <3>2, <3>3 DEF Busy, Enqueuing
  <2>7. CASE Insert(c)
    <3>1. ret[c] = "drain" /\ q >= idx[c]
      BY <1>1, <1>4, <2>7 DEF Insert, Busy
    <3>2. pc'[c] = "drain" /\ idx'[c] = idx[c]
      BY <1>0, <2>7, <3>1 DEF Insert, Goto, TypeOK
    <3> QED BY <1>2, <1>4, <3>1, <3>2 DEF Busy
  <2> QED BY <2>2, <2>3, <2>4, <2>5, <2>6, <2>7
<1> QED BY <1>3, <1>4

\* Every step keeps QueuesOK: a level changes in a process that is in no list,
\* or under the sweep.
LEMMA QueuesKeep ==
  ASSUME IInv, TypeOK', ListOK, ByLevelOK, NoWild', NoneStopped', OneAtATime,
         "fcfsmode" \notin Ops, "setpriority" \notin Ops,
         NEW c \in Cpu, CpuStep(c) \/ Request(c)
  PROVE  QueuesOK'
<1>0. TypeOK
  BY DEF IInv
<1> SUFFICES ASSUME mode' = "MLFQ", NEW q \in Queue, NEW p \in List(q)'
             PROVE  \/ QueueOf(p)' = q
                    \/ lev'[p] = 0 /\ Sweeping(q)'
                    \/ lev'[p] \notin 0..2 /\ q = 0
  BY DEF QueuesOK
<1>1. p \in Proc
  BY DEF List
<1>2. CASE mode # "MLFQ"
  <2>1. MlfqMode(c)
    BY <1>2, StepsOf DEF ReadMode, PickFirst, PickLevel, PeekHead, PickSecond, Dispatch,
       Back, CheckBoost, ResetOne, DrainOne, DrainDone, ChooseQueue, Insert, Resume,
       NoPreempt, ExitZombie, Sched, ForkStart, WakeOne, WakeDone, PanicAcquire, Yield,
       Sleep, ExitWake, Fork, Reap, Kill, SetPriority, ClockIntr, Wakeup
  <2>2. mode = "FCFS" /\ UNCHANGED <<lev, next, head, tail>>
    BY <2>1 DEF MlfqMode
  <2>3. p \in List(q)
    BY <1>0, <2>2, ListsStay
  <2>4. head[q] # NoProc
    BY <1>0, <2>3, EmptyList
  <2> QED BY <1>1, <2>2, <2>4 DEF ByLevelOK, FcfsOK
<1>3. CASE mode = "MLFQ" /\ p \in List(q)
  <2>1. Linked(p)
    BY <1>0, <1>1, <1>3, ListFacts
  <2>2. state[p] = "RUNNABLE"
    BY <1>1, <2>1, NoPlace
  <2>3. CASE lev'[p] = lev[p] /\ prio'[p] = prio[p]
    <3>1. QueueOf(p)' = QueueOf(p)
      BY <2>3 DEF QueueOf
    <3>2. Sweeping(q) => Sweeping(q)'
      BY <1>3, SweepKeeps
    <3> QED BY <1>3, <2>3, <3>1, <3>2 DEF ByLevelOK, QueuesOK
  <2>4. CASE pc[c] = "reset" /\ pc' = pc /\ lev'[p] = 0
    <3>1. q = 0 => QueueOf(p)' = q
      BY <2>4 DEF QueueOf
    <3>2. q # 0 => q > 0
      BY DEF Queue
    <3>3. q > 0 => Sweeping(q)'
      BY <2>4 DEF Sweeping
    <3> QED BY <2>4, <3>1, <3>2, <3>3
  <2> QED BY <1>1, <2>2, <2>3, <2>4, FieldsStep
<1>4. CASE mode = "MLFQ" /\ p \notin List(q)
  <2>1. Insert(c)
    BY <1>4, ListsShrink
  <2>2. pc[c] = "insM"
    BY <1>4, <2>1 DEF Insert, ByLevelOK, ModeOK
  <2>3. p = arg[c] /\ q = eq[c]
    <3>1. List(q)' = List(q) \cup (IF q = eq[c] THEN {arg[c]} ELSE {})
      BY <2>1, <2>2, InsertLinked
    <3> QED BY <1>4, <3>1
  <2>4. UNCHANGED <<lev, prio>>
    BY <2>1 DEF Insert
  <2>5. QueueOf(p)' = QueueOf(p)
    BY <2>4 DEF QueueOf
  <2> QED BY <2>2, <2>3, <2>5 DEF ByLevelOK, EqOK
<1> QED BY <1>2, <1>3, <1>4

\* In MLFQ mode every queued process is in the queue of its level and priority
\* once the boost or the mode change is over, for any number of processes, CPUs
\* and priorities, as long as the mode does not change under another CPU and
\* setpriority() (which moves nobody) is not called.
THEOREM LevelsPlace ==
  ASSUME "fcfsmode" \notin Ops, "setpriority" \notin Ops, OneAtATime
  PROVE  Spec => []PlacedByLevel
<1> DEFINE All == /\ IInv /\ ListOK /\ PickOK /\ LevelOK /\ NoWild /\ Tracked
                  /\ LocksOK /\ NoneStopped
<1>1. Spec => []All
  BY ListsInvariant, LocksInvariant, PTL
<1>2. Init => ByLevelOK
  <2> SUFFICES ASSUME Init PROVE ByLevelOK
    OBVIOUS
  <2>1. ModeOK /\ EqOK
    BY DEF Init, ModeOK, EqOK, Busy, Heading, Enqueuing
  <2>2. FcfsOK
    BY DEF Init, FcfsOK
  <2>3. ASSUME NEW q \in Queue, NEW p \in List(q), mode = "MLFQ" PROVE QueueOf(p) = q
    <3>1. TypeOK /\ ListOK
      BY InitOK, InitLists DEF IInv
    <3>2. head[q] # NoProc
      BY <2>3, <3>1, EmptyList
    <3>3. q = 0 /\ p \in Proc
      BY <3>2 DEF Init, List
    <3> QED BY <2>3, <3>3 DEF Init, QueueOf
  <2> QED BY <2>1, <2>2, <2>3 DEF ByLevelOK, QueuesOK
<1>3. All /\ All' /\ ByLevelOK /\ [Next]_vars => ByLevelOK'
  <2> SUFFICES ASSUME All, All', ByLevelOK, [Next]_vars PROVE ByLevelOK'
    OBVIOUS
  <2>0. TypeOK /\ TypeOK'
    BY DEF IInv
  <2>1. CASE UNCHANGED vars
    <3>1. ModeOK' /\ FcfsOK' /\ EqOK'
      BY <2>1 DEF vars, ByLevelOK, ModeOK, FcfsOK, EqOK, Busy, Heading, Enqueuing, QueueOf
    <3>2. \A q \in Queue : List(q)' = List(q)
      BY <2>0, <2>1, ListsStay DEF vars
    <3>3. QueuesOK'
      BY <2>1, <3>2 DEF vars, ByLevelOK, QueuesOK, QueueOf, Sweeping, Busy, Enqueuing
    <3> QED BY <3>1, <3>3 DEF ByLevelOK
  <2>2. CASE Next
    <3>1. PICK c \in Cpu : CpuStep(c) \/ Request(c)
      BY <2>2 DEF Next
    <3>2. ModeOK' /\ FcfsOK' /\ EqOK'
      BY <2>0, <3>1, ModeKeeps, FcfsKeeps, EqKeeps DEF ByLevelOK
    <3>3. QueuesOK'
      BY <2>0, <3>1, QueuesKeep
    <3> QED BY <3>2, <3>3 DEF ByLevelOK
  <2> QED BY <2>1, <2>2
<1>4. All /\ ByLevelOK => PlacedByLevel
  <2> SUFFICES ASSUME All, ByLevelOK, mode = "MLFQ", modeLock = NoCpu,
                      NEW q \in Queue, NEW p \in List(q)
               PROVE  QueueOf(p) = q
    BY DEF PlacedByLevel
  <2>1. \A c \in Cpu : pc[c] # "wild" /\ ~Busy(c, {"reset", "drain"})
    <3>1. \A c \in Cpu : pc[c] # "wild"
      BY DEF NoWild
    <3> QED BY <3>1, NoneFacts DEF LocksOK
  <2>2. ~Sweeping(q)
    BY <2>1 DEF Sweeping, Busy
  <2>3. \A c \in Cpu : pc[c] \notin {"reset", "panic"}
    BY <2>1 DEF Busy, NoneStopped
  <2>4. p \in Proc
    BY DEF List
  <2>5. lev[p] \in 0..2
    BY <2>3, <2>4 DEF LevelOK
  <2> QED BY <2>2, <2>5 DEF ByLevelOK, QueuesOK
<1> QED BY <1>1, <1>2, <1>3, <1>4, PTL DEF Spec
=============================================================================
