--------------------------- MODULE ProcLifeProofs ---------------------------
(***************************************************************************)
(* No exit is missed and the family tree holds together, for every size of *)
(* the process table.                                                      *)
(*                                                                         *)
(* The argument is the one of the comment on wait_lock: a process between  *)
(* its scan in wait() and its sleep, and one between reparent() and ZOMBIE *)
(* in exit(), both hold wait_lock, so neither sees the other half way.     *)
(***************************************************************************)
EXTENDS ProcLife, TLAPS

\* p sleeps in wait().
Waiting(p) == Asleep(p) /\ pc[p] = "waitsleep"

\* init is alive and no child of anybody.
InitOK ==
  /\ state[InitProc] \in {"RUNNABLE", "SLEEPING"}
  /\ pc[InitProc] \notin {"exit", "exitwake", "exitend"}
  /\ pid[InitProc] = 1 /\ parent[InitProc] = NoProc

\* Every process but init has a pid between init's and the next one.
PidOK ==
  \A p \in Proc : /\ pid[p] < nextpid
                  /\ state[p] # "UNUSED" /\ p # InitProc => pid[p] > 1

\* Where wait_lock is held across steps.
LockOK ==
  \A p \in Proc : pc[p] \in {"exitwake", "exitend", "waitblock"} => waitLock = p

\* fork() has a slot of its own, with a pid above that of the caller.
ForkOK ==
  \A p \in Proc : pc[p] \in {"fork", "forkrun"} =>
    /\ state[p] = "RUNNABLE"
    /\ arg[p] \in Proc /\ state[arg[p]] = "USED" /\ pid[p] < pid[arg[p]]
    /\ \A r \in Proc : r # p /\ pc[r] \in {"fork", "forkrun"} => arg[r] # arg[p]

\* Past reparent(), exit() has no children; past wakeup(), its parent is awake.
ExitOK ==
  \A p, r \in Proc :
    /\ pc[p] \in {"exitwake", "exitend"} => parent[r] # p
    /\ pc[p] = "exitend" /\ parent[p] = r => ~Waiting(r)

\* From its decision to sleep on, wait() has no zombie to find.
WaitOK ==
  \A p, q \in Proc : pc[p] = "waitblock" \/ Waiting(p) =>
    ~(parent[q] = p /\ state[q] = "ZOMBIE")

IInv ==
  /\ TypeOK
  /\ InitOK
  /\ PidOK
  /\ LockOK
  /\ ForkOK
  /\ ParentAlive
  /\ ExitOK
  /\ WaitOK
-----------------------------------------------------------------------------
\* init has a slot, and the null pointer is none.
LEMMA ConstFacts == InitProc \in Proc /\ NoProc \notin Proc
BY ProcLifeAssumption DEF InitProc, Proc, NoProc

\* freeproc() leaves a slot that belongs to nobody.
LEMMA FreeType ==
  ASSUME TypeOK, NEW q \in Proc, Free(q)
  PROVE  /\ \A p \in Proc : state'[p] = "UNUSED" => pid'[p] = 0 /\ parent'[p] = NoProc
         /\ state' \in [Proc -> {"UNUSED", "USED", "SLEEPING", "RUNNABLE", "ZOMBIE"}]
         /\ pid' \in [Proc -> 0..MAXPID]
         /\ parent' \in [Proc -> Proc \cup {NoProc}]
         /\ killed' \in [Proc -> BOOLEAN]
BY ProcLifeAssumption DEF TypeOK, Free

\* Types; a slot is freed whole.
LEMMA TypeKeeps ==
  ASSUME IInv, NEW p \in Proc, KernelStep(p) \/ Request(p)
  PROVE  TypeOK'
<1> USE ConstFacts DEF IInv, At, Calls, Goto
<1>1. CASE Fork(p)
  BY <1>1, ProcLifeAssumption DEF TypeOK, Fork
<1>2. CASE ForkFails(p)
  BY <1>2, FreeType, ProcLifeAssumption DEF TypeOK, ForkFails
<1>3. CASE ForkLink(p)
  BY <1>3 DEF TypeOK, ForkLink, ForkOK
<1>4. CASE ForkRun(p)
  BY <1>4 DEF TypeOK, ForkRun
<1>5. CASE ExitReparent(p)
  BY <1>5 DEF TypeOK, ExitReparent, Reparent, WakeWaiters
<1>6. CASE ExitWake(p)
  BY <1>6 DEF TypeOK, ExitWake, WakeWaiters
<1>7. CASE ExitZombie(p)
  BY <1>7 DEF TypeOK, ExitZombie
<1>8. CASE WaitReap(p)
  BY <1>8, FreeType DEF TypeOK, WaitReap, Zombies
<1>9. CASE WaitBlocks(p)
  BY <1>9 DEF TypeOK, WaitBlocks
<1>10. CASE WaitSleep(p)
  BY <1>10 DEF TypeOK, WaitSleep
<1>11. CASE Exit(p) \/ Wait(p) \/ WaitFails(p)
  BY <1>11 DEF TypeOK, Exit, Wait, WaitFails
<1>12. CASE Io(p) \/ IoTest(p) \/ Getppid(p) \/ GetppidReturn(p)
  BY <1>12 DEF TypeOK, Io, IoTest, Getppid, GetppidReturn
<1>13. CASE IoSleep(p) \/ IoWake(p)
  BY <1>13 DEF TypeOK, IoSleep, IoWake
<1>14. CASE Kill(p)
  BY <1>14 DEF TypeOK, Kill, Resumed
<1> QED BY <1>1, <1>2, <1>3, <1>4, <1>5, <1>6, <1>7, <1>8, <1>9, <1>10, <1>11,
           <1>12, <1>13, <1>14
        DEF KernelStep, Request

\* init stays what it is: nobody frees, kills or adopts it.
LEMMA InitKeeps ==
  ASSUME IInv, NEW p \in Proc, KernelStep(p) \/ Request(p)
  PROVE  InitOK'
<1> USE ConstFacts DEF IInv, At, Calls, Goto
<1>1. CASE Fork(p)
  BY <1>1 DEF InitOK, Fork
<1>2. CASE ForkFails(p)
  BY <1>2 DEF InitOK, ForkFails, Free
<1>3. CASE ForkLink(p)
  BY <1>3 DEF InitOK, ForkLink, ForkOK
<1>4. CASE ForkRun(p)
  BY <1>4 DEF InitOK, TypeOK, ForkRun
<1>5. CASE ExitReparent(p)
  BY <1>5 DEF InitOK, ExitReparent, Reparent, WakeWaiters
<1>6. CASE ExitWake(p)
  BY <1>6 DEF InitOK, ExitWake, WakeWaiters
<1>7. CASE ExitZombie(p)
  BY <1>7 DEF InitOK, ExitZombie
<1>8. CASE WaitReap(p)
  BY <1>8 DEF InitOK, TypeOK, WaitReap, Free, Zombies
<1>9. CASE WaitBlocks(p)
  BY <1>9 DEF InitOK, WaitBlocks
<1>10. CASE WaitSleep(p)
  BY <1>10 DEF InitOK, WaitSleep
<1>11. CASE Exit(p) \/ Wait(p) \/ WaitFails(p)
  BY <1>11 DEF InitOK, TypeOK, Exit, Wait, WaitFails
<1>12. CASE Io(p) \/ IoTest(p) \/ Getppid(p) \/ GetppidReturn(p)
  BY <1>12 DEF InitOK, TypeOK, Io, IoTest, Getppid, GetppidReturn
<1>13. CASE IoSleep(p) \/ IoWake(p)
  BY <1>13 DEF InitOK, TypeOK, IoSleep, IoWake
<1>14. CASE Kill(p)
  BY <1>14 DEF InitOK, Kill
<1> QED BY <1>1, <1>2, <1>3, <1>4, <1>5, <1>6, <1>7, <1>8, <1>9, <1>10, <1>11,
           <1>12, <1>13, <1>14
        DEF KernelStep, Request

\* Pids grow.
LEMMA PidKeeps ==
  ASSUME IInv, NEW p \in Proc, KernelStep(p) \/ Request(p)
  PROVE  PidOK'
<1> USE ConstFacts DEF IInv, At, Calls, Goto
<1>1. CASE Fork(p)
  BY <1>1 DEF InitOK, PidOK, TypeOK, Fork
<1>2. CASE ForkFails(p)
  BY <1>2 DEF PidOK, TypeOK, ForkFails, Free
<1>3. CASE ForkLink(p)
  BY <1>3 DEF PidOK, ForkLink
<1>4. CASE ForkRun(p)
  BY <1>4 DEF PidOK, ForkRun, ForkOK
<1>5. CASE ExitReparent(p)
  BY <1>5 DEF PidOK, ExitReparent, Reparent, WakeWaiters
<1>6. CASE ExitWake(p)
  BY <1>6 DEF PidOK, ExitWake, WakeWaiters, Asleep
<1>7. CASE ExitZombie(p)
  BY <1>7 DEF PidOK, ExitZombie
<1>8. CASE WaitReap(p)
  BY <1>8 DEF PidOK, TypeOK, WaitReap, Free
<1>9. CASE WaitBlocks(p)
  BY <1>9 DEF PidOK, WaitBlocks
<1>10. CASE WaitSleep(p)
  BY <1>10 DEF PidOK, WaitSleep
<1>11. CASE Exit(p) \/ Wait(p) \/ WaitFails(p)
  BY <1>11 DEF PidOK, Exit, Wait, WaitFails
<1>12. CASE Io(p) \/ IoTest(p) \/ Getppid(p) \/ GetppidReturn(p)
  BY <1>12 DEF PidOK, Io, IoTest, Getppid, GetppidReturn
<1>13. CASE IoSleep(p) \/ IoWake(p)
  BY <1>13 DEF PidOK, TypeOK, IoSleep, IoWake, Asleep
<1>14. CASE Kill(p)
  BY <1>14 DEF PidOK, Kill, Asleep
<1> QED BY <1>1, <1>2, <1>3, <1>4, <1>5, <1>6, <1>7, <1>8, <1>9, <1>10, <1>11,
           <1>12, <1>13, <1>14
        DEF KernelStep, Request

\* wait_lock is given up by nobody but its holder.
LEMMA LockKeeps ==
  ASSUME IInv, NEW p \in Proc, KernelStep(p) \/ Request(p)
  PROVE  LockOK'
<1> USE ConstFacts DEF IInv, At, Calls, Goto
<1>1. CASE Fork(p)
  BY <1>1 DEF LockOK, Fork
<1>2. CASE ForkFails(p)
  BY <1>2 DEF LockOK, ForkFails
<1>3. CASE ForkLink(p)
  BY <1>3 DEF LockOK, ForkLink
<1>4. CASE ForkRun(p)
  BY <1>4 DEF LockOK, TypeOK, ForkRun
<1>5. CASE ExitReparent(p)
  BY <1>5 DEF LockOK, ExitReparent, Reparent, WakeWaiters
<1>6. CASE ExitWake(p)
  BY <1>6 DEF LockOK, ExitWake, WakeWaiters
<1>7. CASE ExitZombie(p)
  BY <1>7 DEF LockOK, TypeOK, ExitZombie
<1>8. CASE WaitReap(p)
  BY <1>8 DEF LockOK, WaitReap
<1>9. CASE WaitBlocks(p)
  BY <1>9 DEF LockOK, WaitBlocks
<1>10. CASE WaitSleep(p)
  BY <1>10 DEF LockOK, TypeOK, WaitSleep
<1>11. CASE Exit(p) \/ Wait(p) \/ WaitFails(p)
  BY <1>11 DEF LockOK, TypeOK, Exit, Wait, WaitFails
<1>12. CASE Io(p) \/ IoTest(p) \/ Getppid(p) \/ GetppidReturn(p)
  BY <1>12 DEF LockOK, TypeOK, Io, IoTest, Getppid, GetppidReturn
<1>13. CASE IoSleep(p) \/ IoWake(p)
  BY <1>13 DEF LockOK, TypeOK, IoSleep, IoWake
<1>14. CASE Kill(p)
  BY <1>14 DEF LockOK, Kill, Resumed
<1> QED BY <1>1, <1>2, <1>3, <1>4, <1>5, <1>6, <1>7, <1>8, <1>9, <1>10, <1>11,
           <1>12, <1>13, <1>14
        DEF KernelStep, Request

\* The slot fork() fills is nobody else's until it is RUNNABLE.
LEMMA ForkKeeps ==
  ASSUME IInv, NEW p \in Proc, KernelStep(p) \/ Request(p)
  PROVE  ForkOK'
<1> USE ConstFacts DEF IInv, At, Calls, Goto
<1>1. CASE Fork(p)
  BY <1>1 DEF ForkOK, PidOK, TypeOK, Fork
<1>2. CASE ForkFails(p)
  BY <1>2 DEF ForkOK, ForkFails, Free
<1>3. CASE ForkLink(p)
  BY <1>3 DEF ForkOK, ForkLink
<1>4. CASE ForkRun(p)
  BY <1>4 DEF ForkOK, TypeOK, ForkRun
<1>5. CASE ExitReparent(p)
  BY <1>5 DEF ForkOK, ExitReparent, Reparent, WakeWaiters, Asleep
<1>6. CASE ExitWake(p)
  BY <1>6 DEF ForkOK, ExitWake, WakeWaiters, Asleep
<1>7. CASE ExitZombie(p)
  BY <1>7 DEF ForkOK, ExitZombie
<1>8. CASE WaitReap(p)
  BY <1>8 DEF ForkOK, TypeOK, WaitReap, Free, Zombies
<1>9. CASE WaitBlocks(p)
  BY <1>9 DEF ForkOK, WaitBlocks
<1>10. CASE WaitSleep(p)
  BY <1>10 DEF ForkOK, WaitSleep
<1>11. CASE Exit(p) \/ Wait(p) \/ WaitFails(p)
  BY <1>11 DEF ForkOK, TypeOK, Exit, Wait, WaitFails
<1>12. CASE Io(p) \/ IoTest(p) \/ Getppid(p) \/ GetppidReturn(p)
  BY <1>12 DEF ForkOK, TypeOK, Io, IoTest, Getppid, GetppidReturn
<1>13. CASE IoSleep(p) \/ IoWake(p)
  BY <1>13 DEF ForkOK, TypeOK, IoSleep, IoWake, Asleep
<1>14. CASE Kill(p)
  BY <1>14 DEF ForkOK, Kill, Asleep, Resumed
<1> QED BY <1>1, <1>2, <1>3, <1>4, <1>5, <1>6, <1>7, <1>8, <1>9, <1>10, <1>11,
           <1>12, <1>13, <1>14
        DEF KernelStep, Request

\* exit() has no child left and nobody to wake once it may become a zombie.
LEMMA ExitKeeps ==
  ASSUME IInv, NEW p \in Proc, KernelStep(p) \/ Request(p)
  PROVE  ExitOK'
<1> USE ConstFacts DEF IInv, At, Calls, Goto
<1>1. CASE Fork(p)
  BY <1>1 DEF Asleep, ExitOK, Waiting, Fork
<1>2. CASE ForkFails(p)
  BY <1>2 DEF Asleep, ExitOK, Waiting, ForkFails, Free
<1>3. CASE ForkLink(p)
  BY <1>3 DEF ExitOK, LockOK, ForkLink
<1>4. CASE ForkRun(p)
  BY <1>4 DEF Asleep, ExitOK, TypeOK, Waiting, ForkRun
<1>5. CASE ExitReparent(p)
  BY <1>5 DEF ExitOK, InitOK, LockOK, ExitReparent, Reparent, WakeWaiters
<1>6. CASE ExitWake(p)
  BY <1>6 DEF Asleep, ExitOK, Waiting, ExitWake, WakeWaiters
<1>7. CASE ExitZombie(p)
  BY <1>7 DEF ExitOK, LockOK, TypeOK, ExitZombie
<1>8. CASE WaitReap(p)
  BY <1>8 DEF ExitOK, LockOK, WaitReap
<1>9. CASE WaitBlocks(p)
  BY <1>9 DEF ExitOK, LockOK, WaitBlocks
<1>10. CASE WaitSleep(p)
  BY <1>10 DEF ExitOK, LockOK, WaitSleep
<1>11. CASE Exit(p) \/ Wait(p) \/ WaitFails(p)
  BY <1>11 DEF Asleep, ExitOK, TypeOK, Waiting, Exit, Wait, WaitFails
<1>12. CASE Io(p) \/ IoTest(p) \/ Getppid(p) \/ GetppidReturn(p)
  BY <1>12 DEF Asleep, ExitOK, TypeOK, Waiting, Io, IoTest, Getppid,
     GetppidReturn
<1>13. CASE IoSleep(p) \/ IoWake(p)
  BY <1>13 DEF Asleep, ExitOK, TypeOK, Waiting, IoSleep, IoWake
<1>14. CASE Kill(p)
  BY <1>14 DEF Asleep, ExitOK, Waiting, Kill, Resumed
<1> QED BY <1>1, <1>2, <1>3, <1>4, <1>5, <1>6, <1>7, <1>8, <1>9, <1>10, <1>11,
           <1>12, <1>13, <1>14
        DEF KernelStep, Request

\* No child of a waiting process is a zombie.
LEMMA WaitKeeps ==
  ASSUME IInv, NEW p \in Proc, KernelStep(p) \/ Request(p)
  PROVE  WaitOK'
<1> USE ConstFacts DEF IInv, At, Calls, Goto
<1>1. CASE Fork(p)
  BY <1>1 DEF Asleep, WaitOK, Waiting, Fork
<1>2. CASE ForkFails(p)
  BY <1>2 DEF Asleep, WaitOK, Waiting, ForkFails, Free
<1>3. CASE ForkLink(p)
  BY <1>3 DEF Asleep, WaitOK, Waiting, ForkLink
<1>4. CASE ForkRun(p)
  BY <1>4 DEF Asleep, TypeOK, WaitOK, Waiting, ForkRun
<1>5. CASE ExitReparent(p)
  BY <1>5 DEF Asleep, LockOK, WaitOK, Waiting, ExitReparent, Reparent,
     WakeWaiters
<1>6. CASE ExitWake(p)
  BY <1>6 DEF Asleep, WaitOK, Waiting, ExitWake, WakeWaiters
<1>7. CASE ExitZombie(p)
  BY <1>7 DEF Asleep, ExitOK, LockOK, WaitOK, Waiting, ExitZombie
<1>8. CASE WaitReap(p)
  BY <1>8 DEF Asleep, TypeOK, WaitOK, Waiting, WaitReap, Free
<1>9. CASE WaitBlocks(p)
  BY <1>9 DEF Asleep, WaitOK, Waiting, WaitBlocks, Zombies
<1>10. CASE WaitSleep(p)
  BY <1>10 DEF Asleep, WaitOK, Waiting, WaitSleep
<1>11. CASE Exit(p) \/ Wait(p) \/ WaitFails(p)
  BY <1>11 DEF Asleep, TypeOK, WaitOK, Waiting, Exit, Wait, WaitFails
<1>12. CASE Io(p) \/ IoTest(p) \/ Getppid(p) \/ GetppidReturn(p)
  BY <1>12 DEF Asleep, TypeOK, WaitOK, Waiting, Io, IoTest, Getppid,
     GetppidReturn
<1>13. CASE IoSleep(p) \/ IoWake(p)
  BY <1>13 DEF Asleep, TypeOK, WaitOK, Waiting, IoSleep, IoWake
<1>14. CASE Kill(p)
  BY <1>14 DEF Asleep, WaitOK, Waiting, Kill, Resumed
<1> QED BY <1>1, <1>2, <1>3, <1>4, <1>5, <1>6, <1>7, <1>8, <1>9, <1>10, <1>11,
           <1>12, <1>13, <1>14
        DEF KernelStep, Request

\* A parent outlives its children or gives them away.
LEMMA ParentKeeps ==
  ASSUME IInv, NEW p \in Proc, KernelStep(p) \/ Request(p)
  PROVE  ParentAlive'
<1> USE ConstFacts DEF IInv, At, Calls, Goto
<1>1. CASE Fork(p)
  BY <1>1 DEF ParentAlive, TypeOK, Fork
<1>2. CASE ForkFails(p)
  BY <1>2 DEF ParentAlive, TypeOK, ForkFails, Free
<1>3. CASE ForkLink(p)
  BY <1>3 DEF ForkOK, ParentAlive, ForkLink
<1>4. CASE ForkRun(p)
  BY <1>4 DEF ParentAlive, ForkRun
<1>5. CASE ExitReparent(p)
  BY <1>5 DEF InitOK, ParentAlive, PidOK, TypeOK, ExitReparent, Reparent,
     WakeWaiters
<1>6. CASE ExitWake(p)
  BY <1>6 DEF ParentAlive, TypeOK, ExitWake, WakeWaiters
<1>7. CASE ExitZombie(p)
  BY <1>7 DEF ExitOK, ParentAlive, ExitZombie
<1>8. CASE WaitReap(p)
  BY <1>8 DEF ParentAlive, TypeOK, WaitReap, Free, Zombies
<1>9. CASE WaitBlocks(p)
  BY <1>9 DEF ParentAlive, WaitBlocks
<1>10. CASE WaitSleep(p)
  BY <1>10 DEF ParentAlive, WaitSleep
<1>11. CASE Exit(p) \/ Wait(p) \/ WaitFails(p)
  BY <1>11 DEF ParentAlive, Exit, Wait, WaitFails
<1>12. CASE Io(p) \/ IoTest(p) \/ Getppid(p) \/ GetppidReturn(p)
  BY <1>12 DEF ParentAlive, Io, IoTest, Getppid, GetppidReturn
<1>13. CASE IoSleep(p) \/ IoWake(p)
  BY <1>13 DEF ParentAlive, TypeOK, IoSleep, IoWake
<1>14. CASE Kill(p)
  BY <1>14 DEF ParentAlive, Kill
<1> QED BY <1>1, <1>2, <1>3, <1>4, <1>5, <1>6, <1>7, <1>8, <1>9, <1>10, <1>11,
           <1>12, <1>13, <1>14
        DEF KernelStep, Request

-----------------------------------------------------------------------------
\* The strengthened invariant holds in every reachable state.
THEOREM FamilyInvariant == Spec => []IInv
<1>1. Init => IInv
  BY ConstFacts, ProcLifeAssumption
     DEF Init, IInv, TypeOK, InitOK, PidOK, LockOK, ForkOK, ParentAlive,
         ExitOK, WaitOK, Waiting, Asleep
<1>2. IInv /\ [Next]_vars => IInv'
  <2> SUFFICES ASSUME IInv, [Next]_vars PROVE IInv'
    OBVIOUS
  <2>1. CASE Next
    BY <2>1, TypeKeeps, InitKeeps, PidKeeps, LockKeeps, ForkKeeps,
       ParentKeeps, ExitKeeps, WaitKeeps DEF Next, IInv
  <2>2. CASE UNCHANGED vars
    BY <2>2 DEF IInv, vars, TypeOK, InitOK, PidOK, LockOK, ForkOK,
                ParentAlive, ExitOK, WaitOK, Waiting, Asleep
  <2> QED BY <2>1, <2>2
<1> QED BY <1>1, <1>2, PTL DEF Spec

\* wait() (proc.c:391-435) never sleeps over a child that has exited, whatever
\* the number of processes: not over one that dies while it goes to sleep, nor
\* over one that reparent() hands to init.
THEOREM NoExitMissed == Spec => []WaiterHasNoZombie
<1>1. IInv => WaiterHasNoZombie
  BY  DEF IInv, WaitOK, Waiting, WaiterHasNoZombie, Zombies
<1> QED BY <1>1, FamilyInvariant, PTL

\* p->parent is a live, older process for every size of the process table: a
\* slot used again never becomes a parent by mistake.
THEOREM FamilyTree == Spec => []ParentAlive
<1>1. IInv => ParentAlive
  BY  DEF IInv
<1> QED BY <1>1, FamilyInvariant, PTL
=============================================================================
