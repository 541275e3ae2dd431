------------------------------ MODULE RunQueue ------------------------------
(***************************************************************************)
(* What a scheduler promises, whatever its queues look like: a process is  *)
(* off (blocked, free or dead), ready, or on one CPU; a CPU takes only a   *)
(* ready process, and only when it has none.                               *)
(***************************************************************************)
CONSTANTS
  Proc, Cpu,
  Ready, Off    \* two values, different from each other and no members of Cpu

VARIABLE where  \* the place of each process

TypeOK == where \in [Proc -> Cpu \cup {Ready, Off}]

Init == where \in [Proc -> {Ready, Off}]

Move(p, place) == where' = [where EXCEPT ![p] = place]

\* Creation or wakeup.
Admit(p) == where[p] = Off /\ Move(p, Ready)

\* A CPU with no process takes a ready one.
Take(p, c) ==
  /\ where[p] = Ready
  /\ \A r \in Proc : where[r] # c
  /\ Move(p, c)

\* The process gives its CPU up: preempted, blocked, dead or stopped by a panic.
GiveUp(p) == where[p] \in Cpu /\ \E place \in {Ready, Off} : Move(p, place)

Next == \E p \in Proc : Admit(p) \/ GiveUp(p) \/ \E c \in Cpu : Take(p, c)

Spec == Init /\ [][Next]_where
=============================================================================
