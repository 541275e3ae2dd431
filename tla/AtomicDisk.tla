----------------------------- MODULE AtomicDisk -----------------------------
(***************************************************************************)
(* What the log promises to the file system.  Operations change the blocks *)
(* in memory; at a moment when no operation is running, everything changed *)
(* so far becomes stable at once; a crash takes the memory back to what is *)
(* stable and ends the operations.                                         *)
(***************************************************************************)
CONSTANTS Proc, Block, Val

VARIABLES
  mem,      \* the blocks as operations read them
  stable,   \* the blocks as they would be after a crash
  active    \* the processes inside an operation

vars == <<mem, stable, active>>

Init ==
  /\ mem \in [Block -> Val]
  /\ stable = mem
  /\ active = {}

Begin(p) == p \notin active /\ active' = active \cup {p} /\ UNCHANGED <<mem, stable>>

Write(p, b, v) ==
  /\ p \in active
  /\ mem' = [mem EXCEPT ![b] = v]
  /\ UNCHANGED <<stable, active>>

End(p) == p \in active /\ active' = active \ {p} /\ UNCHANGED <<mem, stable>>

Commit == active = {} /\ stable' = mem /\ UNCHANGED <<mem, active>>

Crash == mem' = stable /\ active' = {} /\ UNCHANGED stable

Next ==
  \/ \E p \in Proc : Begin(p) \/ End(p) \/ \E b \in Block, v \in Val : Write(p, b, v)
  \/ Commit
  \/ Crash

Spec == Init /\ [][Next]_vars
=============================================================================
