------------------------------ MODULE ByteQueue ------------------------------
(***************************************************************************)
(* What pipes promise: a bounded FIFO of bytes between a read end and a    *)
(* write end.  Bytes go in while both ends are open and come out while the *)
(* read end is; what is left is gone when both are closed.                 *)
(***************************************************************************)
EXTENDS Naturals, Sequences

CONSTANTS Pipe, Byte, PIPESIZE

VARIABLES
  chan,   \* the bytes in each pipe, oldest first
  ends    \* the open ends of each pipe, a subset of {"R", "W"}

vars == <<chan, ends>>

Init == chan = [pi \in Pipe |-> <<>>] /\ ends = [pi \in Pipe |-> {}]

Create(pi) ==
  /\ ends[pi] = {}
  /\ ends' = [ends EXCEPT ![pi] = {"R", "W"}]
  /\ UNCHANGED chan

Put(pi, b) ==
  /\ ends[pi] = {"R", "W"} /\ Len(chan[pi]) < PIPESIZE
  /\ chan' = [chan EXCEPT ![pi] = Append(@, b)]
  /\ UNCHANGED ends

\* The oldest k bytes leave; they reach the reader, or are lost with it.
Get(pi, k) ==
  /\ "R" \in ends[pi]
  /\ chan' = [chan EXCEPT ![pi] = SubSeq(@, k + 1, Len(@))]
  /\ UNCHANGED ends

Close(pi, e) ==
  /\ e \in ends[pi]
  /\ ends' = [ends EXCEPT ![pi] = @ \ {e}]
  /\ chan' = [chan EXCEPT ![pi] = IF ends[pi] = {e} THEN <<>> ELSE @]

Next ==
  \E pi \in Pipe :
    \/ Create(pi)
    \/ \E b \in Byte : Put(pi, b)
    \/ \E k \in 1..Len(chan[pi]) : Get(pi, k)
    \/ \E e \in {"R", "W"} : Close(pi, e)

Spec == Init /\ [][Next]_vars
=============================================================================
