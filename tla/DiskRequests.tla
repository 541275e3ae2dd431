---------------------------- MODULE DiskRequests ----------------------------
(***************************************************************************)
(* What the disk driver promises its callers: every call of                *)
(* virtio_disk_rw() has its own transfer made, once, between the call and  *)
(* the return, whatever the other calls do meanwhile.                      *)
(***************************************************************************)
CONSTANTS Proc, Transfer, None

VARIABLES
  asked,   \* the transfer each caller waits for, None outside a call
  made     \* the transfer made since then, None if there was none yet

vars == <<asked, made>>

Init == asked = [p \in Proc |-> None] /\ made = [p \in Proc |-> None]

Call(p, t) ==
  /\ asked[p] = None
  /\ asked' = [asked EXCEPT ![p] = t]
  /\ UNCHANGED made

Serve(p) ==
  /\ asked[p] # None /\ made[p] = None
  /\ made' = [made EXCEPT ![p] = asked[p]]
  /\ UNCHANGED asked

Return(p) ==
  /\ asked[p] # None /\ made[p] = asked[p]
  /\ asked' = [asked EXCEPT ![p] = None]
  /\ made' = [made EXCEPT ![p] = None]

Next == \E p \in Proc : (\E t \in Transfer : Call(p, t)) \/ Serve(p) \/ Return(p)

Spec == Init /\ [][Next]_vars
=============================================================================
