----------------------------- MODULE BlockStore -----------------------------
(***************************************************************************)
(* What the buffer cache promises: a block has at most one holder, who     *)
(* sees what the last holder left there, and changes of a block survive as *)
(* long as it is pinned or once they are written.                          *)
(***************************************************************************)
CONSTANTS Proc, Block, Val, None

VARIABLES
  holder,   \* who has the block between bread() and brelse(), or None
  content,  \* what a holder of the block sees
  stable,   \* the block on the disk
  pinned    \* the blocks whose content must not be forgotten

vars == <<holder, content, stable, pinned>>

Init ==
  /\ holder = [b \in Block |-> None]
  /\ stable \in [Block -> Val]
  /\ content = stable
  /\ pinned = {}

Hold(p, b) ==
  /\ holder[b] = None
  /\ holder' = [holder EXCEPT ![b] = p]
  /\ UNCHANGED <<content, stable, pinned>>

Change(p, b, v) ==
  /\ holder[b] = p
  /\ content' = [content EXCEPT ![b] = v]
  /\ UNCHANGED <<holder, stable, pinned>>

Write(p, b) ==
  /\ holder[b] = p
  /\ stable' = [stable EXCEPT ![b] = content[b]]
  /\ UNCHANGED <<holder, content, pinned>>

Pin(p, b) ==
  /\ holder[b] = p
  /\ pinned' \in {pinned \cup {b}, pinned \ {b}}
  /\ UNCHANGED <<holder, content, stable>>

Release(p, b) ==
  /\ holder[b] = p
  /\ holder' = [holder EXCEPT ![b] = None]
  /\ UNCHANGED <<content, stable, pinned>>

Forget(b) ==
  /\ holder[b] = None /\ b \notin pinned
  /\ content' = [content EXCEPT ![b] = stable[b]]
  /\ UNCHANGED <<holder, stable, pinned>>

Next ==
  \E b \in Block :
    \/ \E p \in Proc :
         Hold(p, b) \/ Write(p, b) \/ Pin(p, b) \/ Release(p, b)
           \/ \E v \in Val : Change(p, b, v)
    \/ Forget(b)

Spec == Init /\ [][Next]_vars
=============================================================================
