----------------------------- MODULE VirtioDisk -----------------------------
(***************************************************************************)
(* The disk driver (kernel/virtio_disk.c): descriptors, the avail ring     *)
(* from the driver to the device, the used ring back, and the interrupt.   *)
(*                                                                         *)
(* A process calls virtio_disk_rw() with a buffer it has locked, so that   *)
(* every call has a buffer and a block of its own; the buffer is named     *)
(* after the process.  The device is external: it takes requests in order, *)
(* completes them in any order, and interrupts.                            *)
(*                                                                         *)
(* One action is what happens under disk.vdisk_lock up to sleep(), except  *)
(* that the device may complete requests inside virtio_disk_intr().        *)
(* What nobody may read before it is written again (an entry of a ring that*)
(* has been taken, the command and head of a request that is done) is None.*)
(***************************************************************************)
EXTENDS Integers, Sequences, FiniteSets

CONSTANTS
  Proc,
  Block,
  Transfer,  \* the calls processes make: buffer, block and direction
  NUM,   \* descriptors, and entries of each ring
  MOD,   \* the ring indices count modulo MOD, 2^16 in the code
  None

ASSUME DiskAssumption ==
  /\ NUM \in Nat /\ NUM >= 3
  /\ MOD \in Nat \ {0} /\ MOD % NUM = 0
  /\ Transfer \subseteq [buf : Proc, block : Block, write : BOOLEAN]
  /\ None \notin Proc /\ None \notin Transfer

VARIABLES
  free,      \* disk.free
  desc,      \* disk.desc: what addr points to, next, and the flag F_NEXT
  info,      \* disk.info: the buffer and the status of a chain, by its head
  ops,       \* disk.ops: the command of a chain, by its head
  avail,     \* disk.avail: ring and idx
  used,      \* disk.used: ring and idx
  used_idx,  \* disk.used_idx
  disk,      \* b->disk of the buffer of each process
  pc,        \* control point of each process
  req,       \* the arguments of its call
  head,      \* idx[0] of its call
  intr,      \* is virtio_disk_intr() between its acknowledgement and its loop?
  irq,       \* does the device assert its interrupt?
  taken,     \* external: the index of avail up to which the device has read
  inside,    \* external: the heads of the chains the device works on
  did        \* history: the transfer made with the buffer of a process

driverVars == <<free, desc, info, ops, avail, used_idx>>
deviceVars == <<used, taken, inside, did>>
procVars == <<disk, pc, req, head>>
vars == <<driverVars, deviceVars, procVars, intr, irq>>

Desc == 0..(NUM - 1)
NoDesc == [addr |-> None, next |-> 0, more |-> FALSE]

Init ==
  /\ free = [d \in Desc |-> TRUE]
  /\ desc = [d \in Desc |-> NoDesc]
  /\ info = [d \in Desc |-> [b |-> None, status |-> 0]]
  /\ ops = [d \in Desc |-> None]
  /\ avail = [ring |-> [d \in Desc |-> None], idx |-> 0]
  /\ used = [ring |-> [d \in Desc |-> None], idx |-> 0]
  /\ used_idx = 0
  /\ disk = [p \in Proc |-> FALSE]
  /\ pc = [p \in Proc |-> "idle"]
  /\ req = [p \in Proc |-> None]
  /\ head = [p \in Proc |-> None]
  /\ intr = FALSE /\ irq = FALSE
  /\ taken = 0 /\ inside = {}
  /\ did = [p \in Proc |-> None]
-----------------------------------------------------------------------------
\* disk.vdisk_lock is held across actions by the interrupt handler only.
Unlocked == ~intr

\* A process calls virtio_disk_rw(); the lock of the buffer keeps every other
\* process from the same block.
Call(p, t) ==
  /\ pc[p] = "idle" /\ t.buf = p
  /\ \A q \in Proc : req[q] # None => req[q].block # t.block
  /\ req' = [req EXCEPT ![p] = t]
  /\ pc' = [pc EXCEPT ![p] = "alloc"]
  /\ UNCHANGED <<driverVars, deviceVars, disk, head, intr, irq>>

\* wakeup(&disk.free[0]) makes these processes try again.
WaitersNone == {}
Waiters == {q \in Proc : pc[q] = "allocsleep"}

\* The descriptors alloc_desc() finds, lowest first.
Lowest(n) == CHOOSE S \in SUBSET {d \in Desc : free[d]} :
               Cardinality(S) = n /\ \A d \in S, e \in Desc \ S : free[e] => d < e
FreeCount == Cardinality({d \in Desc : free[d]})

\* alloc3_desc() fails: what it took goes back, each with a wakeup; sleep().
AllocFails(p) ==
  /\ Unlocked /\ pc[p] = "alloc" /\ FreeCount < 3
  /\ pc' = [q \in Proc |-> IF q = p THEN "allocsleep"
                           ELSE IF q \in Waiters /\ FreeCount > 0 THEN "alloc" ELSE pc[q]]
  /\ UNCHANGED <<driverVars, deviceVars, disk, req, head, intr, irq>>

\* The request goes into the avail ring, and the process waits for its buffer.
Next3(S) == CHOOSE s \in [1..3 -> S] : s[1] < s[2] /\ s[2] < s[3]
Submit(p) ==
  /\ Unlocked /\ pc[p] = "alloc" /\ FreeCount >= 3
  /\ LET idx == Next3(Lowest(3)) IN
       /\ free' = [d \in Desc |-> free[d] /\ d \notin {idx[1], idx[2], idx[3]}]
       /\ ops' = [ops EXCEPT ![idx[1]] = [block |-> req[p].block, write |-> req[p].write]]
       /\ desc' = [desc EXCEPT
            ![idx[1]] = [addr |-> <<"ops", idx[1]>>, next |-> idx[2], more |-> TRUE],
            ![idx[2]] = [addr |-> <<"data", p>>, next |-> idx[3], more |-> TRUE],
            ![idx[3]] = [addr |-> <<"status", idx[1]>>, next |-> 0, more |-> FALSE]]
       /\ info' = [info EXCEPT ![idx[1]] = [b |-> p, status |-> 255]]
       /\ avail' = [ring |-> [avail.ring EXCEPT ![avail.idx % NUM] = idx[1]],
                    idx |-> (avail.idx + 1) % MOD]
       /\ head' = [head EXCEPT ![p] = idx[1]]
  /\ disk' = [disk EXCEPT ![p] = TRUE]
  /\ pc' = [pc EXCEPT ![p] = "sleep"]
  /\ UNCHANGED <<used_idx, deviceVars, req, intr, irq>>

\* kill() makes a sleeping process runnable; it tests again what it waits for.
Kill(p) ==
  /\ pc[p] \in {"sleep", "allocsleep"}
  /\ pc' = [pc EXCEPT ![p] = IF pc[p] = "sleep" THEN "woken" ELSE "alloc"]
  /\ UNCHANGED <<driverVars, deviceVars, disk, req, head, intr, irq>>

DoneWhenWoken(p) == TRUE
Done(p) == ~disk[p]

SleepAgain(p) ==
  /\ Unlocked /\ pc[p] = "woken" /\ ~Done(p)
  /\ pc' = [pc EXCEPT ![p] = "sleep"]
  /\ UNCHANGED <<driverVars, deviceVars, disk, req, head, intr, irq>>

\* free_chain(): the descriptors that next and F_NEXT lead to from a head.
Chain(d) == LET e == desc[d].next IN
  {d} \cup (IF desc[d].more THEN {e} \cup (IF desc[e].more THEN {desc[e].next} ELSE {})
            ELSE {})
FreedHead(p) == {head[p]}
Freed(p) == Chain(head[p])

\* The request is done: the chain is freed, each descriptor with a wakeup.
Finish(p) ==
  /\ Unlocked /\ pc[p] = "woken" /\ Done(p)
  /\ info' = [info EXCEPT ![head[p]].b = None]
  /\ desc' = [d \in Desc |-> IF d \in Freed(p) THEN NoDesc ELSE desc[d]]
  /\ free' = [d \in Desc |-> free[d] \/ d \in Freed(p)]
  /\ pc' = [q \in Proc |-> IF q = p THEN "idle" ELSE IF q \in Waiters THEN "alloc" ELSE pc[q]]
  /\ req' = [req EXCEPT ![p] = None]
  /\ did' = [did EXCEPT ![p] = None]
  /\ ops' = [ops EXCEPT ![head[p]] = None]
  /\ head' = [head EXCEPT ![p] = None]
  /\ UNCHANGED <<avail, used_idx, used, taken, inside, disk, intr, irq>>
-----------------------------------------------------------------------------
\* virtio_disk_intr() takes the lock and acknowledges the interrupt.
IntrAck ==
  /\ irq /\ Unlocked
  /\ irq' = FALSE
  /\ intr' = TRUE
  /\ UNCHANGED <<driverVars, deviceVars, procVars>>

\* Its loop takes every completion there is, the oldest first, and wakes the
\* owner of each.
UptoOne == (used_idx + 1) % MOD
Upto == used.idx
CompletedFirst(i) == used_idx % NUM
Completed(i) == (used_idx + i) % NUM
IntrLoop ==
  /\ intr
  /\ LET n == (Upto - used_idx) % MOD
         places == {Completed(i) : i \in 0..(n-1)}
         ids == {used.ring[i] : i \in places}
         bufs == {info[id].b : id \in ids}
     IN /\ disk' = [p \in Proc |-> disk[p] /\ p \notin bufs]
        /\ pc' = [p \in Proc |-> IF p \in bufs /\ pc[p] = "sleep" THEN "woken" ELSE pc[p]]
        /\ used' = [used EXCEPT !.ring = [i \in Desc |-> IF i \in places THEN None ELSE @[i]]]
  /\ used_idx' = Upto
  /\ intr' = FALSE
  /\ UNCHANGED <<free, desc, info, ops, avail, taken, inside, did, req, head, irq>>
-----------------------------------------------------------------------------
\* External: the device reads the next entry of the avail ring.
DeviceTake ==
  /\ taken # avail.idx
  /\ inside' = inside \cup {avail.ring[taken % NUM]}
  /\ taken' = (taken + 1) % MOD
  /\ avail' = [avail EXCEPT !.ring[taken % NUM] = None]
  /\ UNCHANGED <<free, desc, info, ops, used_idx, procVars, used, did, intr, irq>>

\* External: the device follows the chain of head h, makes the transfer it
\* finds there, sets the status and adds the head to the used ring.
DeviceDone(h) ==
  /\ h \in inside
  /\ LET data == desc[h].next
         op == ops[desc[h].addr[2]]
     IN did' = [did EXCEPT ![desc[data].addr[2]] =
                  [buf |-> desc[data].addr[2], block |-> op.block, write |-> op.write]]
  /\ info' = [info EXCEPT ![desc[desc[desc[h].next].next].addr[2]].status = 0]
  /\ used' = [ring |-> [used.ring EXCEPT ![used.idx % NUM] = h],
              idx |-> (used.idx + 1) % MOD]
  /\ inside' = inside \ {h}
  /\ irq' = TRUE
  /\ UNCHANGED <<free, desc, ops, avail, used_idx, taken, procVars, intr>>
-----------------------------------------------------------------------------
Driver(p) == AllocFails(p) \/ Submit(p) \/ SleepAgain(p) \/ Finish(p)
Device == DeviceTake \/ \E h \in Desc : DeviceDone(h)

Next ==
  \/ \E p \in Proc :
       \/ \E t \in Transfer : Call(p, t)
       \/ Driver(p)
       \/ Kill(p)
  \/ IntrAck \/ IntrLoop \/ Device

Spec == Init /\ [][Next]_vars

\* Runnable processes run and get a lock that is free again and again (hence
\* SF), interrupts are handled, and the device serves what it has taken.
FairSpec ==
  /\ Spec
  /\ \A p \in Proc : WF_vars(SleepAgain(p)) /\ SF_vars(Finish(p))
  /\ WF_vars(IntrAck) /\ WF_vars(IntrLoop)
  /\ WF_vars(DeviceTake) /\ \A h \in Desc : WF_vars(DeviceDone(h))
-----------------------------------------------------------------------------
Waiting == {p \in Proc : pc[p] \in {"sleep", "woken"}}

\* A descriptor is free, or in the chain of exactly one process that waits:
\* none is lost when alloc3_desc() fails or a chain is freed, and none is freed
\* twice; and nobody sleeps for descriptors there are (virtio_disk.c:174, 181,
\* 207, 232, 289).
DescriptorsExact ==
  /\ \A d \in Desc : ~free[d] <=> Cardinality({p \in Waiting : d \in Chain(head[p])}) = 1
  /\ \A p \in Proc : pc[p] = "allocsleep" => FreeCount < 3

\* Every request the driver waits for is in exactly one place on its way:
\* in the avail ring, in the device, or in the used ring, and in the last case
\* an interrupt is still to come; nobody sleeps for one that is done
\* (virtio_disk.c:272-286, 305-323).
Pending(ring, from, to) == {ring[(from + i) % NUM] : i \in 0..(((to - from) % MOD) - 1)}
Underway ==
  LET inAvail == Pending(avail.ring, taken, avail.idx)
      inUsed == Pending(used.ring, used_idx, used.idx)
  IN /\ {head[p] : p \in {q \in Waiting : disk[q]}} = inAvail \cup inside \cup inUsed
     /\ inAvail \cap inside = {} /\ inAvail \cap inUsed = {} /\ inside \cap inUsed = {}
     /\ inUsed # {} => irq \/ intr
     /\ \A id \in inUsed : info[id].status = 0   \* the panic of virtio_disk_intr()
     /\ \A p \in Proc : pc[p] = "sleep" => disk[p]

\* Each call gets its own transfer, once, before it returns, in whatever order
\* the device completes (virtio_disk.c:215-327).
Requests == INSTANCE DiskRequests WITH asked <- req, made <- did
ImplementsDiskRequests == Requests!Spec

\* A request that has reached the avail ring is answered (virtio_disk.c:284-286).
RequestEnds == \A p \in Proc : disk[p] ~> pc[p] = "idle"
=============================================================================
