# Verification of JH

The repository holds course work on two systems:

* `src/OperatingSystem/`: three copies of the xv6 kernel for RISC-V.
  `assignment-2020064257` (**A**) adds the system call `getppid`.
  `project01-2020064257/linked_list_queue_scheduling` (**L**) and
  `.../array_queue_scheduling` (**R**) replace the scheduler by one with two
  modes, FCFS and MLFQ. A, L and R differ only in
  `kernel/{proc,trap,sysproc,syscall}.c`, the headers that go with them, and test
  programs; everything else in the three kernels is the same text, and is mapped
  to A.
* `src/Computer_Architecture/`: a MIPS processor simulated in C++, in four steps
  (HW1 the ALU, HW2 ALU and register file, HW3 a single-cycle CPU, HW4 a
  multi-cycle CPU).

The project starts with what is hard: the scheduler, which is the repository's own
work and runs on up to eight CPUs with unlocked reads in the middle; the log,
which has to survive a crash anywhere; and the life of a process, where a lost
wakeup or a stale pointer shows itself once in a million runs. The layers of the
file system under and above the log, the pipe, and the processor that takes
several ticks for an instruction follow.

## 1. Inventory

| component | state | operations | what is hard | what makes it correct |
|---|---|---|---|---|
| **scheduler**, L `kernel/proc.c` | `sched_mode`, `ticks`, `mlfq[6]` (head, tail), per process `state, pid, level, time_quantum, priority, next, context`, the locks | `scheduler, enqueue, dequeue, yield, sleep, wakeup, kill, exit, fork, wait, setpriority, mlfqmode, fcfsmode, mlfqinit`, timer interrupt | unlocked reads of the mode, the level and the list head; dequeue and dispatch are two steps; five kinds of locks, nested; boost against the other CPUs | a process on one CPU only, a RUNNABLE process queued exactly once, lists intact, FCFS by pid, MLFQ by level and priority, no starvation in MLFQ, no assertion of `acquire`, `sched`, `exit` fails |
| **scheduler**, R `kernel/proc.c` | `mlfq[4]` as arrays, level 2 a heap by priority | the same | a full array, heap order under demotion; R calls `prioboost()`, which nothing defines, so this kernel does not link | heap order, indices in bounds |
| **write-ahead log**, `kernel/log.c` | `log` (`lh`, `outstanding`, `committing`), the log blocks and the header on disk, pins in the cache | `initlog, begin_op, log_write, end_op, commit, recovery` | crash between any two disk writes, also in recovery; group commit; space reservation | after a crash: all of the committed operations, nothing of others; nobody sleeps for ever; never out of space |
| **process life cycle**, A `kernel/proc.c` | `state, pid, parent, killed, chan`, `wait_lock` | `fork, exit, wait, kill, sleep, wakeup, reparent, getppid` | lost wakeups, slots used again, a kill during a sleep | no exit is missed, the family is a tree, orphans are reaped, the killed exit |
| **buffer cache**, `kernel/bio.c` | LRU list, `refcnt, valid, blockno`, the sleep-lock of each buffer | `bread, bwrite, brelse, bpin, bunpin` | two processes miss the same block at once; a buffer recycled while in use | one buffer per block, one user at a time |
| **locks**, `kernel/spinlock.c`, `sleeplock.c` | owner, `noff`, `intena` | `acquire, release, push_off, pop_off, acquiresleep, releasesleep` | interrupt state nested over locks, wakeup of lock waiters | exclusion, interrupts back on when the last lock goes |
| **disk driver**, `kernel/virtio_disk.c` | descriptors, avail and used rings, `used_idx` | `virtio_disk_rw, alloc3_desc, free_chain, virtio_disk_intr` | three descriptors or none, completion out of order, ring indices that wrap | no descriptor used twice, every request completes |
| **pipe**, `kernel/pipe.c` | `nread, nwrite, data, readopen, writeopen` | `pipewrite, piperead, pipeclose, pipealloc` | full and empty buffer, close while blocked, kill while blocked | bytes in order, once; nobody blocks for ever |
| **open files**, `kernel/file.c`, `sysfile.c` | `ftable.file` (`ref, type`), the descriptors of each process | `filealloc, filedup, fileclose, pipe, dup, close, read, write` | the last of several references, closed by different processes; `pipe()` fails half way | references are exact |
| **inodes and directories**, `fs.c`, `sysfile.c` | inode table (`ref, valid, nlink`), inodes and directory entries on disk | `iget, ilock, iput, ialloc, namex, open, create, link, unlink, chdir` | last reference against truncation, link count after a crash, lock order of a path walk | no inode freed while in use, none lost, no name leads to a free one |
| **console, uart** | ring `cons.buf` (r, w, e), transmit ring | `consoleintr, consoleread, uartputc, uartstart` | producer in an interrupt | input kept in order, ring indices never cross |
| **memory**, `kernel/kalloc.c`, `vm.c`, `exec.c` | free list, page tables | `kalloc, kfree, uvmalloc, uvmcopy, walk, exec` | failure half way, partly copied tables | a page is free or owned once |
| **traps and system calls**, `trap.c`, `syscall.c`, `plic.c`, `start.c`, assembly | `scause, sepc`, CSRs | `usertrap, kerneltrap, devintr, syscall` | interrupt inside the kernel | as callers: modelled inside Mlfq, ProcLife and Pipe |
| **mkfs**, `mkfs/mkfs.c` | the image | builds the first file system | none, sequential | its geometry is a constant of Log |
| **user programs**, `user/` | none shared | `sh, init, ls, grep, ...`, tests | none | `init` waits in a loop: fairness of ProcLife |
| **simulator**, `Computer_Architecture/` | `PC, IR, A, B, MDR, ALUOut, SR`, registers, memory, `status` | `CPU::tick, CTRL::controlSignal, ALU::compute, RF::read/write, MEM::memAccess` | five states per instruction must have the effect of one; writes to register 0; encodings nobody decodes | HW4 has the effect of HW3, instruction for instruction |

How they interact. A system call enters through `usertrap()` and runs on the
stack of its process; it gives up the CPU in `sleep()` or `yield()`, which go through
`sched()` to `scheduler()` of the same CPU. A file system call is wrapped in
`begin_op()`/`end_op()`; it reads blocks through the cache, changes them in memory
and hands them to `log_write()`, which pins them; the last `end_op()` writes log,
header and homes through the cache and the disk driver, sleeping until the
interrupt of each request. Device interrupts run on the stack of whoever is running
and do nothing but `wakeup()`. Everything shared is behind a spinlock, with the
exceptions that section 4 lists: `sched_mode`, `p->level`, the list head, `p->parent`.

## 2. Plan

| step | modules | state |
|---|---|---|
| 1 | `RunQueue` (what a scheduler promises), `Mlfq` (L), `MlfqProofs` | done |
| 2 | `AtomicDisk` (what the log promises), `Log`, `LogProofs` | done |
| 3 | `ProcLife`, `ProcLifeProofs` | done |
| 4 | `Mips`, `SingleCycle` (HW3) as the specification of `MultiCycle` (HW4), `MultiCycleProofs` | done |
| 5 | `ByteQueue` (what a pipe promises), `Pipe` with open files and descriptors, `PipeProofs` | done |
| 6 | `DiskRequests` (what the driver promises), `VirtioDisk`, `VirtioDiskProofs` | done |
| 7 | `BlockStore` (what the cache promises), `BufferCache` with sleep-locks, `BufferCacheProofs` | done |
| 8 | `Inodes` | done |
| 9 | proofs about `Log`, `Pipe` and `VirtioDisk` with the refinements of their specifications, the rest of `Mlfq` | done |
| 10 | `InodesProofs`: references and `iput()` | done |
| 11 | proofs about what is on the disk: `HeldStays`, `LinksCover`, `NoPanic`, `NoOrphans` | done |

Modules are written to be proved about: parameters are CONSTANTS with a named
assumption, one action per operation or critical section, no RECURSIVE operator.
The layers meet at their abstract specifications: `BufferCache` takes a disk access
as one step, which is what `DiskRequests` promises of the driver; `Log` has a cache
that forgets whatever is not pinned, which is `BlockStore`; `Inodes` has calls whose
effects a crash keeps whole or not at all, which is `AtomicDisk`.

## 3. Modules and the code they stand for

### Mlfq, RunQueue

`Mlfq` is `scheduler()` on every CPU of `Cpu` together with the process each CPU
executes. `pc[c]` is the control point of CPU `c`. An action is the code between two
points at which another CPU can see or change what the action uses: one unlocked
read (`ReadMode`, `PeekHead`, `ChooseQueue`), one critical section of a queue lock
(`PickFirst`, `PickLevel`, `PickSecond`, `Insert`, `DrainOne`), one section under
`p->lock` (`Dispatch`, `Yield`, `Sleep`, `ExitZombie`, `ResetOne`, `ScanOne`, ...). A run
queue is the C data structure: `head[q]`, `tail[q]` and `next[p]`; `Unlink` is
`dequeue()`, `LinkByPid` and `LinkLast` are the two halves of `enqueue()`. `mlfq[2..5]`
are one list per priority of level 2, as in the code. `plock[p]` is the CPU that holds
`p->lock`, so a lock that is leaked or taken twice is visible: `PanicAcquire` and
`Sched` stop the CPU where `acquire()` and `sched()` panic. `Ops` names what the
workload does, so that each run asks one question.

Left out: channels (a wakeup may meet a sleeper that sleeps on it, or on another:
both happen), parents (any caller of `wait()` may free any zombie; `ProcLife` has the
parents), the memory of a process, a `fork()` that fails, and a timer interrupt of the
parent while `fork()` holds no lock. `CheckBoost` takes `sched_mode_lock` and `tickslock` in
one step when both are free, so their nesting is not represented. `tq` stops counting at the quantum and `ticks`
counts modulo the boost period: nothing the model has looks further.

`RunQueue` says what any scheduler owes: a process is off, ready or on one CPU; a CPU
takes a ready process, and only if it has none. `Mlfq` implements it under the
mapping `where` (property `ImplementsRunQueue`).

### Log, AtomicDisk

One action per critical section of `log.lock` and per disk write of the process that
commits or recovers. The disk is `home` (the blocks where they belong), `dlog` (the
log blocks) and `dhead` (the header); `cache` is the contents of buffers, with
`NoBuf` where there is none, and `Recycle` drops any buffer that nobody has pinned.
`Crash` clears everything but the disk, at any moment, recovery included. Writing
one block (two sectors) is taken as atomic; `log.c` relies on it for the header.

`AtomicDisk` is what the file system may rely on: operations change memory; when no
operation runs, everything changed so far becomes stable at once; a crash goes back
to what is stable. Under the mapping, `stable` is what recovery would make of the disk
as it is now, so the commit point is where `write_head()` reaches the disk and
nowhere else.

### ProcLife

One action per section under `p->lock`, or under `wait_lock` where `p->lock` shows
nothing more. `pc[p]` is where process `p` is in the kernel; a RUNNABLE process may
take its next step at any time, on whatever CPU. `wait_lock` is a variable because
`exit()` and `wait()` hold it across steps; `p->lock` is not, as no section keeps it
between two actions. `Io` stands for every other sleep in a loop that tests `killed()`
(`sys_sleep`, pipe, console). `kill()` of `init`, which panics the kernel on purpose,
and sleeps that ignore `killed` (disk, log, sleep-locks: they end when the device or
the holder does) are not in the model. A slot keeps its `killed` flag when it is free:
`kill(0)` finds free slots, and so it does here. `getppid()` of `init`, which has no parent and
would follow a null pointer (A `sysproc.c:98`), is left out; `init` never calls it.

### Mips, SingleCycle, MultiCycle

One action is one `CPU::tick()`. `Mips` has what HW3 and HW4 share and take from HW1 and
HW2: words, `ALU::compute` (`Compute`), the register file, the checks of a memory
access. Widths are parameters (the code has 32-bit words, 16-bit immediates), and
which word means which instruction is the constant `Inst`, so the position of the
fields is not part of the claim. `SingleCycle` is HW3: fetch, decode, execute,
memory and write-back in one step. `MultiCycle` is HW4: the control signals are
functions of the state `SR` and the instruction, the wires are operators over them,
and `Tick` latches `A, B, ALUOut, MDR, IR` at its end. `mem_data`, which the code does
not initialise, is any value of `Garbage` in a tick that does not read.
`SimulatesHW3` maps HW4 to HW3 by looking at the end of an instruction only. It
speaks of instructions in `Agreed`: those both programs decode, within the segments
that HW3 checks and HW4 does not.

### Pipe, ByteQueue

One action is what a process does under `ftable.lock`, or one round of a loop of
`pipe.c` under `pi->lock`; the lock is a variable, as it is kept from one round to the
next, and `kill()` comes in between. `nread` and `nwrite` count modulo `MOD` (2^32 in the
code). `pipe()` is `SysPipe` (the first file), `PipeMade` (the second, and the page with
its two ends) and `PipeFds` (two descriptors). It fails without a file at `SysPipe`, with
one or two files but no page in `PipeFails`, and with page and ends, and no, one or two
descriptors, in `PipeUndone`; what it has by then it closes like anybody else, one
`FileClose` and, for an end, one `PipeClose` at a time, while other processes run. `fork()`
duplicates descriptors while other processes close theirs. `cut` records the pipes in which a
writer was killed between two bytes. `ByteQueue` is a bounded FIFO between two ends.

### VirtioDisk, DiskRequests

`Submit` is `virtio_disk_rw()` up to its sleep, `IntrAck` and `IntrLoop` the two halves of
the interrupt handler. The device is external: it takes requests from the avail ring
in order, serves them in any order, writes the used ring and asserts its interrupt,
also inside the handler. `kill()` may wake a process that waits for its transfer. What
nobody reads again is `None`, which keeps the states few. `DiskRequests` says that
each call has its own transfer made, once, before it returns.

### BufferCache, BlockStore

One action per section under `bcache.lock` or under the spinlock of a sleep-lock.
`lru` is the list from `bcache.head.next` on. `bget()` is `Hit`, `Recycle` or `Panic`, then
`Lock` or `LockSleeps`, then `Read`; a holder may `Change`, `Write` (`bwrite()`), `Pin` and
`Unpin` (the log); `Release` and `Unref` are `brelse()`. `BlockStore` has no buffers: a block
has at most one holder, who sees what the last one left. A process of `BufferCache` is one
use of a buffer. The code has places where one process holds two (`write_log()` and
`install_trans()` of `log.c`, `bmap()` over `balloc()` in `fs.c`); the order in which they are
locked is not modelled.

### Inodes

One action is what a process does from an `ilock()` to the `iunlock()` or the next
`ilock()`, or under `itable.lock`; `iput()` is a procedure that returns to where `then`
says. `l[p]` holds the local variables of a call. Calls are `open`, `creat`, `mkdir`,
`chdir`, `link`, `unlink` of paths with any number of names, relative and absolute (those
of the run have none, one or two), and `close`; each follows the code's error paths, the full disk and the failing `dirlink()`
included. `open()` and `create()` may fail wherever the code can, for want of a file, a
descriptor or the right mode, also where the model has room; `ialloc()` takes any free
inode or none, as the code's scan may pass one that becomes free behind it. Devices and
`O_TRUNC` are left out. The table has an entry for every inode (the code has 50 and panics
without one), a process one file, and files have no contents. A crash is a step
between calls only: `Log` shows that a crash within a call leaves what was committed,
and what is committed was the state when no call was under way.

## 4. Runs

Every passing run is exhaustive. States are distinct states, after symmetry where
processes, blocks or bytes are interchangeable and the run has no liveness property.

| run | asks | instance | states |
|---|---|---|---|
| `Mlfq_uni` | lists, their order and the range of levels through both mode changes, boosts, `setpriority()` | 3 slots, 1 CPU, boost every 2 ticks | 876,534 |
| `Mlfq_smp` | two CPUs: nothing twice, nothing lost, nothing dead comes back, queued by its level, no lock misused; implements `RunQueue` | 2 slots, 2 CPUs, both initial modes, 3 pids | 312,798 |
| `Mlfq_live` | boosts end, nobody starves in MLFQ | 2 slots, 1 CPU, real quanta | 33,288 |
| `Log_crash` | a crash anywhere, in recovery too; implements `AtomicDisk` | 2 processes, 2 blocks, 2 values, a log of 7 blocks | 1,395,456 |
| `Log_live` | space, pins and sleepers, the log at its limit | 3 processes, 3 blocks | 176,600 |
| `ProcLife` | missed exits, family tree, slots used again; orphans are reaped, the killed exit | 3 slots, 5 pids | 35,412 |
| `MultiCycle` | HW4 simulates HW3 | 5-bit words, all 31 instruction words, programs of three instructions | 157,089 |
| `Pipe` | references, ends, sleepers; implements `ByteQueue` | 2 processes, 3 files, 2 descriptors each, 2 bytes of room, counters modulo 4 | 1,194,101 |
| `VirtioDisk` | descriptors and completions; implements `DiskRequests`; requests end | 3 callers, 7 descriptors, indices modulo 14 | 50,484 |
| `BufferCache` | references, one buffer per block, sleepers, the full cache; implements `BlockStore` | 2 processes, 4 blocks, 3 buffers, 2 pins | 249,431 |
| `Inodes` | references, what is in use stays, no name leads to nothing, what is lost and how | 2 processes, 3 inodes, 10 calls, crashes | 958,444 |
| `Mlfq_zombie` | a statement of a comment that the code breaks, section 5 | small | counterexample |

What the passing runs show.

* `RunnableOnce` is the property of the run queues: a RUNNABLE process is in exactly
  one of list, `scheduler()`'s local variable, `enqueue()` under way; others are in none.
  `ListsSound` and `OldestFirst` are about the pointers, `PlacedByLevel` about the
  level a process is queued by, `NoPanic` about the locks, `NoDoubleRun` and
  `NoZombieResume` about what runs. `GetlevInRange` is checked on one CPU: with two,
  the level -1 of FCFS is seen in MLFQ mode while `mlfqmode()` is under way.
* `PinnedUntilHome` and `PinsMatch` are about the buffer cache's side of the log,
  `SleeperWakes` about `begin_op()`, `ImplementsAtomicDisk` about crashes.
* `WaiterHasNoZombie` is the lost wakeup of `wait()`; `ParentAlive` the stale
  `p->parent`; `OrphansReaped` and `KilledExits` are what the user sees of both.
* `SimulatesHW3`: over two to five ticks, each instruction has the effect one tick of
  HW3 has, whatever the registers between the stages hold from before.
* `RefsExact` and `EndsHeld` of `Pipe`: a file is given back exactly once whatever fails
  and whoever closes, so no pipe is freed under a reader, and none is kept or freed twice
  by a `pipe()` that fails after it has the page.
  `SleepersHaveWakers` is the lost wakeup, at full and at empty. `ImplementsByteQueue`:
  bytes come out once and in order although counters wrap.
* `DescriptorsExact`, `Underway` and `RequestEnds` of `VirtioDisk`: neither a descriptor
  nor a completion nor an interrupt is lost, whatever the order of completion.
* `OneBuffer` of `BufferCache` is what the two halves of `bget()` are for;
  `PanicOnlyWhenFull` says that no reference is leaked that would fill the cache;
  `ImplementsBlockStore` that a recycled buffer never costs an update.
* `IputNeverBlocks` and `HeldStays` of `Inodes` are the two comments of `iput()`; `LinksCover`
  is what unlinking and crashes may not break; `NoPanic` the panics of `ilock()`,
  `unlink()` and `dirlookup()`, for calls without `..`; `NoOrphans` names the two ways, and no
  others, in which an inode without links is lost. Inodes that keep a link in a directory that
  is gone (section 5) are lost as well, and no property is about them.

Bounds and why they are enough. Three slots are the least at which a list has an
inside and an FCFS insertion a middle; two CPUs the least at which the unlocked reads
of `scheduler()` matter; two CPUs with three slots and all requests exceed what can be
searched in minutes, so `Mlfq_smp` has two slots and a third pid, so that a slot
is freed and used again. `MAXPRIO = 1` in it gives level 2 two lists. Quanta are
one tick (`QSTEP = 0`) where only the fact of demotion counts and grow with the level
in `Mlfq_live`. In `Log_crash`, two blocks and two values tell a torn transaction
from a whole one; in `Log_live` the log has room for less than what three processes
ask for at once, so that `begin_op()` sleeps for each of its two reasons. In
`ProcLife` three slots and five pids let a slot be used again and a grandchild be
handed to `init`; its safety properties were also searched once with four slots and
four pids (981,424 states). Pids are bounded by `MAXPID`; after that `fork()` is
disabled. In `MultiCycle` two arbitrary instructions are followed by one of six: the
second sees whatever the first left in the registers between the stages, the third
whatever jumped over or was stored. Two processes are the least that share a pipe;
three files are enough for a pipe and for one whose allocation fails; two bytes of
room with `MOD` 4 make counters wrap; a `write()` of two bytes into a pipe with one left
sleeps half way. Seven descriptors are two requests and one left over, so that
`alloc3_desc()` fails in the middle. Three buffers, two pins and two processes are the
least with which `bget()` recycles, waits and runs out. Three inodes are the root, a
directory and a file, so that the disk is full; a file has at most `MAXLINK` = 2 links.

Fairness and why the code justifies it. A CPU never stops executing: its next step
is weakly fair wherever liveness is checked. Interrupts leave `scheduler()` time to advance,
so its steps are strongly fair. A timer interrupt comes again and again and ends the
turn of any process in MLFQ mode (`trap.c`); FCFS promises nothing of the kind, and
nothing is claimed for it. A disk request completes and a file system operation ends
(`Log`). `init` calls `wait()` in a loop (`user/init.c`) and the timer brings a killed
process into `usertrap()` (`ProcLife`). The device serves what it has taken and its
interrupts are handled; a process that has been woken gets `vdisk_lock`, for which
others compete, as it is free again and again (strong fairness of `Finish`,
`VirtioDisk`). User programs are never required to do
anything else. `Log_live` is about executions without crashes: after a crash, nobody sleeps.

Deadlock is checked, except where the system really may stop: `setpriority()`
leaks a lock (`Mlfq_uni`), a panic is the subject (`Mlfq_zombie`, `BufferCache`), the program
ends (`MultiCycle`), everybody sleeps in a pipe for somebody who sleeps as well (`Pipe`),
or a call cannot go on within a bound (`Inodes`: `link()` beyond `MAXLINK`).

## 5. Disagreements between the code and what it says

* **A process that has exited is switched to again** (`Mlfq_zombie`). `fcfsmode()`
  queues every RUNNABLE process, also one that another CPU has dequeued and not yet
  marked RUNNING. It runs, and is in the list as well; if it exits meanwhile, it is
  dispatched as a zombie. Comment: "Jump into the scheduler, never to return".

Noted while modelling, without a run of their own.

Scheduler and processes:

* `setpriority()` keeps the lock of its target on success (L `proc.c:880`; the comment
  of `sched()` at 531: "Must hold only p->lock").
* A boost need not end on two CPUs: the drain loop (L `proc.c:793`) may be given back,
  again and again, a process that another CPU has just charged to that level. On
  one CPU it ends (`Mlfq_live`).
* `sys_getppid()` (A `sysproc.c:98`) reads the pid of a slot that may be free by then, as it
  takes no lock around its two loads (A `proc.c:22-26`: `wait_lock` "helps obey the memory
  model when using p->parent").
* `kill(0)` succeeds by marking a free slot, so that the next process forked into it
  is born killed. A `kill()` between the test of `killed()` and the sleep is not noticed
  until something else wakes the victim (`KilledExits` excludes that window).
* Mode changes and boosts reset `ticks`, which `sys_sleep()` and `sys_uptime()` count with.

File system:

* The log accepts one block less than `begin_op()` reserves (`log.c:133`, 220;
  `param.h:9-10`; `mkfs.c:25`), and `log_write()` tests whether it is full before it looks
  for the block in it. This does no harm as long as no operation writes MAXOPBLOCKS
  different blocks, and no operation of today's kernel does. `LogFits` says exactly
  when nothing overflows; it is what the proofs about `Log` assume.
* NBUF equals LOGSIZE: a log full of pinned blocks would leave `bget()` no buffer.
* `iput()` (`fs.c:355-360`) lets go of the inode it has freed and decrements `ref` without
  a second look. Another process may allocate the same number meanwhile and give up
  its own reference first (`create()` that fails, or an unlink and a close); the last
  decrement then leaves an allocated inode without links or references for ever,
  although "iput() frees if the reference and link counts have fallen to zero"
  (`fs.c:128-130`). `NoOrphans` states this exception and no other.
* `create()` and `link()` succeed in a directory that has been unlinked already. When
  the directory goes, what was put there keeps a link that no entry stands for
  (`fs.c:110-111`: "the number of links referring to it"); `LinksCover` therefore is an
  inequality.
* `unlink()` of a directory takes the parent's link although `..` remains: the
  parent may be freed, and `chdir("..")` from inside the removed directory then panics in
  `ilock()` or finds an inode used for something else. TLC finds both as soon as `..`
  is among the calls; the calls of the run leave it out.
* A writer killed between two bytes returns without waking the readers
  (`pipe.c:84-87`): they sleep over the bytes until the next write or close.
  `SleepersHaveWakers` states this exception.
* A `write()` larger than a transaction is several operations (`file.c:162`), and nothing
  promises that they go together.

Simulator:

* An opcode nobody decodes reaches the write-back state of HW4 and writes a register
  (`CTRL.cpp:177`); the status INVALID_INST that `main.cpp` reports is never set. HW4 does
  not check the bounds of text and data that HW3 checks. `SimulatesHW3` is about the
  instructions on which the two agree.
* `$zero` can be written (`RF.cpp:37`); both do so alike. `CPU::init` overwrites the overflow
  status that `MEM::load` may have set.

## 6. Proofs

`MlfqProofs` proves, for every number of slots, CPUs, pids, priorities and levels of
quantum, and every workload without `fcfsmode()`: `TypeCorrect`, `NeverOnTwoCpus`
(`NoDoubleRun`), `ExitIsFinal` (`NoZombieResume`) and what follows below. The restriction is needed:
`Mlfq_zombie` is the counterexample with it. The assumptions are those of
`ModelAssumption`.

`NoDoubleRun` is not inductive: `scheduler()` dispatches what `dequeue()` gave it
without looking at the state, so a process in a list while it runs would be
dispatched twice. `IInv` adds what keeps that from happening. At most one pointer
leads to a process (`OnePointer`: heads and next fields are injective), which avoids
any recursion over lists; whatever is linked, picked or being enqueued is RUNNABLE
and is so in one place only (`PlacesOK`); a process that has set its state and not
yet left the stack has its lock held by its CPU (`RunningOK`), so `Dispatch` waits
for it; `enqueue()` releases the lock of the process it links and not that of the
process running (`EnqueueLock`); `fork()` owns the slot it fills (`ForkOK`); a
process whose context is that of `exit()` is a zombie or free (`ExitOK`).

`Refinement` proves that the scheduler implements `RunQueue`. The place of a process
changes only in `Dispatch` and where a CPU sets the state and leaves; a CPU back in
`scheduler()` has no process (`IdleOK`).

`AssertionsHold` proves `NoPanic` for workloads without `setpriority()` (which leaks a lock,
section 5). Which locks a CPU holds follows from its control point (`LocksOK`, `Held`):
a lock is taken for its own process around a switch or for the process it is
queueing, and `acquire()` is only called where it holds none.

The other theorems are about the lists. `Rep(L)` says that `L[q]` is the sequence the
pointers of list `q` spell out, and `ListOK` that there is such an `L`. `Unlink` is then a
`Tail`, and both halves of `enqueue()` are an insertion at a position (`PutAt`), whose
two uses are the end and the spot that the search by pid finds. `Walk` is computed
from `Rep` by looking at the least step at which it would differ. From `ListOK`:

* `ListsWellFormed` (`ListsSound`);
* `OldestComesFirst` (`OldestFirst`): the list is sorted because pids are unique and
  `wait()` and `fork()` change that of no listed process (`PidOK`, `SortOK`);
* `NeitherLostNorDoubled` (`RunnableOnce`): at most one place by `PlacesOK`, at least one
  by `Tracked`;
* `LevelsAreLevels` (`GetlevInRange`) and `LevelsPlace` (`PlacedByLevel`): a process is out
  of its queue only while the sweep of `mlfqinit()` has not come to it (`QueuesOK`,
  `Sweeping`), and the level that `enqueue()` has read is still that of its process when it
  links it, as the reset needs a lock that `enqueue()`'s caller holds (`EqOK`).

The last three assume `OneAtATime`: there is one CPU, or `mlfqmode()` is not called. With
two CPUs and a mode change under way, a CPU may be in `enqueue()` with the level -1 of
FCFS: it then writes outside `mlfq[]`, and its process is lost. `LevelsPlace` also excludes
`setpriority()`, which changes the priority of a queued process where it is.

`ProcLifeProofs` proves, for every size of the process table, `NoExitMissed`
(`WaiterHasNoZombie`) and `FamilyTree` (`ParentAlive`). The invariant
says of `wait_lock` what its comment says: a process between its scan and its
sleep, and one between `reparent()` and ZOMBIE, both hold it (`LockOK`), so no child
becomes a zombie behind the scan (`WaitOK`), and an exiting process has no children
and an awake parent (`ExitOK`). Pids grow (`PidOK`), which makes parents older.

`MultiCycleProofs` proves `Simulation` (`SimulatesHW3`) for every word width, every
encoding of instructions, every layout of the memory and every program. Its
invariant `StagesCarry` says what each register between the stages holds in each
state that uses it: in EX, `A` and `B` are the operands and `ALUOut` the branch target,
in MEM and WB `ALUOut` is HW3's `alu_result`, and `MDR` the word at that address. Nothing
is said of a register in a state that does not use it, which is why uninitialised
`mem_data` does no harm.

`BufferCacheProofs` proves, for any number of processes, blocks, contents and buffers,
every property of the run: `ReferencesExact`, `OneBufferPerBlock`, `NoLostWakeup`,
`PanicsOnlyWhenFull` and the refinement of `BlockStore`. Its invariant adds to the exact
references who has which lock (`HolderOK`), that what a process uses is valid
(`ValidOK`) and that what is pinned is cached (`PinsOK`). The references make
recycling safe: a buffer with `refcnt` 0 has neither a user nor a pin (`Counts`), so that
under the mapping it is a block that may be forgotten. Counting is by injections:
pinned buffers are as many as pins, the others have a process each. The order of the
LRU list is not used.

`LogProofs` proves, for any number of processes, blocks and values, any capacity of the
log and any length of operations for which `LogFits` holds: `NoOverflow` (`NoPanic`),
`UpdatesPinned` (`PinnedUntilHome`), `PinsExact` (`PinsMatch`), `NoLostWakeup` and
`CrashAtomicity`, which is `ImplementsAtomicDisk`. Space is bounded by a potential: the
blocks in the log, plus what operations under way may still add, less what is there
and will be written again, never exceeds `Most`. Pins follow from who is in the log
and how far the installation has come (`PinOK`, `TailOK`). For the refinement, what
recovery would make of the disk is unchanged by every write except that of the
header, which is the commit: before it the header on disk is empty, after it each
block of the log is on the disk, and installing a prefix of it again changes nothing.

`PipeProofs` proves, for any number of processes, files, descriptors and pages, any
`PIPESIZE` and any width of counters that `PIPESIZE` divides: `ReferencesExact`
(`RefsExact`), `EndsAreHeld` (`EndsHeld`), `NoLostWakeup` (`SleepersHaveWakers`),
`NeverOverfull`, and `Refinement` (`ImplementsByteQueue`). References are counted by claims:
pairs of a process and a descriptor, and pairs of a process and an entry of what its
call has still to close; each step moves, adds or removes one claim (`EndsMove`). An
end is closed by the claim that is the last (`EndOnce`, `OpenOK`). `SleepOK` says where
each sleeper stands in the ring, `RoomOK` bounds `nwrite - nread` in modular arithmetic, and
the ring is read at residues, which is why `PIPESIZE` has to divide `MOD`.

`VirtioDiskProofs` proves, for any number of callers and transfers and any width of
the ring indices: `NoDescriptorLost` (`DescriptorsExact`), `NoCompletionLost` (`Underway`),
`RingsHaveRoom`, and `Refinement` (`ImplementsDiskRequests`). The chains of requests are
disjoint triples; each is in the avail ring, in the device or in the used ring, in one
of them and once; what is in no chain is free. Descriptors run out before a ring
is full, so an index may wrap at the size of the ring itself. The driver picks the
first free descriptor three times, which are three different ones as there is a
least element of what is free.

The invariants were invariants of TLC runs before they were proved, which is how
they were found.

`InodesProofs` proves, for any number of processes and inodes, any names and any set of
calls, `ReferencesExact` (`RefsExact`) and `IputDoesNotBlock` (`IputNeverBlocks`). Where
a process is in its call (`Cont`, which looks through `iput()` to what comes after it) says
which of its local variables are in use (`ShapeOK`) and which inodes it holds locked from
one action to the next (`LockOK`). An action changes the references of one process, and
the counter of each inode by as much; so nothing is forgotten on the error paths. Whoever
puts the only reference is then alone with the inode (`Alone`), and a holder of its lock
would have another.

About what is on the disk it proves `OpenStays` (`HeldStays`), `NamesCounted`
(`LinksCover`), `AssertionsHold` (`NoPanic`) and `NoneLost` (`NoOrphans`), for calls without
`..` in a path (`NoDotDot`, which the calls of `InodesMC` satisfy; `disk` still has every
`..`, which counts as a link). The restriction is needed: a removed directory keeps its
`..`, and whoever follows it from inside makes `NoPanic` false (section 5). The invariant
`DInv` adds to the one above:

* `CopyOK`: a valid copy in the table is what is on the disk, except between the two
  halves of `iput()` freeing the inode;
* `DiskOK`: only directories have entries, a directory has one name, and its `..` is where
  that name is;
* `LinkCount`: the entries of an inode, and the links that `link()` has counted and not
  entered or `unlink()` has taken out and still counts (`Owe`), are no more than `nlink`; hence a
  name never leads to an inode without links (`NamedIs`), and without calls under way this
  is `LinksCover`;
* `Relies`: what a process has found out and will use later without looking again: that its
  inodes are allocated, that the directory it writes to is one, that the entry `unlink()` has
  looked up is still there, that the inode `create()` took is as it left it;
* `Exclusive`: nobody but its owner gets at an inode that `iput()` is freeing or `create()` is
  filling, except an `iput()` of its earlier life that has only to drop its reference.

That the others do not disturb what a process relies on is shown once for all actions
(`OthersRely`, `OthersExclusive`), from what an action may write: an inode changes only under its
lock, when it is taken, or when its last user frees it (`Touches`), and an inode without links
is got from nobody but oneself (`Gets`). `NoneLost` needs in addition that only `iput()` lowers
a counter (`Grows`).

Neither proved nor checked: what is on the disk when calls follow `..`. Only
model-checked: of the scheduler, whatever a workload
with `fcfsmode()` does, `NoPanic` with `setpriority()`, and placement and levels while the
mode changes under a second CPU (where the last two do not hold); and, because the
prover has no rules for fairness and ENABLED, every liveness property. Definitions by
recursion over data have no induction rule here either; `Walk`, the only one, is a
recursive function over bounded naturals, and the least counterexample takes the
place of induction. No module has a RECURSIVE operator.

## 7. Not modelled, and why

* The array version of the scheduler (R): `prioboost()` is defined nowhere, so there is
  no program. `Mlfq` is the scheduler that runs.
* Page tables and `exec`: trees of 512 entries a level, walked by one process at a
  time. That `uvmcopy()` gives back what it mapped when memory runs out (`vm.c:313`) is
  not covered.
* The console and the uart: everything that moves the indices of the ring holds
  `cons.lock` throughout; its sleeping and waking is that of `Pipe`.
* The blocks of files: `balloc()`, `bmap()`, `readi()` and `writei()` are data here, and so are
  path names and the table of 50 inodes.
* Boot code and assembly, which run once, and `mkfs` and the user programs, which are
  sequential and talk to the kernel through the calls that are modelled.
* In the simulator: printing, the loading of images and the command `q`.

In the modelled parts, memory is sequentially consistent: the locks of the kernel
fence, and the unlocked reads are single words.
