# Verification of the xv6 kernel with MLFQ, demand paging, RAID and disk scheduling

The repository is xv6-riscv extended with a multi-level feedback queue
scheduler, demand paging with a swap area on a simulated RAID array, and a disk
request scheduler. This directory holds TLA+ models of it, TLC configurations
that check them on small instances, and TLAPS proofs for every instance.
Source paths are relative to `src/XV6 CODE/kernel/` unless a directory is given.

## 1. Inventory

| component | source | state | operations | meets |
|---|---|---|---|---|
| RAID array | `raid.c` | `sim_disk`, `disk_failed`, `raid_mode` | read, write, copy a page; set mode; fail, restore a disk | swap |
| disk scheduler | `disksched.c` | request table `dq`, `dq_seq`, `current_head`, policy, statistics | submit, set policy | buffer cache, virtio driver |
| virtio driver | `virtio_disk.c` | descriptors, rings, `b->disk` | rw, interrupt | disk scheduler, device |
| buffer cache | `bio.c` | LRU list, `refcnt`, `valid` | bread, bwrite, brelse, bpin, bunpin | log, disk scheduler |
| write-ahead log | `log.c` | header in memory and on disk, `outstanding`, `committing`, pins | begin_op, log_write, end_op, commit, recovery | every file system call, buffer cache |
| inodes, directories | `fs.c`, `../mkfs/mkfs.c` | bitmap, inodes, inode table with `ref`, `valid`, lock | balloc, bmap, itrunc, readi, writei, dirlink, iget, iput, namex, ireclaim | log |
| files, calls | `file.c`, `sysfile.c` | file table with `ref`, `off`; descriptors | open, link, unlink, chdir, read, write, dup, close, pipe | inodes, pipes, console |
| pipes | `pipe.c` | ring buffer, `nread`, `nwrite`, open ends | read, write, close | files, life cycle |
| console | `console.c`, `uart.c` | line buffer with `r`, `w`, `e`; `tx_busy` | read, write, two interrupts | files, life cycle |
| process life cycle | `proc.c`, `sysproc.c` | `state`, `chan`, `killed`, `parent`, locks | fork, exit, wait, kill, pause, sleep, wakeup, yield | all |
| MLFQ scheduler | `proc.c`, `trap.c` | `level`, `used_ticks`, `prev_i`, tick counters | scan, switch, tick, two boosts | every process |
| frame allocator | `kalloc.c` | free list, `frame_table`, `clock_hand` | kalloc, kfree, kalloc_user (claim, evict) | address spaces, swap |
| swap slots | `swap.c` | `swap_space` | alloc, free, write, read | RAID, frames, address spaces |
| address spaces | `vm.c`, `exec.c`, `sysproc.c`, `proc.c` | page tables, `sz`, `resident_pages` | fault, sbrk, fork, exec, exit, wait | frames, swap |
| user programs | `../user/` | file descriptors, a command line | shell, init, tools, tests | system calls |
| boot, assembly, printing, strings | | | | not modelled, section 7 |

Behaviours that are hard to test, each at its line in `PROJECT.json`
(`hazards`): locks that are dropped in the middle of an eviction or of the
removal of an inode; an address read before an allocation and used after it; a
swap area, a log, a disk, a descriptor table or a ring that is full; a crash
between two block writes of a commit, of a recovery, or between two system
calls that leave a file without name; a disk that fails between two writes;
counters at their ends; a wakeup sent before the sleep; a stack that is freed
while a CPU is on it; locks taken in two orders; a process that never gets a CPU.

## 2. Modules

| module | models | state and steps |
|---|---|---|
| `PageStore` | what the swap device promises | an array of pages: write, read, copy |
| `Raid` | `raid.c` | the disks as rows of bits; one step per iteration of the block loops; `shadow` is a ghost: the page last written to each slot |
| `DiskSched` | `disksched.c` | one step per hold of `dq_lock`, one for the end of a transfer |
| `Virtio` | `virtio_disk.c` | extends `DiskSched`: one step per hold of `vdisk_lock` and per entry of the used ring; the device does its requests in any order |
| `BufCache` | `bio.c` | extends `Virtio`: one step per hold of `bcache.lock`; `latest` is a ghost: what the last holder of a block left in it |
| `AtomicDisk` | what the log promises | a disk that changes by whole groups of calls, and may lose groups not yet committed |
| `Log` | `log.c`, with bpin/bunpin and recycling of `bio.c` | one step per hold of `log.lock` and per block written; `crash` at any point |
| `Paging` | `kalloc.c`, `swap.c`, the paging part of `vm.c`, `proc.c`, `exec.c`, `sysproc.c`, `trap.c` | one step per critical section of `kalloc_user`, `swap_*`, `uvmunmap`, and per page of each loop; `loc[p]` is the place and the locals of process `p` in the kernel; `content` is a ghost: what the program last stored |
| `Mlfq` | `scheduler()`, the timer part of `trap.c`, `sleep`, `wakeup`, `syscall()` | one step per turn of the scheduler loop and per trap |
| `ProcLife` | what fork, exit and wait promise | a tree of processes that changes by whole calls |
| `Process` | `proc.c` and `spinlock.c` | one step per acquire of `p->lock`, `wait_lock` or `tickslock`; CPUs, their locks, the stack a CPU is on |
| `Kernel` | | the state the following modules share, and how a kernel thread runs: `todo[p]` is its call stack |
| `Fs` | `fs.c`, `mkfs.c` | the file system in the cache (`cur`) and as committed (`disk`); one step per hold of `itable.lock` or of an inode |
| `Console` | `console.c`, `uart.c` | one step per hold of `cons.lock` or `tx_lock`, up to the sleep |
| `Pipe` | `pipe.c` | one step per hold of `pi->lock`, up to the sleep; `pipewrite` one step per byte, with the lock held, because it looks at `killed` before each |
| `File` | `file.c`, the descriptor calls of `sysfile.c` | one step per hold of `ftable.lock` or of an inode |
| `SysFile` | `sysfile.c`: open, create, link, unlink, chdir | as `Fs` |
| `SysProc` | fork, exit, wait, kill, pause, exec as the file layer sees them | one step per hold of `wait_lock` or `p->lock` |
| `UserTests` | `usertests.c`, `grind.c`, `zombie.c`, `dorphan.c` | programs: sequences of calls with the results they insist on |
| `Shell` | `sh.c`, `init.c`, `cat.c`, `echo.c`, `mkdir.c`, `rm.c`, `ln.c` | the parser as operators on the line typed, the runner as programs |
| `Unix` | boot, traps, and all from `Kernel` to `Shell` together | the programs run, trap, and their kernel threads interleave; `Crash` at any point |
| `MCRaid`, `MCBufCache`, `MCMlfq` | | values for the constants of the runs; the others take theirs from the cfg |
| `RaidProofs`, `LogProofs`, `MlfqProofs` | | theorems about `Raid`, `Log`, `Mlfq` |
| `CacheProofs`, `DiskProofs` | | theorems about the disk stack: `disksched.c` and the steps of `bio.c`; then the driver, the device and the results |
| `ProcessSteps`, `ProcessSwitch`, `ProcessProofs` | | theorems about `Process`: the invariant and the steps of system calls; switches and the end of calls; the timer and the results |

Data are abstracted, control is not. A block is one bit in `Raid` (XOR acts on
each bit alone) and a few units in `Fs`, a unit being a directory entry or a run
of bytes; a page is a value, an address is a page number, a process is a small
integer, a word on the command line is one character. `panic` sets a variable
and stops the system, as it stops the CPU.

The layers meet through promises. `Fs` uses of the log what `AtomicDisk` says and
`Log` implements: transactions that overlap commit together, when the last of
them ends. Waiting in `begin_op` is left out there, `Log` has it. `Unix` uses of
`sleep` and `wakeup` what `Process` shows: a sleeper misses no wakeup. So a thread
that sleeps keeps its operation and runs it again when woken, as every caller in
the code does in a loop. A thread that needs an inode's sleep lock has no step
until the lock is free. `Paging` uses the page store that `Raid` implements. The
disk stack is composed whole: `BufCache` over `Virtio` over `DiskSched`.

`Unix` has one reduction. A step that reads and changes nothing but what its own
thread owns (its stack, its descriptors, an inode it has locked), or that only
gives up a lock, commutes with the steps of all others; `LocalOps` names them, and
they run first, in the order of the processes. Traps, and the bytes `pipewrite` copies
with the lock held, are local too, unless the test kills somebody.

What `Unix` leaves out: the memory of programs, which `Paging` has (a bad buffer is
a flag of the call); which CPU runs what, which `Process` and `Mlfq` have; the echo
of what is typed, which goes to the UART without touching any state; formatting.
Outside of a session process 1 stands for init, the shell and `run()` of usertests
in one. In a session characters come when the shell has asked for a line;
`consoletest` types ahead. `limits`, `killed`, `consoletest` and `killcons` are not
programs of the repository: they reach the error paths its tests do not.
`linkunlink`, which follows a pseudo-random sequence for 100 turns in two processes,
takes one turn in the parent and three in the child here, with every choice. `grind_dir`
and `createdelete` are in `UserTests` but not in the `unix` run (section 3).

`Process` leaves out memory and files, and which process a scheduler picks. Any process
forks, waits and exits at any time, init too (`init.c` exits when its fork or wait fails;
`kexit` then panics, the one panic that `NoPanic` leaves open). `kill` takes any pid, 0 and
that of init included, and `wait` may fail to copy the status out, which leaves the zombie
(`proc.c:427`). `Pausers` and `Killers` bound who calls `pause` and `kill` in a run; the
theorems hold for any.

`BufCache` has an assumption on its callers, `Admitted`: a thread starts only while a buffer
is left for it. Nothing in `bio.c` sees to it; `param.h` makes NBUF as large as the
log, and without the assumption `bget` panics (`bio.c:89`).

What `Paging` leaves out: the pages of the page tables (with `WalkFails`, `walk` may find no
memory for one), the kernel page table, `copyin`/`copyout`/`copyinstr`, the latency counters of
`swap.c`; the counter `resident_pages` and the
other statistics; the user stack has one page and no guard page; any process may reap a
zombie, so parents are not tracked. `NCPU` is the number of kernel operations under way at
once. `NCPU = 1` is the uniprocessor without a clock tick inside `sbrk` or `exec`, the
operations that run with interrupts on and no spinlock held. `Room` keeps fork and exec to
the times when the frame table has an entry for every page they map. When a page has been
freed twice, which happens only without `Room`, no new operation starts (`Overfreed`): a
bound on the free list.
`evict_page` (`kalloc.c`) and `disksched_flush` have no caller and are left out.

`Raid` has a constant `Env` that says what the kernel does with the array:
`"any"` call at any time; `"degraded"`: the mode is chosen on a blank array and at
most one disk is down at a time; `"quiet"`: in addition nothing is written while
a disk is down.

The disk stack shows that the queue never holds more than the request just
submitted: `disksched_submit` adds one and takes one under the same hold of the
lock. SSTF and FCFS therefore serve requests in the same order, and the
difference `user/diskschedtest.c:11` hopes for cannot appear.

## 3. Runs

Passing runs.

| run | bounds | what it shows |
|---|---|---|
| `raid` | 2 slots of 4 blocks: three stripes, so parity rotates and a page spans two stripes; two page contents | parity is right, reads survive one failed disk, no address leaves a disk, the array implements `PageStore` (`Env = "quiet"`) |
| `disk` | 2 threads, 2 buffers, 3 blocks, one pin, 4 requests, both policies, rings of 5 (one request at a time) and of 8 (two) | whoever holds a block sees what its last holder left; a block has one buffer and exact counts; what is recycled can be read back; each thread performs its own request; descriptors are neither lost nor shared; no sleeper of the driver is forgotten |
| `log` | 2 processes, 4 blocks with 2 contents, MAXOPBLOCKS 2, log of 4, 2 crashes | calls are atomic across crashes, pins match the header, a quiet log means a durable disk; the log never overflows; a sleeper in `begin_op` has a waker and wakes; recovery ends |
| `process` | 3 slots, 2 CPUs, 3 processes in all, one that pauses, one that kills | no lost wakeup, no two CPUs on one stack, no stack freed in use, no circle of spinning CPUs, every orphan has a living parent, pids are unique, and fork, exit and wait are atomic (`ProcLife`) |
| `unix` | 54 programs; 5 processes, 5 descriptors, 5 files, 7 inodes in memory, 8 on disk, 18 blocks of 2 units, files of at most 5 blocks, 2 of them indirect; 2 pipes of 2, a line buffer of 4, counters modulo 8; 1 crash | every program sees what it insists on; no panic; bitmap and inodes agree, link counts and entries agree, in the committed state at every moment; files have no holes; transactions stay in what they reserved; counts of files and inodes are exact; nothing without name survives a boot; pipes and console lose and reorder nothing; nobody is left asleep |
| `paging` | 2 processes, 2 pages each, 2 frames, 3 physical pages, 3 swap slots, a program of one read-only page and a stack page; `Room`, `walk` does not fail | contents, frame table, memory and slots stay right over store, fault, sbrk, shrink, fork, exec, exit, wait, and no panic |
| `paging_live` | 2 processes, 1 frame, 1 physical page, 2 slots, no `Room`, `walk` may fail: allocation, eviction, fork and exec fail half way | every operation returns |
| `mlfq` | 1 CPU, 2 processes, boost every 6 ticks, a counter modulo 8, quanta 1,1,1,2 | highest level first; boosts on time although the difference of ticks is unsigned; no starvation |

The invariants of a run that belong together are one property each: `ServesCaller`
(queue, own request, no shared transfer), `RingsExact` (descriptor chains, rings), `LogExact`
(pins, sleepers, durability), `TableExact` (free slots, pids, parents), `MemoryExact`
(frame table, memory, slots), `FsConsistent` (bitmap, links, holes), `CountsExact`
(files, inodes), `StreamsFifo` (pipes, console), `QuietInv` (contents, parity, tolerance
of a failed disk). The type invariant of a module is a
conjunct of one of them (`BoostOnTime` in `Mlfq`, `RefsExact` for the disk stack).

The bounds are the smallest at which the cases occur: fewer frames than pages so
that evictions happen, a clock that comes round, a log that fills, fewer
descriptors than two requests need, a boost period longer than the way down to
the last level, a file that reaches its indirect block, tests that fill the disk,
the inodes, the file table, a pipe and the line buffer, counters that wrap. The
loops of the tests are as much shorter as the tables are smaller. A call of `Log`
writes one block but may log it twice, so absorption happens. `disk` uses the
symmetry of its threads and buffers and stops after its requests; no other run uses
symmetry or may stop.

Runs that show a disagreement between the code and a test or a comment (`findings` in
`PROJECT.json`).

| run | the code | against |
|---|---|---|
| `raid_degraded` | a RAID-5 write with a disk down loses the block of that disk | `user/raidtest.c:13` |
| `paging_fork` | fork copies a page that was evicted to make room for the copy | `user/raidtest.c:184` |
| `paging_ro` | a forbidden store faults for ever | `nowrite`, `user/usertests.c:2445-2454` |
| `unix_iput` | an inode without name and user stays on disk until the next boot | `fs.c:129-131` |

The constants of the models say under which conditions the passing results hold.
Each condition is needed; relaxing it gives a counterexample that the code
confirms:

- `Paging`, `Room = FALSE`, fork: the run `paging_fork`.
- `Paging`, `Room = FALSE`, exec: the frame table names pages of the new
  image under a process whose `pagetable` is the old one, so an eviction marks
  the wrong entry (`kalloc.c:204`).
- `Paging`, `MAX_SWAP = 2`, fewer slots than pages to swap out: `kalloc.c:191` drops the frame
  table entry of a victim that stays mapped, and `MemoryExact` fails.
- `Paging`, `WalkFails = TRUE`: `uvmcopy` forgets the slot it has just copied to when `walk`
  finds no memory (`vm.c:290`), `uvmalloc` leaves an entry in the frame table for a page it has
  freed (`vm.c:202`), and `MemoryExact` fails.
- `Paging`, `NCPU = 2`: `kalloc_user` drops `frame_lock` before it writes the
  victim out and unmaps it (`kalloc.c:187`); a store in between is lost.
- `DiskSched`, `MAX_OPS >= UINT`: request 0xFFFFFFFF is never smaller than
  `best_seq` (`disksched.c:119`), so it is not picked and `bread` returns a
  buffer that was not read.
- `Log`, `OPBLOCKS = MAXOPBLOCKS`: a call that logs a block twice panics in a
  full log, because the test of `log.c:221` comes before absorption. Present
  callers write fewer blocks.
- `Unix`, the run `unix_iput`: `iput` decides to free an
  inode, frees it on disk, and counts down `ref` only afterwards (`fs.c:342`). If in between
  another process allocates the same inode, and links and unlinks it, that process's `iput`
  sees two references and frees nothing, and the first one no longer looks. The inode stays
  allocated without a name until `ireclaim` at the next boot. `linkunlink` and `createdelete`
  meet it too, and `unix`, which has `linkunlink`, shows that all else stays right then: the counts
  are exact, and so are blocks and links on disk.
- `Unix`, a program that creates a file in its current directory after that was removed:
  `create` does not look at `dp->nlink` (`sysfile.c:283`), so the file is
  lost with the directory and, after a crash, `LinksConsistent` fails. `grind.c:180-187` does it on
  purpose; it is the program `grind_dir`, and `unix` leaves it out.
- `Fs`, an image whose root directory ends with a block: `mkfs.c:168` rounds its size up to one block
  more than it has, and `NoHoles` fails before the first step.
- `BufCache` without `Admitted`: `bget` finds no buffer (`bio.c:89`).
- `Process`, with the promise that a new process is not killed: `kill(0)` matches a slot that is
  free, because `proc.c:675` compares `pid` and does not look at `state`; the next process there is
  born killed. `TableExact` says of a free slot what holds: no pid, no parent, no channel.
- `Process`, with the promise that a killed process soon ends: a victim between its test of
  `killed()` and its `sleep()` is not woken (`proc.c:677`) and sleeps until something else
  wakes it. No comment promises more, so no property does.
- `Mlfq`, two CPUs: a scan reads `prev_i` again at every turn (`proc.c:495`) while
  another CPU moves it, and a boost may come in the middle of a scan, so
  `PicksHighest` and `NoStarvation` fail. `BoostOnTime` holds.

Seen while modelling, and not stated as properties: `resident_pages` is not
increased by eager `sbrk` (`vm.c:200`) but is decreased by eviction, so it may go
below zero, which `user/PA4_1.c:51` calls an error; no code looks at `level` when
a victim is chosen, though the comment at `kalloc.c:92` says so;
`slice_start_syscount` is set at every tick (`proc.c:503`), so delS counts the
last tick of a slice only; `usertests.c:2341` says of a full disk "balloc panics", but
`balloc` returns 0 and the callers pass the failure on; the boost test of `trap.c:106` reads the counter after
`yield()` and may miss its multiple of 128.

## 4. Fairness

`Log`: each step of a process inside the log code and of the recovery is weakly
fair: a process in the kernel runs on, and disk writes complete. Crashes and
new calls are not fair. `Paging`: the kernel steps of each process are weakly
fair; user stores and calls are not. `loadseg` is strongly fair: it waits for the disk, and other
operations that start meanwhile disable it only for a time. `Mlfq`: each CPU's scheduler loop and a
boost in progress are weakly fair; the timer interrupt of each CPU is strongly
fair, because the clock keeps ticking and `scheduler()` opens a window for it at every
turn, though interrupts are off in between.

`disk`, `process` and `unix` assume no fairness. What should happen in the end is stated there as
the absence of lost wakeups and of circles of waiting, in every state: `IoWakes`, `NoLostWakeup`,
`NoSpinCycle`, `NobodyStranded`. With the promise of `Mlfq` that a runnable process runs, a sleeper
that has a waker wakes.

## 5. Proofs

A theorem holds for every value of the constants that satisfies the named assumption of the
module and the hypothesis it states. The runs check the same definitions on small instances.

| theorem | states | for |
|---|---|---|
| `TypeCorrect`, `RangeSafe` | types; `NoRangePanic` | any use of `raid.h`, any size with `4 * MAX_SWAP <= DISK_BLOCKS` (`SwapFits`) |
| `QuietCorrect`, `ArrayCorrect`, `ParityCorrect`, `FailureTolerant` | `QuietInv` and its conjuncts | `Env = "quiet"` |
| `StoreCorrect` | `ImplementsPageStore` | `Env = "quiet"` |
| `DrainCorrect`, `StackServesCaller` | `ServesCaller`, of the scheduler alone and under the cache | `MAX_OPS < UINT`: the sequence number has not wrapped |
| `CacheIsCoherent`, `RefsAreExact`, `RecycledIsClean`, `RingsAreExact`, `IoWakeupsReach` | `Coherent`, `RefsExact`, `CleanOnDisk`, `RingsExact`, `IoWakes` | the same; finitely many threads and buffers; `Admitted` |
| `LogAccount`, `LogAtomic` | `LogExact`; `ImplementsAtomicDisk` | finitely many processes and blocks, a log of at least one call |
| `LogNeverPanics` | `NoPanic` of `Log` | in addition `OPBLOCKS < MAXOPBLOCKS` |
| `RunsOnOneCpu` | types; a process is RUNNING exactly while one CPU runs it | any number of CPUs |
| `BoostsInTime` | `BoostOnTime` | any number of CPUs, any boost period, a counter that wraps at any `UINT > BOOST + 1` |
| `ProcessNeverPanics`, `StacksAreOwned`, `TableIsExact`, `NoWakeupLost`, `LocksAreOrdered` | `NoPanic` of `Process`, `StacksOwned`, `TableExact`, `NoLostWakeup`, `NoSpinCycle` | any number of slots and CPUs |
| `ForkExitWaitAreAtomic` | `ImplementsProcLife` | the same |

The conditions `MAX_OPS < UINT`, `OPBLOCKS < MAXOPBLOCKS`, `Admitted` and `Env = "quiet"` are
needed: section 3 has the counterexample for each.

*The array.* `RangeSafe` needs only the types: the row of a logical block is at most the block.
`ArrayInv`, which says where every block must be at every iteration, is not inductive by itself: a
read with a failed disk computes the block from the others, which is right only if the parity of
the stripe is right, and a read must not have panicked. `QuietInv` joins types, `ArrayInv`,
`ParityConsistent` and `SurvivesOneFailure`. For the refinement, a step that ends a loop maps to a
step of `PageStore`, any other to a stutter.

*The disk stack.* `DrainInv`: the table is empty whenever `dq_lock` is free, so the policy picks the
request just entered, whichever policy it is. `DiskInv` adds: where a thread is in `bio.c` says where
it is in `disksched_submit` and which sleep lock it holds (`Control`); the list has every buffer once
(`Lru`); `refcnt` is the number of users and the pin (`Counts`); a valid buffer has the latest content
of its block, and the disk has it too unless the buffer is pinned or its holder has yet to write it
(`Contents`); chains are disjoint and cover what is not free (`Chains`); every entry of a ring is the
head of one thread's chain, with that thread's request in it (`Rings`); a used entry has an interrupt
to come (`Wakes`). Coherence needs them all: a read is right because the device worked on the request
that the driver wrote for this buffer, and no other thread could recycle the buffer meanwhile. The
count of `refcnt` and the choice of a victim rest on cardinalities of finite sets.

*The log.* `LogInv` says, for every phase of commit and recovery, what the header on disk is
(`Header`), how many blocks are in the log and at their home (`Contents`), and which are still
pinned (`Pins`). For `LogAtomic` the abstract disk is what a recovery from the present disk
would give. It changes only when `write_head` writes a header that is not empty, and stays when
recovery itself is cut short. For `LogNeverPanics`, `Reserved` counts: the entries of
the log and MAXOPBLOCKS for each call exceed the log by no more than what these calls have
already written. `begin_op`'s test establishes it and no `log_write` breaks it.

*The scheduler.* `OneCpu` is inductive with the types. Only CPU 0 counts ticks, and every tick brings it
back to the top of its loop, with the test of `proc.c:476` to come; one more may be waiting when
interrupts are turned on there. `BoostInv` says for each place of CPU 0 how far the difference
may have come. Another CPU can only boost earlier. As the difference stays below `UINT`, its wrap-around
changes nothing.

*Processes.* `Inv` says which stack each CPU is on (`Stacks`); that a lock is held by the CPU whose
thread is at a place where it owns it (`Owners`); that the tree is rooted at init and no parent is dead
(`Table`); what each thread relies on where it is (`Threads`: fork's slot is its own, the children
passed by `reparent`'s loop are given away, the children passed by `wait`'s scan are not dead); and that a
parent asleep has no dead child, or is about to be woken (`Wakes`). The promises of a loop in progress
are what makes lost wakeups impossible, and they hold because the loop holds `wait_lock`. For
`NoSpinCycle`, a CPU that holds `wait_lock` or `tickslock` wants only a `p->lock`, and one that holds
a `p->lock` wants none. For `ForkExitWaitAreAtomic` a `fork` takes effect at the assignment of
`np->parent`, `exit`, with all the children `reparent` moved, when the state becomes ZOMBIE, `wait` when the
slot is freed.

Only model-checked: `Paging` and all of `Unix`; `PicksHighest`; all liveness (`SleeperWakes`,
`BootCompletes`, `OpReturns`, `NoStarvation`), because the prover has neither fairness nor `ENABLED`; what recursive
definitions and folds compute (the parser, the loops over units and blocks), because induction over
data is beyond the installed provers. `Unix` contains the shell's parser, which is recursive.

## 6. Plan

1. Prove: memory and slot accounting of `Paging`; `PipeFifo`; the counts of files and inodes.
2. Extend: a paging model with a TLB per CPU and with `copyin`, `copyout` and
   `copyinstr`, which read page tables that an eviction may change.
3. Compose: `Log` over `BufCache`; `Fs` over `Log`.

## 7. Not modelled

- Boot, trap entry and context switch assembly, the interrupt controller, the negotiation with the
  virtio device: machine state below TLA+. `main.c`'s order of initialisation is sequential.
- `acquire`'s atomic swap and the fences: the models take a critical section as one step, which is
  what the lock promises.
- The TLB: a translation is read from the page table. `sfence_vma` flushes one CPU only
  (`kalloc.c:209`), and the hazard is listed.
- `copyin`, `copyout`, `copyinstr`, the pages of page tables, the kernel page table.
- The system calls that copy statistics out, and the programs that print them: no state changes.
- The tests of memory in `usertests.c` (`sbrk`, lazy allocation, bad addresses): `Paging` has the
  operations, with all sequences of calls instead of these.
- `string.c`, `printf.c`, `ulib.c`, `umalloc.c`: sequential functions on private data.
