------------------------------- MODULE Kernel -------------------------------
(***************************************************************************)
(* The state that the system calls of proc.c, pipe.c, file.c, fs.c and      *)
(* sysfile.c share, and how a kernel thread runs.                           *)
(*                                                                          *)
(* Each process has one kernel thread.  todo[p] is its call stack, read as  *)
(* the sequence of operations the thread still has to run before it returns *)
(* to user space.  A step runs the first operation: it either drops it, or  *)
(* replaces it by the operations it calls, and one step is one critical     *)
(* section (a spin lock held, or what a thread does to an inode it has      *)
(* locked).  Threads interleave between the steps.  reg[p] is the value an  *)
(* operation returns to the next one.                                       *)
(*                                                                          *)
(* A thread that sleeps keeps its first operation and runs it again when    *)
(* woken: every sleep() of this code is inside a loop that tests its        *)
(* condition again.  That sleep() misses no wakeup() is shown in Process.   *)
(***************************************************************************)
EXTENDS Integers, Sequences, FiniteSets, FiniteSetsExt, SequencesExt

CONSTANTS
    NPROC, NOFILE, NFILE,
    NINODE,              \* entries of the inode table in memory
    NINODES,             \* inodes on disk
    FSSIZE,              \* data blocks on disk
    BSIZE,               \* a block holds BSIZE units: a unit is a directory entry or a run of bytes
    NDIRECT, NINDIRECT, IPB, BPB, MAXOPBLOCKS,
    NPIPE,               \* pages that kalloc() can give to pipes
    PIPESIZE,
    INPUT_BUF_SIZE, TXBUF,   \* cons.buf, and buf of consolewrite
    UINT,                \* an unsigned counter runs modulo UINT (2^32 in the code)
    MaxCrash             \* bound: power failures in a behaviour

ASSUME KernelAssumption ==
    /\ {NPROC, NOFILE, NFILE, NINODE, NINODES, FSSIZE, BSIZE, NDIRECT,
        NINDIRECT, IPB, BPB, MAXOPBLOCKS, NPIPE, PIPESIZE, INPUT_BUF_SIZE, TXBUF, UINT} \subseteq Nat \ {0}
    /\ \A size \in {PIPESIZE, INPUT_BUF_SIZE} : UINT % size = 0 /\ UINT > size     \* as 2^32, 512 and 128 are
    /\ MaxCrash \in Nat

Procs == 1 .. NPROC      \* process 1 is initproc

VARIABLES
    cur,          \* the file system as the buffer cache shows it
    disk,         \* the file system as of the last commit: what a crash leaves
    outstanding,  \* transactions each process is in (log.outstanding is their sum)
    logged,       \* blocks each process has passed to log_write in its transaction
    itable, ftable, pipes,
    cons,         \* the console and the UART
    proc,         \* state, pid, parent, killed, xstate, ofile, cwd
    chan,         \* what each process sleeps on
    nextpid,
    todo, reg,
    user,         \* what runs in user space
    panicked,
    crashes

fsvars == <<cur, disk, outstanding, logged, itable>>
prvars == <<proc, nextpid>>
vars   == <<fsvars, ftable, pipes, prvars, chan, todo, reg, user, panicked, cons, crashes>>

NoChan == <<"none", 0>>
Runs(p) == proc[p].state = "LIVE" /\ chan[p] = NoChan /\ panicked = ""
At(p, op) == todo[p] # <<>> /\ Head(todo[p]).op = op /\ Runs(p)
Arg(p) == Head(todo[p])

\* The first operation is done and calls ops.
Then(p, ops) == todo' = [todo EXCEPT ![p] = ops \o Tail(@)]
Done(p) == Then(p, <<>>)

sleep(p, c) == chan' = [chan EXCEPT ![p] = c]

Woken(cs, c) == [q \in Procs |-> IF cs[q] = c THEN NoChan ELSE cs[q]]

wakeup(c) == chan' = Woken(chan, c)

\* F(v), with v computed once.
Once(v, F(_)) == CHOOSE r \in {F(u) : u \in {v}} : TRUE

Panic(when, what) == panicked' = IF when THEN what ELSE panicked

\* Operations, as data.
Ret(v)          == <<[op |-> "ret", v |-> v, data |-> <<>>]>>
RetData(v, d)   == <<[op |-> "ret", v |-> v, data |-> d]>>
Ilock(i)        == <<[op |-> "ilock", ip |-> i]>>
Iunlock(i)      == <<[op |-> "iunlock", ip |-> i]>>
Iput(i)         == <<[op |-> "iput", ip |-> i]>>
Iunlockput(i)   == Iunlock(i) \o Iput(i)
BeginOp         == <<[op |-> "begin_op"]>>
EndOp           == <<[op |-> "end_op"]>>
Fail            == EndOp \o Ret(-1)
=============================================================================
