-------------------------------- MODULE Log --------------------------------
(***************************************************************************)
(* kernel/log.c: the redo log.  Processes run FS system calls between      *)
(* begin_op and end_op; the last end_op commits.  A step is a critical     *)
(* section of log.lock, or one synchronous block write of commit() and of  *)
(* recover_from_log(); the machine may crash between any two steps.  A     *)
(* block write is atomic.  The buffer cache is abstracted to the content   *)
(* bread() returns: an unpinned buffer may be recycled at any time, and is *)
(* then read again from the disk.                                          *)
(***************************************************************************)
EXTENDS Integers, Sequences, FiniteSets, Functions

CONSTANTS Proc, Block, Val,
          Zero,             \* content of the blocks mkfs wrote
          MAXOPBLOCKS,      \* 10
          LOGBLOCKS,        \* 30
          OPBLOCKS,         \* bound: different blocks a system call writes
          MAX_CRASHES       \* bound: crashes in a behaviour

ASSUME LogAssumption == /\ MAXOPBLOCKS \in Nat \ {0}
                        /\ LOGBLOCKS \in Nat /\ MAXOPBLOCKS <= LOGBLOCKS
                        /\ OPBLOCKS \in 1 .. MAXOPBLOCKS
                        /\ MAX_CRASHES \in Nat
                        /\ Zero \in Val
                        /\ IsFiniteSet(Proc) /\ IsFiniteSet(Block)

VARIABLES outstanding, committing,
          lh,               \* log.lh.block[0 .. n-1], in memory
          cache,            \* content of each home block as bread() returns it
          pins,             \* bpin()s minus bunpin()s of each block's buffer
          home, dlog, dhead,  \* on disk: home blocks, log blocks, header block
          pc,               \* where each process is
          written,          \* the blocks each process has written in its system call
          phase, tail,      \* step and loop index of commit() or recover_from_log()
          crashes,
          panicked

disk  == <<home, dlog, dhead>>
vars  == <<outstanding, committing, lh, cache, pins, disk, pc, written, phase, tail, crashes, panicked>>

Recovery == {"read_head", "recover", "recover_clear"}
Phase    == Recovery \cup {"none", "write_log", "write_head", "install", "clear", "done"}

TypeOK == /\ outstanding \in 0 .. Cardinality(Proc)
          /\ committing \in BOOLEAN
          /\ lh \in Seq(Block) /\ Len(lh) <= LOGBLOCKS
          /\ cache \in [Block -> Val] /\ home \in [Block -> Val]
          /\ pins \in [Block -> Nat]
          /\ dlog \in [1 .. LOGBLOCKS -> Val]
          /\ dhead \in Seq(Block) /\ Len(dhead) <= LOGBLOCKS
          /\ pc \in [Proc -> {"out", "asleep", "ready", "in", "commit"}]
          /\ written \in [Proc -> SUBSET Block]
          /\ phase \in Phase /\ tail \in 0 .. LOGBLOCKS
          /\ crashes \in 0 .. MAX_CRASHES
          /\ panicked \in BOOLEAN

\* mkfs leaves an empty log; fsinit calls initlog in the first process.
Init == /\ outstanding = 0 /\ committing = FALSE
        /\ lh = <<>>
        /\ home = [b \in Block |-> Zero] /\ cache = home
        /\ pins = [b \in Block |-> 0]
        /\ dlog = [i \in 1 .. LOGBLOCKS |-> Zero]
        /\ dhead = <<>>
        /\ pc = [p \in Proc |-> "out"]
        /\ written = [p \in Proc |-> {}]
        /\ phase = "read_head" /\ tail = 0
        /\ crashes = 0
        /\ panicked = FALSE

Running == ~panicked /\ phase \notin Recovery

\* wakeup(&log), with process p going on to state s.
wakeup(p, s) == pc' = [q \in Proc |-> IF q = p THEN s
                                      ELSE IF pc[q] = "asleep" THEN "ready" ELSE pc[q]]

-----------------------------------------------------------------------------
(* FS system calls. *)

\* Mutant: does not count the call that begins.
NoSpace_OffByOne == Len(lh) + outstanding * MAXOPBLOCKS > LOGBLOCKS

NoSpace == Len(lh) + (outstanding + 1) * MAXOPBLOCKS > LOGBLOCKS

begin_op(p) ==
    /\ Running
    /\ pc[p] \in {"out", "ready"}
    /\ IF committing \/ NoSpace
       THEN /\ pc' = [pc EXCEPT ![p] = "asleep"]
            /\ UNCHANGED outstanding
       ELSE /\ outstanding' = outstanding + 1
            /\ pc' = [pc EXCEPT ![p] = "in"]
    /\ UNCHANGED <<committing, lh, cache, pins, disk, written, phase, tail, crashes, panicked>>

\* Mutant: pins the buffer on every call.
log_write_PinAlways(p, b, v) ==
    /\ Running
    /\ pc[p] = "in"
    /\ Cardinality(written[p] \cup {b}) <= OPBLOCKS
    /\ Len(lh) < LOGBLOCKS
    /\ cache' = [cache EXCEPT ![b] = v]
    /\ written' = [written EXCEPT ![p] = @ \cup {b}]
    /\ lh' = IF b \in Range(lh) THEN lh ELSE Append(lh, b)
    /\ pins' = [pins EXCEPT ![b] = @ + 1]
    /\ UNCHANGED <<outstanding, committing, disk, pc, phase, tail, crashes, panicked>>

\* The caller holds b's buffer, has changed it to v and calls log_write.
log_write(p, b, v) ==
    /\ Running
    /\ pc[p] = "in"
    /\ Cardinality(written[p] \cup {b}) <= OPBLOCKS
    /\ cache' = [cache EXCEPT ![b] = v]
    /\ IF Len(lh) >= LOGBLOCKS
       THEN panicked' = TRUE /\ UNCHANGED <<lh, pins, written>>
       ELSE /\ written' = [written EXCEPT ![p] = @ \cup {b}]
            /\ IF b \in Range(lh)
               THEN UNCHANGED <<lh, pins>>
               ELSE /\ lh' = Append(lh, b)
                    /\ pins' = [pins EXCEPT ![b] = @ + 1]
            /\ UNCHANGED panicked
    /\ UNCHANGED <<outstanding, committing, disk, pc, phase, tail, crashes>>

\* The critical section of end_op; commit() follows if this was the last call.
end_op(p) ==
    /\ Running
    /\ pc[p] = "in"
    /\ outstanding' = outstanding - 1
    /\ written' = [written EXCEPT ![p] = {}]
    /\ IF committing
       THEN panicked' = TRUE /\ UNCHANGED <<committing, pc, phase, tail>>
       ELSE /\ UNCHANGED panicked
            /\ IF outstanding' = 0
               THEN /\ committing' = TRUE
                    /\ pc' = [pc EXCEPT ![p] = "commit"]
                    /\ phase' = IF lh = <<>> THEN "done" ELSE "write_log"
                    /\ tail' = 0
               ELSE /\ wakeup(p, "out")
                    /\ UNCHANGED <<committing, phase, tail>>
    /\ UNCHANGED <<lh, cache, pins, disk, crashes>>

-----------------------------------------------------------------------------
(* commit(). *)

\* Mutant: recovery does not advance the loop index.
LoopTo_NoIncrement(now, next) ==
    IF tail + 1 < Len(lh)
    THEN phase' = now /\ tail' = IF now = "recover" THEN tail ELSE tail + 1
    ELSE phase' = next /\ tail' = 0

\* Go round the loop over the n entries of lh, or on to the next step.
LoopTo(now, next) == IF tail + 1 < Len(lh) THEN phase' = now /\ tail' = tail + 1
                     ELSE phase' = next /\ tail' = 0

\* Mutant: the header is written before the log blocks.
write_log_HeadFirst == /\ ~panicked /\ phase = "write_log"
                       /\ dhead' = lh
                       /\ dlog' = [dlog EXCEPT ![tail + 1] = cache[lh[tail + 1]]]
                       /\ LoopTo("write_log", "write_head")
                       /\ UNCHANGED <<outstanding, committing, lh, cache, pins, home, pc, written,
                                      crashes, panicked>>

write_log == /\ ~panicked /\ phase = "write_log"
             /\ dlog' = [dlog EXCEPT ![tail + 1] = cache[lh[tail + 1]]]
             /\ LoopTo("write_log", "write_head")
             /\ UNCHANGED <<outstanding, committing, lh, cache, pins, home, dhead, pc, written,
                            crashes, panicked>>

\* The commit point.
write_head == /\ ~panicked /\ phase = "write_head"
              /\ dhead' = lh
              /\ phase' = "install" /\ tail' = 0
              /\ UNCHANGED <<outstanding, committing, lh, cache, pins, home, dlog, pc, written,
                             crashes, panicked>>

\* install_trans(0) during a commit unpins, install_trans(1) at boot does not.
install_trans(now, next, unpin) ==
    LET b == lh[tail + 1]
    IN  /\ ~panicked /\ phase = now
        /\ home' = [home EXCEPT ![b] = dlog[tail + 1]]
        /\ cache' = [cache EXCEPT ![b] = dlog[tail + 1]]
        /\ pins' = [pins EXCEPT ![b] = @ - unpin]
        /\ LoopTo(now, next)
        /\ UNCHANGED <<outstanding, committing, lh, dlog, dhead, pc, written, crashes, panicked>>

\* log.lh.n = 0; write_head()
clear(now, next) == /\ ~panicked /\ phase = now
                    /\ lh' = <<>> /\ dhead' = <<>>
                    /\ phase' = next
                    /\ UNCHANGED <<outstanding, committing, cache, pins, home, dlog, pc, written, tail,
                                   crashes, panicked>>

\* Mutant: does not wake the processes that wait for the commit.
end_commit_NoWakeup(p) ==
    /\ ~panicked /\ phase = "done" /\ pc[p] = "commit"
    /\ committing' = FALSE
    /\ pc' = [pc EXCEPT ![p] = "out"]
    /\ phase' = "none"
    /\ UNCHANGED <<outstanding, lh, cache, pins, disk, written, tail, crashes, panicked>>

\* The second critical section of end_op.
end_commit(p) == /\ ~panicked /\ phase = "done" /\ pc[p] = "commit"
                 /\ committing' = FALSE
                 /\ wakeup(p, "out")
                 /\ phase' = "none"
                 /\ UNCHANGED <<outstanding, lh, cache, pins, disk, written, tail, crashes, panicked>>

-----------------------------------------------------------------------------
(* Crashes, boot, and the buffer cache. *)

crash == /\ ~panicked
         /\ crashes < MAX_CRASHES
         /\ crashes' = crashes + 1
         /\ outstanding' = 0 /\ committing' = FALSE
         /\ lh' = <<>>
         /\ cache' = home
         /\ pins' = [b \in Block |-> 0]
         /\ pc' = [p \in Proc |-> "out"]
         /\ written' = [p \in Proc |-> {}]
         /\ phase' = "read_head" /\ tail' = 0
         /\ UNCHANGED <<disk, panicked>>

read_head == /\ ~panicked /\ phase = "read_head"
             /\ lh' = dhead
             /\ phase' = IF dhead = <<>> THEN "recover_clear" ELSE "recover"
             /\ tail' = 0
             /\ UNCHANGED <<outstanding, committing, cache, pins, disk, pc, written, crashes, panicked>>

\* bget recycles the buffer of a block nobody pins; the next bread reads the disk.
Recycle(b) == /\ ~panicked
              /\ pins[b] = 0
              /\ cache' = [cache EXCEPT ![b] = home[b]]
              /\ UNCHANGED <<outstanding, committing, lh, pins, disk, pc, written, phase, tail, crashes,
                             panicked>>

commit == \/ write_log
          \/ write_head
          \/ install_trans("install", "clear", 1)
          \/ clear("clear", "done")
          \/ \E p \in Proc : end_commit(p)

recover_from_log == \/ read_head
                    \/ install_trans("recover", "recover_clear", 0)
                    \/ clear("recover_clear", "none")

Next == \/ \E p \in Proc : begin_op(p)
        \/ \E p \in Proc, b \in Block, v \in Val : log_write(p, b, v)
        \/ \E p \in Proc : end_op(p)
        \/ commit
        \/ recover_from_log
        \/ crash
        \/ \E b \in Block : Recycle(b)

\* A system call in progress comes to its end_op, and the process that commits or
\* recovers goes on: it is runnable, and its I/O completes.
Fairness == /\ \A p \in Proc : WF_vars(end_op(p))
            /\ WF_vars(commit)
            /\ WF_vars(recover_from_log)

Spec == Init /\ [][Next]_vars /\ Fairness

-----------------------------------------------------------------------------
(* Properties. *)

\* With system calls that write fewer blocks than MAXOPBLOCKS, the reservation of
\* begin_op leaves room for every log_write, and end_op never meets a commit.
NoPanic == ~panicked

\* Each logged block is pinned exactly once until it is installed, and nothing stays
\* pinned after: log_write and install_trans keep bpin and bunpin in balance.
PinsMatchLog ==
    \A b \in Block :
        pins[b] = IF phase \in Recovery THEN 0
                  ELSE IF phase = "clear" THEN 0
                  ELSE IF phase = "install"
                       THEN Cardinality({i \in tail + 1 .. Len(lh) : lh[i] = b})
                  ELSE Cardinality({i \in 1 .. Len(lh) : lh[i] = b})

\* A process asleep in begin_op is always followed by an end_op that will wake it:
\* no wakeup is lost between the test of begin_op and the end of a commit.
SleeperHasWaker ==
    \A p \in Proc : pc[p] = "asleep" => committing \/ outstanding > 0

\* When no call is in progress and no commit runs, everything written is on disk.
QuietIsDurable ==
    phase = "none" /\ outstanding = 0 /\ ~panicked => home = cache /\ lh = <<>> /\ dhead = <<>>

\* The log's own account of its blocks, its pins and its sleepers is exact at every step of a
\* commit and of a recovery.
LogExact == TypeOK /\ PinsMatchLog /\ SleeperHasWaker /\ QuietIsDurable

\* What a crash now would leave after recovery.
Stable == [b \in Block |-> IF b \in Range(dhead)
                           THEN dlog[CHOOSE i \in 1 .. Len(dhead) : dhead[i] = b]
                           ELSE home[b]]

\* System calls are atomic with respect to crashes: at any point, also in the middle
\* of a commit or of a recovery, the disk holds the state after the last group of
\* finished calls and nothing of any other call.
Atomic == INSTANCE AtomicDisk WITH
              mem <- IF phase \in Recovery THEN Stable ELSE cache,
              stable <- Stable,
              open <- {p \in Proc : pc[p] = "in"}
ImplementsAtomicDisk == Atomic!Spec

\* A process that waits in begin_op is eventually woken.
SleeperWakes == \A p \in Proc : pc[p] = "asleep" ~> pc[p] # "asleep"

\* Recovery ends, however often it is interrupted.
BootCompletes == phase \in Recovery ~> phase \notin Recovery
=============================================================================
