------------------------------ MODULE Process -------------------------------
(***************************************************************************)
(* The life of a process, proc.c, with the spin locks it takes: fork, exit, *)
(* wait, kill, pause, sleep, wakeup, and the switch between a process and   *)
(* the scheduler of a CPU.                                                  *)
(*                                                                          *)
(* A step is one acquire() with what follows it up to the next acquire() or *)
(* release(); a critical section that takes no other lock of the model is   *)
(* one step.  A thread that finds its lock taken spins: its step is         *)
(* disabled.  Locks belong to CPUs, as lk->cpu does; a CPU that holds one   *)
(* takes no interrupt.  Which process a scheduler picks is left open here,  *)
(* Mlfq has the rest of scheduler().  Memory, files and directories of a    *)
(* process are left out.                                                    *)
(***************************************************************************)
EXTENDS Integers, FiniteSets, FiniteSetsExt

CONSTANTS NPROC, NCPU,
          MaxPid,       \* bound: processes ever made
          Pausers,      \* bound: the slots whose process calls pause
          Killers       \* bound: the slots whose process calls kill

ASSUME ProcessAssumption == NPROC \in Nat \ {0} /\ NCPU \in Nat \ {0} /\ MaxPid \in Nat \ {0}

Procs == 1 .. NPROC     \* 1 is initproc
CPUs  == 1 .. NCPU      \* 1 is the CPU that counts ticks

\* Locks: p->lock is p.  Channels: a parent sleeps on itself, pause on &ticks; 0 is none.
wait_lock == 0
tickslock == -1
Locks     == {tickslock, wait_lock} \cup Procs
TICKS     == -1

VARIABLES
    state, chan, killed, parent, pid,
    nextpid,
    lk,         \* the CPU that holds each lock, 0 when it is free
    cpu,        \* of each CPU: proc; from, a process it has switched away from; intr, where clockintr is
    loc,        \* where the thread of each process is, and its locals
    panicked

procs == <<state, chan, killed, parent, pid, nextpid>>
vars  == <<procs, lk, cpu, loc, panicked>>

\* i, j: loop indices.  np: the process or pid an operation is about.  ret, back: where a
\* call returns to.  n: ticks still to pause.  moved: children given to init so far.
Loc(pc) == [pc |-> pc, i |-> 1, j |-> 1, np |-> 0, ret |-> "", back |-> "", lk |-> 0, kids |-> FALSE,
            n |-> 0, moved |-> {}]

Idle == [proc |-> 0, from |-> 0, intr |-> 0]

\* userinit has made the first process.
Init ==
    /\ state = [p \in Procs |-> IF p = 1 THEN "RUNNABLE" ELSE "UNUSED"]
    /\ chan = [p \in Procs |-> 0] /\ killed = [p \in Procs |-> FALSE]
    /\ parent = [p \in Procs |-> 0]
    /\ pid = [p \in Procs |-> IF p = 1 THEN 1 ELSE 0] /\ nextpid = 2
    /\ lk = [l \in Locks |-> 0]
    /\ cpu = [c \in CPUs |-> Idle]
    /\ loc = [p \in Procs |-> [Loc("resume") EXCEPT !.back = "user"]]
    /\ panicked = ""

-----------------------------------------------------------------------------
\* Locks and threads

Held(c)   == {l \in Locks : lk[l] = c}
Free(l)   == lk[l] = 0
acquire(c, l) == Free(l) /\ lk' = [lk EXCEPT ![l] = c]
release(l)    == lk' = [lk EXCEPT ![l] = 0]

\* CPU c runs the thread of p, which is at pc.
At(c, p, pc) == loc[p].pc = pc /\ cpu[c].proc = p /\ cpu[c].intr = 0 /\ panicked = ""

Go(p, l)     == loc' = [loc EXCEPT ![p] = l]
Goto(p, pc)  == loc' = [loc EXCEPT ![p].pc = pc]

\* killed(p), for p itself.
IfKilled(p, yes, no) == Free(p) /\ Goto(p, IF killed[p] THEN yes ELSE no)

-----------------------------------------------------------------------------
\* User space and traps

\* A system call.  init exits too, when its fork or its wait fails.  kill takes any number: 0 is
\* the pid of a free slot, 1 is init, nextpid is nobody's.
syscall(c, p) ==
    /\ At(c, p, "user")
    /\ \/ nextpid <= MaxPid /\ Go(p, Loc("fork"))
       \/ Go(p, Loc("wait"))
       \/ Go(p, Loc("exit"))
       \/ p \in Killers /\ \E t \in 0 .. nextpid : Go(p, [Loc("kill") EXCEPT !.np = t])
       \/ p \in Pausers /\ Go(p, Loc("pause"))
    /\ UNCHANGED <<procs, lk, cpu, panicked>>

\* The end of usertrap.
usertrap_ret(c, p) ==
    /\ At(c, p, "ret")
    /\ IfKilled(p, "exit", "user")
    /\ UNCHANGED <<procs, lk, cpu, panicked>>

\* A timer interrupt in user space: the test of killed, then yield.
usertrap_tick(c, p) ==
    /\ At(c, p, "tick")
    /\ Free(p)
    /\ Go(p, IF killed[p] THEN Loc("exit") ELSE [Loc("yield") EXCEPT !.back = "user"])
    /\ UNCHANGED <<procs, lk, cpu, panicked>>

Pausing(p) == state[p] # "UNUSED" /\ loc[p].n > 0
Interrupted(p) ==
    IF loc[p].pc = "user" THEN Loc("tick") ELSE [loc[p] EXCEPT !.pc = "yield", !.back = loc[p].pc]

\* A timer interrupt, where interrupts are on: no lock is held.  On the first CPU it
\* calls clockintr; a tick nobody waits for changes nothing there.
timer(c) ==
    /\ panicked = "" /\ Held(c) = {} /\ cpu[c].from = 0 /\ cpu[c].intr = 0
    /\ LET p == cpu[c].proc
       IN  IF c = 1 /\ \E q \in Procs : Pausing(q)
           THEN /\ acquire(c, tickslock)
                /\ cpu' = [cpu EXCEPT ![c].intr = 1]
                /\ loc' = [q \in Procs |-> IF Pausing(q) THEN [loc[q] EXCEPT !.n = @ - 1] ELSE loc[q]]
           ELSE /\ p # 0 /\ loc[p].pc \notin {"tick", "yield"}
                /\ Go(p, Interrupted(p))
                /\ UNCHANGED <<lk, cpu>>
    /\ UNCHANGED <<procs, panicked>>

\* The loop of wakeup(&ticks) in clockintr, and the end of the interrupt.
clockintr(c) ==
    /\ panicked = "" /\ cpu[c].intr > 0
    /\ LET q == cpu[c].intr
           p == cpu[c].proc
       IN  \/ /\ q <= NPROC
              /\ q = p \/ Free(q)
              /\ state' = IF q # p /\ state[q] = "SLEEPING" /\ chan[q] = TICKS
                          THEN [state EXCEPT ![q] = "RUNNABLE"] ELSE state
              /\ cpu' = [cpu EXCEPT ![c].intr = @ + 1]
              /\ UNCHANGED <<lk, loc>>
           \/ /\ q > NPROC
              /\ release(tickslock)
              /\ cpu' = [cpu EXCEPT ![c].intr = 0]
              /\ loc' = IF p = 0 \/ loc[p].pc \in {"tick", "yield"} THEN loc
                        ELSE [loc EXCEPT ![p] = Interrupted(p)]
              /\ UNCHANGED state
    /\ UNCHANGED <<chan, killed, parent, pid, nextpid, panicked>>

-----------------------------------------------------------------------------
\* The switch to and from a scheduler, sleep and wakeup

\* sched, called by p on c with the locks of held, to sleep, yield or exit: the scheduler of
\* the CPU goes on with p->lock.
sched(c, p, held, st) ==
    /\ panicked' = IF p \notin held THEN "sched p->lock"
                   ELSE IF held # {p} THEN "sched locks"
                   ELSE IF st = "RUNNING" THEN "sched RUNNING" ELSE ""
    /\ state' = [state EXCEPT ![p] = st]
    /\ cpu' = [cpu EXCEPT ![c] = [Idle EXCEPT !.from = p]]

\* The scheduler's release of the lock the process came with.
scheduler_release(c) ==
    /\ panicked = "" /\ cpu[c].from # 0
    /\ release(cpu[c].from)
    /\ cpu' = [cpu EXCEPT ![c].from = 0]
    /\ UNCHANGED <<procs, loc, panicked>>

\* A RUNNABLE process is resumed, and does what follows sched in yield, sleep and forkret
\* up to its release of the lock.
scheduler(c, p) ==
    /\ panicked = "" /\ cpu[c] = Idle /\ state[p] = "RUNNABLE" /\ Free(p)
    /\ state' = [state EXCEPT ![p] = "RUNNING"]
    /\ cpu' = [cpu EXCEPT ![c].proc = p]
    /\ chan' = [chan EXCEPT ![p] = 0]
    /\ Go(p, [loc[p] EXCEPT !.pc = loc[p].back, !.back = ""])
    /\ UNCHANGED <<killed, parent, pid, nextpid, lk, panicked>>

\* Mutant: the process stays RUNNING.
yield_Running(c, p) ==
    /\ At(c, p, "yield")
    /\ acquire(c, p)
    /\ sched(c, p, Held(c) \cup {p}, state[p])
    /\ Goto(p, "resume")
    /\ UNCHANGED <<chan, killed, parent, pid, nextpid>>

yield(c, p) ==
    /\ At(c, p, "yield")
    /\ acquire(c, p)
    /\ sched(c, p, Held(c) \cup {p}, "RUNNABLE")
    /\ Goto(p, "resume")
    /\ UNCHANGED <<chan, killed, parent, pid, nextpid>>

\* sleep(ch, l): p->lock is taken before l is given up.
Sleep(p, ch, l) == Go(p, [Loc("sleep") EXCEPT !.np = ch, !.lk = l, !.n = loc[p].n])

\* Mutant: the caller's lock is given up first.
sleep_lock_Late(c, p) ==
    /\ At(c, p, "sleep")
    /\ IF loc[p].ret = ""
       THEN release(loc[p].lk) /\ Go(p, [loc[p] EXCEPT !.ret = "late"]) /\ UNCHANGED <<procs, cpu, panicked>>
       ELSE /\ acquire(c, p)
            /\ chan' = [chan EXCEPT ![p] = loc[p].np]
            /\ sched(c, p, Held(c) \cup {p}, "SLEEPING")
            /\ Go(p, [loc[p] EXCEPT !.pc = "resume", !.back = "sleep_return", !.np = 0, !.ret = ""])
            /\ UNCHANGED <<killed, parent, pid, nextpid>>

sleep_lock(c, p) ==
    /\ At(c, p, "sleep")
    /\ acquire(c, p)
    /\ Goto(p, "sleep_release")
    /\ UNCHANGED <<procs, cpu, panicked>>

sleep_release(c, p) ==
    /\ At(c, p, "sleep_release")
    /\ release(loc[p].lk)
    /\ chan' = [chan EXCEPT ![p] = loc[p].np]
    /\ sched(c, p, Held(c) \ {loc[p].lk}, "SLEEPING")
    /\ Go(p, [loc[p] EXCEPT !.pc = "resume", !.back = "sleep_return", !.np = 0])
    /\ UNCHANGED <<killed, parent, pid, nextpid>>

\* The reacquired lock; the callers of sleep loop.
sleep_return(c, p) ==
    /\ At(c, p, "sleep_return")
    /\ acquire(c, loc[p].lk)
    /\ Go(p, [loc[p] EXCEPT !.pc = IF loc[p].lk = wait_lock THEN "wait_scan" ELSE "pause_test",
                            !.lk = 0])
    /\ UNCHANGED <<procs, cpu, panicked>>

\* wakeup(ch), called by p: one process of the loop, or its end.
Wakeup(p, l, ch, ret) == Go(p, [l EXCEPT !.pc = "wakeup", !.j = 1, !.np = ch, !.ret = ret])

wakeup(c, p) ==
    /\ At(c, p, "wakeup")
    /\ LET q == loc[p].j
       IN  \/ /\ q > NPROC
              /\ Go(p, [loc[p] EXCEPT !.pc = loc[p].ret, !.j = 1, !.np = 0, !.ret = ""])
              /\ UNCHANGED state
           \/ /\ q <= NPROC
              /\ q = p \/ Free(q)
              /\ state' = IF q # p /\ state[q] = "SLEEPING" /\ chan[q] = loc[p].np
                          THEN [state EXCEPT ![q] = "RUNNABLE"] ELSE state
              /\ Go(p, [loc[p] EXCEPT !.j = @ + 1])
    /\ UNCHANGED <<chan, killed, parent, pid, nextpid, lk, cpu, panicked>>

-----------------------------------------------------------------------------
\* fork

\* Mutant: np->lock is kept while the parent is set.
allocproc_KeepLock(c, p) ==
    /\ At(c, p, "fork")
    /\ LET i == loc[p].i
       IN  IF i > NPROC \/ nextpid > MaxPid
           THEN Go(p, Loc("ret")) /\ UNCHANGED <<procs, lk>>
           ELSE IF state[i] # "UNUSED"
           THEN Free(i) /\ Go(p, [loc[p] EXCEPT !.i = @ + 1]) /\ UNCHANGED <<procs, lk>>
           ELSE /\ acquire(c, i)
                /\ state' = [state EXCEPT ![i] = "USED"]
                /\ pid' = [pid EXCEPT ![i] = nextpid]
                /\ loc' = [loc EXCEPT ![p] = [@ EXCEPT !.pc = "fork_parent", !.np = i],
                                      ![i] = [Loc("resume") EXCEPT !.back = "user"]]
                /\ nextpid' = nextpid + 1
                /\ UNCHANGED <<chan, killed, parent>>
    /\ UNCHANGED <<cpu, panicked>>

\* Mutant: the slot keeps its parent.
freeproc_KeepParent(q) ==
    /\ state' = [state EXCEPT ![q] = "UNUSED"]
    /\ chan' = [chan EXCEPT ![q] = 0] /\ killed' = [killed EXCEPT ![q] = FALSE]
    /\ pid' = [pid EXCEPT ![q] = 0]
    /\ UNCHANGED parent

\* freeproc(q).
freeproc(q) ==
    /\ state' = [state EXCEPT ![q] = "UNUSED"]
    /\ chan' = [chan EXCEPT ![q] = 0] /\ killed' = [killed EXCEPT ![q] = FALSE]
    /\ parent' = [parent EXCEPT ![q] = 0] /\ pid' = [pid EXCEPT ![q] = 0]

\* A slot of allocproc's scan.  When memory for the new process is short freeproc cleans the
\* slot; a new process has the killed flag its slot had.
allocproc(c, p) ==
    /\ At(c, p, "fork")
    /\ LET i == loc[p].i
       IN  \/ /\ i > NPROC
              /\ Go(p, Loc("ret")) /\ UNCHANGED procs
           \/ /\ i <= NPROC /\ Free(i) /\ state[i] # "UNUSED"
              /\ Go(p, [loc[p] EXCEPT !.i = @ + 1]) /\ UNCHANGED procs
           \/ /\ i <= NPROC /\ Free(i) /\ state[i] = "UNUSED" /\ nextpid > MaxPid   \* the bound
              /\ Go(p, Loc("ret")) /\ UNCHANGED procs
           \/ /\ i <= NPROC /\ Free(i) /\ state[i] = "UNUSED" /\ nextpid <= MaxPid
              /\ \/ /\ state' = [state EXCEPT ![i] = "USED"]
                    /\ pid' = [pid EXCEPT ![i] = nextpid]
                    /\ loc' = [loc EXCEPT ![p] = [@ EXCEPT !.pc = "fork_parent", !.np = i],
                                          ![i] = [Loc("resume") EXCEPT !.back = "user"]]
                    /\ UNCHANGED <<chan, killed, parent>>
                 \/ freeproc(i) /\ Go(p, Loc("ret"))
              /\ nextpid' = nextpid + 1
    /\ UNCHANGED <<lk, cpu, panicked>>

kfork_parent(c, p) ==
    /\ At(c, p, "fork_parent") /\ Free(wait_lock)
    /\ parent' = [parent EXCEPT ![loc[p].np] = p]
    /\ Goto(p, "fork_run")
    /\ UNCHANGED <<state, chan, killed, pid, nextpid, lk, cpu, panicked>>

kfork_run(c, p) ==
    /\ At(c, p, "fork_run") /\ Free(loc[p].np)
    /\ state' = [state EXCEPT ![loc[p].np] = "RUNNABLE"]
    /\ Go(p, Loc("ret"))
    /\ UNCHANGED <<chan, killed, parent, pid, nextpid, lk, cpu, panicked>>

-----------------------------------------------------------------------------
\* exit.  Files and directory are closed before.

kexit(c, p) ==
    /\ At(c, p, "exit")
    /\ IF p = 1
       THEN panicked' = "init exiting" /\ UNCHANGED <<lk, loc>>
       ELSE acquire(c, wait_lock) /\ Go(p, Loc("reparent")) /\ UNCHANGED panicked
    /\ UNCHANGED <<procs, cpu>>

\* Mutant: only the children that still live are given away.
reparent_LiveOnly(c, p) ==
    /\ At(c, p, "reparent")
    /\ LET i == loc[p].i
       IN  IF i > NPROC
           THEN Wakeup(p, loc[p], parent[p], "exit_lock") /\ UNCHANGED parent
           ELSE IF parent[i] = p /\ state[i] # "ZOMBIE"
           THEN /\ parent' = [parent EXCEPT ![i] = 1]
                /\ Wakeup(p, [loc[p] EXCEPT !.i = @ + 1, !.moved = @ \cup {i}], 1, "reparent")
           ELSE Go(p, [loc[p] EXCEPT !.i = @ + 1]) /\ UNCHANGED parent
    /\ UNCHANGED <<state, chan, killed, pid, nextpid, lk, cpu, panicked>>

\* One process of reparent's loop; after the loop, wakeup(p->parent).
reparent(c, p) ==
    /\ At(c, p, "reparent")
    /\ LET i == loc[p].i
       IN  IF i > NPROC
           THEN Wakeup(p, loc[p], parent[p], "exit_lock") /\ UNCHANGED parent
           ELSE IF parent[i] = p
           THEN /\ parent' = [parent EXCEPT ![i] = 1]
                /\ Wakeup(p, [loc[p] EXCEPT !.i = @ + 1, !.moved = @ \cup {i}], 1, "reparent")
           ELSE Go(p, [loc[p] EXCEPT !.i = @ + 1]) /\ UNCHANGED parent
    /\ UNCHANGED <<state, chan, killed, pid, nextpid, lk, cpu, panicked>>

kexit_zombie(c, p) ==
    /\ At(c, p, "exit_lock")
    /\ acquire(c, p)
    /\ state' = [state EXCEPT ![p] = "ZOMBIE"]
    /\ Go(p, Loc("exit_release"))
    /\ UNCHANGED <<chan, killed, parent, pid, nextpid, cpu, panicked>>

kexit_sched(c, p) ==
    /\ At(c, p, "exit_release")
    /\ release(wait_lock)
    /\ sched(c, p, Held(c) \ {wait_lock}, "ZOMBIE")
    /\ Goto(p, "resume")
    /\ UNCHANGED <<chan, killed, parent, pid, nextpid>>

-----------------------------------------------------------------------------
\* wait

kwait(c, p) ==
    /\ At(c, p, "wait")
    /\ acquire(c, wait_lock)
    /\ Goto(p, "wait_scan")
    /\ UNCHANGED <<procs, cpu, panicked>>

\* Mutant: a zombie is recognised without its lock, while its CPU is still on its stack.
kwait_scan_NoLock(c, p) ==
    /\ At(c, p, "wait_scan") /\ loc[p].i <= NPROC
    /\ LET q == loc[p].i
       IN  \/ /\ parent[q] # p
              /\ Go(p, [loc[p] EXCEPT !.i = @ + 1]) /\ UNCHANGED <<procs, lk>>
           \/ /\ parent[q] = p /\ state[q] = "ZOMBIE"
              /\ freeproc(q) /\ UNCHANGED nextpid /\ release(wait_lock) /\ Go(p, Loc("ret"))
           \/ /\ parent[q] = p /\ state[q] # "ZOMBIE"
              /\ Go(p, [loc[p] EXCEPT !.i = @ + 1, !.kids = TRUE]) /\ UNCHANGED <<procs, lk>>
    /\ UNCHANGED <<cpu, panicked>>

\* One process of kwait's scan.  A status address that copyout refuses leaves the zombie; init
\* passes none.
kwait_scan(c, p) ==
    /\ At(c, p, "wait_scan") /\ loc[p].i <= NPROC
    /\ LET q == loc[p].i
       IN  \/ /\ parent[q] # p
              /\ Go(p, [loc[p] EXCEPT !.i = @ + 1]) /\ UNCHANGED <<procs, lk>>
           \/ /\ parent[q] = p /\ Free(q) /\ state[q] = "ZOMBIE"
              /\ \/ freeproc(q) /\ UNCHANGED nextpid
                 \/ p # 1 /\ UNCHANGED procs
              /\ release(wait_lock) /\ Go(p, Loc("ret"))
           \/ /\ parent[q] = p /\ Free(q) /\ state[q] # "ZOMBIE"
              /\ Go(p, [loc[p] EXCEPT !.i = @ + 1, !.kids = TRUE]) /\ UNCHANGED <<procs, lk>>
    /\ UNCHANGED <<cpu, panicked>>

kwait_sleep(c, p) ==
    /\ At(c, p, "wait_scan") /\ loc[p].i > NPROC
    /\ loc[p].kids => Free(p)
    /\ IF ~loc[p].kids \/ killed[p]
       THEN release(wait_lock) /\ Go(p, Loc("ret"))
       ELSE Sleep(p, p, wait_lock) /\ UNCHANGED lk
    /\ UNCHANGED <<procs, cpu, panicked>>

-----------------------------------------------------------------------------
\* kill and pause

\* One process of kkill's loop.
kkill(c, p) ==
    /\ At(c, p, "kill")
    /\ LET i == loc[p].i
       IN  \/ i > NPROC /\ Go(p, Loc("ret")) /\ UNCHANGED <<state, killed>>
           \/ /\ i <= NPROC /\ Free(i) /\ pid[i] # loc[p].np
              /\ Go(p, [loc[p] EXCEPT !.i = @ + 1]) /\ UNCHANGED <<state, killed>>
           \/ /\ i <= NPROC /\ Free(i) /\ pid[i] = loc[p].np
              /\ killed' = [killed EXCEPT ![i] = TRUE]
              /\ state' = IF state[i] = "SLEEPING" THEN [state EXCEPT ![i] = "RUNNABLE"] ELSE state
              /\ Go(p, Loc("ret"))
    /\ UNCHANGED <<chan, parent, pid, nextpid, lk, cpu, panicked>>

\* pause(1).
sys_pause(c, p) ==
    /\ At(c, p, "pause")
    /\ acquire(c, tickslock)
    /\ Go(p, [loc[p] EXCEPT !.pc = "pause_test", !.n = 1])
    /\ UNCHANGED <<procs, cpu, panicked>>

sys_pause_test(c, p) ==
    /\ At(c, p, "pause_test")
    /\ loc[p].n > 0 => Free(p)
    /\ IF loc[p].n = 0 \/ killed[p]
       THEN release(tickslock) /\ Go(p, Loc("ret"))
       ELSE Sleep(p, TICKS, tickslock) /\ UNCHANGED lk
    /\ UNCHANGED <<procs, cpu, panicked>>

-----------------------------------------------------------------------------
Thread(c, p) ==
    \/ usertrap_ret(c, p) \/ usertrap_tick(c, p)
    \/ yield(c, p)
    \/ sleep_lock(c, p) \/ sleep_release(c, p) \/ sleep_return(c, p) \/ wakeup(c, p)
    \/ allocproc(c, p) \/ kfork_parent(c, p) \/ kfork_run(c, p)
    \/ kexit(c, p) \/ reparent(c, p) \/ kexit_zombie(c, p) \/ kexit_sched(c, p)
    \/ kwait(c, p) \/ kwait_scan(c, p) \/ kwait_sleep(c, p)
    \/ kkill(c, p) \/ sys_pause(c, p) \/ sys_pause_test(c, p)

\* After a panic nothing more is modelled.
Halted == panicked # "" /\ UNCHANGED vars

Next ==
    \/ \E c \in CPUs :
          \/ timer(c) \/ clockintr(c) \/ scheduler_release(c)
          \/ \E p \in Procs : scheduler(c, p)
          \/ \E p \in {cpu[c].proc} \ {0} : syscall(c, p) \/ Thread(c, p)
    \/ Halted

Spec == Init /\ [][Next]_vars

-----------------------------------------------------------------------------
\* The types; a free slot has no parent and no channel, which allocproc does not reset: else its
\* next process could be waited for by a stranger, or woken before it runs.
TypeOK ==
    /\ state \in [Procs -> {"UNUSED", "USED", "SLEEPING", "RUNNABLE", "RUNNING", "ZOMBIE"}]
    /\ parent \in [Procs -> Procs \cup {0}] /\ pid \in [Procs -> 0 .. MaxPid]
    /\ lk \in [Locks -> CPUs \cup {0}] /\ nextpid \in 2 .. MaxPid + 1
    /\ \A p \in Procs : state[p] = "UNUSED" => parent[p] = 0 /\ chan[p] = 0

\* No sched() is called with another lock than p->lock, without it or by a process marked
\* RUNNING, its three panics.  The one panic left is kexit's, when init is killed or gives up.
NoPanic == panicked \in {"", "init exiting"}

\* The lock the next step of p's thread takes, if it takes one.
Wants(p) ==
    LET l == loc[p]
    IN  CASE l.pc \in {"ret", "tick", "yield", "sleep", "exit_lock"} -> {p}
          [] l.pc \in {"fork_parent", "exit", "wait"} -> {wait_lock}
          [] l.pc = "pause" -> {tickslock}
          [] l.pc = "sleep_return" -> {l.lk}
          [] l.pc = "fork_run" -> {l.np}
          [] l.pc \in {"fork", "kill"} /\ l.i <= NPROC -> {l.i}
          [] l.pc = "wakeup" /\ l.j <= NPROC -> {l.j} \ {p}
          [] l.pc = "wait_scan" -> IF l.i > NPROC THEN {p} ELSE {q \in {l.i} : parent[q] = p}
          [] l.pc = "pause_test" /\ l.n > 0 -> {p}
          [] OTHER -> {}

\* The CPU that c spins on: clockintr's loop, or the thread c runs, wants a lock it holds.
SpinsOn(c) ==
    LET want == IF cpu[c].intr > 0 THEN {cpu[c].intr} \cap (Procs \ {cpu[c].proc})
                ELSE IF cpu[c].proc = 0 THEN {} ELSE Wants(cpu[c].proc)
    IN  {lk[l] : l \in want} \ {0}

\* No CPU spins on a lock of its own (acquire's panic), and no CPUs spin on each other: every
\* holder of a lock can go on.  The order is tickslock or wait_lock, then one p->lock.
NoSpinCycle ==
    \A S \in (SUBSET CPUs) \ {{}} : \E c \in S : SpinsOn(c) \cap S = {}

\* A CPU has the kernel stack of p while it runs p, and after it switched away until the
\* scheduler releases p->lock.  No two CPUs have one stack, and no stack in use belongs to a
\* freed slot: kwait's "make sure the child isn't still in exit() or swtch()".
StacksOwned ==
    \A c \in CPUs :
        /\ \A p \in {cpu[c].proc, cpu[c].from} \ {0} :
              /\ state[p] \notin {"UNUSED", "USED"}
              /\ \A d \in CPUs \ {c} : p \notin {cpu[d].proc, cpu[d].from}
        /\ cpu[c].proc # 0 => state[cpu[c].proc] \in {"RUNNING", "ZOMBIE"}

\* No lost wakeup, stated where nobody holds the caller's lock: no parent is asleep in kwait
\* with a dead child to collect, and nobody is asleep in pause after its tick.
NoLostWakeup ==
    /\ Free(wait_lock) =>
         \A p, q \in Procs : state[p] = "SLEEPING" /\ chan[p] = p /\ parent[q] = p => state[q] # "ZOMBIE"
    /\ Free(tickslock) => \A p \in Procs : state[p] = "SLEEPING" /\ chan[p] = TICKS => loc[p].n > 0

\* Nobody is left with a dead parent: outside wait_lock's sections a process has a parent
\* that can still wait for it, and is never its own.
ParentsAlive ==
    Free(wait_lock) =>
        \A q \in Procs \ {1} :
            state[q] \notin {"UNUSED", "USED"} =>
                parent[q] \in Procs \ {q} /\ state[parent[q]] \notin {"UNUSED", "USED", "ZOMBIE"}

\* Two processes never have one pid, nor does a slot that is in use have none.
PidsUnique ==
    \A p \in Procs :
        /\ state[p] = "UNUSED" <=> pid[p] = 0
        /\ \A q \in Procs \ {p} : pid[p] = pid[q] => pid[p] = 0

\* The process table is in order whatever forks, exits, waits and kills overlap: free slots
\* have no parent, pids are unique and nobody is left with a dead parent.
TableExact == TypeOK /\ PidsUnique /\ ParentsAlive

\* fork, exit and wait, cut into critical sections of wait_lock and each p->lock, are atomic
\* steps on the process tree: fork at the assignment of np->parent, exit at ZOMBIE, with all
\* the children reparent() has moved one by one, wait at freeproc.
Life == INSTANCE ProcLife WITH
    status <- [p \in Procs |-> IF state[p] = "ZOMBIE" THEN "dead"
                               ELSE IF p = 1 \/ parent[p] # 0 THEN "live" ELSE "free"],
    par <- [q \in Procs |-> IF \E p \in Procs : q \in loc[p].moved
                            THEN CHOOSE p \in Procs : q \in loc[p].moved ELSE parent[q]]
ImplementsProcLife == Life!Spec
=============================================================================
