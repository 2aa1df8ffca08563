-------------------------------- MODULE Mlfq --------------------------------
(***************************************************************************)
(* The multi-level feedback queue scheduler: scheduler(), yield(), sleep() *)
(* and wakeup() of proc.c and the timer path of usertrap() and             *)
(* kerneltrap() in trap.c.  Each CPU runs the loop of scheduler(): boost,  *)
(* scan the levels, run the process it finds until a tick, a sleep or an   *)
(* exit brings it back.  A scan locks one process at a time, so on several *)
(* CPUs the table, and prev_i, change under it.                            *)
(*                                                                         *)
(* Statistics (total_ticks, times_scheduled) are left out, and counters    *)
(* are kept as the differences the code tests.                             *)
(***************************************************************************)
EXTENDS Integers, FiniteSets

CONSTANTS
    CPU,             \* cpu ids, small naturals; CPU 0 counts ticks
    NPROC,
    quantum_times,   \* ticks of a slice at each level: 2, 4, 8, 16
    BOOST,           \* ticks between boosts: 128
    UINT             \* the modulus of unsigned arithmetic: 2^32

Proc  == 0 .. NPROC - 1
Level == 0 .. 3
MAXQ  == quantum_times[3]
None  == -1

ASSUME MlfqAssumption ==
    /\ CPU \subseteq Nat /\ 0 \in CPU /\ IsFiniteSet(CPU)
    /\ NPROC \in Nat \ {0} /\ BOOST \in Nat \ {0}
    /\ UINT \in Nat /\ BOOST + 1 < UINT
    /\ quantum_times \in [Level -> Nat \ {0}]
    /\ \A l \in Level : quantum_times[l] <= MAXQ

VARIABLES
    state, level, used_ticks,
    delS,                \* p->syscount - p->slice_start_syscount while p runs, at most MAXQ
    ticks,               \* ticks - prev_b, an unsigned difference
    mlfq_global_ticks,   \* modulo BOOST
    prev_i,
    cpu,                 \* pc, level and offset of the scan, process running
    yielded              \* the process is inside usertrap or kerneltrap, after yield()

procs == <<state, level, used_ticks, delS, yielded>>
vars  == <<procs, ticks, mlfq_global_ticks, prev_i, cpu>>

Cap(n) == IF n > MAXQ THEN MAXQ ELSE n

TypeOK ==
    /\ state \in [Proc -> {"UNUSED", "RUNNABLE", "RUNNING", "SLEEPING"}]
    /\ level \in [Proc -> Level]
    /\ used_ticks \in [Proc -> 0 .. MAXQ]
    /\ delS \in [Proc -> 0 .. MAXQ]
    /\ ticks \in 0 .. UINT - 1
    /\ mlfq_global_ticks \in 0 .. BOOST - 1
    /\ prev_i \in Proc
    /\ cpu \in [CPU -> [pc : {"top", "boost", "scan", "run", "wfi"}, level : Level, offset : Proc,
                        proc : Proc \cup {None}]]
    /\ yielded \in [Proc -> BOOLEAN]

Top == [pc |-> "top", level |-> 0, offset |-> 0, proc |-> None]

\* The first process is runnable, the table is otherwise empty.
Init ==
    /\ state = [p \in Proc |-> IF p = 0 THEN "RUNNABLE" ELSE "UNUSED"]
    /\ level = [p \in Proc |-> 0] /\ used_ticks = [p \in Proc |-> 0]
    /\ delS = [p \in Proc |-> 0]
    /\ ticks = 0 /\ mlfq_global_ticks = 0 /\ prev_i = 0
    /\ cpu = [c \in CPU |-> Top]
    /\ yielded = [p \in Proc |-> FALSE]

-----------------------------------------------------------------------------
(* scheduler()                                                               *)

Boosted(p) == state[p] \in {"RUNNABLE", "RUNNING"}

\* Mutant: no boost.
scheduler_boost_Late(c) ==
    /\ cpu[c].pc \in {"top", "boost"}
    /\ cpu' = [cpu EXCEPT ![c].pc = "scan"]
    /\ UNCHANGED <<procs, ticks, mlfq_global_ticks, prev_i>>

\* The part of the loop under tickslock: every BOOST ticks, all that can run go to level 0.
scheduler_boost(c) ==
    /\ cpu[c].pc \in {"top", "boost"}
    /\ IF ticks >= BOOST
       THEN /\ ticks' = 0
            /\ level' = [p \in Proc |-> IF Boosted(p) THEN 0 ELSE level[p]]
            /\ used_ticks' = [p \in Proc |-> IF Boosted(p) THEN 0 ELSE used_ticks[p]]
       ELSE UNCHANGED <<ticks, level, used_ticks>>
    /\ cpu' = [cpu EXCEPT ![c].pc = "scan"]
    /\ UNCHANGED <<state, delS, yielded, mlfq_global_ticks, prev_i>>

\* Mutant: every scan starts at entry 0.
scheduler_scan_FromZero(c) ==
    /\ cpu[c].pc = "scan"
    /\ LET k == cpu[c]
           p == k.offset
       IN  IF state[p] = "RUNNABLE" /\ level[p] = k.level
           THEN /\ state' = [state EXCEPT ![p] = "RUNNING"]
                /\ delS' = [delS EXCEPT ![p] = 0]
                /\ cpu' = [cpu EXCEPT ![c] = [Top EXCEPT !.pc = "run", !.proc = p]]
                /\ UNCHANGED prev_i
           ELSE /\ cpu' = [cpu EXCEPT ![c] =
                     IF k.offset < NPROC - 1 THEN [k EXCEPT !.offset = @ + 1]
                     ELSE IF k.level < 3 THEN [k EXCEPT !.offset = 0, !.level = @ + 1]
                     ELSE [Top EXCEPT !.pc = "wfi"]]
                /\ UNCHANGED <<state, delS, prev_i>>
    /\ UNCHANGED <<level, used_ticks, yielded, ticks, mlfq_global_ticks>>

\* Mutant: takes a process of any lower level.
scheduler_scan_Downward(c) ==
    /\ cpu[c].pc = "scan"
    /\ LET k == cpu[c]
           p == (prev_i + k.offset) % NPROC
       IN  IF state[p] = "RUNNABLE" /\ level[p] >= k.level
           THEN /\ state' = [state EXCEPT ![p] = "RUNNING"]
                /\ delS' = [delS EXCEPT ![p] = 0]
                /\ prev_i' = (p + 1) % NPROC
                /\ cpu' = [cpu EXCEPT ![c] = [Top EXCEPT !.pc = "run", !.proc = p]]
           ELSE /\ cpu' = [cpu EXCEPT ![c] =
                     IF k.offset < NPROC - 1 THEN [k EXCEPT !.offset = @ + 1]
                     ELSE IF k.level < 3 THEN [k EXCEPT !.offset = 0, !.level = @ + 1]
                     ELSE [Top EXCEPT !.pc = "wfi"]]
                /\ UNCHANGED <<state, delS, prev_i>>
    /\ UNCHANGED <<level, used_ticks, yielded, ticks, mlfq_global_ticks>>

\* One turn of the scan: run the process looked at, or go to the next one, or find none.
scheduler_scan(c) ==
    /\ cpu[c].pc = "scan"
    /\ LET k == cpu[c]
           p == (prev_i + k.offset) % NPROC
       IN  IF state[p] = "RUNNABLE" /\ level[p] = k.level
           THEN /\ state' = [state EXCEPT ![p] = "RUNNING"]
                /\ delS' = [delS EXCEPT ![p] = 0]
                /\ prev_i' = (p + 1) % NPROC
                /\ cpu' = [cpu EXCEPT ![c] = [Top EXCEPT !.pc = "run", !.proc = p]]
           ELSE /\ cpu' = [cpu EXCEPT ![c] =
                     IF k.offset < NPROC - 1 THEN [k EXCEPT !.offset = @ + 1]
                     ELSE IF k.level < 3 THEN [k EXCEPT !.offset = 0, !.level = @ + 1]
                     ELSE [Top EXCEPT !.pc = "wfi"]]
                /\ UNCHANGED <<state, delS, prev_i>>
    /\ UNCHANGED <<level, used_ticks, yielded, ticks, mlfq_global_ticks>>

\* Process p leaves CPU c with state s and used ticks of its slice: the rest of the scan's turn
\* demotes it when the slice is over and it made fewer system calls than it used ticks.
SwitchOut(c, p, s, used) ==
    LET over == used >= quantum_times[level[p]]
    IN  /\ state' = [state EXCEPT ![p] = s]
        /\ level' = [level EXCEPT ![p] = IF over /\ delS[p] < used /\ @ < 3 THEN @ + 1 ELSE @]
        /\ used_ticks' = [used_ticks EXCEPT ![p] = IF over THEN 0 ELSE used]
        /\ delS' = [delS EXCEPT ![p] = 0]
        /\ cpu' = [cpu EXCEPT ![c] = Top]

-----------------------------------------------------------------------------
(* Running processes and interrupts                                          *)

\* CPU c runs p with interrupts on.
Runs(c, p)    == cpu[c].pc = "run" /\ cpu[c].proc = p /\ ~yielded[p]
CanInterrupt(c) == cpu[c].pc \in {"top", "wfi"} \/ \E p \in Proc : Runs(c, p)

\* clockintr on CPU 0.
clockintr(c) == ticks' = IF c = 0 THEN (ticks + 1) % UINT ELSE ticks

\* A timer interrupt while p runs.  mlfq_global_ticks++ is not protected: on several CPUs an
\* increment may be lost.
timer(c, p) ==
    /\ Runs(c, p)
    /\ clockintr(c)
    /\ mlfq_global_ticks' \in {(mlfq_global_ticks + 1) % BOOST}
                              \cup (IF CPU = {0} THEN {} ELSE {mlfq_global_ticks})
    /\ yielded' = [yielded EXCEPT ![p] = TRUE]
    /\ SwitchOut(c, p, "RUNNABLE", Cap(used_ticks[p] + 1))
    /\ UNCHANGED prev_i

\* A timer interrupt while the CPU runs no process, taken between intr_on and intr_off.  The
\* handler sets the timer a million cycles ahead: it does not fire again before intr_off.
timer_idle(c) ==
    /\ cpu[c].pc \in {"top", "wfi"}
    /\ clockintr(c)
    /\ cpu' = [cpu EXCEPT ![c] = [Top EXCEPT !.pc = "boost"]]
    /\ UNCHANGED <<procs, mlfq_global_ticks, prev_i>>

\* yield() has returned: the test of the counter, which may have moved on meanwhile.
trap_boost(c, p) ==
    /\ cpu[c].pc = "run" /\ cpu[c].proc = p /\ yielded[p]
    /\ yielded' = [yielded EXCEPT ![p] = FALSE]
    /\ IF mlfq_global_ticks = 0
       THEN /\ level' = [q \in Proc |-> IF state[q] = "RUNNABLE" THEN 0 ELSE level[q]]
       ELSE UNCHANGED <<level>>
    /\ UNCHANGED <<state, used_ticks, delS, ticks, mlfq_global_ticks, prev_i, cpu>>

syscall(c, p) ==
    /\ Runs(c, p)
    /\ delS' = [delS EXCEPT ![p] = Cap(@ + 1)]
    /\ UNCHANGED <<state, level, used_ticks, yielded, ticks, mlfq_global_ticks, prev_i, cpu>>

sleep(c, p) ==
    /\ Runs(c, p)
    /\ SwitchOut(c, p, "SLEEPING", used_ticks[p])
    /\ UNCHANGED <<yielded, ticks, mlfq_global_ticks, prev_i>>

kexit(c, p) ==
    /\ Runs(c, p) /\ p # 0
    /\ SwitchOut(c, p, "UNUSED", used_ticks[p])
    /\ UNCHANGED <<yielded, ticks, mlfq_global_ticks, prev_i>>

\* An interrupt on c, which ends its wfi, or the process that c runs wakes p.
wakeup(c, p) ==
    /\ state[p] = "SLEEPING" /\ CanInterrupt(c)
    /\ state' = [state EXCEPT ![p] = "RUNNABLE"]
    /\ cpu' = [cpu EXCEPT ![c] = IF @.pc = "wfi" THEN Top ELSE @]
    /\ UNCHANGED <<level, used_ticks, delS, yielded, ticks, mlfq_global_ticks, prev_i>>

\* kfork by the process that c runs: allocproc resets the scheduling state.
allocproc(c, p) ==
    /\ \E q \in Proc : Runs(c, q)
    /\ state[p] = "UNUSED"
    /\ state' = [state EXCEPT ![p] = "RUNNABLE"]
    /\ level' = [level EXCEPT ![p] = 0]
    /\ used_ticks' = [used_ticks EXCEPT ![p] = 0]
    /\ delS' = [delS EXCEPT ![p] = 0]
    /\ UNCHANGED <<yielded, ticks, mlfq_global_ticks, prev_i, cpu>>

scheduler(c) == scheduler_boost(c) \/ scheduler_scan(c)
Timer(c)     == timer_idle(c) \/ \E p \in Proc : timer(c, p)

Next == \E c \in CPU :
            \/ scheduler(c) \/ Timer(c)
            \/ \E p \in Proc : \/ trap_boost(c, p) \/ syscall(c, p) \/ sleep(c, p) \/ wakeup(c, p)
                               \/ kexit(c, p) \/ allocproc(c, p)

\* Each CPU goes on with its loop and with its trap handler; its timer fires again and again and
\* a pending interrupt is taken when interrupts are on.
Fairness == \A c \in CPU : /\ WF_vars(scheduler(c))
                           /\ WF_vars(\E p \in Proc : trap_boost(c, p))
                           /\ SF_vars(Timer(c))

Spec == Init /\ [][Next]_vars /\ Fairness

-----------------------------------------------------------------------------
(* Properties                                                                *)

\* On one CPU the process that scheduler() picks is on the highest level that has a runnable one.
PicksHighest ==
    [][\A c \in CPU : cpu[c].pc = "scan" /\ cpu'[c].pc = "run" =>
          \A q \in Proc : state[q] = "RUNNABLE" => level[cpu'[c].proc] <= level[q]]_vars

\* No more than BOOST + 1 ticks go by between two boosts, though the difference is unsigned and
\* any CPU may make the boost; none is due while CPU 0, which counts, scans, runs a process or
\* waits (and levels and counters keep their types).
BoostOnTime == /\ TypeOK
               /\ ticks <= BOOST + 1
               /\ cpu[0].pc \in {"scan", "run", "wfi"} => ticks < BOOST

\* On one CPU a runnable process gets it in the end, whatever the others do: boosts bring it to
\* the top level and prev_i makes the scan of a level fair.
NoStarvation == \A p \in Proc : state[p] = "RUNNABLE" ~> state[p] = "RUNNING"
=============================================================================
