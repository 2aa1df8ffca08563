----------------------------- MODULE MlfqProofs -----------------------------
(***************************************************************************)
(* The scheduler for any table, any slices, any boost interval and any     *)
(* number of CPUs: types, the hold of a CPU on its process and boosts in   *)
(* time.                                                                   *)
(***************************************************************************)
EXTENDS Mlfq, TLAPS

\* A remainder is in range.
LEMMA ModRange ==
    ASSUME NEW n \in Nat \ {0}, NEW a \in Nat
    PROVE  a % n \in 0 .. n - 1
BY Z3

-----------------------------------------------------------------------------
(* Types, and the hold of a CPU on its process. *)

State   == {"UNUSED", "RUNNABLE", "RUNNING", "SLEEPING"}
CpuType == [pc : {"top", "boost", "scan", "run", "wfi"}, level : Level, offset : Proc,
            proc : Proc \cup {None}]

\* A process is RUNNING exactly while a CPU runs it, and no two CPUs run one process.
OneCpu ==
    /\ \A c \in CPU : cpu[c].pc = "run" => cpu[c].proc \in Proc /\ state[cpu[c].proc] = "RUNNING"
    /\ \A p \in Proc : state[p] = "RUNNING" => \E c \in CPU : cpu[c].pc = "run" /\ cpu[c].proc = p
    /\ \A c, d \in CPU : cpu[c].pc = "run" /\ cpu[d].pc = "run" /\ cpu[c].proc = cpu[d].proc => c = d

\* The constants.
LEMMA Constants ==
    /\ NPROC \in Nat /\ NPROC > 0 /\ BOOST \in Nat /\ BOOST > 0 /\ UINT \in Nat /\ BOOST + 1 < UINT
    /\ MAXQ \in Nat /\ MAXQ > 0 /\ 0 \in Proc /\ 0 \in Level
    /\ \A n \in Nat : Cap(n) \in 0 .. MAXQ
    /\ Top \in CpuType
<1>1. /\ MAXQ \in Nat /\ MAXQ > 0 /\ NPROC \in Nat /\ NPROC > 0
      /\ BOOST \in Nat /\ BOOST > 0 /\ UINT \in Nat /\ BOOST + 1 < UINT
  BY MlfqAssumption DEF MAXQ, Level
<1>2. 0 \in Proc /\ 0 \in Level
  BY <1>1 DEF Proc, Level
<1> QED
  BY <1>1, <1>2 DEF Cap, Top, CpuType

\* What the process table is after a process leaves its CPU.
LEMMA SwitchType ==
    ASSUME TypeOK, NEW c \in CPU, NEW p \in Proc, NEW s \in State, NEW used \in 0 .. MAXQ,
           SwitchOut(c, p, s, used)
    PROVE  /\ state' \in [Proc -> State] /\ level' \in [Proc -> Level]
           /\ used_ticks' \in [Proc -> 0 .. MAXQ] /\ delS' \in [Proc -> 0 .. MAXQ]
           /\ cpu' \in [CPU -> CpuType]
<1>1. state' \in [Proc -> State] /\ cpu' \in [CPU -> CpuType]
  BY Constants DEF SwitchOut, TypeOK, State, CpuType
<1>2. level' \in [Proc -> Level]
  BY DEF SwitchOut, TypeOK, Level
<1>3. used_ticks' \in [Proc -> 0 .. MAXQ] /\ delS' \in [Proc -> 0 .. MAXQ]
  BY Constants DEF SwitchOut, TypeOK
<1> QED
  BY <1>1, <1>2, <1>3

\* The process the scan looks at.
LEMMA ScanType ==
    ASSUME TypeOK, NEW c \in CPU
    PROVE  /\ (prev_i + cpu[c].offset) % NPROC \in Proc
           /\ \A p \in Proc : (p + 1) % NPROC \in Proc
<1>1. prev_i \in Nat /\ cpu[c].offset \in Nat
  BY Constants DEF TypeOK, Proc
<1>2. (prev_i + cpu[c].offset) \in Nat /\ \A p \in Proc : p + 1 \in Nat
  BY <1>1, Constants DEF Proc
<1>3. NPROC \in Nat \ {0} /\ Proc = 0 .. NPROC - 1
  BY Constants DEF Proc
<1>4. \A a \in Nat : a % NPROC \in 0 .. NPROC - 1
  BY <1>3, ModRange
<1> QED
  BY <1>2, <1>3, <1>4, Zenon

\* scheduler() keeps the types.
LEMMA SchedulerType ==
    ASSUME TypeOK, NEW c \in CPU, scheduler(c)
    PROVE  TypeOK'
<1>1. CASE scheduler_boost(c)
  <2>1. level' \in [Proc -> Level] /\ used_ticks' \in [Proc -> 0 .. MAXQ] /\ ticks' \in 0 .. UINT - 1
    BY <1>1, Constants DEF scheduler_boost, TypeOK
  <2>2. cpu' \in [CPU -> CpuType]
    BY <1>1 DEF scheduler_boost, TypeOK, CpuType
  <2> QED
    BY <1>1, <2>1, <2>2 DEF scheduler_boost, TypeOK, CpuType
<1>2. CASE scheduler_scan(c)
  <2> DEFINE k == cpu[c]
             p == (prev_i + k.offset) % NPROC
  <2>1. p \in Proc /\ (p + 1) % NPROC \in Proc /\ k \in CpuType
    BY ScanType DEF TypeOK, CpuType
  <2> HIDE DEF p
  <2>2. state' \in [Proc -> State] /\ delS' \in [Proc -> 0 .. MAXQ] /\ prev_i' \in Proc
    BY <1>2, <2>1, Constants DEF scheduler_scan, TypeOK, State, p
  <2>3. \/ cpu' = [cpu EXCEPT ![c] = [Top EXCEPT !.pc = "run", !.proc = p]]
        \/ k.offset < NPROC - 1 /\ cpu' = [cpu EXCEPT ![c] = [k EXCEPT !.offset = @ + 1]]
        \/ k.level < 3 /\ cpu' = [cpu EXCEPT ![c] = [k EXCEPT !.offset = 0, !.level = @ + 1]]
        \/ cpu' = [cpu EXCEPT ![c] = [Top EXCEPT !.pc = "wfi"]]
    BY <1>2 DEF scheduler_scan, p
  <2>4. k.offset < NPROC - 1 => k.offset + 1 \in Proc
    BY <2>1, Constants DEF CpuType, Proc
  <2>5. k.level < 3 => k.level + 1 \in Level
    BY <2>1 DEF CpuType, Level
  <2>6. /\ [Top EXCEPT !.pc = "run", !.proc = p] \in CpuType /\ [Top EXCEPT !.pc = "wfi"] \in CpuType
        /\ k.offset < NPROC - 1 => [k EXCEPT !.offset = @ + 1] \in CpuType
        /\ k.level < 3 => [k EXCEPT !.offset = 0, !.level = @ + 1] \in CpuType
    BY <2>1, <2>4, <2>5, Constants, Zenon DEF CpuType
  <2>7. cpu \in [CPU -> CpuType]
    BY DEF TypeOK, CpuType
  <2> HIDE DEF k
  <2>8. cpu' \in [CPU -> CpuType]
    BY <2>3, <2>6, <2>7
  <2> QED
    BY <1>2, <2>2, <2>8 DEF scheduler_scan, TypeOK, State, CpuType
<1> QED
  BY <1>1, <1>2 DEF scheduler

\* So do interrupts.
LEMMA TimerType ==
    ASSUME TypeOK, NEW c \in CPU, Timer(c)
    PROVE  TypeOK'
<1>1. clockintr(c) => ticks' \in 0 .. UINT - 1
  <2>1. ticks \in Nat /\ ticks + 1 \in Nat /\ UINT \in Nat \ {0}
    BY Constants DEF TypeOK
  <2>2. (ticks + 1) % UINT \in 0 .. UINT - 1
    BY <2>1, ModRange
  <2> QED
    BY <2>2 DEF clockintr, TypeOK
<1>2. CASE timer_idle(c)
  <2>1. cpu' \in [CPU -> CpuType]
    BY <1>2, Constants DEF timer_idle, TypeOK, CpuType, Top
  <2> QED
    BY <1>1, <1>2, <2>1 DEF timer_idle, TypeOK, procs, CpuType
<1>3. ASSUME NEW p \in Proc, timer(c, p)
      PROVE  TypeOK'
  <2>1. Cap(used_ticks[p] + 1) \in 0 .. MAXQ
    BY Constants DEF TypeOK
  <2>2. /\ state' \in [Proc -> State] /\ level' \in [Proc -> Level]
        /\ used_ticks' \in [Proc -> 0 .. MAXQ] /\ delS' \in [Proc -> 0 .. MAXQ]
        /\ cpu' \in [CPU -> CpuType]
    BY <1>3, <2>1, SwitchType DEF timer, State
  <2>3. (mlfq_global_ticks + 1) % BOOST \in 0 .. BOOST - 1
    BY Constants, ModRange DEF TypeOK
  <2>4. mlfq_global_ticks' \in 0 .. BOOST - 1
    BY <1>3, <2>3 DEF timer, TypeOK
  <2>5. yielded' \in [Proc -> BOOLEAN]
    BY <1>3 DEF timer, TypeOK
  <2> QED
    BY <1>1, <1>3, <2>2, <2>4, <2>5 DEF timer, TypeOK, State, CpuType
<1> QED
  BY <1>2, <1>3 DEF Timer


\* So does what a running process does.
LEMMA ProcessType ==
    ASSUME TypeOK, NEW c \in CPU, NEW p \in Proc,
           \/ trap_boost(c, p) \/ syscall(c, p) \/ sleep(c, p) \/ wakeup(c, p)
           \/ kexit(c, p) \/ allocproc(c, p)
    PROVE  TypeOK'
<1>1. CASE trap_boost(c, p)
  <2>1. level' \in [Proc -> Level] /\ yielded' \in [Proc -> BOOLEAN]
    BY <1>1, Constants, ZenonT(40) DEF trap_boost, TypeOK
  <2> QED
    BY <1>1, <2>1 DEF trap_boost, TypeOK
<1>2. CASE syscall(c, p)
  <2>1. Cap(delS[p] + 1) \in 0 .. MAXQ
    BY Constants DEF TypeOK
  <2>2. delS' \in [Proc -> 0 .. MAXQ]
    BY <1>2, <2>1 DEF syscall, TypeOK
  <2> QED
    BY <1>2, <2>2 DEF syscall, TypeOK
<1>3. CASE sleep(c, p) \/ kexit(c, p)
  <2>1. used_ticks[p] \in 0 .. MAXQ
    BY DEF TypeOK
  <2>2. /\ state' \in [Proc -> State] /\ level' \in [Proc -> Level]
        /\ used_ticks' \in [Proc -> 0 .. MAXQ] /\ delS' \in [Proc -> 0 .. MAXQ]
        /\ cpu' \in [CPU -> CpuType]
    BY <1>3, <2>1, SwitchType DEF sleep, kexit, State
  <2> QED
    BY <1>3, <2>2 DEF sleep, kexit, TypeOK, State, CpuType
<1>4. CASE allocproc(c, p)
  <2>1. /\ state' \in [Proc -> State] /\ level' \in [Proc -> Level]
        /\ used_ticks' \in [Proc -> 0 .. MAXQ] /\ delS' \in [Proc -> 0 .. MAXQ]
    BY <1>4, Constants DEF allocproc, TypeOK, State
  <2> QED
    BY <1>4, <2>1 DEF allocproc, TypeOK, State
<1>5. CASE wakeup(c, p)
  <2>1. state' \in [Proc -> State] /\ cpu' \in [CPU -> CpuType]
    BY <1>5, Constants DEF wakeup, TypeOK, State, CpuType
  <2> QED
    BY <1>5, <2>1 DEF wakeup, TypeOK, State, CpuType
<1> QED
  BY <1>1, <1>2, <1>3, <1>4, <1>5

\* Every step keeps the types.
LEMMA TypeStep == TypeOK /\ [Next]_vars => TypeOK'
<1> SUFFICES ASSUME TypeOK, [Next]_vars
             PROVE  TypeOK'
  OBVIOUS
<1>1. CASE UNCHANGED vars
  BY <1>1 DEF vars, procs, TypeOK
<1> QED
  BY <1>1, SchedulerType, TimerType, ProcessType DEF Next

\* A process that leaves CPU c leaves it alone with what it runs.
LEMMA SwitchOneCpu ==
    ASSUME TypeOK, OneCpu, NEW c \in CPU, NEW p \in Proc, cpu[c].pc = "run", cpu[c].proc = p,
           NEW s, s # "RUNNING", NEW used, SwitchOut(c, p, s, used)
    PROVE  OneCpu'
<1>1. /\ \A d \in CPU : cpu'[d] = IF d = c THEN Top ELSE cpu[d]
      /\ \A q \in Proc : state'[q] = IF q = p THEN s ELSE state[q]
  BY DEF SwitchOut, TypeOK
<1>2. Top.pc = "top"
  BY DEF Top
<1> QED
  BY <1>1, <1>2 DEF OneCpu

\* Every step keeps the hold of the CPUs on their processes.
LEMMA OneCpuStep == TypeOK /\ OneCpu /\ [Next]_vars => OneCpu'
<1> SUFFICES ASSUME TypeOK, OneCpu, [Next]_vars
             PROVE  OneCpu'
  OBVIOUS
<1>1. CASE UNCHANGED <<state, cpu>>
  BY <1>1 DEF OneCpu
<1>2. ASSUME NEW c \in CPU, scheduler_boost(c) \/ timer_idle(c)
      PROVE  OneCpu'
  <2>1. /\ cpu[c].pc # "run" /\ cpu'[c].pc # "run" /\ UNCHANGED state
        /\ \A d \in CPU \ {c} : cpu'[d] = cpu[d]
    BY <1>2 DEF scheduler_boost, timer_idle, procs, TypeOK, Top
  <2> QED
    BY <2>1 DEF OneCpu
<1>3. ASSUME NEW c \in CPU, scheduler_scan(c)
      PROVE  OneCpu'
  <2> DEFINE k == cpu[c]
             p == (prev_i + k.offset) % NPROC
  <2>1. p \in Proc
    BY ScanType
  <2> HIDE DEF p
  <2>2. CASE state[p] = "RUNNABLE" /\ level[p] = k.level
    <3>1. /\ cpu' = [cpu EXCEPT ![c] = [Top EXCEPT !.pc = "run", !.proc = p]]
          /\ state' = [state EXCEPT ![p] = "RUNNING"] /\ cpu[c].pc = "scan"
      BY <1>3, <2>2 DEF scheduler_scan, p
    <3>2. /\ \A d \in CPU \ {c} : cpu'[d] = cpu[d]
          /\ cpu'[c].pc = "run" /\ cpu'[c].proc = p
          /\ \A q \in Proc : state'[q] = IF q = p THEN "RUNNING" ELSE state[q]
      BY <2>1, <3>1 DEF TypeOK, Top
    <3> QED
      BY <2>1, <2>2, <3>1, <3>2 DEF OneCpu
  <2>3. CASE ~(state[p] = "RUNNABLE" /\ level[p] = k.level)
    <3>1. /\ cpu' = [cpu EXCEPT ![c] =
                       IF k.offset < NPROC - 1 THEN [k EXCEPT !.offset = @ + 1]
                       ELSE IF k.level < 3 THEN [k EXCEPT !.offset = 0, !.level = @ + 1]
                       ELSE [Top EXCEPT !.pc = "wfi"]]
          /\ k.pc = "scan" /\ UNCHANGED state
      BY <1>3, <2>3 DEF scheduler_scan, p
    <3>2. (\A d \in CPU \ {c} : cpu'[d] = cpu[d]) /\ cpu'[c].pc # "run"
      BY <3>1 DEF TypeOK, Top
    <3> QED
      BY <3>1, <3>2 DEF OneCpu
  <2> QED
    BY <2>2, <2>3
<1>4. ASSUME NEW c \in CPU, NEW p \in Proc, timer(c, p) \/ sleep(c, p) \/ kexit(c, p)
      PROVE  OneCpu'
  BY <1>4, SwitchOneCpu, Zenon DEF timer, sleep, kexit, Runs
<1>5. ASSUME NEW c \in CPU, NEW p \in Proc, allocproc(c, p) \/ wakeup(c, p)
      PROVE  OneCpu'
  <2>1. /\ \A q \in Proc : state'[q] = IF q = p THEN "RUNNABLE" ELSE state[q]
        /\ state[p] # "RUNNING"
    BY <1>5 DEF allocproc, wakeup, TypeOK
  <2>2. \A d \in CPU : /\ cpu'[d].pc = "run" <=> cpu[d].pc = "run"
                       /\ cpu[d].pc = "run" => cpu'[d].proc = cpu[d].proc
    BY <1>5 DEF allocproc, wakeup, TypeOK, Top
  <2> QED
    BY <2>1, <2>2 DEF OneCpu
<1>6. ASSUME NEW c \in CPU, NEW p \in Proc, trap_boost(c, p) \/ syscall(c, p)
      PROVE  OneCpu'
  BY <1>1, <1>6 DEF trap_boost, syscall
<1>7. CASE UNCHANGED vars
  BY <1>1, <1>7 DEF vars, procs
<1> QED
  BY <1>2, <1>3, <1>4, <1>5, <1>6, <1>7 DEF Next, scheduler, Timer

\* The boot state.
LEMMA MlfqInit == Init => TypeOK /\ OneCpu
<1> SUFFICES ASSUME Init
             PROVE  TypeOK /\ OneCpu
  OBVIOUS
<1>1. TypeOK
  <2>1. /\ state \in [Proc -> State] /\ level \in [Proc -> Level]
        /\ used_ticks \in [Proc -> 0 .. MAXQ] /\ delS \in [Proc -> 0 .. MAXQ]
    BY Constants DEF Init, State
  <2>2. ticks \in 0 .. UINT - 1 /\ mlfq_global_ticks \in 0 .. BOOST - 1 /\ prev_i \in Proc
    BY Constants DEF Init
  <2>3. cpu \in [CPU -> CpuType] /\ yielded \in [Proc -> BOOLEAN]
    BY Constants DEF Init
  <2> QED
    BY <2>1, <2>2, <2>3 DEF TypeOK, State, CpuType
<1>2. OneCpu
  BY DEF Init, OneCpu, Top
<1> QED
  BY <1>1, <1>2

\* On any number of CPUs: levels, slices and counters stay in range, a process is RUNNING exactly
\* while a CPU runs it, and two CPUs never run one process, though their scans overlap.
THEOREM RunsOnOneCpu == Spec => [](TypeOK /\ OneCpu)
BY MlfqInit, TypeStep, OneCpuStep, PTL DEF Spec

-----------------------------------------------------------------------------
(* Boosts. *)

\* BoostOnTime, with what it needs to be inductive: at the top of its loop CPU 0 is behind by the
\* tick that brought it there, and by one more when a timer interrupt was waiting for intr_on.
BoostInv ==
    /\ TypeOK /\ ticks <= BOOST + 1
    /\ cpu[0].pc = "top" => ticks <= BOOST
    /\ cpu[0].pc \in {"scan", "run", "wfi"} => ticks < BOOST

\* A tick below the modulus does not wrap.
LEMMA Tick ==
    ASSUME NEW t \in Nat, t < UINT - 1
    PROVE  (t + 1) % UINT = t + 1
<1>1. UINT \in Nat \ {0}
  BY Constants
<1>2. \A n \in Nat \ {0} : t < n - 1 => (t + 1) % n = t + 1
  BY Z3
<1> QED
  BY <1>1, <1>2

\* Every step on CPU 0 keeps the boosts in time.
LEMMA BoostStepHere ==
    ASSUME BoostInv, NEW p \in Proc,
           \/ scheduler(0) \/ timer_idle(0) \/ timer(0, p)
           \/ trap_boost(0, p) \/ syscall(0, p) \/ sleep(0, p) \/ wakeup(0, p)
           \/ kexit(0, p) \/ allocproc(0, p)
    PROVE  /\ ticks' <= BOOST + 1
           /\ cpu'[0].pc = "top" => ticks' <= BOOST
           /\ cpu'[0].pc \in {"scan", "run", "wfi"} => ticks' < BOOST
<1>1. /\ TypeOK /\ 0 \in CPU /\ ticks \in Nat /\ BOOST \in Nat /\ BOOST > 0
      /\ ticks < UINT - 1 => (ticks + 1) % UINT = ticks + 1
      /\ BOOST < UINT - 1 /\ UINT \in Nat
  BY Constants, Tick, MlfqAssumption DEF BoostInv, TypeOK
<1>2. CASE UNCHANGED <<ticks, cpu>>
  BY <1>2 DEF BoostInv
<1>3. CASE scheduler_boost(0)
  <2>1. cpu'[0].pc = "scan" /\ ticks' \in Nat /\ ticks' < BOOST
    BY <1>1, <1>3 DEF scheduler_boost, TypeOK
  <2> QED
    BY <1>1, <2>1 DEF TypeOK
<1>4. CASE scheduler_scan(0)
  <2>1. cpu[0].pc = "scan" /\ ticks' = ticks
    BY <1>4 DEF scheduler_scan
  <2> QED
    BY <1>1, <2>1 DEF BoostInv
<1>5. CASE timer_idle(0)
  <2>1. cpu'[0].pc = "boost" /\ cpu[0].pc \in {"top", "wfi"} /\ ticks' = (ticks + 1) % UINT
    BY <1>1, <1>5 DEF timer_idle, clockintr, Top, TypeOK
  <2>2. ticks <= BOOST
    BY <1>1, <2>1 DEF BoostInv
  <2> QED
    BY <1>1, <2>1, <2>2
<1>6. CASE timer(0, p)
  <2>1. cpu'[0].pc = "top" /\ cpu[0].pc = "run" /\ ticks' = (ticks + 1) % UINT
    BY <1>1, <1>6 DEF timer, Runs, clockintr, SwitchOut, Top, TypeOK
  <2>2. ticks < BOOST
    BY <2>1 DEF BoostInv
  <2> QED
    BY <1>1, <2>1, <2>2
<1>7. CASE sleep(0, p) \/ kexit(0, p)
  <2>1. cpu'[0].pc = "top" /\ cpu[0].pc = "run" /\ ticks' = ticks
    BY <1>1, <1>7 DEF sleep, kexit, Runs, SwitchOut, Top, TypeOK
  <2> QED
    BY <1>1, <2>1 DEF BoostInv
<1>8. CASE wakeup(0, p)
  <2>1. /\ ticks' = ticks
        /\ cpu'[0].pc = cpu[0].pc \/ (cpu[0].pc = "wfi" /\ cpu'[0].pc = "top")
    BY <1>1, <1>8 DEF wakeup, Top, TypeOK
  <2> QED
    BY <1>1, <2>1 DEF BoostInv
<1>9. CASE trap_boost(0, p) \/ syscall(0, p) \/ allocproc(0, p)
  BY <1>2, <1>9 DEF trap_boost, syscall, allocproc
<1> QED
  BY <1>3, <1>4, <1>5, <1>6, <1>7, <1>8, <1>9 DEF scheduler

\* On another CPU no tick is counted: a step leaves the difference or makes the boost.
LEMMA BoostStepThere ==
    ASSUME TypeOK, NEW c \in CPU \ {0}, NEW p \in Proc,
           \/ scheduler(c) \/ timer_idle(c) \/ timer(c, p)
           \/ trap_boost(c, p) \/ syscall(c, p) \/ sleep(c, p) \/ wakeup(c, p)
           \/ kexit(c, p) \/ allocproc(c, p)
    PROVE  ticks' \in {ticks, 0} /\ cpu'[0] = cpu[0]
<1>1. ticks' \in {ticks, 0}
  BY DEF scheduler, scheduler_boost, scheduler_scan, timer_idle, timer, clockintr, trap_boost, syscall,
         sleep, wakeup, kexit, allocproc
<1>2. \/ UNCHANGED cpu
      \/ \E k : cpu' = [cpu EXCEPT ![c] = k]
  <2>1. CASE scheduler_scan(c)
    BY <2>1 DEF scheduler_scan
  <2>2. CASE scheduler_boost(c)
    <3>1. cpu' = [cpu EXCEPT ![c] = [cpu[c] EXCEPT !.pc = "scan"]]
      BY <2>2 DEF scheduler_boost
    <3> QED
      BY <3>1
  <2>3. CASE wakeup(c, p)
    <3>1. cpu' = [cpu EXCEPT ![c] = IF cpu[c].pc = "wfi" THEN Top ELSE cpu[c]]
      BY <2>3 DEF wakeup
    <3> QED
      BY <3>1
  <2>4. CASE \/ timer_idle(c) \/ timer(c, p) \/ trap_boost(c, p) \/ syscall(c, p) \/ sleep(c, p)
             \/ kexit(c, p) \/ allocproc(c, p)
    BY <2>4, Zenon DEF timer_idle, timer, trap_boost, syscall, sleep, kexit, allocproc, SwitchOut
  <2> QED
    BY <2>1, <2>2, <2>3, <2>4 DEF scheduler
<1> QED
  BY <1>1, <1>2, MlfqAssumption DEF TypeOK

\* Every step keeps the boosts in time.
LEMMA BoostStep == BoostInv /\ [Next]_vars => BoostInv'
<1> SUFFICES ASSUME BoostInv, [Next]_vars
             PROVE  BoostInv'
  OBVIOUS
<1>1. TypeOK /\ TypeOK' /\ ticks \in Nat /\ BOOST \in Nat /\ BOOST > 0
  BY TypeStep, Constants DEF BoostInv, TypeOK
<1>2. CASE UNCHANGED vars
  BY <1>1, <1>2 DEF vars, BoostInv
<1>3. ASSUME NEW c \in CPU, NEW p \in Proc,
             \/ scheduler(c) \/ timer_idle(c) \/ timer(c, p)
             \/ trap_boost(c, p) \/ syscall(c, p) \/ sleep(c, p) \/ wakeup(c, p)
             \/ kexit(c, p) \/ allocproc(c, p)
      PROVE  BoostInv'
  <2>1. CASE c = 0
    BY <1>1, <1>3, <2>1, BoostStepHere, Zenon DEF BoostInv
  <2>2. CASE c # 0
    <3>1. ticks' \in {ticks, 0} /\ cpu'[0] = cpu[0]
      BY <1>1, <1>3, <2>2, BoostStepThere
    <3> QED
      BY <1>1, <3>1 DEF BoostInv
  <2> QED
    BY <2>1, <2>2
<1>4. 0 \in Proc
  BY Constants
<1> QED
  BY <1>2, <1>3, <1>4, Zenon DEF Next, Timer

\* On any number of CPUs no more than BOOST + 1 ticks go by between two boosts of scheduler(), and
\* none is due while CPU 0 scans, runs a process or waits; the unsigned difference never wraps.
THEOREM BoostsInTime == Spec => []BoostOnTime
<1>1. Init => BoostInv
  BY MlfqInit, Constants, MlfqAssumption DEF Init, Top, BoostInv
<1>2. BoostInv => BoostOnTime
  BY DEF BoostInv, BoostOnTime
<1> QED
  BY <1>1, <1>2, BoostStep, PTL DEF Spec
=============================================================================
