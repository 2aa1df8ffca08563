---------------------------- MODULE ProcessSteps ----------------------------
(***************************************************************************)
(* The inductive invariant of Process, for any number of processes and      *)
(* CPUs, and the steps of system calls that keep it: ProcessSwitch and      *)
(* ProcessProofs have the other steps, and the latter the theorems.         *)
(***************************************************************************)
EXTENDS Process, TLAPS

-----------------------------------------------------------------------------
(* The inductive invariant. *)

\* Where a thread holds no lock and a timer interrupt may come in the kernel or in user space.
Bare == {"user", "ret", "fork", "fork_parent", "fork_run", "exit", "wait", "kill", "pause", "sleep_return"}
InExit == {"reparent", "wakeup", "exit_lock", "exit_release"}
PC   == Bare \cup InExit \cup {"tick", "yield", "resume", "sleep", "sleep_release", "wait_scan", "pause_test"}

Status  == {"UNUSED", "USED", "SLEEPING", "RUNNABLE", "RUNNING", "ZOMBIE"}
LocType == [pc : PC, i : Nat \ {0}, j : Nat \ {0}, np : Int, ret : {"", "reparent", "exit_lock"},
            back : PC \cup {""}, lk : {wait_lock, tickslock}, kids : BOOLEAN, n : Nat, moved : SUBSET Procs]
CpuType == [proc : Procs \cup {0}, from : Procs \cup {0}, intr : Nat]

Types ==
    /\ state \in [Procs -> Status] /\ chan \in [Procs -> Int] /\ killed \in [Procs -> BOOLEAN]
    /\ parent \in [Procs -> Procs \cup {0}] /\ pid \in [Procs -> 0 .. MaxPid]
    /\ nextpid \in 2 .. MaxPid + 1
    /\ lk \in [Locks -> CPUs \cup {0}] /\ cpu \in [CPUs -> CpuType] /\ loc \in [Procs -> LocType]
    /\ panicked \in {"", "init exiting"}

\* The place a thread is at, or will be at when it has the CPU again.
Pc(p) == IF loc[p].pc \in {"yield", "resume"} THEN loc[p].back ELSE loc[p].pc

\* CPUs and the stacks they are on.
Stacks ==
    /\ \A c \in CPUs :
          /\ cpu[c].from # 0 => cpu[c].proc = 0 /\ cpu[c].intr = 0
                                /\ state[cpu[c].from] \in {"SLEEPING", "RUNNABLE", "ZOMBIE"}
          /\ cpu[c].proc # 0 => /\ loc[cpu[c].proc].pc # "resume"
                                /\ state[cpu[c].proc] = IF loc[cpu[c].proc].pc = "exit_release"
                                                        THEN "ZOMBIE" ELSE "RUNNING"
          /\ cpu[c].intr > 0 => c = 1 /\ (cpu[c].proc # 0 => loc[cpu[c].proc].pc \in Bare \cup {"tick", "yield"})
    /\ \A c, d \in CPUs : c # d => /\ cpu[c].proc # 0 => cpu[c].proc \notin {cpu[d].proc, cpu[d].from}
                                   /\ cpu[c].from # 0 => cpu[c].from # cpu[d].from
    /\ \A p \in Procs : (\A c \in CPUs : cpu[c].proc # p) => loc[p].pc = "resume" /\ state[p] # "RUNNING"

\* The locks a thread of p holds at place l, and those CPU c holds.
OwnsAt(l, p, k) ==
    \/ l.pc \in {"sleep", "sleep_release"} /\ k = l.lk
    \/ l.pc \in {"sleep_release", "exit_release"} /\ k = p
    \/ l.pc \in InExit \cup {"wait_scan"} /\ k = wait_lock
    \/ l.pc = "pause_test" /\ k = tickslock
Owns(c, k) ==
    \/ cpu[c].from # 0 /\ k = cpu[c].from
    \/ cpu[c].intr > 0 /\ k = tickslock
    \/ cpu[c].proc # 0 /\ OwnsAt(loc[cpu[c].proc], cpu[c].proc, k)
Owners == \A c \in CPUs, k \in Locks : lk[k] = c <=> Owns(c, k)

\* The process table.
Table ==
    /\ state[1] \notin {"UNUSED", "USED", "ZOMBIE"}
    /\ parent[1] = 0 /\ pid[1] = 1
    /\ \A q \in Procs :
          /\ state[q] = "UNUSED" => parent[q] = 0 /\ chan[q] = 0
          /\ state[q] = "UNUSED" <=> pid[q] = 0
          /\ pid[q] < nextpid
          /\ \A r \in Procs \ {q} : pid[q] = pid[r] => pid[q] = 0
    /\ \A q \in Procs \ {1} :
          state[q] \notin {"UNUSED", "USED"} =>
              parent[q] \in Procs \ {q} /\ state[parent[q]] \notin {"UNUSED", "USED", "ZOMBIE"}

Forks(p) == Pc(p) \in {"fork_parent", "fork_run"}
Dozes(p) == state[p] = "SLEEPING" /\ chan[p] = p

\* What the thread of p relies on where it is: how it goes on after an interrupt, and that
\* init is not past kexit's panic;
Shape(p) ==
    LET l == loc[p]
    IN  /\ l.pc = "yield" => l.back \in Bare
        /\ l.pc = "resume" /\ state[p] \notin {"UNUSED", "ZOMBIE"} => l.back \in Bare
        /\ l.pc = "exit_release" => l.back = ""
        /\ p = 1 => Pc(p) \notin InExit

\* in fork, that the new slot is its own;
ForkOK(p) ==
    Forks(p) => /\ loc[p].np \in Procs /\ state[loc[p].np] = "USED"
                /\ parent[loc[p].np] = IF Pc(p) = "fork_parent" THEN 0 ELSE p
                /\ \A q \in Procs \ {p} : Forks(q) => loc[q].np # loc[p].np

\* in exit, that the children passed by reparent's loop are given away and that its parent,
\* once passed by wakeup's loop, is not asleep in wait;
ExitOK(p) ==
    LET l == loc[p]
    IN  /\ l.moved # {} => l.pc \in {"reparent", "wakeup", "exit_lock"}
        /\ \A q \in l.moved : parent[q] = 1
        /\ l.pc = "wakeup" => \/ l.ret = "reparent" /\ l.np = 1
                              \/ l.ret = "exit_lock" /\ l.np = parent[p]
        /\ l.pc = "reparent" \/ (l.pc = "wakeup" /\ l.ret = "reparent") =>
              \A q \in Procs : q < l.i => parent[q] # p
        /\ l.pc = "exit_lock" \/ (l.pc = "wakeup" /\ l.ret = "exit_lock") =>
              \A q \in Procs : parent[q] # p
        /\ \/ l.pc = "wakeup" /\ l.ret = "exit_lock" /\ l.j > parent[p]
           \/ l.pc \in {"exit_lock", "exit_release"}
           => ~Dozes(parent[p])

\* in wait, that the children passed by the scan are not dead; in pause, that its tick is to come.
WaitOK(p) ==
    LET l == loc[p]
    IN  /\ l.pc \in {"sleep", "sleep_release"} => \/ l.lk = wait_lock /\ l.np = p
                                                  \/ l.lk = tickslock /\ l.np = TICKS /\ l.n > 0
        /\ Pc(p) \in {"wait", "sleep", "sleep_release", "sleep_return"} => l.i = 1
        /\ l.pc = "wait_scan" => \A q \in Procs : q < l.i /\ parent[q] = p => state[q] # "ZOMBIE"
        /\ l.pc \in {"sleep", "sleep_release"} /\ l.lk = wait_lock =>
              \A q \in Procs : parent[q] = p => state[q] # "ZOMBIE"

ThreadOK(p) == Shape(p) /\ ForkOK(p) /\ ExitOK(p) /\ WaitOK(p)
Threads == \A p \in Procs : ThreadOK(p)

\* A parent asleep has no dead child, or is init about to be woken by reparent(); who sleeps in
\* pause after its tick is still ahead of clockintr's loop.
Wakes ==
    /\ \A p, q \in Procs : Dozes(p) /\ parent[q] = p /\ state[q] = "ZOMBIE" =>
          p = 1 /\ \E r \in Procs : loc[r].pc = "wakeup" /\ loc[r].ret = "reparent" /\ loc[r].j = 1
    /\ \A p \in Procs : state[p] = "SLEEPING" /\ chan[p] = TICKS /\ loc[p].n = 0 =>
          cpu[1].intr > 0 /\ cpu[1].intr <= p

Inv == Types /\ Stacks /\ Owners /\ Table /\ Threads /\ Wakes

-----------------------------------------------------------------------------
(* Names, types, and who holds a lock. *)

\* Slots, CPUs and locks.
LEMMA Names ==
    /\ 1 \in Procs /\ 1 \in CPUs /\ 0 \notin Procs /\ 0 \notin CPUs
    /\ Procs \subseteq Nat /\ CPUs \subseteq Nat /\ Procs \subseteq Locks
    /\ wait_lock \in Locks /\ tickslock \in Locks /\ wait_lock # tickslock
    /\ wait_lock \notin Procs /\ tickslock \notin Procs /\ TICKS \notin Procs /\ TICKS \in Int
    /\ \A i \in Nat \ {0} : i <= NPROC <=> i \in Procs
BY ProcessAssumption DEF Procs, CPUs, Locks, wait_lock, tickslock, TICKS

\* The locals at the start of a system call.
LEMMA LocFields ==
    ASSUME NEW pc \in PC
    PROVE  /\ Loc(pc) \in LocType
           /\ Loc(pc).pc = pc /\ Loc(pc).i = 1 /\ Loc(pc).back = "" /\ Loc(pc).moved = {} /\ Loc(pc).n = 0
BY DEF Loc, LocType, wait_lock, tickslock

\* A change of place leaves the other locals.
LEMMA SetPc ==
    ASSUME NEW l \in LocType, NEW pc \in PC
    PROVE  LET m == [l EXCEPT !.pc = pc]
           IN  /\ m \in LocType /\ m.pc = pc
               /\ m.i = l.i /\ m.j = l.j /\ m.np = l.np /\ m.ret = l.ret /\ m.back = l.back /\ m.lk = l.lk
               /\ m.kids = l.kids /\ m.n = l.n /\ m.moved = l.moved
BY Zenon DEF LocType

\* The CPU of a running thread holds the locks of the thread, and no other CPU runs it.
LEMMA RunningThread ==
    ASSUME Inv, NEW c \in CPUs, NEW p \in Procs, cpu[c].proc = p
    PROVE  /\ cpu[c].from = 0 /\ loc[p].pc # "resume"
           /\ state[p] = IF loc[p].pc = "exit_release" THEN "ZOMBIE" ELSE "RUNNING"
           /\ \A d \in CPUs \ {c} : cpu[d].proc # p /\ cpu[d].from # p
           /\ cpu[c].intr = 0 => \A k \in Locks : lk[k] = c <=> OwnsAt(loc[p], p, k)
<1>1. p # 0
  BY Names, Zenon
<1>2. cpu[c].from = 0 /\ loc[p].pc # "resume"
      /\ state[p] = IF loc[p].pc = "exit_release" THEN "ZOMBIE" ELSE "RUNNING"
  BY <1>1, Zenon DEF Inv, Stacks
<1>3. \A d \in CPUs \ {c} : cpu[d].proc # p /\ cpu[d].from # p
  BY <1>1, Zenon DEF Inv, Stacks
<1>4. cpu[c].intr = 0 => \A k \in Locks : lk[k] = c <=> OwnsAt(loc[p], p, k)
  BY <1>1, <1>2 DEF Inv, Owners, Owns
<1> QED
  BY <1>2, <1>3, <1>4, Zenon

\* A thread that holds a lock is on a CPU, which no timer has interrupted.
LEMMA OwnerRuns ==
    ASSUME Inv, NEW p \in Procs, NEW k \in Locks, OwnsAt(loc[p], p, k)
    PROVE  \E c \in CPUs : cpu[c].proc = p /\ cpu[c].intr = 0 /\ lk[k] = c
<1>1. loc[p].pc # "resume" /\ loc[p].pc \notin Bare \cup {"tick", "yield"}
  BY Zenon DEF OwnsAt, Bare, InExit
<1>2. PICK c \in CPUs : cpu[c].proc = p
  BY <1>1, Zenon DEF Inv, Stacks
<1>3. cpu[c].intr = 0
  <2>1. cpu[c].intr \in Nat
    BY Zenon DEF Inv, Types, CpuType
  <2>2. ~(cpu[c].intr > 0)
    BY <1>1, <1>2, Names, Zenon DEF Inv, Stacks
  <2> QED
    BY <2>1, <2>2
<1> QED
  BY <1>2, <1>3, RunningThread

\* No two threads hold one lock, and none holds a free one.
LEMMA OneOwner ==
    ASSUME Inv, NEW k \in Locks, NEW p \in Procs, OwnsAt(loc[p], p, k)
    PROVE  ~Free(k) /\ \A q \in Procs : OwnsAt(loc[q], q, k) => q = p
BY OwnerRuns, Names DEF Free

\* A process in exit is not init, and has a parent that is not in exit's last step.
LEMMA ExitingProcess ==
    ASSUME Inv, NEW p \in Procs, loc[p].pc \in InExit
    PROVE  /\ p # 1 /\ state[p] = IF loc[p].pc = "exit_release" THEN "ZOMBIE" ELSE "RUNNING"
           /\ parent[p] \in Procs \ {p} /\ state[parent[p]] \notin {"UNUSED", "USED", "ZOMBIE"}
           /\ OwnsAt(loc[p], p, wait_lock)
<1>1. OwnsAt(loc[p], p, wait_lock)
  BY Zenon DEF OwnsAt
<1>2. p # 1
  BY Zenon DEF Inv, Threads, ThreadOK, Shape, Pc, InExit
<1>3. state[p] = IF loc[p].pc = "exit_release" THEN "ZOMBIE" ELSE "RUNNING"
  BY <1>1, OwnerRuns, RunningThread, Names
<1> QED
  BY <1>1, <1>2, <1>3, Zenon DEF Inv, Table

\* The moves of a thread of p on CPU c, from its place to place l, with its locks.
LockMove(c, p, l) ==
    \/ UNCHANGED lk /\ \A k \in Locks : OwnsAt(l, p, k) <=> OwnsAt(loc[p], p, k)
    \/ \E m \in Locks : /\ acquire(c, m)
                        /\ \A k \in Locks : OwnsAt(l, p, k) <=> (OwnsAt(loc[p], p, k) \/ k = m)
    \/ \E m \in Locks : /\ release(m) /\ OwnsAt(loc[p], p, m)
                        /\ \A k \in Locks : OwnsAt(l, p, k) <=> (OwnsAt(loc[p], p, k) /\ k # m)

\* Such a move keeps the account of the locks.
LEMMA OwnersMove ==
    ASSUME Inv, NEW c \in CPUs, NEW p \in Procs, cpu[c].proc = p, cpu[c].intr = 0, UNCHANGED cpu,
           LockMove(c, p, loc'[p]),
           \A d \in CPUs \ {c} : cpu[d].proc # 0 => loc'[cpu[d].proc].pc = loc[cpu[d].proc].pc
                                                 /\ loc'[cpu[d].proc].lk = loc[cpu[d].proc].lk
    PROVE  Owners' /\ lk' \in [Locks -> CPUs \cup {0}]
<1> USE Names
<1>1. lk \in [Locks -> CPUs \cup {0}]
  BY Zenon DEF Inv, Types
<1>2. \A k \in Locks : lk[k] = c <=> OwnsAt(loc[p], p, k)
  BY RunningThread
<1>3. /\ lk' \in [Locks -> CPUs \cup {0}]
      /\ \A k \in Locks : lk'[k] = c <=> OwnsAt(loc'[p], p, k)
      /\ \A k \in Locks, d \in CPUs \ {c} : lk'[k] = d <=> lk[k] = d
  <2>1. CASE UNCHANGED lk /\ \A k \in Locks : OwnsAt(loc'[p], p, k) <=> OwnsAt(loc[p], p, k)
    BY <1>1, <1>2, <2>1, Zenon
  <2>2. ASSUME NEW m \in Locks, acquire(c, m),
               \A k \in Locks : OwnsAt(loc'[p], p, k) <=> (OwnsAt(loc[p], p, k) \/ k = m)
        PROVE  <1>3!1 /\ <1>3!2 /\ <1>3!3
    BY <1>1, <1>2, <2>2, Zenon DEF acquire, Free
  <2>3. ASSUME NEW m \in Locks, release(m), OwnsAt(loc[p], p, m),
               \A k \in Locks : OwnsAt(loc'[p], p, k) <=> (OwnsAt(loc[p], p, k) /\ k # m)
        PROVE  <1>3!1 /\ <1>3!2 /\ <1>3!3
    BY <1>1, <1>2, <2>3 DEF release
  <2> QED
    BY <2>1, <2>2, <2>3, Zenon DEF LockMove
<1>4. cpu[c].from = 0 /\ p # 0
  BY RunningThread, Zenon
<1>5. ASSUME NEW k \in Locks
      PROVE  lk'[k] = c <=> Owns(c, k)'
  BY <1>3, <1>4 DEF Owns
<1>6. ASSUME NEW d \in CPUs \ {c}, NEW k \in Locks
      PROVE  lk'[k] = d <=> Owns(d, k)'
  <2>1. lk[k] = d <=> Owns(d, k)
    BY Zenon DEF Inv, Owners
  <2>2. Owns(d, k)' <=> Owns(d, k)
    BY Zenon DEF Owns, OwnsAt
  <2> QED
    BY <1>3, <2>1, <2>2, Zenon
<1> QED
  BY <1>3, <1>5, <1>6 DEF Owners

-----------------------------------------------------------------------------
(* Steps of a thread that leave the tree as it is.                           *)

\* Nothing but sleepers woken up.
WakesOnly == \A q \in Procs : state'[q] = state[q] \/ (state[q] = "SLEEPING" /\ state'[q] = "RUNNABLE")

\* The other threads do not notice that one moves or that sleepers wake up.
LEMMA OthersOK ==
    ASSUME Inv, NEW p \in Procs, NEW q \in Procs \ {p}, WakesOnly, UNCHANGED <<chan, parent>>,
           loc'[q] = loc[q], \A r \in Procs \ {p} : loc'[r] = loc[r], ForkOK(p)'
    PROVE  ThreadOK(q)'
<1>1. ThreadOK(q)
  BY Zenon DEF Inv, Threads
<1>2. Pc(q)' = Pc(q) /\ \A r \in Procs \ {p} : Forks(r)' <=> Forks(r)
  BY Zenon DEF Pc, Forks
<1>3. Shape(q)'
  BY <1>1, <1>2, Zenon DEF ThreadOK, Shape, WakesOnly
<1>4. ForkOK(q)'
  <2> SUFFICES ASSUME Forks(q)
               PROVE  ForkOK(q)'
    BY <1>2, Zenon DEF ForkOK
  <2>1. /\ loc[q].np \in Procs /\ state[loc[q].np] = "USED"
        /\ parent[loc[q].np] = IF Pc(q) = "fork_parent" THEN 0 ELSE q
        /\ \A r \in Procs \ {q} : Forks(r) => loc[r].np # loc[q].np
    BY <1>1, Zenon DEF ThreadOK, ForkOK
  <2>2. state'[loc[q].np] = "USED"
    BY <2>1, Zenon DEF WakesOnly
  <2>3. Forks(p)' => loc'[p].np # loc[q].np
    BY <1>2, Zenon DEF ForkOK
  <2>4. \A r \in Procs \ {q} : Forks(r)' => loc'[r].np # loc'[q].np
    BY <1>2, <2>1, <2>3, Zenon
  <2> QED
    BY <1>2, <2>1, <2>2, <2>4, Zenon DEF ForkOK
<1>5. \A r \in Procs : Dozes(r)' => Dozes(r)
  BY Zenon DEF Dozes, WakesOnly
<1>6. ExitOK(q)'
  <2>1. loc[q].pc \in InExit /\ Dozes(parent[q])' => Dozes(parent[q])
    BY <1>5, ExitingProcess, Zenon DEF Dozes
  <2> QED
    BY <1>1, <2>1, Zenon DEF ThreadOK, ExitOK, InExit
<1>7. WaitOK(q)'
  BY <1>1, <1>2, Zenon DEF ThreadOK, WaitOK, WakesOnly
<1> QED
  BY <1>3, <1>4, <1>6, <1>7, Zenon DEF ThreadOK

\* A thread moves to place l, with its locks; sleepers may wake, a process may be killed and a
\* pid may be spent.
LEMMA Local ==
    ASSUME Inv, NEW c \in CPUs, NEW p \in Procs, cpu[c].proc = p, cpu[c].intr = 0,
           NEW l \in LocType, loc' = [loc EXCEPT ![p] = l],
           l.pc \notin {"resume", "exit_release"}, loc[p].pc # "exit_release",
           LockMove(c, p, l), ThreadOK(p)',
           WakesOnly, state' \in [Procs -> Status],
           killed' \in [Procs -> BOOLEAN],
           nextpid' \in nextpid .. MaxPid + 1,
           UNCHANGED <<chan, parent, pid, cpu, panicked>>,
           loc[p].pc = "wakeup" /\ loc[p].ret = "reparent" /\ loc[p].j = 1 => ~Dozes(1)'
    PROVE  Inv'
<1>1. loc' \in [Procs -> LocType] /\ \A q \in Procs : loc'[q] = IF q = p THEN l ELSE loc[q]
  BY Zenon DEF Inv, Types
<1>2. Owners' /\ lk' \in [Locks -> CPUs \cup {0}]
  <2>1. \A d \in CPUs \ {c} : cpu[d].proc # 0 => cpu[d].proc \in Procs \ {p}
    <3>1. \A d \in CPUs : cpu[d].proc \in Procs \cup {0}
      BY Zenon DEF Inv, Types, CpuType
    <3> QED
      BY <3>1, RunningThread
  <2> QED
    BY <1>1, <2>1, OwnersMove
<1>3. Types'
  <2>1. nextpid \in 2 .. MaxPid + 1
    BY Zenon DEF Inv, Types
  <2>2. nextpid' \in 2 .. MaxPid + 1
    BY <2>1, ProcessAssumption
  <2> QED
    BY <1>1, <1>2, <2>2, Zenon DEF Inv, Types
<1>4. Stacks'
  <2>1. state[p] = "RUNNING" /\ state'[p] = "RUNNING"
    BY RunningThread DEF WakesOnly
  <2>2. ASSUME NEW d \in CPUs
        PROVE  /\ cpu[d].from # 0 => cpu[d].proc = 0 /\ cpu[d].intr = 0
                                     /\ state'[cpu[d].from] \in {"SLEEPING", "RUNNABLE", "ZOMBIE"}
               /\ cpu[d].proc # 0 => /\ loc'[cpu[d].proc].pc # "resume"
                                     /\ state'[cpu[d].proc] = IF loc'[cpu[d].proc].pc = "exit_release"
                                                              THEN "ZOMBIE" ELSE "RUNNING"
               /\ cpu[d].intr > 0 => d = 1 /\ (cpu[d].proc # 0 => loc'[cpu[d].proc].pc \in Bare \cup {"tick", "yield"})
    <3>1. cpu[d].proc \in Procs \cup {0} /\ cpu[d].from \in Procs \cup {0} /\ cpu[d].intr \in Nat
      BY Zenon DEF Inv, Types, CpuType
    <3>2. CASE d = c
      BY <1>1, <2>1, <3>1, <3>2, RunningThread
    <3>3. CASE d # c
      <4>1. cpu[d].proc # p
        BY <3>3, RunningThread
      <4> QED
        BY <1>1, <3>1, <4>1 DEF Inv, Stacks, WakesOnly
    <3> QED
      BY <3>2, <3>3, Zenon
  <2>3. ASSUME NEW q \in Procs, \A d \in CPUs : cpu[d].proc # q
        PROVE  loc'[q].pc = "resume" /\ state'[q] # "RUNNING"
    BY <1>1, <2>3 DEF Inv, Stacks, WakesOnly
  <2>4. \A d, e \in CPUs : d # e => /\ cpu[d].proc # 0 => cpu[d].proc \notin {cpu[e].proc, cpu[e].from}
                                    /\ cpu[d].from # 0 => cpu[d].from # cpu[e].from
    BY Zenon DEF Inv, Stacks
  <2> QED
    BY <2>2, <2>3, <2>4 DEF Stacks
<1>5. Table'
  <2>1. \A q \in Procs : /\ state'[q] = "UNUSED" <=> state[q] = "UNUSED"
                         /\ state'[q] = "USED" <=> state[q] = "USED"
                         /\ state'[q] = "ZOMBIE" <=> state[q] = "ZOMBIE"
    BY Zenon DEF WakesOnly
  <2>2. \A q \in Procs : pid[q] < nextpid'
    <3>1. nextpid \in 2 .. MaxPid + 1 /\ \A q \in Procs : pid[q] \in 0 .. MaxPid /\ pid[q] < nextpid
      BY Zenon DEF Inv, Types, Table
    <3> QED
      BY <3>1, ProcessAssumption
  <2> QED
    BY <2>1, <2>2, Names, ZenonT(40) DEF Inv, Table
<1>6. Threads'
  BY <1>1, OthersOK DEF Threads, ThreadOK
<1>7. Wakes'
  <2>1. ASSUME NEW q \in Procs, NEW r \in Procs, Dozes(q)', parent[r] = q, state'[r] = "ZOMBIE"
        PROVE  q = 1 /\ \E s \in Procs : loc'[s].pc = "wakeup" /\ loc'[s].ret = "reparent" /\ loc'[s].j = 1
    <3>1. Dozes(q) /\ state[r] = "ZOMBIE"
      BY <2>1, Zenon DEF Dozes, WakesOnly
    <3>2. q = 1 /\ \E s \in Procs : loc[s].pc = "wakeup" /\ loc[s].ret = "reparent" /\ loc[s].j = 1
      BY <2>1, <3>1, Zenon DEF Inv, Wakes
    <3> QED
      BY <1>1, <2>1, <3>2, Zenon
  <2>2. ASSUME NEW q \in Procs, state'[q] = "SLEEPING", chan[q] = TICKS, loc'[q].n = 0
        PROVE  cpu[1].intr > 0 /\ cpu[1].intr <= q
    <3>1. state[q] = "SLEEPING" /\ q # p
      BY <2>2, RunningThread DEF WakesOnly
    <3> QED
      BY <1>1, <2>2, <3>1, Zenon DEF Inv, Wakes
  <2> QED
    BY <2>1, <2>2, Zenon DEF Wakes
<1> QED
  BY <1>2, <1>3, <1>4, <1>5, <1>6, <1>7, Zenon DEF Inv

\* The same when no process changes.
LEMMA Quiet ==
    ASSUME Inv, NEW c \in CPUs, NEW p \in Procs, cpu[c].proc = p, cpu[c].intr = 0,
           NEW l \in LocType, loc' = [loc EXCEPT ![p] = l],
           l.pc \notin {"resume", "exit_release"}, loc[p].pc \notin {"wakeup", "exit_release"},
           LockMove(c, p, l), ThreadOK(p)',
           UNCHANGED <<state, chan, killed, parent, pid, cpu, panicked>>, nextpid' \in nextpid .. MaxPid + 1
    PROVE  Inv'
<1>1. WakesOnly
  BY Zenon DEF WakesOnly
<1>2. state' \in [Procs -> Status] /\ killed' \in [Procs -> BOOLEAN]
  BY Zenon DEF Inv, Types
<1> QED
  BY <1>1, <1>2, Local, Zenon

\* A place without locks, outside fork's last steps.
Plain(p, l) ==
    /\ l \in LocType /\ l.moved = {}
    /\ l.pc \in (Bare \cup {"tick", "yield"}) \ {"fork_parent", "fork_run"}
    /\ l.pc = "yield" => l.back = "user"
    /\ l.pc \in {"wait", "sleep_return"} => l.i = 1

\* There, the thread relies on nothing, and holds nothing.
LEMMA PlainOK ==
    ASSUME NEW p \in Procs, Plain(p, loc'[p])
    PROVE  ThreadOK(p)' /\ \A k : ~OwnsAt(loc'[p], p, k)
<1>1. loc'[p].pc \notin {"resume", "sleep", "sleep_release", "wait_scan", "pause_test", "reparent", "wakeup",
                         "exit_lock", "exit_release"}
  BY Zenon DEF Plain, Bare
<1>2. ~Forks(p)' /\ Pc(p)' \notin InExit
  BY <1>1, Zenon DEF Plain, Forks, Pc, InExit
<1>3. loc'[p].pc = "yield" => loc'[p].back \in Bare
  BY Zenon DEF Plain, Bare
<1>4. Pc(p)' \in {"wait", "sleep", "sleep_release", "sleep_return"} => loc'[p].i = 1
  BY <1>1, Zenon DEF Plain, Pc
<1>5. loc'[p].moved = {}
  BY Zenon DEF Plain
<1>6. Shape(p)' /\ ForkOK(p)'
  BY <1>1, <1>2, <1>3, Zenon DEF Shape, ForkOK
<1>7. ExitOK(p)' /\ WaitOK(p)'
  BY <1>1, <1>4, <1>5, Zenon DEF ExitOK, WaitOK
<1> QED
  BY <1>1, <1>6, <1>7, Zenon DEF ThreadOK, OwnsAt, InExit

\* Steps from one such place to another.
LEMMA PlainStep ==
    ASSUME Inv, NEW c \in CPUs, NEW p \in Procs, cpu[c].proc = p, cpu[c].intr = 0,
           loc[p].pc \in Bare \cup {"tick"},
           NEW l, Plain(p, l), loc' = [loc EXCEPT ![p] = l],
           UNCHANGED <<state, chan, killed, parent, pid, lk, cpu, panicked>>, nextpid' \in nextpid .. MaxPid + 1
    PROVE  Inv'
<1>1. loc'[p] = l /\ l \in LocType
  BY Zenon DEF Inv, Types, Plain
<1>2. ThreadOK(p)' /\ \A k : ~OwnsAt(l, p, k)
  BY <1>1, PlainOK, Zenon
<1>3. \A k : ~OwnsAt(loc[p], p, k)
  BY Zenon DEF OwnsAt, Bare, InExit
<1>4. LockMove(c, p, l)
  BY <1>2, <1>3, Zenon DEF LockMove
<1>5. l.pc \notin {"resume", "exit_release"} /\ loc[p].pc \notin {"wakeup", "exit_release"}
  BY Zenon DEF Plain, Bare
<1> QED
  BY <1>1, <1>2, <1>4, <1>5, Quiet, Zenon

\* A pid is left as it is.
LEMMA SamePid ==
    ASSUME Inv
    PROVE  nextpid \in nextpid .. MaxPid + 1 /\ (nextpid <= MaxPid => nextpid + 1 \in nextpid .. MaxPid + 1)
<1>1. nextpid \in 2 .. MaxPid + 1
  BY Zenon DEF Inv, Types
<1> QED
  BY <1>1, ProcessAssumption

\* Nothing moves but, at most, the panic of init's exit.
LEMMA Unmoved ==
    ASSUME Inv, UNCHANGED <<state, chan, killed, parent, pid, nextpid, lk, cpu, loc>>,
           NoPanic'
    PROVE  Inv'
<1>1. Types' /\ Stacks' /\ Table'
  <2>1. Types' /\ Stacks'
    BY Zenon DEF Inv, Types, NoPanic, Stacks
  <2>2. Table'
    BY Zenon DEF Inv, Table
  <2> QED
    BY <2>1, <2>2, Zenon
<1>2. Owners' /\ Wakes'
  BY DEF Inv, Owners, Owns, OwnsAt, Wakes, Dozes
<1>3. Threads'
  <2>1. \A q \in Procs : Pc(q)' = Pc(q) /\ (Forks(q)' <=> Forks(q)) /\ (Dozes(parent[q])' <=> Dozes(parent[q]))
    BY Zenon DEF Pc, Forks, Dozes
  <2>2. ASSUME NEW q \in Procs
        PROVE  ThreadOK(q)'
    <3>1. ThreadOK(q)
      BY Zenon DEF Inv, Threads
    <3>2. Shape(q)' /\ ForkOK(q)'
      BY <2>1, <3>1, Zenon DEF ThreadOK, Shape, ForkOK
    <3>3. ExitOK(q)' /\ WaitOK(q)'
      BY <2>1, <3>1, Zenon DEF ThreadOK, ExitOK, WaitOK
    <3> QED
      BY <3>2, <3>3, Zenon DEF ThreadOK
  <2> QED
    BY <2>2, Zenon DEF Threads
<1> QED
  BY <1>1, <1>2, <1>3, Zenon DEF Inv

\* syscall, and the ends of usertrap.
LEMMA TrapSteps ==
    ASSUME Inv, NEW c \in CPUs, NEW p \in Procs,
           syscall(c, p) \/ usertrap_ret(c, p) \/ usertrap_tick(c, p)
    PROVE  Inv'
<1>1. cpu[c].proc = p /\ cpu[c].intr = 0 /\ loc[p].pc \in {"user", "ret", "tick"}
  BY Zenon DEF syscall, usertrap_ret, usertrap_tick, At
<1>2. UNCHANGED <<state, chan, killed, parent, pid, lk, cpu, panicked>> /\ nextpid' \in nextpid .. MaxPid + 1
  BY SamePid, Zenon DEF syscall, usertrap_ret, usertrap_tick, procs
<1>3. loc[p] \in LocType /\ loc[p].moved = {}
  BY <1>1, Zenon DEF Inv, Types, Threads, ThreadOK, ExitOK
<1>4. PICK l : Plain(p, l) /\ loc' = [loc EXCEPT ![p] = l]
  <2>1. CASE syscall(c, p)
    <3>1. Plain(p, Loc("fork")) /\ Plain(p, Loc("wait")) /\ Plain(p, Loc("exit")) /\ Plain(p, Loc("pause"))
      BY LocFields, Zenon DEF Plain, PC, Bare
    <3>2. ASSUME NEW t \in 0 .. nextpid
          PROVE  Plain(p, [Loc("kill") EXCEPT !.np = t])
      <4> DEFINE l == Loc("kill")
      <4>1. nextpid \in 2 .. MaxPid + 1
        BY Zenon DEF Inv, Types
      <4>2. t \in Int
        BY <4>1, ProcessAssumption
      <4>3. l \in LocType /\ l.pc = "kill" /\ l.moved = {}
        BY LocFields, Zenon DEF PC, Bare
      <4> HIDE DEF l
      <4>4. Plain(p, [l EXCEPT !.np = t])
        BY <4>2, <4>3, Zenon DEF Plain, LocType, PC, Bare
      <4> QED
        BY <4>4, Zenon DEF l
    <3> QED
      BY <2>1, <3>1, <3>2, Zenon DEF syscall, Go
  <2>2. CASE usertrap_ret(c, p)
    <3>1. Plain(p, [loc[p] EXCEPT !.pc = "user"]) /\ Plain(p, [loc[p] EXCEPT !.pc = "exit"])
      BY <1>3, ZenonT(40) DEF Plain, LocType, PC, Bare
    <3> QED
      BY <2>2, <3>1, Zenon DEF usertrap_ret, IfKilled, Goto
  <2>3. CASE usertrap_tick(c, p)
    <3>1. Plain(p, Loc("exit"))
      BY LocFields, Zenon DEF Plain, PC, Bare
    <3>2. Plain(p, [Loc("yield") EXCEPT !.back = "user"])
      <4> DEFINE l == Loc("yield")
      <4>1. l \in LocType /\ l.pc = "yield" /\ l.moved = {}
        BY LocFields, Zenon DEF PC
      <4> HIDE DEF l
      <4>2. Plain(p, [l EXCEPT !.back = "user"])
        BY <4>1, Zenon DEF Plain, LocType, PC, Bare
      <4> QED
        BY <4>2, Zenon DEF l
    <3> QED
      BY <2>3, <3>1, <3>2, Zenon DEF usertrap_tick, Go
  <2> QED
    BY <2>1, <2>2, <2>3, Zenon
<1> QED
  BY <1>1, <1>2, <1>4, PlainStep, Zenon DEF Bare

\* The places of a thread that holds wait_lock, tickslock or its own lock.
LEMMA Places ==
    ASSUME NEW p \in Procs, NEW l, NEW k
    PROVE  /\ l.pc \in Bare \cup {"tick", "yield"} => ~OwnsAt(l, p, k)
           /\ l.pc \in {"reparent", "wakeup", "exit_lock", "wait_scan"} => (OwnsAt(l, p, k) <=> k = wait_lock)
           /\ l.pc = "exit_release" => (OwnsAt(l, p, k) <=> k \in {wait_lock, p})
           /\ l.pc = "pause_test" => (OwnsAt(l, p, k) <=> k = tickslock)
           /\ l.pc = "sleep" => (OwnsAt(l, p, k) <=> k = l.lk)
           /\ l.pc = "sleep_release" => (OwnsAt(l, p, k) <=> k \in {l.lk, p})
BY Zenon DEF OwnsAt, Bare, InExit

\* sleep: p->lock, then with p->lock in hand the caller's lock.
LEMMA SleepLockStep ==
    ASSUME Inv, NEW c \in CPUs, NEW p \in Procs, sleep_lock(c, p)
    PROVE  Inv'
<1> DEFINE l == [loc[p] EXCEPT !.pc = "sleep_release"]
<1>1. /\ cpu[c].proc = p /\ cpu[c].intr = 0 /\ loc[p].pc = "sleep" /\ loc' = [loc EXCEPT ![p] = l]
      /\ acquire(c, p) /\ UNCHANGED <<state, chan, killed, parent, pid, nextpid, cpu, panicked>>
  BY Zenon DEF sleep_lock, At, Goto, procs, Inv, Types
<1>2. loc[p] \in LocType /\ ThreadOK(p)
  BY Zenon DEF Inv, Types, Threads
<1>3. l \in LocType /\ l.pc = "sleep_release"
  BY <1>2, SetPc, Zenon DEF PC
<1>4. l.lk = loc[p].lk /\ l.np = loc[p].np /\ l.n = loc[p].n /\ l.moved = loc[p].moved /\ l.i = loc[p].i
  BY <1>2, SetPc DEF PC
<1> HIDE DEF l
<1>5. loc'[p] = l
  BY <1>1, Zenon DEF Inv, Types
<1>6. LockMove(c, p, l)
  <2>1. \A k \in Locks : OwnsAt(l, p, k) <=> (OwnsAt(loc[p], p, k) \/ k = p)
    BY <1>1, <1>3, <1>4, Places
  <2> QED
    BY <1>1, <2>1, Names, Zenon DEF LockMove
<1>7. ThreadOK(p)'
  <2>1. Shape(p)' /\ ForkOK(p)'
    BY <1>1, <1>2, <1>3, <1>5, Zenon DEF ThreadOK, Shape, ForkOK, Forks, Pc, InExit
  <2>2. ExitOK(p)' /\ WaitOK(p)'
    BY <1>1, <1>2, <1>3, <1>4, <1>5 DEF ThreadOK, ExitOK, WaitOK, Pc
  <2> QED
    BY <2>1, <2>2, Zenon DEF ThreadOK
<1> QED
  BY <1>1, <1>3, <1>6, <1>7, SamePid, Quiet, Zenon

\* A thread takes wait_lock or tickslock and enters its critical section.
LEMMA EnterStep ==
    ASSUME Inv, NEW c \in CPUs, NEW p \in Procs, cpu[c].proc = p, cpu[c].intr = 0, loc[p].pc \in Bare,
           NEW l \in LocType, loc' = [loc EXCEPT ![p] = l], l.moved = {},
           NEW m \in {wait_lock, tickslock}, acquire(c, m),
           \/ m = wait_lock /\ l.pc = "wait_scan" /\ l.i = 1
           \/ m = wait_lock /\ l.pc = "reparent" /\ l.i = 1 /\ p # 1
           \/ m = tickslock /\ l.pc = "pause_test",
           UNCHANGED <<state, chan, killed, parent, pid, nextpid, cpu, panicked>>
    PROVE  Inv'
<1>1. loc'[p] = l
  BY Zenon DEF Inv, Types
<1>2. LockMove(c, p, l)
  <2>1. \A k \in Locks : OwnsAt(l, p, k) <=> (OwnsAt(loc[p], p, k) \/ k = m)
    BY Places
  <2> QED
    BY <2>1, Names DEF LockMove
<1>3. ThreadOK(p)'
  <2>1. Shape(p)' /\ ForkOK(p)'
    BY <1>1, Zenon DEF Shape, ForkOK, Forks, Pc, InExit
  <2>2. l.i = 1 => \A q \in Procs : ~(q < l.i)
    BY Names
  <2>3. ExitOK(p)' /\ WaitOK(p)'
    BY <1>1, <2>2, Zenon DEF ExitOK, WaitOK, Pc
  <2> QED
    BY <2>1, <2>3, Zenon DEF ThreadOK
<1>4. l.pc \notin {"resume", "exit_release"} /\ loc[p].pc \notin {"wakeup", "exit_release"}
  BY Zenon DEF Bare
<1> QED
  BY <1>2, <1>3, <1>4, SamePid, Quiet, Zenon

\* The critical sections of wait, exit and pause, and sleep's return to them.
LEMMA EnterSteps ==
    ASSUME Inv, NEW c \in CPUs, NEW p \in Procs,
           kwait(c, p) \/ sys_pause(c, p) \/ kexit(c, p) \/ sleep_return(c, p)
    PROVE  Inv'
<1>1. loc[p] \in LocType /\ ThreadOK(p)
  BY Zenon DEF Inv, Types, Threads
<1>2. CASE kwait(c, p)
  <2> DEFINE l == [loc[p] EXCEPT !.pc = "wait_scan"]
  <2>1. /\ cpu[c].proc = p /\ cpu[c].intr = 0 /\ loc[p].pc = "wait" /\ loc' = [loc EXCEPT ![p] = l]
        /\ acquire(c, wait_lock) /\ UNCHANGED <<state, chan, killed, parent, pid, nextpid, cpu, panicked>>
    BY <1>2, Zenon DEF kwait, At, Goto, procs, Inv, Types
  <2>2. loc[p].moved = {} /\ loc[p].i = 1
    BY <1>1, <2>1, Zenon DEF ThreadOK, ExitOK, WaitOK, Pc
  <2>3. l \in LocType /\ l.pc = "wait_scan" /\ l.i = 1 /\ l.moved = {}
    BY <1>1, <2>2, SetPc, ZenonT(40) DEF PC
  <2> HIDE DEF l
  <2> QED
    BY <2>1, <2>3, EnterStep, Zenon DEF Bare
<1>3. CASE sys_pause(c, p)
  <2> DEFINE l == [loc[p] EXCEPT !.pc = "pause_test", !.n = 1]
  <2>1. /\ cpu[c].proc = p /\ cpu[c].intr = 0 /\ loc[p].pc = "pause" /\ loc' = [loc EXCEPT ![p] = l]
        /\ acquire(c, tickslock) /\ UNCHANGED <<state, chan, killed, parent, pid, nextpid, cpu, panicked>>
    BY <1>3, Zenon DEF sys_pause, At, Go, procs
  <2>2. loc[p].moved = {}
    BY <1>1, <2>1, Zenon DEF ThreadOK, ExitOK
  <2>3. l \in LocType /\ l.pc = "pause_test" /\ l.moved = {}
    BY <1>1, <2>2, Zenon DEF LocType, PC
  <2> HIDE DEF l
  <2> QED
    BY <2>1, <2>3, EnterStep, Zenon DEF Bare
<1>4. CASE kexit(c, p) /\ p = 1
  BY <1>4, Unmoved, Zenon DEF kexit, procs, NoPanic
<1>5. CASE kexit(c, p) /\ p # 1
  <2> DEFINE l == Loc("reparent")
  <2>1. cpu[c].proc = p /\ cpu[c].intr = 0 /\ loc[p].pc = "exit"
    BY <1>5, Zenon DEF kexit, At
  <2>3. /\ loc' = [loc EXCEPT ![p] = l] /\ acquire(c, wait_lock)
        /\ UNCHANGED <<state, chan, killed, parent, pid, nextpid, cpu, panicked>>
    BY <1>5, Zenon DEF kexit, Go, procs
  <2>4. l \in LocType /\ l.pc = "reparent" /\ l.i = 1 /\ l.moved = {}
    BY LocFields, Zenon DEF PC, InExit
  <2> HIDE DEF l
  <2> QED
    BY <1>5, <2>1, <2>3, <2>4, EnterStep, Zenon DEF Bare
<1>6. CASE sleep_return(c, p)
  <2> DEFINE m == loc[p].lk
             l == [loc[p] EXCEPT !.pc = IF m = wait_lock THEN "wait_scan" ELSE "pause_test", !.lk = 0]
  <2>1. /\ cpu[c].proc = p /\ cpu[c].intr = 0 /\ loc[p].pc = "sleep_return" /\ loc' = [loc EXCEPT ![p] = l]
        /\ acquire(c, m) /\ UNCHANGED <<state, chan, killed, parent, pid, nextpid, cpu, panicked>>
    BY <1>6, Zenon DEF sleep_return, At, Go, procs
  <2>2. loc[p].moved = {} /\ loc[p].i = 1
    BY <1>1, <2>1, Zenon DEF ThreadOK, ExitOK, WaitOK, Pc
  <2>3. /\ l \in LocType /\ l.pc = (IF m = wait_lock THEN "wait_scan" ELSE "pause_test") /\ l.i = 1 /\ l.moved = {}
        /\ m \in {wait_lock, tickslock}
    BY <1>1, <2>2, Zenon DEF LocType, PC, wait_lock
  <2> HIDE DEF l, m
  <2>4. \/ m = wait_lock /\ l.pc = "wait_scan" /\ l.i = 1
        \/ m = tickslock /\ l.pc = "pause_test"
    BY <2>3, Zenon
  <2> QED
    BY <2>1, <2>3, <2>4, EnterStep, Zenon DEF Bare
<1> QED
  BY <1>2, <1>3, <1>4, <1>5, <1>6, Zenon

\* A thread leaves such a section and returns.
LEMMA ReturnStep ==
    ASSUME Inv, NEW c \in CPUs, NEW p \in Procs, cpu[c].proc = p, cpu[c].intr = 0,
           loc[p].pc \in {"wait_scan", "pause_test"}, loc' = [loc EXCEPT ![p] = Loc("ret")],
           NEW m \in Locks, m = IF loc[p].pc = "wait_scan" THEN wait_lock ELSE tickslock, release(m),
           UNCHANGED <<state, chan, killed, parent, pid, nextpid, cpu, panicked>>
    PROVE  Inv'
<1> DEFINE l == Loc("ret")
<1>1. Plain(p, l)
  BY LocFields, Zenon DEF Plain, PC, Bare
<1>2. loc'[p] = l /\ l \in LocType /\ l.pc = "ret"
  BY LocFields, Zenon DEF Inv, Types, PC, Bare
<1> HIDE DEF l
<1>3. ThreadOK(p)' /\ \A k : ~OwnsAt(l, p, k)
  BY <1>1, <1>2, PlainOK, Zenon
<1>4. \A k \in Locks : OwnsAt(loc[p], p, k) <=> k = m
  BY Places, Zenon
<1>5. LockMove(c, p, l)
  BY <1>3, <1>4, Zenon DEF LockMove
<1> QED
  BY <1>2, <1>3, <1>5, SamePid, Quiet, Zenon DEF l

\* It returns, or goes to sleep with the lock.
LEMMA LeaveSteps ==
    ASSUME Inv, NEW c \in CPUs, NEW p \in Procs, kwait_sleep(c, p) \/ sys_pause_test(c, p)
    PROVE  Inv'
<1> DEFINE m == IF loc[p].pc = "wait_scan" THEN wait_lock ELSE tickslock
<1>1. /\ cpu[c].proc = p /\ cpu[c].intr = 0 /\ loc[p].pc \in {"wait_scan", "pause_test"}
      /\ UNCHANGED <<state, chan, killed, parent, pid, nextpid, cpu, panicked>>
  BY Zenon DEF kwait_sleep, sys_pause_test, At, procs
<1>2. loc[p] \in LocType /\ ThreadOK(p) /\ m \in Locks
  BY Names, Zenon DEF Inv, Types, Threads
<1>3. CASE loc' = [loc EXCEPT ![p] = Loc("ret")] /\ release(m)
  BY <1>1, <1>2, <1>3, ReturnStep, Zenon
<1>4. ASSUME NEW ch, loc' = [loc EXCEPT ![p] = [Loc("sleep") EXCEPT !.np = ch, !.lk = m, !.n = loc[p].n]],
             UNCHANGED lk,
             \/ loc[p].pc = "wait_scan" /\ ch = p /\ loc[p].i > NPROC
             \/ loc[p].pc = "pause_test" /\ ch = TICKS /\ loc[p].n > 0
      PROVE  Inv'
  <2> DEFINE l == [Loc("sleep") EXCEPT !.np = ch, !.lk = m, !.n = loc[p].n]
  <2>1. ch \in Int
    BY <1>4, Names
  <2>2. l \in LocType /\ l.pc = "sleep" /\ l.lk = m /\ l.np = ch /\ l.n = loc[p].n /\ l.i = 1 /\ l.moved = {}
    <3>1. loc[p].n \in Nat
      BY <1>2, Zenon DEF LocType
    <3>2. m \in {wait_lock, tickslock}
      BY Zenon
    <3> HIDE DEF m
    <3>3. Loc("sleep") \in LocType /\ Loc("sleep").i = 1 /\ Loc("sleep").moved = {}
      BY LocFields, Zenon DEF PC
    <3> DEFINE k == Loc("sleep")
    <3>4. k.pc = "sleep"
      BY LocFields, Zenon DEF PC
    <3> HIDE DEF k
    <3>5. k \in LocType /\ k.i = 1 /\ k.moved = {} /\ k.pc = "sleep"
      BY <3>3, <3>4, Zenon DEF k
    <3>6. l = [k EXCEPT !.np = ch, !.lk = m, !.n = loc[p].n]
      BY Zenon DEF k
    <3> HIDE DEF l
    <3> QED
      BY <2>1, <3>1, <3>2, <3>5, <3>6, Zenon DEF LocType
  <2>3. loc' = [loc EXCEPT ![p] = l] /\ loc'[p] = l
    BY <1>4, Zenon DEF Inv, Types
  <2> HIDE DEF l
  <2>4. LockMove(c, p, l)
    BY <1>1, <1>4, <2>2, Places DEF LockMove
  <2>5. loc[p].pc = "wait_scan" => \A q \in Procs : parent[q] = p => state[q] # "ZOMBIE"
    <3>1. loc[p].pc = "wait_scan" => \A q \in Procs : q < loc[p].i
      <4>1. loc[p].i \in Nat
        BY <1>2, Zenon DEF LocType
      <4> QED
        BY <1>4, <4>1, ProcessAssumption DEF Procs
    <3> QED
      BY <1>2, <3>1, Zenon DEF ThreadOK, WaitOK
  <2>6. m = wait_lock => loc[p].pc = "wait_scan"
    BY Names, Zenon
  <2>7. WaitOK(p)'
    BY <1>1, <1>4, <2>2, <2>3, <2>5, <2>6, Zenon DEF WaitOK
  <2>8. ThreadOK(p)'
    BY <2>2, <2>3, <2>7, Zenon DEF ThreadOK, Shape, ForkOK, Forks, Pc, ExitOK, InExit
  <2> QED
    BY <1>1, <2>2, <2>3, <2>4, <2>8, SamePid, Quiet, Zenon
<1>5. CASE kwait_sleep(c, p)
  BY <1>1, <1>3, <1>4, <1>5, Names, Zenon DEF kwait_sleep, At, Go, Sleep
<1>6. CASE sys_pause_test(c, p)
  <2>1. loc[p].n \in Nat /\ (loc[p].n # 0 => loc[p].n > 0) /\ loc[p].pc = "pause_test"
    <3>1. loc[p].n \in Nat
      BY <1>2, Zenon DEF LocType
    <3>2. loc[p].pc = "pause_test"
      BY <1>6, Zenon DEF sys_pause_test, At
    <3> QED
      BY <3>1, <3>2
  <2> QED
    BY <1>1, <1>3, <1>4, <1>6, <2>1, Names, Zenon DEF sys_pause_test, At, Go, Sleep
<1> QED
  BY <1>5, <1>6, Zenon

\* The next slot of a loop over the table.
LEMMA NextSlot ==
    ASSUME NEW i \in Nat \ {0}
    PROVE  /\ i + 1 \in Nat \ {0}
           /\ \A q \in Procs : q < i + 1 => q < i \/ q = i
           /\ \A q \in Procs : i > NPROC => q < i
BY ProcessAssumption DEF Procs

\* A loop's step leaves the other locals.
LEMMA SetI ==
    ASSUME NEW l \in LocType
    PROVE  LET m == [l EXCEPT !.i = @ + 1]
           IN  /\ m \in LocType /\ m.i = l.i + 1
               /\ m.pc = l.pc /\ m.j = l.j /\ m.np = l.np /\ m.ret = l.ret /\ m.back = l.back /\ m.lk = l.lk
               /\ m.kids = l.kids /\ m.n = l.n /\ m.moved = l.moved
<1>1. l.i \in Nat \ {0}
  BY Zenon DEF LocType
<1>2. l.i + 1 \in Nat \ {0}
  BY <1>1
<1> QED
  BY <1>2, Zenon DEF LocType

\* To write what is there changes nothing.
LEMMA SameEntry ==
    ASSUME NEW S, NEW T, NEW f \in [S -> T], NEW i \in S, NEW v, f[i] = v
    PROVE  [f EXCEPT ![i] = v] = f
OBVIOUS

\* allocproc, where it finds no free slot or no memory.
LEMMA AllocSkip ==
    ASSUME Inv, NEW c \in CPUs, NEW p \in Procs, allocproc(c, p), UNCHANGED state
    PROVE  Inv'
<1>1. /\ cpu[c].proc = p /\ cpu[c].intr = 0 /\ loc[p].pc = "fork" /\ UNCHANGED <<lk, cpu, panicked>>
  BY Zenon DEF allocproc, At
<1>2. loc[p] \in LocType /\ loc[p].moved = {} /\ loc[p].i \in Nat \ {0} /\ Types
  BY <1>1, Zenon DEF Inv, Types, Threads, ThreadOK, ExitOK, LocType
<1>3. loc[p].i <= NPROC => loc[p].i \in Procs
  BY <1>2, Names, Zenon
<1>4. Plain(p, Loc("ret"))
  BY LocFields, Zenon DEF Plain, PC, Bare
<1>5. Plain(p, [loc[p] EXCEPT !.i = @ + 1])
  BY <1>1, <1>2, SetI, Zenon DEF Plain, Bare
<1>6. CASE UNCHANGED procs /\ \/ loc' = [loc EXCEPT ![p] = Loc("ret")]
                              \/ loc' = [loc EXCEPT ![p] = [loc[p] EXCEPT !.i = @ + 1]]
  <2>1. UNCHANGED <<chan, killed, parent, pid>> /\ nextpid' \in nextpid .. MaxPid + 1
    BY <1>6, SamePid, Zenon DEF procs
  <2> QED
    BY <1>1, <1>4, <1>5, <1>6, <2>1, PlainStep, Zenon DEF Bare
<1>7. ASSUME NEW i \in Procs, state[i] = "UNUSED", nextpid <= MaxPid, freeproc(i), nextpid' = nextpid + 1,
             loc' = [loc EXCEPT ![p] = Loc("ret")]
      PROVE  Inv'
  <2> DEFINE l == Loc("ret")
  <2>1. parent[i] = 0 /\ chan[i] = 0 /\ pid[i] = 0
    BY <1>7, Zenon DEF Inv, Table
  <2>2. UNCHANGED <<chan, parent, pid>> /\ killed' \in [Procs -> BOOLEAN]
    BY <1>2, <1>7, <2>1, Zenon DEF freeproc, Types
  <2>3. WakesOnly /\ state' \in [Procs -> Status]
    BY <1>2, Zenon DEF WakesOnly, Types
  <2>4. loc'[p] = l /\ l \in LocType /\ l.pc = "ret"
    BY <1>7, LocFields, Zenon DEF Inv, Types, PC, Bare
  <2> HIDE DEF l
  <2>5. ThreadOK(p)' /\ \A k : ~OwnsAt(l, p, k)
    BY <1>4, <2>4, PlainOK, Zenon DEF l
  <2>6. LockMove(c, p, l)
    BY <1>1, <2>5, Places, Zenon DEF LockMove, Bare
  <2>7. loc' = [loc EXCEPT ![p] = l] /\ nextpid' \in nextpid .. MaxPid + 1
    BY <1>7, SamePid, Zenon DEF l
  <2> QED
    BY <1>1, <2>2, <2>3, <2>4, <2>5, <2>6, <2>7, Local, Zenon
<1>8. CASE loc[p].i <= NPROC /\ state[loc[p].i] = "UNUSED" /\ nextpid <= MaxPid
  <2>1. PICK i \in Procs : i = loc[p].i
    BY <1>3, <1>8, Zenon
  <2>2. state' # [state EXCEPT ![i] = "USED"]
    BY <1>2, <1>8, <2>1, Zenon DEF Types
  <2>3. nextpid \in 2 .. MaxPid + 1
    BY <1>2, Zenon DEF Types
  <2>4. ~(nextpid > MaxPid) /\ ~(loc[p].i > NPROC)
    BY <1>2, <1>8, <2>3, ProcessAssumption
  <2> QED
    BY <1>7, <1>8, <2>1, <2>2, <2>4, Zenon DEF allocproc, Go
<1>9. \/ UNCHANGED procs /\ Go(p, [loc[p] EXCEPT !.i = @ + 1])
      \/ UNCHANGED procs /\ Go(p, Loc("ret"))
      \/ loc[p].i <= NPROC /\ state[loc[p].i] = "UNUSED" /\ nextpid <= MaxPid
  BY Zenon DEF allocproc
<1>10. UNCHANGED procs /\ (Go(p, Loc("ret")) \/ Go(p, [loc[p] EXCEPT !.i = @ + 1])) => Inv'
  BY <1>6, Zenon DEF Go
<1> QED
  BY <1>8, <1>9, <1>10, Zenon

\* kill: a sleeper is woken.
LEMMA KillStep ==
    ASSUME Inv, NEW c \in CPUs, NEW p \in Procs, kkill(c, p)
    PROVE  Inv'
<1>1. /\ cpu[c].proc = p /\ cpu[c].intr = 0 /\ loc[p].pc = "kill"
      /\ UNCHANGED <<chan, parent, pid, nextpid, lk, cpu, panicked>>
  BY Zenon DEF kkill, At
<1>2. loc[p] \in LocType /\ loc[p].moved = {} /\ loc[p].i \in Nat \ {0}
  BY <1>1, Zenon DEF Inv, Types, Threads, ThreadOK, ExitOK, LocType
<1>3. Plain(p, Loc("ret"))
  BY LocFields, Zenon DEF Plain, PC, Bare
<1>4. Plain(p, [loc[p] EXCEPT !.i = @ + 1])
  BY <1>1, <1>2, SetI, Zenon DEF Plain, Bare
<1>5. CASE UNCHANGED <<state, killed>> /\ \/ loc' = [loc EXCEPT ![p] = Loc("ret")]
                                          \/ loc' = [loc EXCEPT ![p] = [loc[p] EXCEPT !.i = @ + 1]]
  BY <1>1, <1>3, <1>4, <1>5, SamePid, PlainStep, Zenon DEF Bare
<1>6. ASSUME NEW i \in Procs, killed' = [killed EXCEPT ![i] = TRUE],
             state' = IF state[i] = "SLEEPING" THEN [state EXCEPT ![i] = "RUNNABLE"] ELSE state,
             loc' = [loc EXCEPT ![p] = Loc("ret")]
      PROVE  Inv'
  <2> DEFINE l == Loc("ret")
  <2>1. state \in [Procs -> Status] /\ killed \in [Procs -> BOOLEAN]
    BY Zenon DEF Inv, Types
  <2>2. WakesOnly /\ state' \in [Procs -> Status] /\ killed' \in [Procs -> BOOLEAN]
    BY <1>6, <2>1, Zenon DEF WakesOnly, Status
  <2>3. loc'[p] = l /\ l \in LocType /\ l.pc = "ret"
    BY <1>6, LocFields, Zenon DEF Inv, Types, PC, Bare
  <2> HIDE DEF l
  <2>4. ThreadOK(p)' /\ \A k : ~OwnsAt(l, p, k)
    BY <1>3, <2>3, PlainOK, Zenon DEF l
  <2>5. LockMove(c, p, l)
    BY <1>1, <2>4, Places, Zenon DEF LockMove, Bare
  <2>6. loc' = [loc EXCEPT ![p] = l]
    BY <1>6, Zenon DEF l
  <2> QED
    BY <1>1, <2>2, <2>3, <2>4, <2>5, <2>6, SamePid, Local, Zenon
<1>7. loc[p].i <= NPROC => loc[p].i \in Procs
  BY <1>2, Names, Zenon
<1> QED
  BY <1>5, <1>6, <1>7, Zenon DEF kkill, Go

\* A thread inside wait_lock's section that stays there.
LEMMA SectionStep ==
    ASSUME Inv, NEW c \in CPUs, NEW p \in Procs, cpu[c].proc = p, cpu[c].intr = 0,
           loc[p].pc \in {"wait_scan", "reparent"},
           NEW l \in LocType, loc' = [loc EXCEPT ![p] = l], l.pc = loc[p].pc \/ (loc[p].pc = "reparent" /\ l.pc = "wakeup"),
           l.moved = loc[p].moved, ExitOK(p)', WaitOK(p)',
           UNCHANGED <<state, chan, killed, parent, pid, nextpid, lk, cpu, panicked>>
    PROVE  Inv'
<1>1. loc'[p] = l /\ ThreadOK(p)
  BY Zenon DEF Inv, Types, Threads
<1>2. LockMove(c, p, l)
  BY Places DEF LockMove
<1>3. Shape(p)' /\ ForkOK(p)'
  BY <1>1, Zenon DEF ThreadOK, Shape, ForkOK, Forks, Pc, InExit
<1> QED
  BY <1>1, <1>2, <1>3, SamePid, Quiet, Zenon DEF ThreadOK

\* A child of wait's scan that is not dead, or whose status cannot be copied out.
LEMMA WaitScanSkip ==
    ASSUME Inv, NEW c \in CPUs, NEW p \in Procs, kwait_scan(c, p), UNCHANGED state
    PROVE  Inv'
<1>1. /\ cpu[c].proc = p /\ cpu[c].intr = 0 /\ loc[p].pc = "wait_scan" /\ loc[p].i <= NPROC
      /\ UNCHANGED <<cpu, panicked>>
  BY Zenon DEF kwait_scan, At
<1>2. loc[p] \in LocType /\ loc[p].i \in Nat \ {0} /\ state \in [Procs -> Status] /\ ThreadOK(p)
  BY Zenon DEF Inv, Types, Threads, LocType
<1>3. loc[p].i \in Procs
  BY <1>1, <1>2, Names, Zenon
<1>4. CASE parent[loc[p].i] = p /\ state[loc[p].i] = "ZOMBIE"
  <2>1. /\ UNCHANGED procs /\ release(wait_lock) /\ loc' = [loc EXCEPT ![p] = Loc("ret")]
    BY <1>2, <1>3, <1>4, Zenon DEF kwait_scan, Go, freeproc
  <2> QED
    BY <1>1, <2>1, Names, ReturnStep, Zenon DEF procs
<1> SUFFICES ASSUME ~(parent[loc[p].i] = p /\ state[loc[p].i] = "ZOMBIE")
             PROVE  Inv'
  BY <1>4, Zenon
<1>5. PICK b \in BOOLEAN : loc' = [loc EXCEPT ![p] = [loc[p] EXCEPT !.i = @ + 1, !.kids = b]]
  <2>1. loc[p].kids \in BOOLEAN /\ [loc[p] EXCEPT !.i = @ + 1] = [loc[p] EXCEPT !.i = @ + 1, !.kids = loc[p].kids]
    BY <1>2, Zenon DEF LocType
  <2>2. \/ loc' = [loc EXCEPT ![p] = [loc[p] EXCEPT !.i = @ + 1]]
        \/ loc' = [loc EXCEPT ![p] = [loc[p] EXCEPT !.i = @ + 1, !.kids = TRUE]]
    BY Zenon DEF kwait_scan, Go
  <2> QED
    BY <2>1, <2>2, Zenon
<1>6. UNCHANGED <<state, chan, killed, parent, pid, nextpid, lk, cpu, panicked>>
  BY <1>1, Zenon DEF kwait_scan, procs
<1> DEFINE l == [loc[p] EXCEPT !.i = @ + 1, !.kids = b]
<1>7. l \in LocType /\ l.pc = "wait_scan" /\ l.moved = loc[p].moved /\ l.i = loc[p].i + 1
  BY <1>1, <1>2, NextSlot, ZenonT(40) DEF LocType
<1> HIDE DEF l
<1>8. loc' = [loc EXCEPT ![p] = l] /\ loc'[p] = l
  BY <1>5, Zenon DEF l, Inv, Types
<1>9. \A q \in Procs : q < l.i /\ parent[q] = p => state[q] # "ZOMBIE"
  BY <1>1, <1>2, <1>7, NextSlot, Zenon DEF ThreadOK, WaitOK
<1>10. ExitOK(p)' /\ WaitOK(p)'
  BY <1>1, <1>2, <1>6, <1>7, <1>8, <1>9, Zenon DEF ThreadOK, ExitOK, WaitOK, Pc
<1> QED
  BY <1>1, <1>6, <1>7, <1>8, <1>10, SectionStep, Zenon

\* A slot of reparent's loop that is no child, and the end of the loop.
LEMMA ReparentSkip ==
    ASSUME Inv, NEW c \in CPUs, NEW p \in Procs, reparent(c, p), UNCHANGED parent
    PROVE  Inv'
<1>1. /\ cpu[c].proc = p /\ cpu[c].intr = 0 /\ loc[p].pc = "reparent"
      /\ UNCHANGED <<state, chan, killed, pid, nextpid, lk, cpu, panicked>>
  BY Zenon DEF reparent, At
<1>2. loc[p] \in LocType /\ loc[p].i \in Nat \ {0} /\ parent \in [Procs -> Procs \cup {0}] /\ ThreadOK(p)
  BY Zenon DEF Inv, Types, Threads, LocType
<1>3. p # 1 /\ parent[p] \in Procs
  BY <1>1, ExitingProcess, Zenon DEF InExit
<1>4. CASE loc[p].i > NPROC
  <2> DEFINE l == [loc[p] EXCEPT !.pc = "wakeup", !.j = 1, !.np = parent[p], !.ret = "exit_lock"]
  <2>1. parent[p] \in Int /\ ~(1 > parent[p]) /\ 1 \in Nat \ {0} /\ "wakeup" \in PC
    BY <1>3, ProcessAssumption DEF Procs, PC, InExit
  <2>2. /\ l \in LocType /\ l.pc = "wakeup" /\ l.j = 1 /\ l.np = parent[p] /\ l.ret = "exit_lock"
        /\ l.moved = loc[p].moved
    BY <1>2, <2>1, Zenon DEF LocType
  <2>3. loc' = [loc EXCEPT ![p] = l] /\ loc'[p] = l
    BY <1>4, Zenon DEF reparent, Wakeup, Go, Inv, Types
  <2> HIDE DEF l
  <2>4. \A q \in Procs : parent[q] # p
    BY <1>1, <1>2, <1>4, NextSlot, Zenon DEF ThreadOK, ExitOK
  <2>5. ExitOK(p)'
    BY <1>1, <1>2, <2>1, <2>2, <2>3, <2>4, ZenonT(40) DEF ThreadOK, ExitOK
  <2>6. WaitOK(p)'
    BY <2>2, <2>3, Zenon DEF WaitOK, Pc
  <2> QED
    BY <1>1, <2>2, <2>3, <2>5, <2>6, SectionStep, Zenon
<1>5. CASE ~(loc[p].i > NPROC)
  <2> DEFINE l == [loc[p] EXCEPT !.i = @ + 1]
  <2>1. loc[p].i \in Procs
    BY <1>2, <1>5, Names, ProcessAssumption
  <2>2. parent[loc[p].i] # p
    BY <1>2, <1>3, <1>5, <2>1, Zenon DEF reparent
  <2>3. loc' = [loc EXCEPT ![p] = l] /\ loc'[p] = l
    BY <1>5, <2>2, Zenon DEF reparent, Go, Inv, Types
  <2>4. l \in LocType /\ l.pc = "reparent" /\ l.i = loc[p].i + 1 /\ l.moved = loc[p].moved
    BY <1>1, <1>2, SetI, Zenon
  <2> HIDE DEF l
  <2>5. \A q \in Procs : q < l.i => parent[q] # p
    BY <1>1, <1>2, <2>2, <2>4, NextSlot, Zenon DEF ThreadOK, ExitOK
  <2>6. ExitOK(p)'
    BY <1>1, <1>2, <2>3, <2>4, <2>5, Zenon DEF ThreadOK, ExitOK
  <2>7. WaitOK(p)'
    BY <2>3, <2>4, Zenon DEF WaitOK, Pc
  <2> QED
    BY <1>1, <2>3, <2>4, <2>6, <2>7, SectionStep, Zenon
<1> QED
  BY <1>4, <1>5, Zenon

\* wakeup, in exit: the sleepers on the channel passed by the loop are awake.
LEMMA WakeupStep ==
    ASSUME Inv, NEW c \in CPUs, NEW p \in Procs, wakeup(c, p)
    PROVE  Inv'
<1>1. /\ cpu[c].proc = p /\ cpu[c].intr = 0 /\ loc[p].pc = "wakeup"
      /\ UNCHANGED <<chan, killed, parent, pid, nextpid, lk, cpu, panicked>>
  BY Zenon DEF wakeup, At
<1>2. loc[p] \in LocType /\ loc[p].j \in Nat \ {0} /\ ThreadOK(p)
  BY Zenon DEF Inv, Types, Threads, LocType
<1>3. p # 1 /\ parent[p] \in Procs \ {p}
  BY <1>1, ExitingProcess, Zenon DEF InExit
<1>4. /\ \A q \in loc[p].moved : parent[q] = 1
      /\ \/ loc[p].ret = "reparent" /\ loc[p].np = 1 /\ \A q \in Procs : q < loc[p].i => parent[q] # p
         \/ /\ loc[p].ret = "exit_lock" /\ loc[p].np = parent[p] /\ \A q \in Procs : parent[q] # p
            /\ loc[p].j > parent[p] => ~Dozes(parent[p])
  BY <1>1, <1>2, Zenon DEF ThreadOK, ExitOK
<1>5. state \in [Procs -> Status] /\ killed' \in [Procs -> BOOLEAN]
  BY <1>1, Zenon DEF Inv, Types
<1>6. CASE loc[p].j > NPROC /\ UNCHANGED state
           /\ loc' = [loc EXCEPT ![p] = [loc[p] EXCEPT !.pc = loc[p].ret, !.j = 1, !.np = 0, !.ret = ""]]
  <2> DEFINE l == [loc[p] EXCEPT !.pc = loc[p].ret, !.j = 1, !.np = 0, !.ret = ""]
  <2>1. loc[p].ret \in PC /\ 1 \in Nat \ {0} /\ 0 \in Int
    BY <1>4 DEF PC, InExit
  <2>2. /\ l \in LocType /\ l.pc = loc[p].ret /\ l.i = loc[p].i /\ l.moved = loc[p].moved
    BY <1>2, <2>1, Zenon DEF LocType
  <2> HIDE DEF l
  <2>3. loc' = [loc EXCEPT ![p] = l] /\ loc'[p] = l
    BY <1>6, Zenon DEF l, Inv, Types
  <2>4. loc[p].j > parent[p] /\ loc[p].j # 1
    BY <1>2, <1>3, <1>6, ProcessAssumption DEF Procs
  <2>5. l.pc \in {"reparent", "exit_lock"}
    BY <1>4, <2>2, Zenon
  <2>6. LockMove(c, p, l)
    BY <1>1, <2>5, Places, Zenon DEF LockMove
  <2>7. ~Dozes(parent[p]) => ~Dozes(parent[p])'
    BY <1>1, <1>6, Zenon DEF Dozes
  <2>8. ExitOK(p)'
    BY <1>1, <1>4, <2>2, <2>3, <2>4, <2>7, Zenon DEF ExitOK
  <2>9. Shape(p)' /\ ForkOK(p)' /\ WaitOK(p)'
    BY <1>3, <2>3, <2>5, Zenon DEF Shape, ForkOK, Forks, Pc, WaitOK, InExit
  <2>10. ThreadOK(p)' /\ WakesOnly /\ state' \in [Procs -> Status]
    BY <1>5, <1>6, <2>8, <2>9, Zenon DEF ThreadOK, WakesOnly
  <2> QED
    BY <1>1, <1>5, <2>2, <2>3, <2>4, <2>5, <2>6, <2>10, SamePid, Local, Zenon
<1>7. CASE /\ loc[p].j <= NPROC
           /\ state' = IF loc[p].j # p /\ state[loc[p].j] = "SLEEPING" /\ chan[loc[p].j] = loc[p].np
                       THEN [state EXCEPT ![loc[p].j] = "RUNNABLE"] ELSE state
           /\ loc' = [loc EXCEPT ![p] = [loc[p] EXCEPT !.j = @ + 1]]
  <2> DEFINE l == [loc[p] EXCEPT !.j = @ + 1]
  <2>1. PICK j \in Procs : j = loc[p].j /\ j + 1 \in Nat \ {0}
    BY <1>2, <1>7, Names
  <2>2. /\ l \in LocType /\ l.pc = "wakeup" /\ l.i = loc[p].i /\ l.moved = loc[p].moved /\ l.j = j + 1
        /\ l.ret = loc[p].ret /\ l.np = loc[p].np
    BY <1>1, <1>2, <2>1, ZenonT(40) DEF LocType
  <2>3. loc' = [loc EXCEPT ![p] = l] /\ loc'[p] = l
    BY <1>7, Zenon DEF Inv, Types
  <2>4. WakesOnly /\ state' \in [Procs -> Status]
    BY <1>5, <1>7, <2>1, Zenon DEF WakesOnly, Status
  <2>5. \A q \in Procs : Dozes(q)' => Dozes(q)
    BY <1>1, <2>4, Zenon DEF Dozes, WakesOnly
  <2>6. j # p /\ loc[p].np = j => ~Dozes(j)'
    BY <1>1, <1>5, <1>7, <2>1, Zenon DEF Dozes
  <2> HIDE DEF l
  <2>7. LockMove(c, p, l)
    BY <1>1, <2>2, Places DEF LockMove
  <2>8. j + 1 > parent[p] => j > parent[p] \/ j = parent[p]
    BY <1>3, <2>1 DEF Procs
  <2>9. loc[p].ret = "exit_lock" /\ l.j > parent[p] => ~Dozes(parent[p])'
    BY <1>1, <1>3, <1>4, <2>2, <2>5, <2>1, <2>6, <2>8, Zenon
  <2>10. ExitOK(p)'
    BY <1>1, <1>4, <2>2, <2>3, <2>9 DEF ExitOK
  <2>11. Shape(p)' /\ ForkOK(p)' /\ WaitOK(p)'
    BY <1>3, <2>2, <2>3, Zenon DEF Shape, ForkOK, Forks, Pc, WaitOK, InExit
  <2>12. loc[p].ret = "reparent" /\ loc[p].j = 1 => ~Dozes(1)'
    BY <1>3, <1>4, <2>1, <2>6, Zenon
  <2> QED
    BY <1>1, <1>5, <2>2, <2>3, <2>4, <2>7, <2>10, <2>11, <2>12, SamePid, Local, Zenon DEF ThreadOK
<1> QED
  BY <1>6, <1>7, Zenon DEF wakeup, Go

-----------------------------------------------------------------------------
(* Steps that change the tree.                                               *)

\* What a thread that does not move relies on.
LEMMA ThreadKept ==
    ASSUME Inv, NEW q \in Procs, loc'[q] = loc[q],
           state'[q] \notin {"UNUSED", "ZOMBIE"} => state[q] \notin {"UNUSED", "ZOMBIE"},
           Forks(q) => /\ state'[loc[q].np] = "USED" /\ parent'[loc[q].np] = parent[loc[q].np]
                       /\ \A r \in Procs \ {q} : Forks(r)' => loc'[r].np # loc[q].np,
           \A r \in loc[q].moved : parent'[r] = 1,
           loc[q].pc \in InExit => /\ parent'[q] = parent[q] /\ (Dozes(parent[q])' => Dozes(parent[q]))
                                   /\ \A r \in Procs : parent'[r] = q => parent[r] = q,
           loc[q].pc = "wait_scan" \/ (loc[q].pc \in {"sleep", "sleep_release"} /\ loc[q].lk = wait_lock) =>
               \A r \in Procs : parent'[r] = q /\ state'[r] = "ZOMBIE" => parent[r] = q /\ state[r] = "ZOMBIE"
    PROVE  ThreadOK(q)'
<1>1. ThreadOK(q)
  BY Zenon DEF Inv, Threads
<1>2. Pc(q)' = Pc(q) /\ (Forks(q)' <=> Forks(q))
  BY Zenon DEF Pc, Forks
<1>3. Shape(q)'
  BY <1>1, <1>2, Zenon DEF ThreadOK, Shape
<1>4. ForkOK(q)'
  BY <1>1, <1>2, Zenon DEF ThreadOK, ForkOK
<1>5. ExitOK(q)'
  <2>1. \A r \in loc[q].moved : parent'[r] = 1
    BY Zenon
  <2>2. CASE loc[q].pc \notin InExit
    BY <1>1, <2>1, <2>2, Zenon DEF ThreadOK, ExitOK, InExit
  <2>3. CASE loc[q].pc \in InExit
    <3>1. ~Dozes(parent[q]) => ~Dozes(parent[q])'
      BY <2>3, Zenon
    <3>2. parent'[q] = parent[q] /\ \A r \in Procs : parent'[r] = q => parent[r] = q
      BY <2>3, Zenon
    <3> QED
      BY <1>1, <2>1, <3>1, <3>2, Zenon DEF ThreadOK, ExitOK
  <2> QED
    BY <2>2, <2>3, Zenon
<1>6. WaitOK(q)'
  BY <1>1, <1>2, Zenon DEF ThreadOK, WaitOK
<1> QED
  BY <1>3, <1>4, <1>5, <1>6, Zenon DEF ThreadOK

\* A free slot, one that fork fills, and one that no CPU locks are on no CPU.
LEMMA OffCpu ==
    ASSUME Inv, NEW q \in Procs,
           state[q] \in {"UNUSED", "USED"} \/ (state[q] = "ZOMBIE" /\ Free(q))
    PROVE  loc[q].pc = "resume" /\ \A d \in CPUs : cpu[d].proc # q /\ cpu[d].from # q
<1>1. ASSUME NEW d \in CPUs
      PROVE  cpu[d].proc # q
  <2>1. SUFFICES ASSUME cpu[d].proc = q
                 PROVE  FALSE
    BY Zenon
  <2>2. loc[q].pc = "exit_release" /\ Free(q)
    BY <2>1, RunningThread
  <2>3. OwnsAt(loc[q], q, q)
    BY <2>2, Zenon DEF OwnsAt
  <2> QED
    BY <2>2, <2>3, OneOwner, Names, Zenon
<1>2. ASSUME NEW d \in CPUs
      PROVE  cpu[d].from # q
  <2>1. SUFFICES ASSUME cpu[d].from = q
                 PROVE  FALSE
    BY Zenon
  <2>2. Free(q)
    BY <2>1, Names, Zenon DEF Inv, Stacks
  <2>3. lk[q] = d
    BY <2>1, Names, Zenon DEF Inv, Owners, Owns
  <2> QED
    BY <2>2, <2>3, Names, Zenon DEF Free
<1> QED
  BY <1>1, <1>2, Zenon DEF Inv, Stacks

\* A thread moves and takes its locks along; the others stay where they are.
LEMMA StacksKept ==
    ASSUME Inv, NEW c \in CPUs, NEW p \in Procs, cpu[c].proc = p, cpu[c].intr = 0, UNCHANGED cpu,
           LockMove(c, p, loc'[p]),
           loc'[p].pc # "resume", state'[p] = IF loc'[p].pc = "exit_release" THEN "ZOMBIE" ELSE "RUNNING",
           \A q \in Procs \ {p} : loc'[q] = loc[q] \/ (loc'[q].pc = "resume" /\ \A d \in CPUs : cpu[d].proc # q),
           \A q \in Procs \ {p} : state'[q] = state[q] \/ (state'[q] # "RUNNING" /\ \A d \in CPUs : cpu[d].proc # q /\ cpu[d].from # q)
    PROVE  Stacks' /\ Owners' /\ lk' \in [Locks -> CPUs \cup {0}]
<1>1. \A d \in CPUs : cpu[d].proc \in Procs \cup {0} /\ cpu[d].from \in Procs \cup {0} /\ cpu[d].intr \in Nat
  BY Zenon DEF Inv, Types, CpuType
<1>2. \A d \in CPUs \ {c} : cpu[d].proc # p /\ cpu[d].from # p
  BY RunningThread
<1>3. \A d \in CPUs \ {c} : cpu[d].proc # 0 => loc'[cpu[d].proc] = loc[cpu[d].proc] /\ state'[cpu[d].proc] = state[cpu[d].proc]
  BY <1>1, <1>2, Zenon
<1>4. Owners' /\ lk' \in [Locks -> CPUs \cup {0}]
  BY <1>3, OwnersMove, Zenon
<1>5. cpu[c].from = 0
  BY RunningThread, Zenon
<1>6. ASSUME NEW d \in CPUs
      PROVE  /\ cpu[d].from # 0 => cpu[d].proc = 0 /\ cpu[d].intr = 0
                                   /\ state'[cpu[d].from] \in {"SLEEPING", "RUNNABLE", "ZOMBIE"}
             /\ cpu[d].proc # 0 => /\ loc'[cpu[d].proc].pc # "resume"
                                   /\ state'[cpu[d].proc] = IF loc'[cpu[d].proc].pc = "exit_release"
                                                            THEN "ZOMBIE" ELSE "RUNNING"
             /\ cpu[d].intr > 0 => d = 1 /\ (cpu[d].proc # 0 => loc'[cpu[d].proc].pc \in Bare \cup {"tick", "yield"})
  <2>1. CASE d = c
    BY <1>5, <2>1
  <2>2. CASE d # c
    <3>1. cpu[d].from # 0 => state'[cpu[d].from] = state[cpu[d].from]
      BY <1>1, <1>2, <2>2, Zenon
    <3>2. /\ cpu[d].from # 0 => cpu[d].proc = 0 /\ cpu[d].intr = 0
                               /\ state[cpu[d].from] \in {"SLEEPING", "RUNNABLE", "ZOMBIE"}
          /\ cpu[d].proc # 0 => /\ loc[cpu[d].proc].pc # "resume"
                               /\ state[cpu[d].proc] = IF loc[cpu[d].proc].pc = "exit_release"
                                                       THEN "ZOMBIE" ELSE "RUNNING"
          /\ cpu[d].intr > 0 => d = 1 /\ (cpu[d].proc # 0 => loc[cpu[d].proc].pc \in Bare \cup {"tick", "yield"})
      BY Zenon DEF Inv, Stacks
    <3>3. cpu[d].proc # 0 => loc'[cpu[d].proc] = loc[cpu[d].proc] /\ state'[cpu[d].proc] = state[cpu[d].proc]
      BY <1>3, <2>2, Zenon
    <3> QED
      BY <3>1, <3>2, <3>3, Zenon
  <2> QED
    BY <2>1, <2>2, Zenon
<1>7. ASSUME NEW q \in Procs, \A d \in CPUs : cpu[d].proc # q
      PROVE  loc'[q].pc = "resume" /\ state'[q] # "RUNNING"
  <2>1. q # p /\ loc[q].pc = "resume" /\ state[q] # "RUNNING"
    BY <1>7, Zenon DEF Inv, Stacks
  <2> QED
    BY <2>1, Zenon
<1>8. \A d, e \in CPUs : d # e => /\ cpu[d].proc # 0 => cpu[d].proc \notin {cpu[e].proc, cpu[e].from}
                                  /\ cpu[d].from # 0 => cpu[d].from # cpu[e].from
  BY Zenon DEF Inv, Stacks
<1>9. Stacks'
  BY <1>6, <1>7, <1>8 DEF Stacks
<1> QED
  BY <1>4, <1>9, Zenon

\* allocproc gives a free slot to the caller alone.
LEMMA AllocStep ==
    ASSUME Inv, NEW c \in CPUs, NEW p \in Procs, allocproc(c, p), state' # state
    PROVE  Inv'
<1>1. /\ cpu[c].proc = p /\ cpu[c].intr = 0 /\ loc[p].pc = "fork"
      /\ UNCHANGED <<lk, cpu, panicked>>
  BY Zenon DEF allocproc, At
<1>2. loc[p] \in LocType /\ loc[p].i \in Nat \ {0} /\ ThreadOK(p) /\ Types
  BY Zenon DEF Inv, Types, Threads, LocType
<1>3. PICK i \in Procs : i = loc[p].i
  BY <1>2, Names, Zenon DEF allocproc, procs
<1>4. /\ state[i] = "UNUSED" /\ nextpid <= MaxPid /\ nextpid' = nextpid + 1 /\ UNCHANGED <<chan, killed, parent>>
      /\ state' = [state EXCEPT ![i] = "USED"] /\ pid' = [pid EXCEPT ![i] = nextpid]
      /\ loc' = [loc EXCEPT ![p] = [loc[p] EXCEPT !.pc = "fork_parent", !.np = i],
                            ![i] = [Loc("resume") EXCEPT !.back = "user"]]
  <2>1. ASSUME state[i] = "UNUSED", freeproc(i)
        PROVE  FALSE
    <3>1. state \in [Procs -> Status] /\ state' = [state EXCEPT ![i] = "UNUSED"]
      BY <1>2, <2>1, Zenon DEF Types, freeproc
    <3> QED
      BY <2>1, <3>1, SameEntry, Zenon
  <2> QED
    BY <1>3, <2>1, Zenon DEF allocproc, procs, Go
<1>5. /\ loc[i].pc = "resume" /\ \A d \in CPUs : cpu[d].proc # i /\ cpu[d].from # i
  BY <1>4, OffCpu, Zenon
<1>6. i # p /\ i # 1 /\ parent[i] = 0 /\ state[p] = "RUNNING"
  BY <1>1, <1>4, <1>5, RunningThread DEF Inv, Table
<1> DEFINE l == [loc[p] EXCEPT !.pc = "fork_parent", !.np = i]
           m == [Loc("resume") EXCEPT !.back = "user"]
<1>7. l \in LocType /\ l.pc = "fork_parent" /\ l.np = i /\ l.moved = loc[p].moved
  <2>1. "fork_parent" \in PC /\ i \in Int
    BY Names DEF PC, Bare
  <2> QED
    BY <1>2, <2>1, Zenon DEF LocType
<1>8. m \in LocType /\ m.pc = "resume" /\ m.back = "user" /\ m.moved = {}
  <2> DEFINE k == Loc("resume")
  <2>1. k \in LocType /\ k.pc = "resume" /\ k.moved = {}
    BY LocFields, Zenon DEF PC
  <2>2. "user" \in PC
    BY Zenon DEF PC, Bare
  <2> HIDE DEF k
  <2>3. LET n == [k EXCEPT !.back = "user"] IN n \in LocType /\ n.pc = "resume" /\ n.back = "user" /\ n.moved = {}
    BY <2>1, <2>2, Zenon DEF LocType
  <2> QED
    BY <2>3, Zenon DEF k
<1> HIDE DEF l, m
<1>9. loc' \in [Procs -> LocType] /\ \A q \in Procs : loc'[q] = IF q = p THEN l ELSE IF q = i THEN m ELSE loc[q]
  <2>1. loc \in [Procs -> LocType] /\ loc' = [loc EXCEPT ![p] = l, ![i] = m]
    BY <1>2, <1>4, Zenon DEF Types, l, m
  <2> QED
    BY <1>6, <1>7, <1>8, <2>1, Zenon
<1>10. /\ \A q \in Procs : /\ state'[q] = IF q = i THEN "USED" ELSE state[q]
                           /\ pid'[q] = IF q = i THEN nextpid ELSE pid[q]
       /\ state' \in [Procs -> Status] /\ pid' \in [Procs -> Int]
  <2>1. state \in [Procs -> Status] /\ pid \in [Procs -> 0 .. MaxPid] /\ nextpid \in 2 .. MaxPid + 1
    BY <1>2, Zenon DEF Types
  <2>2. pid \in [Procs -> Int] /\ nextpid \in Int
    BY <2>1, ProcessAssumption
  <2> QED
    BY <1>4, <2>1, <2>2, Zenon DEF Status
<1>11. /\ nextpid \in 2 .. MaxPid /\ nextpid' \in 2 .. MaxPid + 1
       /\ \A q \in Procs : pid[q] \in 0 .. MaxPid /\ pid[q] < nextpid
  <2>1. nextpid \in 2 .. MaxPid + 1 /\ \A q \in Procs : pid[q] \in 0 .. MaxPid /\ pid[q] < nextpid
    BY <1>2, Zenon DEF Types, Inv, Table
  <2> QED
    BY <1>4, <2>1, ProcessAssumption
<1>12. pid' \in [Procs -> 0 .. MaxPid] /\ \A q \in Procs : pid'[q] < nextpid' /\ (q # i => pid'[q] # nextpid)
  <2>1. nextpid \in 0 .. MaxPid /\ nextpid < nextpid + 1 /\ \A q \in Procs : pid[q] < nextpid + 1 /\ pid[q] # nextpid
    BY <1>11, ProcessAssumption
  <2> QED
    BY <1>4, <1>10, <1>11, <2>1, Zenon
<1>13. Stacks' /\ Owners' /\ lk' \in [Locks -> CPUs \cup {0}]
  <2>1. LockMove(c, p, loc'[p])
    BY <1>1, <1>7, <1>9, Places, Zenon DEF LockMove, Bare
  <2>2. loc'[p].pc = "fork_parent" /\ state'[p] = "RUNNING"
    BY <1>6, <1>7, <1>9, <1>10, Zenon
  <2> QED
    BY <1>1, <1>5, <1>8, <1>9, <1>10, <2>1, <2>2, StacksKept
<1>14. Types'
  BY <1>1, <1>2, <1>4, <1>9, <1>10, <1>11, <1>12, <1>13, Zenon DEF Types
<1>15. Table'
  <2>1. nextpid # 0
    BY <1>11
  <2>2. \A q \in Procs : /\ (state'[q] = "UNUSED" => parent[q] = 0 /\ chan[q] = 0)
                         /\ (state'[q] = "UNUSED" <=> pid'[q] = 0)
    BY <1>10, <2>1 DEF Inv, Table
  <2>3. \A q \in Procs : \A r \in Procs \ {q} : pid'[q] = pid'[r] => pid'[q] = 0
    BY <1>10, <1>12 DEF Inv, Table
  <2>4. \A q \in Procs \ {1} : state'[q] \notin {"UNUSED", "USED"} =>
              parent[q] \in Procs \ {q} /\ state'[parent[q]] \notin {"UNUSED", "USED", "ZOMBIE"}
    BY <1>4, <1>10 DEF Inv, Table
  <2>5. state'[1] \notin {"UNUSED", "USED", "ZOMBIE"} /\ parent[1] = 0 /\ pid'[1] = 1
    BY <1>6, <1>10, Names, Zenon DEF Inv, Table
  <2> QED
    BY <1>4, <1>12, <2>2, <2>3, <2>4, <2>5, Zenon DEF Table
<1>16. /\ \A q \in Procs : (Dozes(q)' => Dozes(q)) /\ (state'[q] = "ZOMBIE" => state[q] = "ZOMBIE")
       /\ ~Forks(i)' /\ ~Forks(p) /\ Forks(p)' /\ \A q \in Procs \ {p, i} : Forks(q)' <=> Forks(q)
  <2>1. \A q \in Procs : (Dozes(q)' => Dozes(q)) /\ (state'[q] = "ZOMBIE" => state[q] = "ZOMBIE")
    BY <1>4, <1>10, Zenon DEF Dozes
  <2>2. ~Forks(i)' /\ ~Forks(p) /\ Forks(p)'
    BY <1>1, <1>6, <1>7, <1>8, <1>9, Zenon DEF Forks, Pc
  <2>3. \A q \in Procs \ {p, i} : Forks(q)' <=> Forks(q)
    BY <1>9, Zenon DEF Forks, Pc
  <2> QED
    BY <2>1, <2>2, <2>3, Zenon
<1>17. \A q \in Procs : Forks(q) => loc[q].np \in Procs \ {i} /\ state[loc[q].np] = "USED"
  BY <1>4, Zenon DEF Inv, Threads, ThreadOK, ForkOK
<1>18. Threads'
  <2>1. ThreadOK(p)'
    <3>1. Shape(p)'
      BY <1>7, <1>9, Zenon DEF Shape, Pc, InExit
    <3>2. ForkOK(p)'
      BY <1>4, <1>6, <1>7, <1>9, <1>10, <1>16, <1>17 DEF ForkOK, Pc
    <3>3. ExitOK(p)' /\ WaitOK(p)'
      <4>1. loc[p].moved = {}
        BY <1>1, <1>2, Zenon DEF ThreadOK, ExitOK
      <4> QED
        BY <1>7, <1>9, <4>1, Zenon DEF ExitOK, WaitOK, Pc
    <3> QED
      BY <3>1, <3>2, <3>3, Zenon DEF ThreadOK
  <2>2. ThreadOK(i)'
    <3>1. Shape(i)' /\ ForkOK(i)'
      BY <1>6, <1>8, <1>9, <1>16, Zenon DEF Shape, Pc, InExit, ForkOK, Bare
    <3>2. ExitOK(i)' /\ WaitOK(i)'
      BY <1>6, <1>8, <1>9, Zenon DEF ExitOK, WaitOK, Pc
    <3> QED
      BY <3>1, <3>2, Zenon DEF ThreadOK
  <2>3. ASSUME NEW q \in Procs \ {p, i}
        PROVE  ThreadOK(q)'
    <3>1. ThreadOK(q)
      BY Zenon DEF Inv, Threads
    <3>2. loc[q].pc \in InExit => (Dozes(parent[q])' => Dozes(parent[q]))
      BY <1>4, <1>16, ExitingProcess, Zenon DEF Dozes
    <3>3. \A r \in loc[q].moved : parent[r] = 1
      BY <3>1, Zenon DEF ThreadOK, ExitOK
    <3>4. Forks(q) => /\ state'[loc[q].np] = "USED"
                      /\ \A r \in Procs \ {q} : Forks(r)' => loc'[r].np # loc[q].np
      BY <1>7, <1>9, <1>10, <1>16, <1>17, <3>1, ZenonT(40) DEF ThreadOK, ForkOK
    <3> QED
      BY <1>4, <1>9, <1>10, <1>16, <3>2, <3>3, <3>4, ThreadKept
  <2> QED
    BY <2>1, <2>2, <2>3, Zenon DEF Threads
<1>19. Wakes'
  <2>1. ASSUME NEW q \in Procs, NEW r \in Procs, Dozes(q)', parent'[r] = q, state'[r] = "ZOMBIE"
        PROVE  q = 1 /\ \E s \in Procs : loc'[s].pc = "wakeup" /\ loc'[s].ret = "reparent" /\ loc'[s].j = 1
    <3>1. PICK s \in Procs : q = 1 /\ loc[s].pc = "wakeup" /\ loc[s].ret = "reparent" /\ loc[s].j = 1
      BY <1>4, <1>16, <2>1, Zenon DEF Inv, Wakes
    <3>2. s # p /\ s # i
      BY <1>1, <1>5, <3>1, Zenon
    <3> QED
      BY <1>9, <3>1, <3>2, Zenon
  <2>2. ASSUME NEW q \in Procs, state'[q] = "SLEEPING", chan'[q] = TICKS, loc'[q].n = 0
        PROVE  cpu'[1].intr > 0 /\ cpu'[1].intr <= q
    <3>1. q # p /\ q # i /\ state[q] = "SLEEPING"
      BY <1>6, <1>10, <2>2, Zenon
    <3> QED
      BY <1>1, <1>4, <1>9, <2>2, <3>1, Zenon DEF Inv, Wakes
  <2> QED
    BY <2>1, <2>2, Zenon DEF Wakes
<1> QED
  BY <1>13, <1>14, <1>15, <1>18, <1>19, Zenon DEF Inv

\* fork's np->parent = p, under wait_lock.
LEMMA ForkParentStep ==
    ASSUME Inv, NEW c \in CPUs, NEW p \in Procs, kfork_parent(c, p)
    PROVE  Inv'
<1> DEFINE l == [loc[p] EXCEPT !.pc = "fork_run"]
<1>1. /\ cpu[c].proc = p /\ cpu[c].intr = 0 /\ loc[p].pc = "fork_parent" /\ loc' = [loc EXCEPT ![p] = l]
      /\ parent' = [parent EXCEPT ![loc[p].np] = p]
      /\ UNCHANGED <<state, chan, killed, pid, nextpid, lk, cpu, panicked>>
  BY Zenon DEF kfork_parent, At, Goto, Inv, Types
<1>2. loc[p] \in LocType /\ ThreadOK(p) /\ Types
  BY Zenon DEF Inv, Types, Threads
<1>3. PICK i \in Procs : i = loc[p].np /\ state[i] = "USED" /\ parent[i] = 0
                         /\ \A q \in Procs \ {p} : Forks(q) => loc[q].np # i
  BY <1>1, <1>2, Zenon DEF ThreadOK, ForkOK, Forks, Pc
<1>4. l \in LocType /\ l.pc = "fork_run" /\ l.np = i /\ l.moved = {}
  <2>1. loc[p].moved = {}
    BY <1>1, <1>2, Zenon DEF ThreadOK, ExitOK
  <2> QED
    BY <1>2, <1>3, <2>1, SetPc DEF PC, Bare
<1> HIDE DEF l
<1>5. loc' \in [Procs -> LocType] /\ \A q \in Procs : loc'[q] = IF q = p THEN l ELSE loc[q]
  BY <1>1, <1>2, <1>4, Zenon DEF Types
<1>6. parent' \in [Procs -> Procs \cup {0}] /\ \A q \in Procs : parent'[q] = IF q = i THEN p ELSE parent[q]
  BY <1>1, <1>2, <1>3, Zenon DEF Types
<1>7. i # p /\ i # 1 /\ state[p] = "RUNNING"
  BY <1>1, <1>3, RunningThread DEF Inv, Table
<1>8. Stacks' /\ Owners' /\ lk' \in [Locks -> CPUs \cup {0}]
  <2>1. LockMove(c, p, loc'[p])
    BY <1>1, <1>4, <1>5, Places, Zenon DEF LockMove, Bare
  <2> QED
    BY <1>1, <1>4, <1>5, <1>7, <2>1, StacksKept
<1>9. Types'
  BY <1>1, <1>2, <1>5, <1>6, <1>8, Zenon DEF Types
<1>10. Table'
  BY <1>1, <1>3, <1>6, <1>7, Names DEF Inv, Table
<1>11. /\ Forks(p)' /\ \A q \in Procs \ {p} : Forks(q)' <=> Forks(q)
       /\ \A q \in Procs : Dozes(q)' <=> Dozes(q)
  BY <1>1, <1>4, <1>5, Zenon DEF Forks, Pc, Dozes
<1>12. Threads'
  <2>1. ThreadOK(p)'
    <3>1. Shape(p)'
      BY <1>4, <1>5, Zenon DEF Shape, Pc, InExit
    <3>2. ForkOK(p)'
      <4>1. loc'[p].np = i /\ Pc(p)' # "fork_parent"
        BY <1>4, <1>5, Zenon DEF Pc
      <4>2. i \in Procs /\ state'[i] = "USED" /\ parent'[i] = p
        BY <1>1, <1>3, <1>6, Zenon
      <4>3. \A q \in Procs \ {p} : Forks(q)' => loc'[q].np # i
        BY <1>3, <1>5, <1>11, Zenon
      <4> QED
        BY <4>1, <4>2, <4>3, Zenon DEF ForkOK
    <3>3. ExitOK(p)' /\ WaitOK(p)'
      BY <1>4, <1>5, Zenon DEF ExitOK, WaitOK, Pc
    <3> QED
      BY <3>1, <3>2, <3>3, Zenon DEF ThreadOK
  <2>2. ASSUME NEW q \in Procs \ {p}
        PROVE  ThreadOK(q)'
    <3>1. ThreadOK(q)
      BY Zenon DEF Inv, Threads
    <3>2. loc[q].pc \in InExit => /\ parent'[q] = parent[q] /\ (Dozes(parent[q])' => Dozes(parent[q]))
                                  /\ \A r \in Procs : parent'[r] = q => parent[r] = q
      BY <1>3, <1>6, <1>11, ExitingProcess DEF Dozes
    <3>3. \A r \in loc[q].moved : parent'[r] = 1
      <4>1. \A r \in loc[q].moved : r \in Procs /\ parent[r] = 1
        BY <1>2, <3>1, Zenon DEF ThreadOK, ExitOK, Types, LocType
      <4> QED
        BY <1>3, <1>6, <4>1
    <3>4. Forks(q) => /\ state'[loc[q].np] = "USED" /\ parent'[loc[q].np] = parent[loc[q].np]
                      /\ \A r \in Procs \ {q} : Forks(r)' => loc'[r].np # loc[q].np
      <4> SUFFICES ASSUME Forks(q)
                   PROVE  /\ state'[loc[q].np] = "USED" /\ parent'[loc[q].np] = parent[loc[q].np]
                          /\ \A r \in Procs \ {q} : Forks(r)' => loc'[r].np # loc[q].np
        BY Zenon
      <4>1. /\ loc[q].np \in Procs /\ state[loc[q].np] = "USED"
            /\ \A r \in Procs \ {q} : Forks(r) => loc[r].np # loc[q].np
        BY <3>1, Zenon DEF ThreadOK, ForkOK
      <4>2. loc[q].np # i
        BY <1>3, Zenon
      <4>3. state'[loc[q].np] = "USED" /\ parent'[loc[q].np] = parent[loc[q].np]
        BY <1>1, <1>6, <4>1, <4>2, Zenon
      <4>4. \A r \in Procs \ {q} : Forks(r)' => loc'[r].np # loc[q].np
        BY <1>4, <1>5, <1>11, <4>1, <4>2, Zenon
      <4> QED
        BY <4>3, <4>4, Zenon
    <3>5. \A r \in Procs : parent'[r] = q /\ state'[r] = "ZOMBIE" => parent[r] = q /\ state[r] = "ZOMBIE"
      BY <1>1, <1>6, Zenon
    <3> QED
      BY <1>1, <1>5, <3>2, <3>3, <3>4, <3>5, ThreadKept, Zenon
  <2> QED
    BY <2>1, <2>2, Zenon DEF Threads
<1>13. Wakes'
  <2>1. ASSUME NEW q \in Procs, NEW r \in Procs, Dozes(q)', parent'[r] = q, state'[r] = "ZOMBIE"
        PROVE  q = 1 /\ \E s \in Procs : loc'[s].pc = "wakeup" /\ loc'[s].ret = "reparent" /\ loc'[s].j = 1
    <3>1. PICK s \in Procs : q = 1 /\ loc[s].pc = "wakeup" /\ loc[s].ret = "reparent" /\ loc[s].j = 1
      BY <1>1, <1>3, <1>6, <1>11, <2>1, Zenon DEF Inv, Wakes
    <3> QED
      BY <1>1, <1>5, <3>1, Zenon
  <2>2. ASSUME NEW q \in Procs, state'[q] = "SLEEPING", chan'[q] = TICKS, loc'[q].n = 0
        PROVE  cpu'[1].intr > 0 /\ cpu'[1].intr <= q
    BY <1>1, <1>5, <1>7, <2>2, Zenon DEF Inv, Wakes
  <2> QED
    BY <2>1, <2>2, Zenon DEF Wakes
<1> QED
  BY <1>8, <1>9, <1>10, <1>12, <1>13, Zenon DEF Inv
=============================================================================
