---------------------------- MODULE ProcessProofs ----------------------------
(***************************************************************************)
(* proc.c for any number of processes and CPUs: who holds which lock, which *)
(* CPU has which kernel stack, the process tree, wakeups, and fork, exit    *)
(* and wait as atomic steps on the tree.                                    *)
(***************************************************************************)
EXTENDS ProcessSwitch

\* One process of the loop of wakeup(&ticks).
LEMMA ClockWakeStep ==
    ASSUME Inv, NEW c \in CPUs, clockintr(c), cpu[c].intr <= NPROC
    PROVE  Inv'
<1>1. cpu[c].intr > 0 /\ UNCHANGED <<chan, killed, parent, pid, nextpid, panicked>>
  BY Zenon DEF clockintr
<1>2. Types /\ cpu[c] \in CpuType /\ cpu[c].intr \in Nat \ {0} /\ c = 1
  <2>1. cpu[c] \in CpuType /\ c = 1 /\ Types
    BY <1>1, Zenon DEF Inv, Types, Stacks
  <2>2. cpu[c].intr \in Nat
    BY <2>1, Zenon DEF CpuType
  <2> QED
    BY <1>1, <2>1, <2>2
<1>3. PICK i \in Procs : i = cpu[c].intr
  BY <1>2, Names, Zenon
<1>4. /\ state' = IF i # cpu[c].proc /\ state[i] = "SLEEPING" /\ chan[i] = TICKS
                  THEN [state EXCEPT ![i] = "RUNNABLE"] ELSE state
      /\ cpu' = [cpu EXCEPT ![c].intr = @ + 1] /\ UNCHANGED <<lk, loc>>
  <2>1. ~(cpu[c].intr > NPROC)
    BY <1>2, ProcessAssumption
  <2> QED
    BY <1>3, <2>1, Zenon DEF clockintr
<1>5. /\ cpu' \in [CPUs -> CpuType] /\ cpu'[c].proc = cpu[c].proc /\ cpu'[c].from = cpu[c].from /\ cpu'[c].intr = i + 1
      /\ \A d \in CPUs \ {c} : cpu'[d] = cpu[d]
  <2>1. cpu[c].intr + 1 \in Nat
    BY <1>2
  <2> QED
    BY <1>2, <1>3, <1>4, <2>1, Zenon DEF Types, CpuType
<1>6. WakesOnly /\ state' \in [Procs -> Status] /\ (state[i] = "SLEEPING" /\ chan[i] = TICKS => state'[i] = "RUNNABLE")
  <2>1. state \in [Procs -> Status] /\ "RUNNABLE" \in Status
    BY <1>2, Zenon DEF Types, Status
  <2>2. state[i] = "SLEEPING" => i # cpu[c].proc
    BY RunningThread, Zenon
  <2> QED
    BY <1>4, <2>1, <2>2, Zenon DEF WakesOnly
<1>7. \A d \in CPUs : cpu[d].proc \in Procs \cup {0} /\ cpu[d].from \in Procs \cup {0}
  BY <1>2, Zenon DEF Types, CpuType
<1>8. Types'
  BY <1>1, <1>2, <1>4, <1>5, <1>6, Zenon DEF Types
<1>9. \A d \in CPUs : cpu'[d].proc = cpu[d].proc /\ cpu'[d].from = cpu[d].from /\ (cpu'[d].intr > 0 <=> cpu[d].intr > 0)
                      /\ (cpu[d].from # 0 => (cpu'[d].intr = 0 <=> cpu[d].intr = 0))
  <2>1. i + 1 > 0 /\ cpu[c].intr > 0 /\ i + 1 # 0 /\ cpu[c].intr # 0
    BY <1>1, <1>2, <1>3
  <2> QED
    BY <1>5, <2>1, Zenon
<1>10. Stacks'
  <2>1. ASSUME NEW d \in CPUs
        PROVE  /\ cpu'[d].from # 0 => cpu'[d].proc = 0 /\ cpu'[d].intr = 0
                                      /\ state'[cpu'[d].from] \in {"SLEEPING", "RUNNABLE", "ZOMBIE"}
               /\ cpu'[d].proc # 0 => /\ loc'[cpu'[d].proc].pc # "resume"
                                      /\ state'[cpu'[d].proc] = IF loc'[cpu'[d].proc].pc = "exit_release"
                                                                THEN "ZOMBIE" ELSE "RUNNING"
               /\ cpu'[d].intr > 0 => d = 1 /\ (cpu'[d].proc # 0 => loc'[cpu'[d].proc].pc \in Bare \cup {"tick", "yield"})
    BY <1>4, <1>6, <1>7, <1>9 DEF Inv, Stacks, WakesOnly
  <2>2. \A d, e \in CPUs : d # e => /\ cpu'[d].proc # 0 => cpu'[d].proc \notin {cpu'[e].proc, cpu'[e].from}
                                    /\ cpu'[d].from # 0 => cpu'[d].from # cpu'[e].from
    BY <1>9 DEF Inv, Stacks
  <2>3. \A q \in Procs : (\A d \in CPUs : cpu'[d].proc # q) => loc'[q].pc = "resume" /\ state'[q] # "RUNNING"
    BY <1>4, <1>6, <1>9 DEF Inv, Stacks, WakesOnly
  <2> QED
    BY <2>1, <2>2, <2>3, Zenon DEF Stacks
<1>11. Owners'
  <2>1. ASSUME NEW d \in CPUs, NEW k \in Locks
        PROVE  Owns(d, k)' <=> Owns(d, k)
    BY <1>4, <1>9, Zenon DEF Owns
  <2> QED
    BY <1>4, <2>1, Zenon DEF Inv, Owners
<1>12. Table'
  <2>1. \A q \in Procs : /\ state'[q] = "UNUSED" <=> state[q] = "UNUSED"
                         /\ state'[q] = "USED" <=> state[q] = "USED"
                         /\ state'[q] = "ZOMBIE" <=> state[q] = "ZOMBIE"
    BY <1>6, Zenon DEF WakesOnly
  <2> QED
    BY <1>1, <2>1, Names, Zenon DEF Inv, Table
<1>13. \A q \in Procs : (Dozes(q)' => Dozes(q)) /\ (Forks(q)' <=> Forks(q))
  BY <1>1, <1>4, <1>6, Zenon DEF Dozes, Forks, Pc, WakesOnly
<1>14. Threads'
  <2>1. ASSUME NEW q \in Procs
        PROVE  ThreadOK(q)'
    <3>1. ThreadOK(q)
      BY Zenon DEF Inv, Threads
    <3>2. Forks(q) => /\ state'[loc[q].np] = "USED"
                      /\ \A r \in Procs \ {q} : Forks(r)' => loc'[r].np # loc[q].np
      BY <1>4, <1>6, <1>13, <3>1, Zenon DEF ThreadOK, ForkOK, WakesOnly
    <3>3. \A r \in loc[q].moved : parent'[r] = 1
      BY <1>1, <3>1, Zenon DEF ThreadOK, ExitOK
    <3>4. loc[q].pc \in InExit => (Dozes(parent[q])' => Dozes(parent[q]))
      BY <1>1, <1>13, ExitingProcess, Zenon DEF Dozes
    <3>5. \A r \in Procs : /\ state'[r] = "ZOMBIE" => state[r] = "ZOMBIE"
                           /\ state'[r] \notin {"UNUSED", "ZOMBIE"} => state[r] \notin {"UNUSED", "ZOMBIE"}
      BY <1>6, Zenon DEF WakesOnly
    <3> QED
      BY <1>1, <1>4, <3>2, <3>3, <3>4, <3>5, ThreadKept, Zenon
  <2> QED
    BY <2>1, Zenon DEF Threads
<1>15. Wakes'
  <2>1. ASSUME NEW q \in Procs, NEW r \in Procs, Dozes(q)', parent'[r] = q, state'[r] = "ZOMBIE"
        PROVE  q = 1 /\ \E s \in Procs : loc'[s].pc = "wakeup" /\ loc'[s].ret = "reparent" /\ loc'[s].j = 1
    BY <1>1, <1>4, <1>6, <1>13, <2>1, Zenon DEF Inv, Wakes, WakesOnly
  <2>2. ASSUME NEW q \in Procs, state'[q] = "SLEEPING", chan'[q] = TICKS, loc'[q].n = 0
        PROVE  cpu'[1].intr > 0 /\ cpu'[1].intr <= q
    <3>1. state[q] = "SLEEPING" /\ q # i
      BY <1>1, <1>6, <2>2, Zenon DEF WakesOnly
    <3>2. cpu[1].intr <= q
      BY <1>1, <1>4, <2>2, <3>1, Zenon DEF Inv, Wakes
    <3>3. i <= q
      BY <1>2, <1>3, <3>2, Zenon
    <3>4. i + 1 > 0 /\ i + 1 <= q
      BY <3>1, <3>3 DEF Procs
    <3> QED
      BY <1>2, <1>5, <3>4, Zenon
  <2> QED
    BY <2>1, <2>2, Zenon DEF Wakes
<1> QED
  BY <1>8, <1>10, <1>11, <1>12, <1>14, <1>15, Zenon DEF Inv

\* The end of the clock interrupt: everyone whose tick has come is awake.
LEMMA ClockEndStep ==
    ASSUME Inv, NEW c \in CPUs, clockintr(c), ~(cpu[c].intr <= NPROC)
    PROVE  Inv'
<1>1. /\ cpu[c].intr > 0 /\ release(tickslock) /\ cpu' = [cpu EXCEPT ![c].intr = 0]
      /\ loc' = IF cpu[c].proc = 0 \/ loc[cpu[c].proc].pc \in {"tick", "yield"} THEN loc
                ELSE [loc EXCEPT ![cpu[c].proc] = Interrupted(cpu[c].proc)]
      /\ UNCHANGED <<state, chan, killed, parent, pid, nextpid, panicked>>
  BY Zenon DEF clockintr
<1>2. Types /\ cpu[c] \in CpuType /\ c = 1 /\ cpu[c].intr \in Nat /\ cpu[c].proc \in Procs \cup {0} /\ cpu[c].from = 0
      /\ (cpu[c].proc # 0 => loc[cpu[c].proc].pc \in Bare \cup {"tick", "yield"})
  <2>1. cpu[c] \in CpuType /\ c = 1 /\ Types /\ (cpu[c].proc # 0 => loc[cpu[c].proc].pc \in Bare \cup {"tick", "yield"})
        /\ (cpu[c].from # 0 => cpu[c].intr = 0)
    BY <1>1, Zenon DEF Inv, Types, Stacks
  <2>2. cpu[c].intr \in Nat /\ cpu[c].proc \in Procs \cup {0}
    BY <2>1, Zenon DEF CpuType
  <2>3. cpu[c].intr # 0
    BY <1>1, <2>2
  <2> QED
    BY <2>1, <2>2, <2>3, Zenon
<1>3. /\ cpu' \in [CPUs -> CpuType] /\ cpu'[c].proc = cpu[c].proc /\ cpu'[c].from = 0 /\ cpu'[c].intr = 0
      /\ \A d \in CPUs \ {c} : cpu'[d] = cpu[d]
  BY <1>1, <1>2, Zenon DEF Types, CpuType
<1>4. ASSUME NEW q \in Procs
      PROVE  /\ loc'[q] \in LocType
             /\ loc'[q] = loc[q] \/ (q = cpu[c].proc /\ loc[q].pc \in Bare /\ loc'[q] = Interrupted(q)
                                     /\ loc'[q].pc \in {"tick", "yield"} /\ ThreadOK(q)')
             /\ \A r \in Procs \ {cpu[c].proc} : loc'[r] = loc[r]
  <2>1. loc \in [Procs -> LocType]
    BY <1>2, Zenon DEF Types
  <2>2. \A r \in Procs \ {cpu[c].proc} : loc'[r] = loc[r]
    BY <1>1, <2>1, Zenon
  <2>3. loc'[q] = loc[q] \/ (q = cpu[c].proc /\ loc[q].pc \in Bare /\ loc'[q] = Interrupted(q))
    BY <1>1, <1>2, <2>1, Zenon
  <2>4. q = cpu[c].proc /\ loc[q].pc \in Bare /\ loc'[q] = Interrupted(q) =>
            Interrupted(q) \in LocType /\ Interrupted(q).pc \in {"tick", "yield"} /\ ThreadOK(q)'
    BY <1>1, <2>2, InterruptedOK, Zenon
  <2> QED
    BY <2>1, <2>2, <2>3, <2>4, Zenon
<1>5. /\ lk' \in [Locks -> CPUs \cup {0}] /\ lk[tickslock] = c
      /\ \A k \in Locks : lk'[k] = IF k = tickslock THEN 0 ELSE lk[k]
  <2>1. lk[tickslock] = c
    BY <1>1, Names, Zenon DEF Inv, Owners, Owns
  <2> QED
    BY <1>1, <1>2, <2>1, Names, Zenon DEF Types, release
<1>6. \A d \in CPUs : cpu[d].proc \in Procs \cup {0} /\ cpu[d].from \in Procs \cup {0}
  BY <1>2, Zenon DEF Types, CpuType
<1>7. \A d \in CPUs \ {c} : cpu[d].proc # 0 => cpu[d].proc # cpu[c].proc /\ loc'[cpu[d].proc] = loc[cpu[d].proc]
  <2>1. \A d \in CPUs \ {c} : cpu[d].proc # 0 => cpu[d].proc # cpu[c].proc
    BY Zenon DEF Inv, Stacks
  <2> QED
    BY <1>4, <1>6, <2>1, Zenon
<1>8. cpu[c].proc # 0 => loc'[cpu[c].proc].pc \in Bare \cup {"tick", "yield"}
  BY <1>2, <1>4, Zenon
<1>9. Types'
  <2>1. loc' \in [Procs -> LocType]
    <3>1. loc \in [Procs -> LocType]
      BY <1>2, Zenon DEF Types
    <3> QED
      BY <1>1, <1>4, <3>1, Zenon
  <2> QED
    BY <1>1, <1>2, <1>3, <1>5, <2>1, Zenon DEF Types
<1>10. Stacks'
  <2>1. \A d \in CPUs : cpu'[d].proc = cpu[d].proc /\ cpu'[d].from = cpu[d].from /\ (d # c => cpu'[d].intr = cpu[d].intr)
    BY <1>2, <1>3, Zenon
  <2>2. ASSUME NEW d \in CPUs
        PROVE  /\ cpu'[d].from # 0 => cpu'[d].proc = 0 /\ cpu'[d].intr = 0
                                      /\ state'[cpu'[d].from] \in {"SLEEPING", "RUNNABLE", "ZOMBIE"}
               /\ cpu'[d].proc # 0 => /\ loc'[cpu'[d].proc].pc # "resume"
                                      /\ state'[cpu'[d].proc] = IF loc'[cpu'[d].proc].pc = "exit_release"
                                                                THEN "ZOMBIE" ELSE "RUNNING"
               /\ cpu'[d].intr > 0 => d = 1 /\ (cpu'[d].proc # 0 => loc'[cpu'[d].proc].pc \in Bare \cup {"tick", "yield"})
    <3>1. CASE d # c
      BY <1>1, <1>6, <1>7, <2>1, <3>1 DEF Inv, Stacks
    <3>2. CASE d = c
      <4>1. cpu[c].proc # 0 => state[cpu[c].proc] = "RUNNING"
        BY <1>2, RunningThread DEF Bare
      <4>2. cpu[c].proc # 0 => loc'[cpu[c].proc].pc \notin {"resume", "exit_release"}
        BY <1>8, Zenon DEF Bare
      <4> QED
        BY <1>1, <1>3, <3>2, <4>1, <4>2
    <3> QED
      BY <3>1, <3>2, Zenon
  <2>3. \A d, e \in CPUs : d # e => /\ cpu'[d].proc # 0 => cpu'[d].proc \notin {cpu'[e].proc, cpu'[e].from}
                                    /\ cpu'[d].from # 0 => cpu'[d].from # cpu'[e].from
    BY <2>1 DEF Inv, Stacks
  <2>4. \A q \in Procs : (\A d \in CPUs : cpu'[d].proc # q) => loc'[q].pc = "resume" /\ state'[q] # "RUNNING"
    BY <1>1, <1>4, <2>1 DEF Inv, Stacks
  <2> QED
    BY <2>2, <2>3, <2>4, Zenon DEF Stacks
<1>11. Owners'
  <2>1. ASSUME NEW k \in Locks
        PROVE  lk'[k] = c <=> Owns(c, k)'
    <3>1. cpu[c].proc # 0 => ~OwnsAt(loc'[cpu[c].proc], cpu[c].proc, k) /\ ~OwnsAt(loc[cpu[c].proc], cpu[c].proc, k)
      BY <1>2, <1>6, <1>8, Places, Zenon
    <3>2. ~Owns(c, k)'
      BY <1>3, <3>1 DEF Owns
    <3>3. lk[k] = c <=> k = tickslock
      BY <1>1, <1>2, <3>1 DEF Inv, Owners, Owns
    <3> QED
      BY <1>5, <3>2, <3>3, Names, Zenon
  <2>2. ASSUME NEW d \in CPUs \ {c}, NEW k \in Locks
        PROVE  lk'[k] = d <=> Owns(d, k)'
    <3>1. Owns(d, k)' <=> Owns(d, k)
      BY <1>3, <1>7, Zenon DEF Owns
    <3>2. lk'[k] = d <=> lk[k] = d
      BY <1>5, Names, Zenon
    <3> QED
      BY <3>1, <3>2, Zenon DEF Inv, Owners
  <2> QED
    BY <2>1, <2>2, Zenon DEF Owners
<1>12. Table'
  BY <1>1, Zenon DEF Inv, Table
<1>13. Threads'
  <2>1. CASE \A q \in Procs : loc'[q] = loc[q]
    <3>1. \A q \in Procs : Forks(q)' <=> Forks(q)
      BY <2>1, Zenon DEF Forks, Pc
    <3>2. ASSUME NEW q \in Procs
          PROVE  ThreadOK(q)'
      <4>1. ThreadOK(q)
        BY Zenon DEF Inv, Threads
      <4>2. Forks(q) => \A r \in Procs \ {q} : Forks(r)' => loc'[r].np # loc[q].np
        BY <2>1, <3>1, <4>1, Zenon DEF ThreadOK, ForkOK
      <4>3. Forks(q) => state'[loc[q].np] = "USED"
        BY <1>1, <4>1, Zenon DEF ThreadOK, ForkOK
      <4>4. \A r \in loc[q].moved : parent'[r] = 1
        BY <1>1, <4>1, Zenon DEF ThreadOK, ExitOK
      <4>5. Dozes(parent[q])' => Dozes(parent[q])
        BY <1>1, Zenon DEF Dozes
      <4> QED
        BY <1>1, <2>1, <4>2, <4>3, <4>4, <4>5, ThreadKept, Zenon
    <3> QED
      BY <3>2, Zenon DEF Threads
  <2>2. ASSUME NEW p \in Procs, p = cpu[c].proc, ThreadOK(p)', \A q \in Procs \ {p} : loc'[q] = loc[q]
        PROVE  Threads'
    <3>1. \A q \in Procs \ {p} : ThreadOK(q)'
      <4>1. WakesOnly /\ ForkOK(p)'
        BY <1>1, <2>2, Zenon DEF WakesOnly, ThreadOK
      <4> QED
        BY <1>1, <2>2, <4>1, OthersOK, Zenon
    <3> QED
      BY <2>2, <3>1, Zenon DEF Threads
  <2> QED
    BY <1>4, <2>1, <2>2, Zenon
<1>14. Wakes'
  <2>1. ASSUME NEW q \in Procs, NEW r \in Procs, Dozes(q)', parent'[r] = q, state'[r] = "ZOMBIE"
        PROVE  q = 1 /\ \E s \in Procs : loc'[s].pc = "wakeup" /\ loc'[s].ret = "reparent" /\ loc'[s].j = 1
    <3>1. PICK s \in Procs : q = 1 /\ loc[s].pc = "wakeup" /\ loc[s].ret = "reparent" /\ loc[s].j = 1
      BY <1>1, <2>1, Zenon DEF Inv, Wakes, Dozes
    <3>2. loc'[s] = loc[s]
      BY <1>4, <3>1, Zenon DEF Bare
    <3> QED
      BY <3>1, <3>2, Zenon
  <2>2. ASSUME NEW q \in Procs, state'[q] = "SLEEPING", chan'[q] = TICKS, loc'[q].n = 0
        PROVE  FALSE
    <3>1. q # cpu[c].proc
      BY <1>1, <2>2, RunningThread, Zenon
    <3>2. cpu[1].intr <= q
      BY <1>1, <1>4, <2>2, <3>1, Zenon DEF Inv, Wakes
    <3> QED
      BY <1>2, <3>2, ProcessAssumption DEF Procs
  <2> QED
    BY <2>1, <2>2, Zenon DEF Wakes
<1> QED
  BY <1>9, <1>10, <1>11, <1>12, <1>13, <1>14, Zenon DEF Inv

-----------------------------------------------------------------------------
(* The invariant holds, and the properties follow.                           *)

\* userinit's table.
LEMMA InitOK == Init => Inv
<1> SUFFICES ASSUME Init
             PROVE  Inv
  BY Zenon
<1> USE Names
<1> DEFINE l == [Loc("resume") EXCEPT !.back = "user"]
<1>1. l \in LocType /\ l.pc = "resume" /\ l.back = "user" /\ l.moved = {} /\ l.i = 1
  <2> DEFINE k == Loc("resume")
  <2>1. k \in LocType /\ k.pc = "resume" /\ k.moved = {} /\ k.i = 1
    BY LocFields, Zenon DEF PC
  <2>2. "user" \in PC
    BY Zenon DEF PC, Bare
  <2> HIDE DEF k
  <2>3. LET n == [k EXCEPT !.back = "user"]
        IN  n \in LocType /\ n.pc = "resume" /\ n.back = "user" /\ n.moved = {} /\ n.i = 1
    BY <2>1, <2>2, Zenon DEF LocType
  <2> QED
    BY <2>3, Zenon DEF k
<1>2. loc = [p \in Procs |-> l]
  BY Zenon DEF Init
<1> HIDE DEF l
<1>3. \A p \in Procs : loc[p] = l
  BY <1>2, Zenon
<1>4. \A c \in CPUs : cpu[c] \in CpuType /\ cpu[c].proc = 0 /\ cpu[c].from = 0 /\ cpu[c].intr = 0
  BY Zenon DEF Init, Idle, CpuType
<1>5. Types
  <2>1. 1 \in 0 .. MaxPid /\ 0 \in 0 .. MaxPid /\ 2 \in 2 .. MaxPid + 1
    BY ProcessAssumption
  <2>2. state \in [Procs -> Status] /\ chan \in [Procs -> Int] /\ parent \in [Procs -> Procs \cup {0}]
    <3>1. "RUNNABLE" \in Status /\ "UNUSED" \in Status /\ 0 \in Int
      BY DEF Status
    <3>2. state = [p \in Procs |-> IF p = 1 THEN "RUNNABLE" ELSE "UNUSED"] /\ chan = [p \in Procs |-> 0]
          /\ parent = [p \in Procs |-> 0]
      BY Zenon DEF Init
    <3> QED
      BY <3>1, <3>2, Zenon
  <2>3. killed \in [Procs -> BOOLEAN]
    BY Zenon DEF Init
  <2>4. pid \in [Procs -> 0 .. MaxPid] /\ nextpid \in 2 .. MaxPid + 1
    BY <2>1, Zenon DEF Init
  <2>5. lk \in [Locks -> CPUs \cup {0}] /\ loc \in [Procs -> LocType] /\ panicked = ""
    BY <1>1, <1>2, Zenon DEF Init
  <2>6. cpu \in [CPUs -> CpuType]
    BY <1>4, Zenon DEF Init
  <2> QED
    BY <2>2, <2>3, <2>4, <2>5, <2>6, Zenon DEF Types
<1>6. Stacks
  <2>1. \A p \in Procs : loc[p].pc = "resume" /\ state[p] # "RUNNING"
    BY <1>1, <1>3, Zenon DEF Init
  <2> QED
    BY <1>4, <2>1 DEF Stacks
<1>7. Owners
  <2>1. \A k \in Locks : lk[k] = 0
    BY Zenon DEF Init
  <2>2. \A c \in CPUs, k \in Locks : ~Owns(c, k)
    BY <1>4 DEF Owns
  <2> QED
    BY <2>1, <2>2, Zenon DEF Owners
<1>8. Table
  <2>1. \A q \in Procs : /\ state[q] = IF q = 1 THEN "RUNNABLE" ELSE "UNUSED"
                         /\ pid[q] = IF q = 1 THEN 1 ELSE 0
                         /\ parent[q] = 0 /\ chan[q] = 0
    BY Zenon DEF Init
  <2>2. nextpid = 2
    BY Zenon DEF Init
  <2> QED
    BY <2>1, <2>2 DEF Table
<1>9. Threads
  <2>1. \A p \in Procs : Pc(p) = "user" /\ ~Forks(p)
    BY <1>1, <1>3, Zenon DEF Pc, Forks
  <2>2. ASSUME NEW p \in Procs
        PROVE  ThreadOK(p)
    <3>1. Shape(p) /\ ForkOK(p)
      BY <1>1, <1>3, <2>1, Zenon DEF Shape, ForkOK, Bare, InExit
    <3>2. ExitOK(p) /\ WaitOK(p)
      BY <1>1, <1>3, <2>1, Zenon DEF ExitOK, WaitOK
    <3> QED
      BY <3>1, <3>2, Zenon DEF ThreadOK
  <2> QED
    BY <2>2, Zenon DEF Threads
<1>10. Wakes
  BY Zenon DEF Wakes, Dozes, Init
<1> QED
  BY <1>5, <1>6, <1>7, <1>8, <1>9, <1>10, Zenon DEF Inv

\* Every step keeps it.
LEMMA InvStep == Inv /\ [Next]_vars => Inv'
<1> SUFFICES ASSUME Inv, [Next]_vars
             PROVE  Inv'
  BY Zenon
<1>1. CASE UNCHANGED vars
  <2>1. UNCHANGED <<state, chan, killed, parent, pid, nextpid, lk, cpu, loc, panicked>>
    BY <1>1, Zenon DEF vars, procs
  <2>2. NoPanic'
    BY <2>1, Zenon DEF Inv, Types, NoPanic
  <2> QED
    BY <2>1, <2>2, Unmoved, Zenon
<1>2. ASSUME NEW c \in CPUs, timer(c) \/ clockintr(c) \/ scheduler_release(c) \/ \E p \in Procs : scheduler(c, p)
      PROVE  Inv'
  BY <1>2, TimerPlainStep, TickStep, ClockWakeStep, ClockEndStep, SchedulerReleaseStep, SchedulerStep, Zenon
<1>3. ASSUME NEW c \in CPUs, NEW p \in {cpu[c].proc} \ {0}, syscall(c, p) \/ Thread(c, p)
      PROVE  Inv'
  <2>1. p \in Procs
    BY Zenon DEF Inv, Types, CpuType
  <2>2. CASE syscall(c, p) \/ usertrap_ret(c, p) \/ usertrap_tick(c, p)
    BY <2>1, <2>2, TrapSteps, Zenon
  <2>3. CASE yield(c, p) \/ sleep_lock(c, p) \/ sleep_release(c, p) \/ wakeup(c, p)
    BY <2>1, <2>3, YieldStep, SleepLockStep, SleepReleaseStep, WakeupStep, Zenon
  <2>4. CASE allocproc(c, p) \/ kfork_parent(c, p) \/ kfork_run(c, p)
    BY <2>1, <2>4, AllocSkip, AllocStep, ForkParentStep, ForkRunStep, Zenon
  <2>5. CASE reparent(c, p) \/ kexit_zombie(c, p) \/ kexit_sched(c, p)
    BY <2>1, <2>5, ReparentSkip, ReparentStep, ZombieStep, ExitSchedStep, Zenon
  <2>6. CASE kwait(c, p) \/ sys_pause(c, p) \/ kexit(c, p) \/ sleep_return(c, p)
    BY <2>1, <2>6, EnterSteps, Zenon
  <2>7. CASE kwait_scan(c, p) \/ kwait_sleep(c, p) \/ sys_pause_test(c, p) \/ kkill(c, p)
    BY <2>1, <2>7, WaitScanSkip, WaitFreeStep, LeaveSteps, KillStep, Zenon
  <2> QED
    BY <1>3, <2>2, <2>3, <2>4, <2>5, <2>6, <2>7, Zenon DEF Thread
<1> QED
  BY <1>1, <1>2, <1>3, Zenon DEF Next, Halted

\* The invariant of proc.c.
THEOREM ProcessInvariant == Spec => []Inv
BY InitOK, InvStep, PTL DEF Spec

\* sched is always called with p->lock alone and by a process not marked RUNNING: none of its
\* panics is reached.
THEOREM ProcessNeverPanics == Spec => []NoPanic
<1>1. Inv => NoPanic
  BY Zenon DEF Inv, Types, NoPanic
<1> QED
  BY <1>1, ProcessInvariant, PTL

\* No two CPUs are on one kernel stack, nor is one on the stack of a freed slot.
THEOREM StacksAreOwned == Spec => []StacksOwned
<1>1. Inv => StacksOwned
  <2> SUFFICES ASSUME Inv, NEW c \in CPUs
               PROVE  /\ \A p \in {cpu[c].proc, cpu[c].from} \ {0} :
                            /\ state[p] \notin {"UNUSED", "USED"}
                            /\ \A d \in CPUs \ {c} : p \notin {cpu[d].proc, cpu[d].from}
                      /\ cpu[c].proc # 0 => state[cpu[c].proc] \in {"RUNNING", "ZOMBIE"}
    BY Zenon DEF StacksOwned
  <2> QED
    BY DEF Inv, Stacks
<1> QED
  BY <1>1, ProcessInvariant, PTL

\* Free slots have no parent, pids are unique, and nobody is left with a dead parent.
THEOREM TableIsExact == Spec => []TableExact
<1>1. Inv => TableExact
  <2> SUFFICES ASSUME Inv
               PROVE  TypeOK /\ PidsUnique /\ ParentsAlive
    BY Zenon DEF TableExact
  <2>1. TypeOK
    BY Zenon DEF Inv, Types, Table, TypeOK, Status
  <2>2. PidsUnique /\ ParentsAlive
    BY Zenon DEF Inv, Table, PidsUnique, ParentsAlive
  <2> QED
    BY <2>1, <2>2, Zenon
<1> QED
  BY <1>1, ProcessInvariant, PTL

\* With nobody in the section of wait_lock no parent sleeps with a dead child to collect; with
\* nobody in that of tickslock nobody sleeps in pause after its tick.
THEOREM NoWakeupLost == Spec => []NoLostWakeup
<1>1. Inv => NoLostWakeup
  <2> SUFFICES ASSUME Inv
               PROVE  NoLostWakeup
    BY Zenon
  <2>1. ASSUME Free(wait_lock), NEW p \in Procs, NEW q \in Procs, state[p] = "SLEEPING", chan[p] = p, parent[q] = p
        PROVE  state[q] # "ZOMBIE"
    <3>1. \A r \in Procs : loc[r].pc # "wakeup"
      BY <2>1, OneOwner, Names, Zenon DEF OwnsAt, InExit
    <3> QED
      BY <2>1, <3>1, Zenon DEF Inv, Wakes, Dozes
  <2>2. ASSUME Free(tickslock), NEW p \in Procs, state[p] = "SLEEPING", chan[p] = TICKS
        PROVE  loc[p].n > 0
    <3>1. ~(cpu[1].intr > 0)
      BY <2>2, Names, Zenon DEF Inv, Owners, Owns, Free
    <3>2. loc[p].n # 0
      BY <2>2, <3>1, Zenon DEF Inv, Wakes
    <3>3. loc[p] \in LocType
      BY Zenon DEF Inv, Types
    <3>4. loc[p].n \in Nat
      BY <3>3, Zenon DEF LocType
    <3> QED
      BY <3>2, <3>4
  <2> QED
    BY <2>1, <2>2, Zenon DEF NoLostWakeup
<1> QED
  BY <1>1, ProcessInvariant, PTL

-----------------------------------------------------------------------------
(* The order of the locks.                                                   *)

\* What a thread wants with a lock in hand: p->lock after another lock, nothing after p->lock.
LEMMA WantsInSection ==
    ASSUME Inv, NEW p \in Procs
    PROVE  /\ loc[p].pc \in {"sleep_release", "exit_release"} => Wants(p) = {}
           /\ loc[p].pc \in InExit \cup {"sleep", "wait_scan", "pause_test"} => Wants(p) \subseteq Procs
<1>1. loc[p] \in LocType
  BY Zenon DEF Inv, Types
<1>2. loc[p].i \in Nat \ {0} /\ loc[p].j \in Nat \ {0}
  BY <1>1, Zenon DEF LocType
<1>3. /\ loc[p].i <= NPROC <=> loc[p].i \in Procs
      /\ loc[p].j <= NPROC <=> loc[p].j \in Procs
      /\ loc[p].i > NPROC <=> ~(loc[p].i <= NPROC)
  BY <1>2, Names, ProcessAssumption
<1>4. loc[p].pc \in {"sleep_release", "exit_release", "reparent"} => Wants(p) = {}
  BY Zenon DEF Wants
<1>5. loc[p].pc \in {"sleep", "exit_lock"} => Wants(p) = {p}
  BY Zenon DEF Wants
<1>6. loc[p].pc = "pause_test" => Wants(p) \subseteq {p}
  BY Zenon DEF Wants
<1>7. loc[p].pc = "wakeup" => Wants(p) \subseteq {loc[p].j} /\ (Wants(p) # {} => loc[p].j <= NPROC)
  BY Zenon DEF Wants
<1>8. loc[p].pc = "wait_scan" => \/ Wants(p) = {p}
                                 \/ Wants(p) \subseteq {loc[p].i} /\ ~(loc[p].i > NPROC)
  BY Zenon DEF Wants
<1> QED
  BY <1>3, <1>4, <1>5, <1>6, <1>7, <1>8, Zenon DEF InExit

\* A thread wants only locks.
LEMMA WantsLocks ==
    ASSUME Inv, NEW p \in Procs
    PROVE  Wants(p) \subseteq Locks
<1>1. loc[p] \in LocType /\ ThreadOK(p)
  BY Zenon DEF Inv, Types, Threads
<1>2. loc[p].i \in Nat \ {0} /\ loc[p].lk \in {wait_lock, tickslock}
  BY <1>1, Zenon DEF LocType
<1>3. loc[p].i <= NPROC <=> loc[p].i \in Procs
  BY <1>2, Names, Zenon
<1>4. CASE loc[p].pc \in InExit \cup {"sleep", "sleep_release", "wait_scan", "pause_test"}
  BY <1>4, WantsInSection, Names, Zenon
<1>5. CASE loc[p].pc \in {"ret", "tick", "yield"}
  <2>1. Wants(p) = {p}
    BY <1>5, Zenon DEF Wants
  <2> QED
    BY <2>1, Names, Zenon
<1>6. CASE loc[p].pc \in {"fork_parent", "exit", "wait"}
  <2>1. Wants(p) = {wait_lock}
    BY <1>6, Zenon DEF Wants
  <2> QED
    BY <2>1, Names, Zenon
<1>7. CASE loc[p].pc = "pause"
  <2>1. Wants(p) = {tickslock}
    BY <1>7, Zenon DEF Wants
  <2> QED
    BY <2>1, Names, Zenon
<1>8. CASE loc[p].pc = "sleep_return"
  <2>1. Wants(p) = {loc[p].lk}
    BY <1>8, Zenon DEF Wants
  <2> QED
    BY <1>2, <2>1, Names, Zenon
<1>9. CASE loc[p].pc = "fork_run"
  <2>1. Wants(p) = {loc[p].np}
    BY <1>9, Zenon DEF Wants
  <2>2. loc[p].np \in Procs
    BY <1>1, <1>9, Zenon DEF ThreadOK, ForkOK, Forks, Pc
  <2> QED
    BY <2>1, <2>2, Names, Zenon
<1>10. CASE loc[p].pc \in {"fork", "kill"}
  <2>1. loc[p].i <= NPROC => Wants(p) = {loc[p].i}
    BY <1>10, Zenon DEF Wants
  <2>2. ~(loc[p].i <= NPROC) => Wants(p) = {}
    BY <1>10, Zenon DEF Wants
  <2>3. CASE loc[p].i <= NPROC
    <3>1. loc[p].i \in Locks
      BY <1>3, <2>3, Names, Zenon
    <3> QED
      BY <2>1, <2>3, <3>1, Zenon
  <2> QED
    BY <2>2, <2>3, Zenon
<1>11. CASE loc[p].pc \in {"user", "resume"}
  <2>1. Wants(p) = {}
    BY <1>11, Zenon DEF Wants
  <2> QED
    BY <2>1, Zenon
<1>12. loc[p].pc \in PC
  BY <1>1, Zenon DEF LocType
<1> QED
  BY <1>4, <1>5, <1>6, <1>7, <1>8, <1>9, <1>10, <1>11, <1>12, Zenon DEF PC, Bare

\* No CPU spins for its own lock and no CPUs spin for each other's: tickslock or wait_lock comes
\* before one p->lock, in the timer's interrupt as in the system calls.
THEOREM LocksAreOrdered == Spec => []NoSpinCycle
<1> DEFINE Want(c) == IF cpu[c].intr > 0 THEN {cpu[c].intr} \cap (Procs \ {cpu[c].proc})
                      ELSE IF cpu[c].proc = 0 THEN {} ELSE Wants(cpu[c].proc)
<1>1. ASSUME Inv, NEW c \in CPUs
      PROVE  /\ Want(c) \subseteq Locks
             /\ \A k \in Procs : lk[k] = c => Want(c) = {}
             /\ \A k \in Locks : lk[k] = c => Want(c) \subseteq Procs
  <2>1. cpu[c] \in CpuType
    BY <1>1, Zenon DEF Inv, Types
  <2>2. cpu[c].proc \in Procs \cup {0} /\ cpu[c].intr \in Nat
    BY <2>1, Zenon DEF CpuType
  <2>3. cpu[c].from # 0 => cpu[c].proc = 0 /\ ~(cpu[c].intr > 0)
    <3>1. cpu[c].from # 0 => cpu[c].proc = 0 /\ cpu[c].intr = 0
      BY <1>1, Zenon DEF Inv, Stacks
    <3> QED
      BY <2>2, <3>1
  <2>4. ASSUME cpu[c].proc # 0, NEW k \in Locks, OwnsAt(loc[cpu[c].proc], cpu[c].proc, k)
        PROVE  /\ ~(cpu[c].intr > 0)
               /\ loc[cpu[c].proc].pc \in InExit \cup {"sleep", "sleep_release", "wait_scan", "pause_test"}
               /\ k \in Procs => loc[cpu[c].proc].pc \in {"sleep_release", "exit_release"}
    <3>1. loc[cpu[c].proc].pc \in InExit \cup {"sleep", "sleep_release", "wait_scan", "pause_test"}
      BY <2>4, Zenon DEF OwnsAt, InExit
    <3>2. ~(cpu[c].intr > 0)
      BY <1>1, <2>4, <3>1, Zenon DEF Inv, Stacks, Bare, InExit
    <3>3. loc[cpu[c].proc] \in LocType
      BY <1>1, <2>2, <2>4, Zenon DEF Inv, Types
    <3>4. loc[cpu[c].proc].lk \in {wait_lock, tickslock}
      BY <3>3, Zenon DEF LocType
    <3>5. k \in Procs => loc[cpu[c].proc].pc \in {"sleep_release", "exit_release"}
      BY <2>4, <3>4, Names, Zenon DEF OwnsAt
    <3> QED
      BY <3>1, <3>2, <3>5, Zenon
  <2>5. ASSUME NEW k \in Locks, lk[k] = c
        PROVE  \/ cpu[c].from # 0
               \/ cpu[c].intr > 0 /\ k = tickslock
               \/ cpu[c].proc # 0 /\ OwnsAt(loc[cpu[c].proc], cpu[c].proc, k)
    BY <1>1, <2>5, Zenon DEF Inv, Owners, Owns
  <2>6. Want(c) \subseteq Locks
    BY <1>1, <2>2, WantsLocks, Names, Zenon
  <2>7. ASSUME NEW k \in Locks, lk[k] = c
        PROVE  Want(c) \subseteq Procs /\ (k \in Procs => Want(c) = {})
    <3>1. CASE cpu[c].from # 0
      BY <2>3, <3>1, Zenon
    <3>2. CASE cpu[c].intr > 0 /\ k = tickslock
      BY <3>2, Names, Zenon
    <3>3. CASE cpu[c].proc # 0 /\ OwnsAt(loc[cpu[c].proc], cpu[c].proc, k)
      <4>1. Want(c) = Wants(cpu[c].proc) /\ cpu[c].proc \in Procs
        BY <2>2, <2>4, <3>3, Zenon
      <4> QED
        BY <1>1, <2>4, <3>3, <4>1, WantsInSection, Zenon
    <3> QED
      BY <2>5, <2>7, <3>1, <3>2, <3>3, Zenon
  <2> QED
    BY <2>6, <2>7, Names, Zenon
<1>2. ASSUME Inv, NEW S \in (SUBSET CPUs) \ {{}}
      PROVE  \E c \in S : SpinsOn(c) \cap S = {}
  <2>1. \A c \in S : c \in CPUs /\ SpinsOn(c) = {lk[k] : k \in Want(c)} \ {0}
    BY <1>2, Zenon DEF SpinsOn
  <2> HIDE DEF Want
  <2>2. PICK c \in S : TRUE
    BY <1>2, Zenon
  <2>3. CASE SpinsOn(c) \cap S = {}
    BY <2>3, Zenon
  <2>4. CASE SpinsOn(c) \cap S # {}
    <3>1. PICK k \in Want(c) : lk[k] \in S
      BY <2>1, <2>4
    <3>2. PICK d \in S : d = lk[k]
      BY <3>1, Zenon
    <3>3. k \in Locks
      BY <1>1, <1>2, <2>1, <3>1, Zenon
    <3>4. Want(d) \subseteq Procs
      BY <1>1, <1>2, <2>1, <3>2, <3>3, Zenon
    <3>5. CASE SpinsOn(d) \cap S = {}
      BY <3>5, Zenon
    <3>6. CASE SpinsOn(d) \cap S # {}
      <4>1. PICK m \in Want(d) : lk[m] \in S
        BY <2>1, <3>6
      <4>2. PICK e \in S : e = lk[m]
        BY <4>1, Zenon
      <4>3. Want(e) = {}
        BY <1>1, <1>2, <2>1, <3>4, <4>1, <4>2, Zenon
      <4>4. SpinsOn(e) = {}
        BY <2>1, <4>3, Zenon
      <4> QED
        BY <4>4, Zenon
    <3> QED
      BY <3>5, <3>6, Zenon
  <2> QED
    BY <2>3, <2>4, Zenon
<1>3. Inv => NoSpinCycle
  BY <1>2, Zenon DEF NoSpinCycle
<1> QED
  BY <1>3, ProcessInvariant, PTL

-----------------------------------------------------------------------------
(* fork, exit and wait are atomic on the tree.                               *)

StatusOf == [p \in Procs |-> IF state[p] = "ZOMBIE" THEN "dead"
                             ELSE IF p = 1 \/ parent[p] # 0 THEN "live" ELSE "free"]
ParOf == [q \in Procs |-> IF \E p \in Procs : q \in loc[p].moved
                          THEN CHOOSE p \in Procs : q \in loc[p].moved ELSE parent[q]]

\* A child that exit has moved but not yet left is still the exiting process's.
LEMMA ParValue ==
    ASSUME Inv, NEW q \in Procs
    PROVE  /\ \A p \in Procs : q \in loc[p].moved => ParOf[q] = p
           /\ (\A p \in Procs : q \notin loc[p].moved) => ParOf[q] = parent[q]
<1>1. ASSUME NEW p \in Procs, q \in loc[p].moved
      PROVE  ParOf[q] = p
  <2>1. loc[p].pc \in InExit
    BY <1>1, Zenon DEF Inv, Threads, ThreadOK, ExitOK, InExit
  <2>2. \A r \in Procs : q \in loc[r].moved => r = p
    BY <2>1, Alone, Zenon
  <2>3. (CHOOSE r \in Procs : q \in loc[r].moved) = p
    BY <1>1, <2>2, Zenon
  <2> QED
    BY <1>1, <2>3, Zenon DEF ParOf
<1>2. ASSUME \A p \in Procs : q \notin loc[p].moved
      PROVE  ParOf[q] = parent[q]
  BY <1>2, Zenon DEF ParOf
<1> QED
  BY <1>1, <1>2, Zenon

\* Nothing happens to the tree.
Same == /\ UNCHANGED parent
        /\ \A q \in Procs : (state'[q] = "ZOMBIE" <=> state[q] = "ZOMBIE") /\ loc'[q].moved = loc[q].moved

\* Then the abstract tree stays too.
LEMMA SameStutters ==
    ASSUME Same
    PROVE  UNCHANGED <<StatusOf, ParOf>>
<1>1. StatusOf' = StatusOf
  BY Zenon DEF Same, StatusOf
<1>2. ASSUME NEW q \in Procs
      PROVE  ParOf'[q] = ParOf[q]
  <2>1. \A p \in Procs : q \in loc'[p].moved <=> q \in loc[p].moved
    BY Zenon DEF Same
  <2>2. (CHOOSE p \in Procs : q \in loc'[p].moved) = (CHOOSE p \in Procs : q \in loc[p].moved)
    BY <2>1, Zenon
  <2> QED
    BY <2>1, <2>2, Zenon DEF ParOf, Same
<1>3. ParOf' = ParOf
  BY <1>2, Zenon DEF ParOf
<1> QED
  BY <1>1, <1>3, Zenon

\* The steps of a thread at which nothing happens to the tree.
LEMMA SameThread ==
    ASSUME Inv, NEW p \in Procs, NEW l, loc' = [loc EXCEPT ![p] = l], l.moved = loc[p].moved,
           UNCHANGED parent, \A q \in Procs : state'[q] = "ZOMBIE" <=> state[q] = "ZOMBIE"
    PROVE  Same
BY Zenon DEF Same, Inv, Types

\* Traps, calls and the critical sections of wait and pause.
LEMMA QuietSteps ==
    ASSUME Inv, NEW c \in CPUs, NEW p \in Procs,
           \/ syscall(c, p) \/ usertrap_ret(c, p) \/ usertrap_tick(c, p)
           \/ sleep_lock(c, p) \/ sleep_return(c, p) \/ kexit(c, p)
           \/ kwait(c, p) \/ kwait_sleep(c, p) \/ sys_pause(c, p) \/ sys_pause_test(c, p)
    PROVE  Same
<1>1. loc[p] \in LocType /\ UNCHANGED <<state, parent>>
  BY Zenon DEF Inv, Types, syscall, usertrap_ret, usertrap_tick, sleep_lock, sleep_return, kexit,
         kwait, kwait_sleep, sys_pause, sys_pause_test, procs
<1>2. loc[p].pc \notin InExit
  BY Zenon DEF syscall, usertrap_ret, usertrap_tick, sleep_lock, sleep_return, kexit,
         kwait, kwait_sleep, sys_pause, sys_pause_test, At, InExit
<1>3. loc[p].moved = {}
  BY <1>2, Zenon DEF Inv, Threads, ThreadOK, ExitOK, InExit
<1>4. CASE UNCHANGED loc
  BY <1>1, <1>4, Zenon DEF Same
<1>5. ASSUME NEW pc, loc' = [loc EXCEPT ![p] = Loc(pc)]
      PROVE  Same
  <2>1. Loc(pc).moved = {}
    BY Zenon DEF Loc
  <2> QED
    BY <1>1, <1>3, <1>5, <2>1, SameThread, Zenon
<1>6. ASSUME NEW pc, loc' = [loc EXCEPT ![p].pc = pc]
      PROVE  Same
  <2>1. loc' = [loc EXCEPT ![p] = [loc[p] EXCEPT !.pc = pc]]
    BY <1>6, Zenon
  <2>2. [loc[p] EXCEPT !.pc = pc].moved = loc[p].moved
    BY <1>1, Zenon DEF LocType
  <2> QED
    BY <1>1, <2>1, <2>2, SameThread, Zenon
<1>7. CASE syscall(c, p)
  <2>1. ASSUME NEW t, loc' = [loc EXCEPT ![p] = [Loc("kill") EXCEPT !.np = t]]
        PROVE  Same
    <3>1. [Loc("kill") EXCEPT !.np = t].moved = {}
      BY Zenon DEF Loc
    <3> QED
      BY <1>1, <1>3, <2>1, <3>1, SameThread, Zenon
  <2> QED
    BY <1>5, <1>7, <2>1, Zenon DEF syscall, Go
<1>8. CASE usertrap_ret(c, p) \/ sleep_lock(c, p) \/ kwait(c, p)
  BY <1>6, <1>8, Zenon DEF usertrap_ret, IfKilled, sleep_lock, kwait, Goto
<1>9. CASE usertrap_tick(c, p)
  <2>1. ASSUME loc' = [loc EXCEPT ![p] = [Loc("yield") EXCEPT !.back = "user"]]
        PROVE  Same
    <3>1. [Loc("yield") EXCEPT !.back = "user"].moved = {}
      BY Zenon DEF Loc
    <3> QED
      BY <1>1, <1>3, <2>1, <3>1, SameThread, Zenon
  <2> QED
    BY <1>5, <1>9, <2>1, Zenon DEF usertrap_tick, Go
<1>10. CASE kexit(c, p)
  BY <1>4, <1>5, <1>10, Zenon DEF kexit, Go
<1>11. CASE sleep_return(c, p) \/ sys_pause(c, p)
  <2>1. ASSUME NEW pc, NEW k, loc' = [loc EXCEPT ![p] = [loc[p] EXCEPT !.pc = pc, !.lk = k]]
        PROVE  Same
    <3>1. [loc[p] EXCEPT !.pc = pc, !.lk = k].moved = loc[p].moved
      BY <1>1, Zenon DEF LocType
    <3> QED
      BY <1>1, <2>1, <3>1, SameThread, Zenon
  <2>2. ASSUME NEW pc, NEW n, loc' = [loc EXCEPT ![p] = [loc[p] EXCEPT !.pc = pc, !.n = n]]
        PROVE  Same
    <3>1. [loc[p] EXCEPT !.pc = pc, !.n = n].moved = loc[p].moved
      BY <1>1, Zenon DEF LocType
    <3> QED
      BY <1>1, <2>2, <3>1, SameThread, Zenon
  <2> QED
    BY <1>11, <2>1, <2>2, Zenon DEF sleep_return, sys_pause, Go
<1>12. CASE kwait_sleep(c, p) \/ sys_pause_test(c, p)
  <2>1. ASSUME NEW ch, NEW m, loc' = [loc EXCEPT ![p] = [Loc("sleep") EXCEPT !.np = ch, !.lk = m, !.n = loc[p].n]]
        PROVE  Same
    <3>1. [Loc("sleep") EXCEPT !.np = ch, !.lk = m, !.n = loc[p].n].moved = {}
      BY Zenon DEF Loc
    <3> QED
      BY <1>1, <1>3, <2>1, <3>1, SameThread, Zenon
  <2> QED
    BY <1>5, <1>12, <2>1, Zenon DEF kwait_sleep, sys_pause_test, Sleep, Go
<1> QED
  BY <1>7, <1>8, <1>9, <1>10, <1>11, <1>12, Zenon

\* wakeup, kill, the slots that fork, exit and wait pass over, fork's last step, and sched.
LEMMA TableSteps ==
    ASSUME Inv, NEW c \in CPUs, NEW p \in Procs,
           \/ wakeup(c, p) \/ kkill(c, p) \/ allocproc(c, p) \/ kfork_run(c, p)
           \/ (reparent(c, p) /\ UNCHANGED parent) \/ (kwait_scan(c, p) /\ UNCHANGED state)
           \/ yield(c, p) \/ sleep_release(c, p) \/ kexit_sched(c, p)
    PROVE  Same
<1>1. loc[p] \in LocType /\ ThreadOK(p) /\ Types
  BY Zenon DEF Inv, Types, Threads
<1>2. loc[p].i \in Nat \ {0} /\ loc[p].j \in Nat \ {0}
  BY <1>1, Zenon DEF LocType
<1>3. state \in [Procs -> Status] /\ \A q \in Procs : q = 1 => state[q] # "ZOMBIE"
  BY Zenon DEF Inv, Types, Table
<1>4. ASSUME NEW q, NEW st, st # "ZOMBIE", q \in Procs => state[q] # "ZOMBIE",
             state' = state \/ state' = [state EXCEPT ![q] = st]
      PROVE  \A r \in Procs : state'[r] = "ZOMBIE" <=> state[r] = "ZOMBIE"
  BY <1>3, <1>4, Zenon
<1>5. ASSUME NEW q, state[q] # "ZOMBIE", state' = state \/ state' = [state EXCEPT ![q] = "RUNNABLE"]
      PROVE  \A r \in Procs : state'[r] = "ZOMBIE" <=> state[r] = "ZOMBIE"
  BY <1>3, <1>5, Zenon
<1>6. CASE wakeup(c, p)
  <2>1. UNCHANGED parent /\ \A r \in Procs : state'[r] = "ZOMBIE" <=> state[r] = "ZOMBIE"
    BY <1>5, <1>6, Zenon DEF wakeup
  <2>2. [loc[p] EXCEPT !.pc = loc[p].ret, !.j = 1, !.np = 0, !.ret = ""].moved = loc[p].moved
        /\ [loc[p] EXCEPT !.j = @ + 1].moved = loc[p].moved
    BY <1>1, Zenon DEF LocType
  <2> QED
    BY <1>6, <2>1, <2>2, SameThread, Zenon DEF wakeup, Go
<1>7. CASE loc[p].pc \notin InExit /\ UNCHANGED parent /\ (\A r \in Procs : state'[r] = "ZOMBIE" <=> state[r] = "ZOMBIE")
           /\ \/ loc' = [loc EXCEPT ![p] = Loc("ret")]
              \/ loc' = [loc EXCEPT ![p] = [loc[p] EXCEPT !.i = @ + 1]]
              \/ loc' = [loc EXCEPT ![p] = [loc[p] EXCEPT !.i = @ + 1, !.kids = TRUE]]
              \/ loc' = [loc EXCEPT ![p] = [loc[p] EXCEPT !.pc = "resume"]]
              \/ loc' = [loc EXCEPT ![p] = [loc[p] EXCEPT !.pc = "resume", !.back = "sleep_return", !.np = 0]]
  <2>1. loc[p].moved = {} /\ Loc("ret").moved = {}
    BY <1>1, <1>7, Zenon DEF ThreadOK, ExitOK, InExit, Loc
  <2>2. /\ [loc[p] EXCEPT !.i = @ + 1].moved = loc[p].moved
        /\ [loc[p] EXCEPT !.i = @ + 1, !.kids = TRUE].moved = loc[p].moved
        /\ [loc[p] EXCEPT !.pc = "resume"].moved = loc[p].moved
        /\ [loc[p] EXCEPT !.pc = "resume", !.back = "sleep_return", !.np = 0].moved = loc[p].moved
    BY <1>1, Zenon DEF LocType
  <2> QED
    BY <1>7, <2>1, <2>2, SameThread, Zenon
<1>8. CASE kkill(c, p)
  <2>1. UNCHANGED parent /\ \A r \in Procs : state'[r] = "ZOMBIE" <=> state[r] = "ZOMBIE"
    BY <1>5, <1>8, Zenon DEF kkill
  <2>2. loc[p].pc \notin InExit
    BY <1>8, Zenon DEF kkill, At, InExit
  <2> QED
    BY <1>7, <1>8, <2>1, <2>2, Zenon DEF kkill, Go
<1>9. CASE allocproc(c, p)
  <2>0. loc[p].i <= NPROC => loc[p].i \in Procs
    BY <1>2, Names, Zenon
  <2>1. UNCHANGED parent /\ loc[p].pc \notin InExit
    <3>1. ASSUME NEW i \in Procs, state[i] = "UNUSED", freeproc(i)
          PROVE  UNCHANGED parent
      <4>1. parent \in [Procs -> Procs \cup {0}] /\ parent[i] = 0 /\ parent' = [parent EXCEPT ![i] = 0]
        BY <1>1, <3>1, Zenon DEF freeproc, Inv, Table, Types
      <4> QED
        BY <4>1, SameEntry, Zenon
    <3> QED
      BY <1>9, <2>0, <3>1, Zenon DEF allocproc, At, InExit, procs
  <2>2. CASE UNCHANGED state
    <3>1. \/ loc' = [loc EXCEPT ![p] = Loc("ret")]
          \/ loc' = [loc EXCEPT ![p] = [loc[p] EXCEPT !.i = @ + 1]]
      BY <1>3, <1>9, <2>0, <2>2, Zenon DEF allocproc, Go
    <3> QED
      BY <1>7, <2>1, <2>2, <3>1, Zenon
  <2>3. CASE ~UNCHANGED state
    <3>1. PICK i \in Procs : i = loc[p].i
      BY <1>2, <1>9, <2>3, Names, Zenon DEF allocproc, procs
    <3>2. /\ state[i] = "UNUSED" /\ state' = [state EXCEPT ![i] = "USED"]
          /\ loc' = [loc EXCEPT ![p] = [loc[p] EXCEPT !.pc = "fork_parent", !.np = i],
                                ![i] = [Loc("resume") EXCEPT !.back = "user"]]
      <4>1. ASSUME state[i] = "UNUSED", freeproc(i)
            PROVE  FALSE
        <5>1. state \in [Procs -> Status] /\ state' = [state EXCEPT ![i] = "UNUSED"]
          BY <1>1, <4>1, Zenon DEF Inv, Types, freeproc
        <5> QED
          BY <2>3, <4>1, <5>1, SameEntry, Zenon
      <4> QED
        BY <1>9, <2>3, <3>1, <4>1, Zenon DEF allocproc, procs, Go
    <3>3. loc[i].pc = "resume"
      BY <3>2, OffCpu, Zenon
    <3>4. loc[i].moved = {} /\ i # p
      <4>1. loc[i].moved = {}
        BY <3>3, Zenon DEF Inv, Threads, ThreadOK, ExitOK
      <4> QED
        BY <1>9, <3>3, <4>1, Zenon DEF allocproc, At
    <3>5. [loc[p] EXCEPT !.pc = "fork_parent", !.np = i].moved = loc[p].moved
      BY <1>1, Zenon DEF LocType
    <3>6. [Loc("resume") EXCEPT !.back = "user"].moved = {}
      BY Zenon DEF Loc
    <3>7. \A q \in Procs : loc'[q].moved = loc[q].moved
      <4>1. loc \in [Procs -> LocType]
        BY <1>1, Zenon DEF Types
      <4> QED
        BY <3>2, <3>4, <3>5, <3>6, <4>1, Zenon
    <3>8. \A r \in Procs : state'[r] = "ZOMBIE" <=> state[r] = "ZOMBIE"
      BY <1>3, <3>2, Zenon
    <3> QED
      BY <2>1, <3>7, <3>8, Zenon DEF Same
  <2> QED
    BY <2>2, <2>3, Zenon
<1>10. CASE kfork_run(c, p)
  <2>1. loc[p].pc = "fork_run" /\ UNCHANGED parent
    BY <1>10, Zenon DEF kfork_run, At
  <2>2. loc[p].np \in Procs /\ state[loc[p].np] = "USED"
    BY <1>1, <2>1, Zenon DEF ThreadOK, ForkOK, Forks, Pc
  <2>3. \A r \in Procs : state'[r] = "ZOMBIE" <=> state[r] = "ZOMBIE"
    BY <1>5, <1>10, <2>2, Zenon DEF kfork_run
  <2>4. loc[p].pc \notin InExit
    BY <2>1, Zenon DEF InExit
  <2> QED
    BY <1>7, <1>10, <2>1, <2>3, <2>4, Zenon DEF kfork_run, Go
<1>11. CASE reparent(c, p) /\ UNCHANGED parent
  <2>1. loc[p].pc = "reparent" /\ UNCHANGED state
    BY <1>11, Zenon DEF reparent, At
  <2>2. p # 1 /\ parent \in [Procs -> Procs \cup {0}]
    BY <1>1, <2>1, ExitingProcess, Zenon DEF InExit, Types
  <2>3. /\ [loc[p] EXCEPT !.i = @ + 1].moved = loc[p].moved
        /\ [loc[p] EXCEPT !.pc = "wakeup", !.j = 1, !.np = parent[p], !.ret = "exit_lock"].moved = loc[p].moved
    BY <1>1, Zenon DEF LocType
  <2>4. ~(loc[p].i > NPROC) => loc[p].i \in Procs
    BY <1>2, Names, ProcessAssumption
  <2>5. \/ loc' = [loc EXCEPT ![p] = [loc[p] EXCEPT !.i = @ + 1]]
        \/ loc' = [loc EXCEPT ![p] = [loc[p] EXCEPT !.pc = "wakeup", !.j = 1, !.np = parent[p], !.ret = "exit_lock"]]
    BY <1>11, <2>2, <2>4, Zenon DEF reparent, Wakeup, Go
  <2> QED
    BY <1>11, <2>1, <2>3, <2>5, SameThread, Zenon
<1>12. CASE kwait_scan(c, p) /\ UNCHANGED state
  <2>1. loc[p].pc \notin InExit /\ loc[p].i <= NPROC
    BY <1>12, Zenon DEF kwait_scan, At, InExit
  <2>2. loc[p].i \in Procs
    BY <1>2, <2>1, Names, Zenon
  <2>3. /\ UNCHANGED parent
        /\ \/ loc' = [loc EXCEPT ![p] = Loc("ret")]
           \/ loc' = [loc EXCEPT ![p] = [loc[p] EXCEPT !.i = @ + 1]]
           \/ loc' = [loc EXCEPT ![p] = [loc[p] EXCEPT !.i = @ + 1, !.kids = TRUE]]
    BY <1>3, <1>12, <2>2, Zenon DEF kwait_scan, freeproc, Go, procs
  <2> QED
    BY <1>7, <1>12, <2>1, <2>3, Zenon
<1>13. CASE yield(c, p) \/ sleep_release(c, p)
  <2>1. loc[p].pc \notin InExit /\ UNCHANGED parent /\ cpu[c].proc = p /\ loc[p].pc # "exit_release"
    BY <1>13, Zenon DEF yield, sleep_release, At, InExit
  <2>2. state[p] = "RUNNING"
    BY <2>1, RunningThread, Zenon
  <2>3. \A r \in Procs : state'[r] = "ZOMBIE" <=> state[r] = "ZOMBIE"
    BY <1>4, <1>13, <2>2, Zenon DEF yield, sleep_release, sched
  <2>4. \/ loc' = [loc EXCEPT ![p] = [loc[p] EXCEPT !.pc = "resume"]]
        \/ loc' = [loc EXCEPT ![p] = [loc[p] EXCEPT !.pc = "resume", !.back = "sleep_return", !.np = 0]]
    BY <1>13, Zenon DEF yield, sleep_release, Goto, Go
  <2> QED
    BY <1>7, <2>1, <2>3, <2>4, Zenon
<1>14. CASE kexit_sched(c, p)
  <2>1. loc[p].pc = "exit_release" /\ UNCHANGED parent /\ cpu[c].proc = p
        /\ state' = [state EXCEPT ![p] = "ZOMBIE"] /\ loc' = [loc EXCEPT ![p] = [loc[p] EXCEPT !.pc = "resume"]]
    BY <1>14, Zenon DEF kexit_sched, At, sched, Goto
  <2>2. state[p] = "ZOMBIE"
    BY <2>1, RunningThread
  <2>3. [loc[p] EXCEPT !.pc = "resume"].moved = loc[p].moved
    BY <1>1, Zenon DEF LocType
  <2>4. \A r \in Procs : state'[r] = "ZOMBIE" <=> state[r] = "ZOMBIE"
    BY <1>3, <2>1, <2>2, Zenon
  <2> QED
    BY <2>1, <2>3, <2>4, SameThread, Zenon
<1> QED
  BY <1>6, <1>8, <1>9, <1>10, <1>11, <1>12, <1>13, <1>14, Zenon

\* Timers and schedulers.
LEMMA CpuSteps ==
    ASSUME Inv, NEW c \in CPUs,
           timer(c) \/ clockintr(c) \/ scheduler_release(c) \/ \E p \in Procs : scheduler(c, p)
    PROVE  Same
<1>1. loc \in [Procs -> LocType] /\ state \in [Procs -> Status] /\ cpu[c] \in CpuType
  BY Zenon DEF Inv, Types
<1>2. cpu[c].proc \in Procs \cup {0}
  BY <1>1, Zenon DEF CpuType
<1>3. ASSUME NEW p \in Procs, loc[p].pc \in Bare
      PROVE  Interrupted(p).moved = loc[p].moved
  <2>1. loc[p] \in LocType /\ loc[p].moved = {}
    BY <1>1, <1>3, Zenon DEF Inv, Threads, ThreadOK, ExitOK, Bare
  <2>2. Loc("tick").moved = {} /\ [loc[p] EXCEPT !.pc = "yield", !.back = loc[p].pc].moved = loc[p].moved
    BY <2>1, Zenon DEF Loc, LocType
  <2> QED
    BY <2>1, <2>2, Zenon DEF Interrupted
<1>4. CASE timer(c)
  <2>1. UNCHANGED <<state, parent>> /\ Held(c) = {} /\ cpu[c].intr = 0
    BY <1>4, Zenon DEF timer, procs
  <2>2. CASE c = 1 /\ \E q \in Procs : Pausing(q)
    <3>1. loc' = [q \in Procs |-> IF Pausing(q) THEN [loc[q] EXCEPT !.n = @ - 1] ELSE loc[q]]
      BY <1>4, <2>2, Zenon DEF timer
    <3>2. ASSUME NEW q \in Procs
          PROVE  loc'[q].moved = loc[q].moved
      <4>1. loc[q] \in LocType /\ (loc'[q] = loc[q] \/ loc'[q] = [loc[q] EXCEPT !.n = @ - 1])
        BY <1>1, <3>1, Zenon
      <4> QED
        BY <4>1, Zenon DEF LocType
    <3> QED
      BY <2>1, <3>2, Zenon DEF Same
  <2>3. CASE ~(c = 1 /\ \E q \in Procs : Pausing(q))
    <3>1. /\ cpu[c].proc \in Procs /\ loc[cpu[c].proc].pc \notin {"tick", "yield"}
          /\ loc' = [loc EXCEPT ![cpu[c].proc] = Interrupted(cpu[c].proc)]
      BY <1>2, <1>4, <2>3, Zenon DEF timer, Go
    <3>2. loc[cpu[c].proc].pc \in Bare
      BY <2>1, <3>1, HoldsNothing, Zenon
    <3> QED
      BY <1>3, <2>1, <3>1, <3>2, SameThread, Zenon
  <2> QED
    BY <2>2, <2>3, Zenon
<1>5. CASE clockintr(c)
  <2>1. UNCHANGED parent /\ cpu[c].intr > 0
    BY <1>5, Zenon DEF clockintr
  <2>2. \A r \in Procs : state'[r] = "ZOMBIE" <=> state[r] = "ZOMBIE"
    BY <1>1, <1>5, Zenon DEF clockintr
  <2>3. CASE UNCHANGED loc
    BY <2>1, <2>2, <2>3, Zenon DEF Same
  <2>4. CASE /\ cpu[c].proc # 0 /\ loc[cpu[c].proc].pc \notin {"tick", "yield"}
             /\ loc' = [loc EXCEPT ![cpu[c].proc] = Interrupted(cpu[c].proc)]
    <3>1. cpu[c].proc \in Procs /\ loc[cpu[c].proc].pc \in Bare
      BY <1>2, <2>1, <2>4, Zenon DEF Inv, Stacks
    <3> QED
      BY <1>3, <2>1, <2>2, <2>4, <3>1, SameThread, Zenon
  <2> QED
    BY <1>5, <2>3, <2>4, Zenon DEF clockintr
<1>6. CASE scheduler_release(c)
  BY <1>6, Zenon DEF scheduler_release, procs, Same
<1>7. ASSUME NEW p \in Procs, scheduler(c, p)
      PROVE  Same
  <2>1. /\ UNCHANGED parent /\ state[p] = "RUNNABLE" /\ state' = [state EXCEPT ![p] = "RUNNING"]
        /\ loc' = [loc EXCEPT ![p] = [loc[p] EXCEPT !.pc = loc[p].back, !.back = ""]]
    BY <1>7, Zenon DEF scheduler, Go
  <2>2. [loc[p] EXCEPT !.pc = loc[p].back, !.back = ""].moved = loc[p].moved
    <3>1. loc[p] \in LocType
      BY <1>1, Zenon
    <3> QED
      BY <3>1, Zenon DEF LocType
  <2>3. \A r \in Procs : state'[r] = "ZOMBIE" <=> state[r] = "ZOMBIE"
    BY <1>1, <2>1, Zenon
  <2> QED
    BY <2>1, <2>2, <2>3, SameThread, Zenon
<1> QED
  BY <1>4, <1>5, <1>6, <1>7, Zenon

\* A running thread is a live process.
LEMMA LiveProcess ==
    ASSUME Inv, NEW p \in Procs, state[p] \notin {"UNUSED", "USED", "ZOMBIE"}
    PROVE  StatusOf[p] = "live" /\ (p = 1 \/ parent[p] \in Procs)
<1>1. p = 1 \/ parent[p] \in Procs
  BY Zenon DEF Inv, Table
<1> QED
  BY <1>1, Names, Zenon DEF StatusOf

\* fork happens where np->parent is set.
LEMMA ForkIsAtomic ==
    ASSUME Inv, NEW c \in CPUs, NEW p \in Procs, kfork_parent(c, p)
    PROVE  \E q \in Procs : /\ StatusOf[p] = "live" /\ StatusOf[q] = "free"
                            /\ StatusOf' = [StatusOf EXCEPT ![q] = "live"]
                            /\ ParOf' = [ParOf EXCEPT ![q] = p]
<1>1. /\ cpu[c].proc = p /\ loc[p].pc = "fork_parent" /\ UNCHANGED state
      /\ parent' = [parent EXCEPT ![loc[p].np] = p] /\ loc' = [loc EXCEPT ![p] = [loc[p] EXCEPT !.pc = "fork_run"]]
      /\ Inv'
  BY ForkParentStep, Zenon DEF kfork_parent, At, Goto
<1>2. ThreadOK(p) /\ parent \in [Procs -> Procs \cup {0}] /\ loc \in [Procs -> LocType] /\ state[1] # "USED"
  BY Zenon DEF Inv, Threads, Types, Table
<1>3. PICK q \in Procs : q = loc[p].np /\ state[q] = "USED" /\ parent[q] = 0 /\ q # 1
  BY <1>1, <1>2, Zenon DEF ThreadOK, ForkOK, Forks, Pc
<1>4. StatusOf[p] = "live" /\ StatusOf[q] = "free"
  BY <1>1, <1>3, LiveProcess, RunningThread DEF StatusOf
<1>5. \A r \in Procs : loc'[r].moved = loc[r].moved
  <2>1. [loc[p] EXCEPT !.pc = "fork_run"].moved = loc[p].moved
    <3>1. loc[p] \in LocType
      BY <1>2, Zenon
    <3> QED
      BY <3>1, Zenon DEF LocType
  <2> QED
    BY <1>1, <1>2, <2>1, Zenon
<1>6. \A r \in Procs : parent'[r] = IF r = q THEN p ELSE parent[r]
  BY <1>1, <1>2, <1>3, Zenon
<1>7. StatusOf' = [StatusOf EXCEPT ![q] = "live"]
  <2>1. \A r \in Procs : StatusOf'[r] = IF r = q THEN "live" ELSE StatusOf[r]
    <3>1. p # 0 /\ state'[q] # "ZOMBIE"
      BY <1>1, <1>3, Names, Zenon
    <3> QED
      BY <1>1, <1>6, <3>1, Zenon DEF StatusOf
  <2>2. StatusOf' = [r \in Procs |-> StatusOf'[r]] /\ StatusOf = [r \in Procs |-> StatusOf[r]]
    BY Zenon DEF StatusOf
  <2> HIDE DEF StatusOf
  <2> QED
    BY <2>1, <2>2, Zenon
<1>8. \A r \in Procs : ParOf'[r] = IF r = q THEN p ELSE ParOf[r]
  <2>1. \A s \in Procs : q \notin loc[s].moved
    BY <1>3 DEF Inv, Threads, ThreadOK, ExitOK
  <2>2. ParOf'[q] = p
    BY <1>5, <1>6, <2>1, Zenon DEF ParOf
  <2>3. ASSUME NEW r \in Procs \ {q}
        PROVE  ParOf'[r] = ParOf[r]
    <3>1. (CHOOSE s \in Procs : r \in loc'[s].moved) = (CHOOSE s \in Procs : r \in loc[s].moved)
      BY <1>5, Zenon
    <3> QED
      BY <1>5, <1>6, <3>1, Zenon DEF ParOf
  <2> QED
    BY <2>2, <2>3, Zenon
<1>9. ParOf' = [ParOf EXCEPT ![q] = p]
  BY <1>8, Zenon DEF ParOf
<1> QED
  BY <1>4, <1>7, <1>9, Zenon

\* reparent moves no child on the abstract tree: it is the exiting process's until the end.
LEMMA ReparentStutters ==
    ASSUME Inv, NEW c \in CPUs, NEW p \in Procs, reparent(c, p), parent' # parent
    PROVE  UNCHANGED <<StatusOf, ParOf>>
<1>1. loc[p].pc = "reparent" /\ UNCHANGED state /\ Inv' /\ loc[p] \in LocType /\ loc \in [Procs -> LocType]
  BY ReparentStep, Zenon DEF reparent, At, Inv, Types
<1>2. loc[p].i \in Nat \ {0} /\ ~(loc[p].i > NPROC)
  BY <1>1, Zenon DEF reparent, LocType
<1>3. PICK i \in Procs : i = loc[p].i
  BY <1>2, Names, ProcessAssumption
<1> DEFINE l == [[loc[p] EXCEPT !.i = @ + 1, !.moved = @ \cup {i}]
                 EXCEPT !.pc = "wakeup", !.j = 1, !.np = 1, !.ret = "reparent"]
<1>4. parent[i] = p /\ parent' = [parent EXCEPT ![i] = 1] /\ loc' = [loc EXCEPT ![p] = l]
  BY <1>2, <1>3, Zenon DEF reparent, Wakeup, Go
<1>5. l.moved = loc[p].moved \cup {i}
  BY <1>1, Zenon DEF LocType
<1> HIDE DEF l
<1>6. \A q \in Procs : loc'[q].moved = IF q = p THEN loc[p].moved \cup {i} ELSE loc[q].moved
  BY <1>1, <1>4, <1>5, Zenon
<1>7. p # 1 /\ \A q \in Procs \ {p} : loc[q].moved = {}
  BY <1>1, ExitingProcess, Alone, Zenon DEF InExit
<1>8. i \notin loc[p].moved
  BY <1>4, <1>7 DEF Inv, Threads, ThreadOK, ExitOK
<1>9. \A q \in Procs : parent'[q] = IF q = i THEN 1 ELSE parent[q]
  BY <1>4, Zenon DEF Inv, Types
<1>10. StatusOf' = StatusOf
  <2>1. \A q \in Procs : parent'[q] # 0 <=> parent[q] # 0
    BY <1>4, <1>9, Names, Zenon
  <2> QED
    BY <1>1, <2>1, Zenon DEF StatusOf
<1>11. ASSUME NEW q \in Procs
       PROVE  ParOf'[q] = ParOf[q]
  <2>1. CASE q = i
    <3>1. ParOf[i] = p
      BY <1>4, <1>7, <1>8, ParValue, Zenon
    <3>2. ParOf'[i] = p
      <4>1. i \in loc'[p].moved
        BY <1>6, Zenon
      <4>2. \A r \in Procs : i \in loc'[r].moved => r = p
        BY <1>6, <1>7, Zenon
      <4>3. (CHOOSE r \in Procs : i \in loc'[r].moved) = p
        BY <4>1, <4>2, Zenon
      <4> QED
        BY <4>1, <4>3, Zenon DEF ParOf
    <3> QED
      BY <2>1, <3>1, <3>2, Zenon
  <2>2. CASE q # i
    <3>1. \A r \in Procs : q \in loc'[r].moved <=> q \in loc[r].moved
      BY <1>6, <2>2, Zenon
    <3>2. (CHOOSE r \in Procs : q \in loc'[r].moved) = (CHOOSE r \in Procs : q \in loc[r].moved)
      BY <3>1, Zenon
    <3> QED
      BY <1>9, <2>2, <3>1, <3>2, Zenon DEF ParOf
  <2> QED
    BY <2>1, <2>2, Zenon
<1>12. ParOf' = ParOf
  BY <1>11, Zenon DEF ParOf
<1> QED
  BY <1>10, <1>12, Zenon

\* exit happens at ZOMBIE, and gives away all the children at once.
LEMMA ExitIsAtomic ==
    ASSUME Inv, NEW c \in CPUs, NEW p \in Procs, kexit_zombie(c, p)
    PROVE  /\ p # 1 /\ StatusOf[p] = "live"
           /\ StatusOf' = [StatusOf EXCEPT ![p] = "dead"]
           /\ ParOf' = [q \in Procs |-> IF ParOf[q] = p THEN 1 ELSE ParOf[q]]
<1>1. /\ loc[p].pc = "exit_lock" /\ UNCHANGED parent /\ state' = [state EXCEPT ![p] = "ZOMBIE"]
      /\ loc' = [loc EXCEPT ![p] = Loc("exit_release")]
  BY Zenon DEF kexit_zombie, At, Go
<1>2. loc \in [Procs -> LocType] /\ state \in [Procs -> Status] /\ ThreadOK(p)
  BY Zenon DEF Inv, Types, Threads
<1>3. p # 1 /\ StatusOf[p] = "live" /\ \A q \in Procs \ {p} : loc[q].moved = {}
  BY <1>1, ExitingProcess, Alone, LiveProcess, Zenon DEF InExit
<1>4. (\A q \in loc[p].moved : parent[q] = 1) /\ \A q \in Procs : parent[q] # p
  BY <1>1, <1>2, Zenon DEF ThreadOK, ExitOK
<1>5. StatusOf' = [StatusOf EXCEPT ![p] = "dead"]
  <2>1. \A r \in Procs : StatusOf'[r] = IF r = p THEN "dead" ELSE StatusOf[r]
    BY <1>1, <1>2, Zenon DEF StatusOf
  <2>2. StatusOf' = [r \in Procs |-> StatusOf'[r]] /\ StatusOf = [r \in Procs |-> StatusOf[r]]
    BY Zenon DEF StatusOf
  <2> HIDE DEF StatusOf
  <2> QED
    BY <2>1, <2>2, Zenon
<1>6. \A r \in Procs : loc'[r].moved = {}
  <2>1. Loc("exit_release").moved = {}
    BY Zenon DEF Loc
  <2> QED
    BY <1>1, <1>2, <1>3, <2>1, Zenon
<1>7. \A q \in Procs : ParOf'[q] = parent[q]
  BY <1>1, <1>6, Zenon DEF ParOf
<1>8. \A q \in Procs : ParOf'[q] = IF ParOf[q] = p THEN 1 ELSE ParOf[q]
  <2>1. ASSUME NEW q \in Procs
        PROVE  parent[q] = IF ParOf[q] = p THEN 1 ELSE ParOf[q]
    <3>1. CASE q \in loc[p].moved
      BY <1>4, <3>1, ParValue, Zenon
    <3>2. CASE q \notin loc[p].moved
      BY <1>3, <1>4, <3>2, ParValue, Zenon
    <3> QED
      BY <3>1, <3>2, Zenon
  <2> QED
    BY <1>7, <2>1, Zenon
<1>9. ParOf' = [q \in Procs |-> ParOf'[q]]
  BY Zenon DEF ParOf
<1>10. ParOf' = [q \in Procs |-> IF ParOf[q] = p THEN 1 ELSE ParOf[q]]
  <2> HIDE DEF ParOf
  <2> QED
    BY <1>8, <1>9, Zenon
<1> QED
  BY <1>3, <1>5, <1>10, Zenon

\* wait happens at freeproc.
LEMMA WaitIsAtomic ==
    ASSUME Inv, NEW c \in CPUs, NEW p \in Procs, kwait_scan(c, p), state' # state
    PROVE  \E q \in Procs : /\ StatusOf[p] = "live" /\ StatusOf[q] = "dead" /\ ParOf[q] = p
                            /\ StatusOf' = [StatusOf EXCEPT ![q] = "free"]
                            /\ ParOf' = [ParOf EXCEPT ![q] = 0]
<1>1. loc[p].pc = "wait_scan" /\ loc[p].i <= NPROC /\ cpu[c].proc = p
  BY Zenon DEF kwait_scan, At
<1>2. loc \in [Procs -> LocType] /\ state \in [Procs -> Status] /\ parent \in [Procs -> Procs \cup {0}]
      /\ loc[p] \in LocType /\ ThreadOK(p) /\ state[1] # "ZOMBIE"
  BY Zenon DEF Inv, Types, Threads, Table
<1>3. loc[p].i \in Nat \ {0}
  BY <1>2, Zenon DEF LocType
<1>4. PICK q \in Procs : q = loc[p].i
  BY <1>1, <1>3, Names, Zenon
<1>5. /\ parent[q] = p /\ state[q] = "ZOMBIE" /\ state' = [state EXCEPT ![q] = "UNUSED"]
      /\ parent' = [parent EXCEPT ![q] = 0] /\ loc' = [loc EXCEPT ![p] = Loc("ret")]
  BY <1>4, Zenon DEF kwait_scan, procs, Go, freeproc
<1>6. \A r \in Procs : loc[r].moved = {}
  <2>1. loc[p].moved = {}
    BY <1>1, <1>2, Zenon DEF ThreadOK, ExitOK
  <2> QED
    BY <1>1, <2>1, Alone, Zenon
<1>7. \A r \in Procs : loc'[r].moved = {}
  <2>1. Loc("ret").moved = {}
    BY Zenon DEF Loc
  <2> QED
    BY <1>2, <1>5, <1>6, <2>1, Zenon
<1>8. state[p] = "RUNNING"
  BY <1>1, RunningThread, Zenon
<1>9. StatusOf[p] = "live" /\ StatusOf[q] = "dead" /\ ParOf[q] = p /\ q # 1
  BY <1>2, <1>5, <1>6, <1>8, LiveProcess, ParValue, Zenon DEF StatusOf
<1>10. \A r \in Procs : /\ StatusOf'[r] = IF r = q THEN "free" ELSE StatusOf[r]
                        /\ ParOf'[r] = IF r = q THEN 0 ELSE ParOf[r]
  <2>1. \A r \in Procs : /\ state'[r] = IF r = q THEN "UNUSED" ELSE state[r]
                         /\ parent'[r] = IF r = q THEN 0 ELSE parent[r]
    BY <1>2, <1>5, Zenon
  <2>2. \A r \in Procs : StatusOf'[r] = IF r = q THEN "free" ELSE StatusOf[r]
    BY <1>9, <2>1, Zenon DEF StatusOf
  <2>3. \A r \in Procs : ParOf'[r] = parent'[r] /\ ParOf[r] = parent[r]
    BY <1>6, <1>7, Zenon DEF ParOf
  <2> QED
    BY <2>1, <2>2, <2>3, Zenon
<1>11. /\ StatusOf' = [r \in Procs |-> StatusOf'[r]] /\ StatusOf = [r \in Procs |-> StatusOf[r]]
       /\ ParOf' = [r \in Procs |-> ParOf'[r]] /\ ParOf = [r \in Procs |-> ParOf[r]]
  BY Zenon DEF StatusOf, ParOf
<1>12. StatusOf' = [StatusOf EXCEPT ![q] = "free"] /\ ParOf' = [ParOf EXCEPT ![q] = 0]
  <2> HIDE DEF StatusOf, ParOf
  <2> QED
    BY <1>10, <1>11, Zenon
<1> QED
  BY <1>9, <1>12, Zenon

\* fork, exit and wait, cut into critical sections and run by any number of CPUs, are atomic
\* steps on the process tree.
THEOREM ForkExitWaitAreAtomic == Spec => ImplementsProcLife
<1>1. Init => Life!Init
  <2> SUFFICES ASSUME Init
               PROVE  Life!Init
    BY Zenon
  <2>1. \A p \in Procs : loc[p].moved = {} /\ parent[p] = 0 /\ state[p] # "ZOMBIE"
    <3>1. [Loc("resume") EXCEPT !.back = "user"].moved = {}
      BY Zenon DEF Loc
    <3> QED
      BY <3>1, Zenon DEF Init
  <2>2. StatusOf = [p \in Procs |-> IF p = 1 THEN "live" ELSE "free"]
    BY <2>1, Zenon DEF StatusOf
  <2>3. ParOf = [p \in Procs |-> 0]
    BY <2>1, Zenon DEF ParOf
  <2> QED
    BY <2>2, <2>3, Zenon DEF Life!Init, StatusOf, ParOf
<1>2. Inv /\ [Next]_vars => [Life!Next]_(Life!vars)
  <2> SUFFICES ASSUME Inv, [Next]_vars
               PROVE  [Life!Next]_(Life!vars)
    BY Zenon
  <2>1. ASSUME UNCHANGED <<StatusOf, ParOf>>
        PROVE  UNCHANGED Life!vars
    BY <2>1, Zenon DEF Life!vars, StatusOf, ParOf
  <2>2. ASSUME Same
        PROVE  UNCHANGED Life!vars
    BY <2>1, <2>2, SameStutters, Zenon
  <2>3. CASE UNCHANGED vars
    <3>1. Same
      BY <2>3, Zenon DEF vars, procs, Same
    <3> QED
      BY <2>2, <3>1, Zenon
  <2>4. ASSUME NEW p \in Procs, NEW q \in Procs, StatusOf' # StatusOf,
               \/ /\ StatusOf[p] = "live" /\ StatusOf[q] = "free"
                  /\ StatusOf' = [StatusOf EXCEPT ![q] = "live"] /\ ParOf' = [ParOf EXCEPT ![q] = p]
               \/ /\ p # 1 /\ StatusOf[p] = "live"
                  /\ StatusOf' = [StatusOf EXCEPT ![p] = "dead"]
                  /\ ParOf' = [r \in Procs |-> IF ParOf[r] = p THEN 1 ELSE ParOf[r]]
               \/ /\ StatusOf[p] = "live" /\ StatusOf[q] = "dead" /\ ParOf[q] = p
                  /\ StatusOf' = [StatusOf EXCEPT ![q] = "free"] /\ ParOf' = [ParOf EXCEPT ![q] = 0]
        PROVE  Life!Next
    <3>1. Life!fork(p, q) <=> /\ StatusOf[p] = "live" /\ StatusOf[q] = "free"
                                  /\ StatusOf' = [StatusOf EXCEPT ![q] = "live"]
                                  /\ ParOf' = [ParOf EXCEPT ![q] = p]
      BY Zenon DEF Life!fork, StatusOf, ParOf
    <3>2. Life!exit(p) <=> /\ p # 1 /\ StatusOf[p] = "live"
                           /\ StatusOf' = [StatusOf EXCEPT ![p] = "dead"]
                           /\ ParOf' = [r \in Procs |-> IF ParOf[r] = p THEN 1 ELSE ParOf[r]]
      BY Zenon DEF Life!exit, StatusOf, ParOf
    <3>3. Life!wait(p, q) <=> /\ StatusOf[p] = "live" /\ StatusOf[q] = "dead" /\ ParOf[q] = p
                              /\ StatusOf' = [StatusOf EXCEPT ![q] = "free"]
                              /\ ParOf' = [ParOf EXCEPT ![q] = 0]
      BY Zenon DEF Life!wait, StatusOf, ParOf
    <3>4. Life!fork(p, q) \/ Life!exit(p) \/ Life!wait(p, q)
      BY <2>4, <3>1, <3>2, <3>3, Zenon
    <3>5. Life!Next <=> StatusOf' # StatusOf
                        /\ \E r, t \in Procs : Life!fork(r, t) \/ Life!exit(r) \/ Life!wait(r, t)
      BY Zenon DEF Life!Next, StatusOf
    <3> QED
      BY <2>4, <3>4, <3>5, Zenon
  <2>5. ASSUME NEW c \in CPUs, timer(c) \/ clockintr(c) \/ scheduler_release(c) \/ \E p \in Procs : scheduler(c, p)
        PROVE  UNCHANGED Life!vars
    BY <2>2, <2>5, CpuSteps, Zenon
  <2>6. ASSUME NEW c \in CPUs, NEW p \in {cpu[c].proc} \ {0}, syscall(c, p) \/ Thread(c, p)
        PROVE  Life!Next \/ UNCHANGED Life!vars
    <3>1. p \in Procs
      BY Zenon DEF Inv, Types, CpuType
    <3>2. CASE \/ syscall(c, p) \/ usertrap_ret(c, p) \/ usertrap_tick(c, p)
               \/ sleep_lock(c, p) \/ sleep_return(c, p) \/ kexit(c, p)
               \/ kwait(c, p) \/ kwait_sleep(c, p) \/ sys_pause(c, p) \/ sys_pause_test(c, p)
      BY <2>2, <3>1, <3>2, QuietSteps, Zenon
    <3>3. CASE \/ wakeup(c, p) \/ kkill(c, p) \/ allocproc(c, p) \/ kfork_run(c, p)
               \/ (reparent(c, p) /\ UNCHANGED parent) \/ (kwait_scan(c, p) /\ UNCHANGED state)
               \/ yield(c, p) \/ sleep_release(c, p) \/ kexit_sched(c, p)
      BY <2>2, <3>1, <3>3, TableSteps, Zenon
    <3>4. CASE reparent(c, p) /\ parent' # parent
      BY <2>1, <3>1, <3>4, ReparentStutters, Zenon
    <3>5. \A q \in Procs, st \in {"live", "dead", "free"} : StatusOf[q] # st /\ StatusOf' = [StatusOf EXCEPT ![q] = st] => StatusOf' # StatusOf
      <4>1. StatusOf = [r \in Procs |-> StatusOf[r]]
        BY Zenon DEF StatusOf
      <4> HIDE DEF StatusOf
      <4> QED
        BY <4>1, Zenon
    <3>6. CASE kfork_parent(c, p)
      <4>1. PICK q \in Procs : /\ StatusOf[p] = "live" /\ StatusOf[q] = "free"
                               /\ StatusOf' = [StatusOf EXCEPT ![q] = "live"]
                               /\ ParOf' = [ParOf EXCEPT ![q] = p]
        BY <3>1, <3>6, ForkIsAtomic, Zenon
      <4> QED
        BY <2>4, <3>1, <3>5, <4>1, Zenon
    <3>7. CASE kexit_zombie(c, p)
      <4>1. /\ p # 1 /\ StatusOf[p] = "live"
            /\ StatusOf' = [StatusOf EXCEPT ![p] = "dead"]
            /\ ParOf' = [q \in Procs |-> IF ParOf[q] = p THEN 1 ELSE ParOf[q]]
        BY <3>1, <3>7, ExitIsAtomic, Zenon
      <4> QED
        BY <2>4, <3>1, <3>5, <4>1, Zenon
    <3>8. CASE kwait_scan(c, p) /\ state' # state
      <4>1. PICK q \in Procs : /\ StatusOf[p] = "live" /\ StatusOf[q] = "dead" /\ ParOf[q] = p
                               /\ StatusOf' = [StatusOf EXCEPT ![q] = "free"]
                               /\ ParOf' = [ParOf EXCEPT ![q] = 0]
        BY <3>1, <3>8, WaitIsAtomic
      <4> QED
        BY <2>4, <3>1, <3>5, <4>1, Zenon
    <3> QED
      BY <2>6, <3>2, <3>3, <3>4, <3>6, <3>7, <3>8, Zenon DEF Thread
  <2> QED
    BY <2>3, <2>5, <2>6, Zenon DEF Next, Halted
<1> QED
  BY <1>1, <1>2, ProcessInvariant, PTL DEF Spec, ImplementsProcLife, Life!Spec
=============================================================================
