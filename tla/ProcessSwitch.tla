---------------------------- MODULE ProcessSwitch ----------------------------
(***************************************************************************)
(* More steps that keep the invariant of Process: the end of fork, exit,    *)
(* wait, the switch between a process and a scheduler, the timer.           *)
(***************************************************************************)
EXTENDS ProcessSteps

\* fork's last step: the child may run.
LEMMA ForkRunStep ==
    ASSUME Inv, NEW c \in CPUs, NEW p \in Procs, kfork_run(c, p)
    PROVE  Inv'
<1> DEFINE l == Loc("ret")
<1>1. /\ cpu[c].proc = p /\ cpu[c].intr = 0 /\ loc[p].pc = "fork_run" /\ loc' = [loc EXCEPT ![p] = l]
      /\ state' = [state EXCEPT ![loc[p].np] = "RUNNABLE"]
      /\ UNCHANGED <<chan, killed, parent, pid, nextpid, lk, cpu, panicked>>
  BY Zenon DEF kfork_run, At, Go
<1>2. loc[p] \in LocType /\ ThreadOK(p) /\ Types
  BY Zenon DEF Inv, Types, Threads
<1>3. PICK i \in Procs : i = loc[p].np /\ state[i] = "USED" /\ parent[i] = p
                         /\ \A q \in Procs \ {p} : Forks(q) => loc[q].np # i
  BY <1>1, <1>2, Zenon DEF ThreadOK, ForkOK, Forks, Pc
<1>4. l \in LocType /\ l.pc = "ret" /\ Plain(p, l)
  BY LocFields, Zenon DEF Plain, PC, Bare
<1> HIDE DEF l
<1>5. loc' \in [Procs -> LocType] /\ \A q \in Procs : loc'[q] = IF q = p THEN l ELSE loc[q]
  BY <1>1, <1>2, <1>4, Zenon DEF Types
<1>6. state' \in [Procs -> Status] /\ \A q \in Procs : state'[q] = IF q = i THEN "RUNNABLE" ELSE state[q]
  BY <1>1, <1>2, <1>3, Zenon DEF Types, Status
<1>7. i # p /\ i # 1 /\ state[p] = "RUNNING" /\ \A d \in CPUs : cpu[d].proc # i /\ cpu[d].from # i
  BY <1>1, <1>3, RunningThread, OffCpu DEF Inv, Table
<1>8. Stacks' /\ Owners' /\ lk' \in [Locks -> CPUs \cup {0}]
  <2>1. LockMove(c, p, loc'[p])
    BY <1>1, <1>4, <1>5, Places, Zenon DEF LockMove, Bare
  <2> QED
    BY <1>1, <1>4, <1>5, <1>6, <1>7, <2>1, StacksKept
<1>9. Types'
  BY <1>1, <1>2, <1>5, <1>6, <1>8, Zenon DEF Types
<1>10. Table'
  BY <1>1, <1>3, <1>6, <1>7, Names DEF Inv, Table
<1>11. /\ ~Forks(p)' /\ \A q \in Procs \ {p} : Forks(q)' <=> Forks(q)
       /\ \A q \in Procs : (Dozes(q)' => Dozes(q)) /\ (state'[q] = "ZOMBIE" => state[q] = "ZOMBIE")
  BY <1>1, <1>4, <1>5, <1>6, Zenon DEF Forks, Pc, Dozes
<1>12. Threads'
  <2>1. ThreadOK(p)'
    BY <1>4, <1>5, PlainOK, Zenon
  <2>2. ASSUME NEW q \in Procs \ {p}
        PROVE  ThreadOK(q)'
    <3>1. ThreadOK(q)
      BY Zenon DEF Inv, Threads
    <3>2. loc[q].pc \in InExit => (Dozes(parent[q])' => Dozes(parent[q]))
      BY <1>1, <1>11, ExitingProcess, Zenon DEF Dozes
    <3>3. \A r \in loc[q].moved : parent'[r] = 1
      BY <1>1, <3>1, Zenon DEF ThreadOK, ExitOK
    <3>4. Forks(q) => /\ state'[loc[q].np] = "USED"
                      /\ \A r \in Procs \ {q} : Forks(r)' => loc'[r].np # loc[q].np
      BY <1>3, <1>5, <1>6, <1>11, <3>1, Zenon DEF ThreadOK, ForkOK
    <3> QED
      BY <1>1, <1>3, <1>5, <1>6, <1>11, <3>2, <3>3, <3>4, ThreadKept, Zenon
  <2> QED
    BY <2>1, <2>2, Zenon DEF Threads
<1>13. Wakes'
  <2>1. ASSUME NEW q \in Procs, NEW r \in Procs, Dozes(q)', parent'[r] = q, state'[r] = "ZOMBIE"
        PROVE  q = 1 /\ \E s \in Procs : loc'[s].pc = "wakeup" /\ loc'[s].ret = "reparent" /\ loc'[s].j = 1
    <3>1. PICK s \in Procs : q = 1 /\ loc[s].pc = "wakeup" /\ loc[s].ret = "reparent" /\ loc[s].j = 1
      BY <1>1, <1>11, <2>1, Zenon DEF Inv, Wakes
    <3> QED
      BY <1>1, <1>5, <3>1, Zenon
  <2>2. ASSUME NEW q \in Procs, state'[q] = "SLEEPING", chan'[q] = TICKS, loc'[q].n = 0
        PROVE  cpu'[1].intr > 0 /\ cpu'[1].intr <= q
    BY <1>1, <1>5, <1>6, <1>7, <2>2, Zenon DEF Inv, Wakes
  <2> QED
    BY <2>1, <2>2, Zenon DEF Wakes
<1> QED
  BY <1>8, <1>9, <1>10, <1>12, <1>13, Zenon DEF Inv

\* A thread in wait_lock's section is alone there.
LEMMA Alone ==
    ASSUME Inv, NEW p \in Procs, NEW q \in Procs \ {p},
           loc[p].pc \in InExit \cup {"wait_scan"}
    PROVE  /\ loc[q].pc \notin InExit \cup {"wait_scan"} /\ loc[q].moved = {}
           /\ loc[q].pc \in {"sleep", "sleep_release"} => loc[q].lk # wait_lock
<1>1. OwnsAt(loc[p], p, wait_lock)
  BY Zenon DEF OwnsAt
<1>2. ~OwnsAt(loc[q], q, wait_lock)
  BY <1>1, OneOwner, Names, Zenon
<1>3. ThreadOK(q)
  BY Zenon DEF Inv, Threads
<1> QED
  BY <1>2, <1>3, Zenon DEF OwnsAt, ThreadOK, ExitOK, InExit

\* exit gives a child to init; init, if it sleeps, is about to be woken.
LEMMA ReparentStep ==
    ASSUME Inv, NEW c \in CPUs, NEW p \in Procs, reparent(c, p), parent' # parent
    PROVE  Inv'
<1>1. /\ cpu[c].proc = p /\ cpu[c].intr = 0 /\ loc[p].pc = "reparent"
      /\ UNCHANGED <<state, chan, killed, pid, nextpid, lk, cpu, panicked>>
  BY Zenon DEF reparent, At
<1>2. loc[p] \in LocType /\ loc[p].i \in Nat \ {0} /\ ThreadOK(p) /\ Types
  BY Zenon DEF Inv, Types, Threads, LocType
<1>3. ~(loc[p].i > NPROC)
  BY Zenon DEF reparent
<1>4. PICK i \in Procs : i = loc[p].i
  BY <1>2, <1>3, Names, ProcessAssumption
<1>5. /\ parent[i] = p /\ parent' = [parent EXCEPT ![i] = 1]
      /\ loc' = [loc EXCEPT ![p] = [[loc[p] EXCEPT !.i = @ + 1, !.moved = @ \cup {i}]
                                    EXCEPT !.pc = "wakeup", !.j = 1, !.np = 1, !.ret = "reparent"]]
  BY <1>3, <1>4, Zenon DEF reparent, Wakeup, Go
<1> DEFINE l == [[loc[p] EXCEPT !.i = @ + 1, !.moved = @ \cup {i}]
                 EXCEPT !.pc = "wakeup", !.j = 1, !.np = 1, !.ret = "reparent"]
<1>6. /\ l \in LocType /\ l.pc = "wakeup" /\ l.j = 1 /\ l.np = 1 /\ l.ret = "reparent"
      /\ l.i = i + 1 /\ l.moved = loc[p].moved \cup {i}
  <2>1. loc[p].i + 1 \in Nat \ {0} /\ 1 \in Nat \ {0} /\ 1 \in Int /\ "wakeup" \in PC
    BY <1>2 DEF PC, InExit
  <2>2. loc[p].moved \cup {i} \in SUBSET Procs
    BY <1>2, Zenon DEF LocType
  <2> QED
    BY <1>2, <1>4, <2>1, <2>2, Zenon DEF LocType
<1> HIDE DEF l
<1>7. loc' \in [Procs -> LocType] /\ \A q \in Procs : loc'[q] = IF q = p THEN l ELSE loc[q]
  BY <1>2, <1>5, <1>6, Zenon DEF Types, l
<1>8. parent' \in [Procs -> Procs \cup {0}] /\ \A q \in Procs : parent'[q] = IF q = i THEN 1 ELSE parent[q]
  BY <1>2, <1>5, Names, Zenon DEF Types
<1>9. p # 1 /\ state[p] = "RUNNING" /\ i # p /\ i # 1
  <2>1. p # 1 /\ state[p] = "RUNNING" /\ parent[p] # p
    BY <1>1, ExitingProcess, Zenon DEF InExit
  <2>2. parent[1] = 0
    BY Zenon DEF Inv, Table
  <2> QED
    BY <1>5, <2>1, <2>2, Names, Zenon
<1>10. Stacks' /\ Owners' /\ lk' \in [Locks -> CPUs \cup {0}]
  <2>1. LockMove(c, p, loc'[p])
    BY <1>1, <1>6, <1>7, Places DEF LockMove
  <2> QED
    BY <1>1, <1>6, <1>7, <1>9, <2>1, StacksKept, Zenon
<1>11. Types'
  BY <1>1, <1>2, <1>7, <1>8, <1>10, Zenon DEF Types
<1>12. Table'
  <2>1. state[i] # "UNUSED"
    BY <1>5, Names, Zenon DEF Inv, Table
  <2>2. state[1] \notin {"UNUSED", "USED", "ZOMBIE"} /\ parent'[1] = parent[1]
    BY <1>8, <1>9, Names, Zenon DEF Inv, Table
  <2>3. \A q \in Procs : state[q] = "UNUSED" => parent'[q] = 0 /\ chan[q] = 0
    BY <1>8, <2>1, Zenon DEF Inv, Table
  <2>4. \A q \in Procs \ {1} :
          state[q] \notin {"UNUSED", "USED"} =>
              parent'[q] \in Procs \ {q} /\ state[parent'[q]] \notin {"UNUSED", "USED", "ZOMBIE"}
    BY <1>8, <1>9, <2>2, Names, Zenon DEF Inv, Table
  <2> QED
    BY <1>1, <2>2, <2>3, <2>4, Zenon DEF Inv, Table
<1>13. \A q \in Procs : Forks(q)' <=> Forks(q)
  BY <1>1, <1>6, <1>7, Zenon DEF Forks, Pc
<1>14. Threads'
  <2>1. ThreadOK(p)'
    <3>1. Shape(p)' /\ ForkOK(p)'
      BY <1>6, <1>7, <1>9, Zenon DEF Shape, ForkOK, Forks, Pc, InExit
    <3>2. \A q \in Procs : q < l.i => parent'[q] # p
      <4>1. \A q \in Procs : q < i => parent[q] # p
        BY <1>1, <1>2, <1>4, Zenon DEF ThreadOK, ExitOK
      <4>2. \A q \in Procs : q < i + 1 => q < i \/ q = i
        BY <1>2, <1>4, NextSlot, Zenon
      <4> QED
        BY <1>6, <1>8, <1>9, <4>1, <4>2, Zenon
    <3>3. \A q \in l.moved : parent'[q] = 1
      <4>1. \A q \in loc[p].moved : q \in Procs /\ parent[q] = 1
        BY <1>2, Zenon DEF ThreadOK, ExitOK, LocType
      <4> QED
        BY <1>6, <1>8, <4>1, Zenon
    <3>4. ExitOK(p)'
      BY <1>6, <1>7, <3>2, <3>3, Zenon DEF ExitOK
    <3>5. WaitOK(p)'
      BY <1>6, <1>7, Zenon DEF WaitOK, Pc
    <3> QED
      BY <3>1, <3>4, <3>5, Zenon DEF ThreadOK
  <2>2. ASSUME NEW q \in Procs \ {p}
        PROVE  ThreadOK(q)'
    <3>1. ThreadOK(q)
      BY Zenon DEF Inv, Threads
    <3>2. /\ loc[q].pc \notin InExit \cup {"wait_scan"} /\ loc[q].moved = {}
          /\ loc[q].pc \in {"sleep", "sleep_release"} => loc[q].lk # wait_lock
      BY <1>1, Alone, Zenon DEF InExit
    <3>3. Forks(q) => loc[q].np # i
      BY <1>5, <3>1, Names, Zenon DEF ThreadOK, ForkOK
    <3>4. Forks(q) => /\ state'[loc[q].np] = "USED" /\ parent'[loc[q].np] = parent[loc[q].np]
                      /\ \A r \in Procs \ {q} : Forks(r)' => loc'[r].np # loc[q].np
      <4>1. ~Forks(p)
        BY <1>1, Zenon DEF Forks, Pc
      <4> QED
        BY <1>1, <1>7, <1>8, <1>13, <3>1, <3>3, <4>1, Zenon DEF ThreadOK, ForkOK
    <3> QED
      BY <1>1, <1>7, <3>2, <3>4, ThreadKept, Zenon
  <2> QED
    BY <2>1, <2>2, Zenon DEF Threads
<1>15. Wakes'
  <2>1. ASSUME NEW q \in Procs, NEW r \in Procs, Dozes(q)', parent'[r] = q, state'[r] = "ZOMBIE"
        PROVE  q = 1
    <3>1. r # i => Dozes(q) /\ parent[r] = q /\ state[r] = "ZOMBIE"
      BY <1>1, <1>8, <2>1, Zenon DEF Dozes
    <3> QED
      BY <1>8, <2>1, <3>1, Zenon DEF Inv, Wakes
  <2>2. ASSUME NEW q \in Procs, state'[q] = "SLEEPING", chan'[q] = TICKS, loc'[q].n = 0
        PROVE  cpu'[1].intr > 0 /\ cpu'[1].intr <= q
    BY <1>1, <1>7, <1>9, <2>2, Zenon DEF Inv, Wakes
  <2>3. \E s \in Procs : loc'[s].pc = "wakeup" /\ loc'[s].ret = "reparent" /\ loc'[s].j = 1
    BY <1>6, <1>7, Zenon
  <2> QED
    BY <2>1, <2>2, <2>3, Zenon DEF Wakes
<1> QED
  BY <1>10, <1>11, <1>12, <1>14, <1>15, Zenon DEF Inv

\* exit's p->state = ZOMBIE: it has no child, and its parent is awake.
LEMMA ZombieStep ==
    ASSUME Inv, NEW c \in CPUs, NEW p \in Procs, kexit_zombie(c, p)
    PROVE  Inv'
<1> DEFINE l == Loc("exit_release")
<1>1. /\ cpu[c].proc = p /\ cpu[c].intr = 0 /\ loc[p].pc = "exit_lock" /\ loc' = [loc EXCEPT ![p] = l]
      /\ acquire(c, p) /\ state' = [state EXCEPT ![p] = "ZOMBIE"]
      /\ UNCHANGED <<chan, killed, parent, pid, nextpid, cpu, panicked>>
  BY Zenon DEF kexit_zombie, At, Go
<1>2. ThreadOK(p) /\ Types
  BY Zenon DEF Inv, Threads
<1>3. p # 1 /\ state[p] = "RUNNING" /\ parent[p] \in Procs \ {p}
  BY <1>1, ExitingProcess, Zenon DEF InExit
<1>4. ~Dozes(parent[p]) /\ \A q \in Procs : parent[q] # p
  BY <1>1, <1>2, Zenon DEF ThreadOK, ExitOK
<1>5. l \in LocType /\ l.pc = "exit_release" /\ l.back = "" /\ l.moved = {}
  BY LocFields, Zenon DEF PC, InExit
<1> HIDE DEF l
<1>6. loc' \in [Procs -> LocType] /\ \A q \in Procs : loc'[q] = IF q = p THEN l ELSE loc[q]
  BY <1>1, <1>2, <1>5, Zenon DEF Types
<1>7. state' \in [Procs -> Status] /\ \A q \in Procs : state'[q] = IF q = p THEN "ZOMBIE" ELSE state[q]
  BY <1>1, <1>2, Zenon DEF Types, Status
<1>8. Stacks' /\ Owners' /\ lk' \in [Locks -> CPUs \cup {0}]
  <2>1. \A k \in Locks : OwnsAt(l, p, k) <=> (OwnsAt(loc[p], p, k) \/ k = p)
    <3>1. \A k \in Locks : OwnsAt(l, p, k) <=> k \in {wait_lock, p}
      BY <1>5, Places, Zenon
    <3>2. \A k \in Locks : OwnsAt(loc[p], p, k) <=> k = wait_lock
      BY <1>1, Places, Zenon
    <3> QED
      BY <3>1, <3>2, Zenon
  <2>2. LockMove(c, p, loc'[p])
    BY <1>1, <1>6, <2>1, Names, Zenon DEF LockMove
  <2>3. loc'[p].pc = "exit_release" /\ state'[p] = "ZOMBIE"
    BY <1>5, <1>6, <1>7, Zenon
  <2>4. \A q \in Procs \ {p} : loc'[q] = loc[q] /\ state'[q] = state[q]
    BY <1>6, <1>7, Zenon
  <2>5. cpu[c].proc = p /\ cpu[c].intr = 0 /\ UNCHANGED cpu
    BY <1>1, Zenon
  <2>6. loc'[p].pc # "resume" /\ state'[p] = IF loc'[p].pc = "exit_release" THEN "ZOMBIE" ELSE "RUNNING"
    BY <2>3, Zenon
  <2> QED
    BY <2>2, <2>4, <2>5, <2>6, StacksKept, Zenon
<1>9. Types'
  BY <1>1, <1>2, <1>6, <1>7, <1>8, Zenon DEF Types
<1>10. Table'
  BY <1>1, <1>3, <1>4, <1>7, Names DEF Inv, Table
<1>11. /\ ~Forks(p) /\ \A q \in Procs : Forks(q)' <=> Forks(q)
       /\ \A q \in Procs : Dozes(q)' <=> Dozes(q)
  BY <1>1, <1>3, <1>5, <1>6, <1>7, Zenon DEF Forks, Pc, Dozes
<1>12. Threads'
  <2>1. ThreadOK(p)'
    <3>1. Shape(p)' /\ ForkOK(p)' /\ WaitOK(p)'
      BY <1>3, <1>5, <1>6, Zenon DEF Shape, ForkOK, Forks, Pc, InExit, WaitOK
    <3>2. ~Dozes(parent[p])'
      BY <1>1, <1>3, <1>4, <1>7, Zenon DEF Dozes
    <3>3. ExitOK(p)'
      BY <1>5, <1>6, <3>2, Zenon DEF ExitOK
    <3> QED
      BY <3>1, <3>3, Zenon DEF ThreadOK
  <2>2. ASSUME NEW q \in Procs \ {p}
        PROVE  ThreadOK(q)'
    <3>1. ThreadOK(q)
      BY Zenon DEF Inv, Threads
    <3>2. /\ loc[q].pc \notin InExit \cup {"wait_scan"} /\ loc[q].moved = {}
          /\ loc[q].pc \in {"sleep", "sleep_release"} => loc[q].lk # wait_lock
      BY <1>1, Alone, Zenon DEF InExit
    <3>3. Forks(q) => /\ state'[loc[q].np] = "USED" /\ parent'[loc[q].np] = parent[loc[q].np]
                      /\ \A r \in Procs \ {q} : Forks(r)' => loc'[r].np # loc[q].np
      BY <1>1, <1>3, <1>6, <1>7, <1>11, <3>1, ZenonT(40) DEF ThreadOK, ForkOK
    <3> QED
      BY <1>6, <1>7, <3>2, <3>3, ThreadKept, Zenon
  <2> QED
    BY <2>1, <2>2, Zenon DEF Threads
<1>13. Wakes'
  <2>1. ASSUME NEW q \in Procs, NEW r \in Procs, Dozes(q)', parent'[r] = q, state'[r] = "ZOMBIE"
        PROVE  q = 1 /\ \E s \in Procs : loc'[s].pc = "wakeup" /\ loc'[s].ret = "reparent" /\ loc'[s].j = 1
    <3>1. Dozes(q) /\ r # p
      BY <1>1, <1>4, <1>11, <2>1, Zenon
    <3>2. PICK s \in Procs : q = 1 /\ loc[s].pc = "wakeup" /\ loc[s].ret = "reparent" /\ loc[s].j = 1
      BY <1>1, <1>7, <2>1, <3>1, Zenon DEF Inv, Wakes
    <3> QED
      BY <1>1, <1>6, <3>2, Zenon
  <2>2. ASSUME NEW q \in Procs, state'[q] = "SLEEPING", chan'[q] = TICKS, loc'[q].n = 0
        PROVE  cpu'[1].intr > 0 /\ cpu'[1].intr <= q
    BY <1>1, <1>6, <1>7, <2>2, Zenon DEF Inv, Wakes
  <2> QED
    BY <2>1, <2>2, Zenon DEF Wakes
<1> QED
  BY <1>8, <1>9, <1>10, <1>12, <1>13, Zenon DEF Inv

\* wait frees a dead child, which no CPU is on any more.
LEMMA WaitFreeStep ==
    ASSUME Inv, NEW c \in CPUs, NEW p \in Procs, kwait_scan(c, p), state' # state
    PROVE  Inv'
<1> DEFINE l == Loc("ret")
<1>1. /\ cpu[c].proc = p /\ cpu[c].intr = 0 /\ loc[p].pc = "wait_scan" /\ loc[p].i <= NPROC
      /\ UNCHANGED <<cpu, panicked>>
  BY Zenon DEF kwait_scan, At
<1>2. loc[p] \in LocType /\ loc[p].i \in Nat \ {0} /\ ThreadOK(p) /\ Types
  BY Zenon DEF Inv, Types, Threads, LocType
<1>3. PICK i \in Procs : i = loc[p].i
  BY <1>1, <1>2, Names, Zenon
<1>4. /\ parent[i] = p /\ Free(i) /\ state[i] = "ZOMBIE" /\ freeproc(i) /\ nextpid' = nextpid
      /\ release(wait_lock) /\ loc' = [loc EXCEPT ![p] = l]
  BY <1>3, Zenon DEF kwait_scan, procs, Go
<1>5. l \in LocType /\ l.pc = "ret" /\ Plain(p, l)
  BY LocFields, Zenon DEF Plain, PC, Bare
<1> HIDE DEF l
<1>6. loc' \in [Procs -> LocType] /\ \A q \in Procs : loc'[q] = IF q = p THEN l ELSE loc[q]
  BY <1>2, <1>4, <1>5, Zenon DEF Types
<1>7. /\ state' \in [Procs -> Status] /\ \A q \in Procs : state'[q] = IF q = i THEN "UNUSED" ELSE state[q]
      /\ chan' \in [Procs -> Int] /\ \A q \in Procs : chan'[q] = IF q = i THEN 0 ELSE chan[q]
  <2>1. state \in [Procs -> Status] /\ chan \in [Procs -> Int] /\ "UNUSED" \in Status
    BY <1>2, Zenon DEF Types, Status
  <2>2. state' = [state EXCEPT ![i] = "UNUSED"] /\ chan' = [chan EXCEPT ![i] = 0]
    BY <1>4, Zenon DEF freeproc
  <2> QED
    BY <2>1, <2>2
<1>8. /\ parent' \in [Procs -> Procs \cup {0}] /\ \A q \in Procs : parent'[q] = IF q = i THEN 0 ELSE parent[q]
      /\ killed' \in [Procs -> BOOLEAN] /\ \A q \in Procs : killed'[q] = IF q = i THEN FALSE ELSE killed[q]
  BY <1>2, <1>4, Zenon DEF Types, freeproc
<1>9. /\ pid' \in [Procs -> 0 .. MaxPid] /\ \A q \in Procs : pid'[q] = IF q = i THEN 0 ELSE pid[q]
      /\ nextpid' = nextpid
  <2>1. 0 \in 0 .. MaxPid
    BY ProcessAssumption
  <2> QED
    BY <1>2, <1>4, <2>1, Zenon DEF Types, freeproc
<1>10. i # p /\ i # 1 /\ state[p] = "RUNNING" /\ \A d \in CPUs : cpu[d].proc # i /\ cpu[d].from # i
  <2>1. state[p] = "RUNNING" /\ state[1] # "ZOMBIE"
    BY <1>1, RunningThread DEF Inv, Table
  <2> QED
    BY <1>4, <2>1, OffCpu, Zenon
<1>11. Stacks' /\ Owners' /\ lk' \in [Locks -> CPUs \cup {0}]
  <2>1. \A k \in Locks : /\ ~OwnsAt(l, p, k)
                         /\ OwnsAt(loc[p], p, k) <=> k = wait_lock
    BY <1>1, <1>5, Places, Zenon DEF Bare
  <2>2. LockMove(c, p, loc'[p])
    BY <1>4, <1>6, <2>1, Names, Zenon DEF LockMove
  <2>3. loc'[p].pc = "ret" /\ state'[p] = "RUNNING"
    BY <1>5, <1>6, <1>7, <1>10, Zenon
  <2>4. \A q \in Procs \ {p} : loc'[q] = loc[q] /\ (q # i => state'[q] = state[q])
    BY <1>6, <1>7, Zenon
  <2>5. state'[i] # "RUNNING"
    BY <1>7, Zenon
  <2> QED
    BY <1>1, <1>10, <2>2, <2>3, <2>4, <2>5, StacksKept
<1>12. Types'
  BY <1>1, <1>2, <1>6, <1>7, <1>8, <1>9, <1>11, Zenon DEF Types
<1>13. Table'
  <2>1. \A q \in Procs : /\ pid'[q] < nextpid' /\ (state'[q] = "UNUSED" <=> pid'[q] = 0)
                         /\ (state'[q] = "UNUSED" => parent'[q] = 0 /\ chan'[q] = 0)
    <3>1. nextpid \in 2 .. MaxPid + 1
      BY <1>2, Zenon DEF Types
    <3>2. 0 < nextpid
      BY <3>1, ProcessAssumption
    <3>3. \A q \in Procs : /\ pid[q] < nextpid /\ (state[q] = "UNUSED" <=> pid[q] = 0)
                           /\ (state[q] = "UNUSED" => parent[q] = 0 /\ chan[q] = 0)
      BY Zenon DEF Inv, Table
    <3>4. \A q \in Procs : pid'[q] < nextpid' /\ (state'[q] = "UNUSED" <=> pid'[q] = 0)
      BY <1>7, <1>9, <3>2, <3>3, Zenon
    <3>5. \A q \in Procs : state'[q] = "UNUSED" => parent'[q] = 0 /\ chan'[q] = 0
      <4>1. ASSUME NEW q \in Procs, state'[q] = "UNUSED", q # i
            PROVE  parent'[q] = 0 /\ chan'[q] = 0
        <5>1. state[q] = "UNUSED" /\ parent'[q] = parent[q] /\ chan'[q] = chan[q]
          BY <1>7, <1>8, <4>1, Zenon
        <5> QED
          BY <3>3, <5>1, Zenon
      <4>2. parent'[i] = 0 /\ chan'[i] = 0
        BY <1>7, <1>8, Zenon
      <4> QED
        BY <4>1, <4>2, Zenon
    <3> QED
      BY <3>4, <3>5, Zenon
  <2>2. \A q \in Procs : \A r \in Procs \ {q} : pid'[q] = pid'[r] => pid'[q] = 0
    BY <1>9, Zenon DEF Inv, Table
  <2>3. \A q \in Procs \ {1} : state'[q] \notin {"UNUSED", "USED"} =>
              parent'[q] \in Procs \ {q} /\ state'[parent'[q]] \notin {"UNUSED", "USED", "ZOMBIE"}
    BY <1>4, <1>7, <1>8 DEF Inv, Table
  <2>4. state'[1] \notin {"UNUSED", "USED", "ZOMBIE"} /\ parent'[1] = 0 /\ pid'[1] = 1
    BY <1>7, <1>8, <1>9, <1>10, Names, Zenon DEF Inv, Table
  <2> QED
    BY <2>1, <2>2, <2>3, <2>4, Zenon DEF Table
<1>14. /\ ~Forks(p)' /\ \A q \in Procs \ {p} : Forks(q)' <=> Forks(q)
       /\ \A q \in Procs : Dozes(q)' => Dozes(q)
  BY <1>5, <1>6, <1>7, Zenon DEF Forks, Pc, Dozes
<1>15. Threads'
  <2>1. ThreadOK(p)'
    BY <1>5, <1>6, PlainOK, Zenon
  <2>2. ASSUME NEW q \in Procs \ {p}
        PROVE  ThreadOK(q)'
    <3>1. ThreadOK(q)
      BY Zenon DEF Inv, Threads
    <3>2. /\ loc[q].pc \notin InExit \cup {"wait_scan"} /\ loc[q].moved = {}
          /\ loc[q].pc \in {"sleep", "sleep_release"} => loc[q].lk # wait_lock
      BY <1>1, Alone, Zenon
    <3>3. Forks(q) => loc[q].np \in Procs \ {i}
      BY <1>4, <3>1, Zenon DEF ThreadOK, ForkOK
    <3>4. Forks(q) => /\ state'[loc[q].np] = "USED" /\ parent'[loc[q].np] = parent[loc[q].np]
                      /\ \A r \in Procs \ {q} : Forks(r)' => loc'[r].np # loc[q].np
      BY <1>6, <1>7, <1>8, <1>14, <3>1, <3>3, Zenon DEF ThreadOK, ForkOK
    <3>5. state'[q] \notin {"UNUSED", "ZOMBIE"} => state[q] \notin {"UNUSED", "ZOMBIE"}
      BY <1>7, Zenon
    <3> QED
      BY <1>6, <3>2, <3>4, <3>5, ThreadKept, Zenon
  <2> QED
    BY <2>1, <2>2, Zenon DEF Threads
<1>16. Wakes'
  <2>1. ASSUME NEW q \in Procs, NEW r \in Procs, Dozes(q)', parent'[r] = q, state'[r] = "ZOMBIE"
        PROVE  q = 1 /\ \E s \in Procs : loc'[s].pc = "wakeup" /\ loc'[s].ret = "reparent" /\ loc'[s].j = 1
    <3>1. Dozes(q) /\ parent[r] = q /\ state[r] = "ZOMBIE"
      BY <1>7, <1>8, <1>14, <2>1, Zenon
    <3>2. PICK s \in Procs : q = 1 /\ loc[s].pc = "wakeup" /\ loc[s].ret = "reparent" /\ loc[s].j = 1
      BY <3>1, Zenon DEF Inv, Wakes
    <3> QED
      BY <1>1, <1>6, <3>2, Zenon
  <2>2. ASSUME NEW q \in Procs, state'[q] = "SLEEPING", chan'[q] = TICKS, loc'[q].n = 0
        PROVE  cpu'[1].intr > 0 /\ cpu'[1].intr <= q
    BY <1>1, <1>6, <1>7, <1>10, <2>2, Zenon DEF Inv, Wakes
  <2> QED
    BY <2>1, <2>2, Zenon DEF Wakes
<1> QED
  BY <1>11, <1>12, <1>13, <1>15, <1>16, Zenon DEF Inv

-----------------------------------------------------------------------------
(* The switch between a process and a scheduler.                             *)

\* sched: the CPU leaves the thread of p, with p->lock alone.
LEMMA SwitchOff ==
    ASSUME Inv, NEW c \in CPUs, NEW p \in Procs, cpu[c].proc = p, cpu[c].intr = 0,
           NEW st \in {"RUNNABLE", "SLEEPING", "ZOMBIE"}, state' = [state EXCEPT ![p] = st],
           st = "ZOMBIE" <=> state[p] = "ZOMBIE",
           NEW l \in LocType, l.pc = "resume", loc[p].pc # "wakeup", loc' = [loc EXCEPT ![p] = l],
           cpu' = [cpu EXCEPT ![c] = [Idle EXCEPT !.from = p]],
           lk' \in [Locks -> CPUs \cup {0}], \A k \in Locks : lk'[k] = c <=> k = p,
           \A d \in CPUs \ {c}, k \in Locks : lk'[k] = d <=> lk[k] = d,
           chan' \in [Procs -> Int], \A q \in Procs \ {p} : chan'[q] = chan[q],
           UNCHANGED <<killed, parent, pid, nextpid, panicked>>, ThreadOK(p)',
           st = "SLEEPING" /\ chan'[p] = p => /\ \A q \in Procs : loc[q].pc \notin InExit
                                              /\ \A q \in Procs : parent[q] = p => state[q] # "ZOMBIE",
           st = "SLEEPING" /\ chan'[p] = TICKS => l.n # 0
    PROVE  Inv'
<1>1. Types /\ cpu[c].from = 0 /\ p # 0 /\ (\A d \in CPUs \ {c} : cpu[d].proc # p /\ cpu[d].from # p)
      /\ state[p] \in {"RUNNING", "ZOMBIE"}
  BY RunningThread, Names DEF Inv
<1>2. loc' \in [Procs -> LocType] /\ \A q \in Procs : loc'[q] = IF q = p THEN l ELSE loc[q]
  BY <1>1, ZenonT(40) DEF Types
<1>3. state' \in [Procs -> Status] /\ \A q \in Procs : state'[q] = IF q = p THEN st ELSE state[q]
  BY <1>1, ZenonT(40) DEF Types, Status
<1>4. /\ cpu' \in [CPUs -> CpuType] /\ cpu'[c].proc = 0 /\ cpu'[c].from = p /\ cpu'[c].intr = 0
      /\ \A d \in CPUs \ {c} : cpu'[d] = cpu[d]
  <2>1. LET i == [Idle EXCEPT !.from = p] IN i \in CpuType /\ i.proc = 0 /\ i.from = p /\ i.intr = 0
    BY Zenon DEF Idle, CpuType
  <2> QED
    BY <1>1, <2>1, ZenonT(40) DEF Types
<1>5. \A d \in CPUs : cpu[d].proc \in Procs \cup {0} /\ cpu[d].from \in Procs \cup {0}
  BY <1>1, Zenon DEF Types, CpuType
<1>6. Types'
  BY <1>1, <1>2, <1>3, <1>4, Zenon DEF Types
<1>7. Stacks'
  <2>1. ASSUME NEW d \in CPUs
        PROVE  /\ cpu'[d].from # 0 => cpu'[d].proc = 0 /\ cpu'[d].intr = 0
                                      /\ state'[cpu'[d].from] \in {"SLEEPING", "RUNNABLE", "ZOMBIE"}
               /\ cpu'[d].proc # 0 => /\ loc'[cpu'[d].proc].pc # "resume"
                                      /\ state'[cpu'[d].proc] = IF loc'[cpu'[d].proc].pc = "exit_release"
                                                                THEN "ZOMBIE" ELSE "RUNNING"
               /\ cpu'[d].intr > 0 => d = 1 /\ (cpu'[d].proc # 0 => loc'[cpu'[d].proc].pc \in Bare \cup {"tick", "yield"})
    <3>1. CASE d = c
      BY <1>3, <1>4, <3>1
    <3>2. CASE d # c
      <4>1. cpu'[d] = cpu[d] /\ cpu[d].proc # p /\ cpu[d].from # p
        BY <1>1, <1>4, <3>2, Zenon
      <4>2. /\ cpu[d].from # 0 => cpu[d].proc = 0 /\ cpu[d].intr = 0
                                  /\ state[cpu[d].from] \in {"SLEEPING", "RUNNABLE", "ZOMBIE"}
            /\ cpu[d].proc # 0 => /\ loc[cpu[d].proc].pc # "resume"
                                  /\ state[cpu[d].proc] = IF loc[cpu[d].proc].pc = "exit_release"
                                                          THEN "ZOMBIE" ELSE "RUNNING"
            /\ cpu[d].intr > 0 => d = 1 /\ (cpu[d].proc # 0 => loc[cpu[d].proc].pc \in Bare \cup {"tick", "yield"})
        BY Zenon DEF Inv, Stacks
      <4> QED
        BY <1>2, <1>3, <1>5, <4>1, <4>2
    <3> QED
      BY <3>1, <3>2, Zenon
  <2>2. \A d, e \in CPUs : d # e => /\ cpu'[d].proc # 0 => cpu'[d].proc \notin {cpu'[e].proc, cpu'[e].from}
                                    /\ cpu'[d].from # 0 => cpu'[d].from # cpu'[e].from
    BY <1>1, <1>4 DEF Inv, Stacks
  <2>3. ASSUME NEW q \in Procs, \A d \in CPUs : cpu'[d].proc # q
        PROVE  loc'[q].pc = "resume" /\ state'[q] # "RUNNING"
    <3>1. CASE q = p
      BY <1>2, <1>3, <3>1, Zenon
    <3>2. CASE q # p
      BY <1>2, <1>3, <1>4, <2>3, <3>2 DEF Inv, Stacks
    <3> QED
      BY <3>1, <3>2, Zenon
  <2> QED
    BY <2>1, <2>2, <2>3, Zenon DEF Stacks
<1>8. Owners'
  <2>1. ASSUME NEW k \in Locks
        PROVE  lk'[k] = c <=> Owns(c, k)'
    BY <1>1, <1>4 DEF Owns
  <2>2. ASSUME NEW d \in CPUs \ {c}, NEW k \in Locks
        PROVE  lk'[k] = d <=> Owns(d, k)'
    <3>1. Owns(d, k)' <=> Owns(d, k)
      BY <1>1, <1>2, <1>4, <1>5, Zenon DEF Owns, OwnsAt
    <3> QED
      BY <3>1 DEF Inv, Owners
  <2> QED
    BY <2>1, <2>2 DEF Owners
<1>9. Table'
  <2>1. \A q \in Procs : /\ state'[q] = "UNUSED" <=> state[q] = "UNUSED"
                         /\ state'[q] = "USED" <=> state[q] = "USED"
                         /\ state'[q] = "ZOMBIE" <=> state[q] = "ZOMBIE"
                         /\ state'[q] = "UNUSED" => chan'[q] = chan[q]
    BY <1>1, <1>3, Zenon
  <2> QED
    BY <2>1, Names DEF Inv, Table
<1>10. Threads'
  <2>1. ASSUME NEW q \in Procs \ {p}
        PROVE  ThreadOK(q)'
    <3>1. ThreadOK(q) /\ ForkOK(p)'
      BY Zenon DEF Inv, Threads, ThreadOK
    <3>2. \A r \in Procs \ {p} : Forks(r)' <=> Forks(r)
      BY <1>2, Zenon DEF Forks, Pc
    <3>3. Forks(q) => /\ state'[loc[q].np] = "USED"
                      /\ \A r \in Procs \ {q} : Forks(r)' => loc'[r].np # loc[q].np
      BY <1>1, <1>2, <1>3, <3>1, <3>2 DEF ThreadOK, ForkOK
    <3>4. \A r \in loc[q].moved : parent'[r] = 1
      BY <3>1, Zenon DEF ThreadOK, ExitOK
    <3>5. loc[q].pc \in InExit => (Dozes(parent[q])' => Dozes(parent[q]))
      BY <1>3, ExitingProcess, Zenon DEF Dozes
    <3> QED
      BY <1>2, <1>3, <3>3, <3>4, <3>5, ThreadKept
  <2> QED
    BY <2>1, Zenon DEF Threads
<1>11. Wakes'
  <2>1. ASSUME NEW q \in Procs, NEW r \in Procs, Dozes(q)', parent'[r] = q, state'[r] = "ZOMBIE"
        PROVE  q = 1 /\ \E s \in Procs : loc'[s].pc = "wakeup" /\ loc'[s].ret = "reparent" /\ loc'[s].j = 1
    <3>1. q # p /\ state[r] = "ZOMBIE"
      BY <1>3, <2>1, Zenon DEF Dozes
    <3>2. PICK s \in Procs : q = 1 /\ loc[s].pc = "wakeup" /\ loc[s].ret = "reparent" /\ loc[s].j = 1
      BY <1>3, <2>1, <3>1 DEF Inv, Wakes, Dozes
    <3> QED
      BY <1>2, <3>2
  <2>2. ASSUME NEW q \in Procs, state'[q] = "SLEEPING", chan'[q] = TICKS, loc'[q].n = 0
        PROVE  cpu'[1].intr > 0 /\ cpu'[1].intr <= q
    <3>1. q # p
      BY <1>2, <1>3, <2>2, Zenon
    <3>2. cpu[1].intr > 0 /\ cpu[1].intr <= q
      BY <1>2, <1>3, <2>2, <3>1 DEF Inv, Wakes
    <3>3. cpu'[1].intr = cpu[1].intr
      BY <1>4, Names, Zenon
    <3> QED
      BY <3>2, <3>3, Zenon
  <2> QED
    BY <2>1, <2>2, Zenon DEF Wakes
<1> QED
  BY <1>6, <1>7, <1>8, <1>9, <1>10, <1>11, Zenon DEF Inv

\* yield: sched is called with p->lock and no other lock.
LEMMA YieldStep ==
    ASSUME Inv, NEW c \in CPUs, NEW p \in Procs, yield(c, p)
    PROVE  Inv'
<1> DEFINE l == [loc[p] EXCEPT !.pc = "resume"]
<1>1. /\ cpu[c].proc = p /\ cpu[c].intr = 0 /\ loc[p].pc = "yield" /\ acquire(c, p)
      /\ loc' = [loc EXCEPT ![p] = l]
      /\ sched(c, p, Held(c) \cup {p}, "RUNNABLE") /\ UNCHANGED <<chan, killed, parent, pid, nextpid>>
  BY Zenon DEF yield, At, Goto, Inv, Types
<1>2. Types /\ loc[p] \in LocType /\ ThreadOK(p)
  BY Zenon DEF Inv, Types, Threads
<1>3. /\ l \in LocType /\ l.pc = "resume" /\ l.back = loc[p].back /\ l.np = loc[p].np /\ l.i = loc[p].i
      /\ l.moved = loc[p].moved
  BY <1>2, SetPc DEF PC
<1> HIDE DEF l
<1>4. state[p] = "RUNNING" /\ \A k \in Locks : lk[k] # c
  BY <1>1, RunningThread, Places
<1>5. Held(c) \cup {p} = {p}
  BY <1>4, Zenon DEF Held
<1>6. /\ panicked' = "" /\ state' = [state EXCEPT ![p] = "RUNNABLE"]
      /\ cpu' = [cpu EXCEPT ![c] = [Idle EXCEPT !.from = p]]
  BY <1>1, <1>5, Zenon DEF sched
<1>7. /\ lk' \in [Locks -> CPUs \cup {0}] /\ (\A k \in Locks : lk'[k] = c <=> k = p)
      /\ \A d \in CPUs \ {c}, k \in Locks : lk'[k] = d <=> lk[k] = d
  BY <1>1, <1>2, <1>4, Names, Zenon DEF acquire, Free, Types
<1>8. /\ loc'[p] = l /\ (\A q \in Procs \ {p} : loc'[q] = loc[q]) /\ state'[p] = "RUNNABLE"
      /\ \A q \in Procs \ {p} : state'[q] = state[q]
  BY <1>1, <1>2, <1>6, Zenon DEF Types
<1>9. Pc(p)' = Pc(p) /\ \A q \in Procs : Forks(q)' <=> Forks(q)
  BY <1>1, <1>3, <1>8 DEF Pc, Forks
<1>10. ThreadOK(p)'
  <2>1. Shape(p)'
    BY <1>1, <1>2, <1>3, <1>8, <1>9, Zenon DEF ThreadOK, Shape
  <2>2. ForkOK(p)'
    BY <1>1, <1>2, <1>3, <1>4, <1>8, <1>9 DEF ThreadOK, ForkOK
  <2>3. ExitOK(p)' /\ WaitOK(p)'
    BY <1>1, <1>2, <1>3, <1>8, <1>9, Zenon DEF ThreadOK, ExitOK, WaitOK
  <2> QED
    BY <2>1, <2>2, <2>3, Zenon DEF ThreadOK
<1>11. chan' \in [Procs -> Int] /\ panicked' = panicked
  <2>1. panicked = ""
    BY Zenon DEF yield, kexit_sched, At
  <2> QED
    BY <1>1, <1>2, <1>6, <2>1, Zenon DEF Types
<1> QED
  BY <1>1, <1>3, <1>4, <1>6, <1>7, <1>10, <1>11, SwitchOff, Zenon

\* sleep: the caller's lock is given up with p->lock in hand, and sched has p->lock alone.
LEMMA SleepReleaseStep ==
    ASSUME Inv, NEW c \in CPUs, NEW p \in Procs, sleep_release(c, p)
    PROVE  Inv'
<1> DEFINE l == [loc[p] EXCEPT !.pc = "resume", !.back = "sleep_return", !.np = 0]
<1>1. /\ cpu[c].proc = p /\ cpu[c].intr = 0 /\ loc[p].pc = "sleep_release" /\ release(loc[p].lk)
      /\ loc' = [loc EXCEPT ![p] = l] /\ chan' = [chan EXCEPT ![p] = loc[p].np]
      /\ sched(c, p, Held(c) \ {loc[p].lk}, "SLEEPING") /\ UNCHANGED <<killed, parent, pid, nextpid>>
  BY Zenon DEF sleep_release, At, Go
<1>2. Types /\ loc[p] \in LocType /\ ThreadOK(p)
  BY Zenon DEF Inv, Types, Threads
<1>3. /\ l \in LocType /\ l.pc = "resume" /\ l.back = "sleep_return" /\ l.n = loc[p].n /\ l.i = loc[p].i
      /\ l.moved = loc[p].moved
  <2>1. "resume" \in PC /\ "sleep_return" \in PC /\ 0 \in Int
    BY DEF PC, Bare
  <2> QED
    BY <1>2, <2>1, Zenon DEF LocType
<1> HIDE DEF l
<1>4. loc[p].lk \in {wait_lock, tickslock} /\ loc[p].np \in Int
  BY <1>2, Zenon DEF LocType
<1>5. state[p] = "RUNNING" /\ \A k \in Locks : lk[k] = c <=> k \in {loc[p].lk, p}
  <2>1. state[p] = "RUNNING" /\ \A k \in Locks : lk[k] = c <=> OwnsAt(loc[p], p, k)
    BY <1>1, RunningThread
  <2> QED
    BY <1>1, <2>1, Places, Zenon
<1>6. Held(c) \ {loc[p].lk} = {p}
  BY <1>4, <1>5, Names, Zenon DEF Held
<1>7. /\ panicked' = "" /\ state' = [state EXCEPT ![p] = "SLEEPING"]
      /\ cpu' = [cpu EXCEPT ![c] = [Idle EXCEPT !.from = p]]
  BY <1>1, <1>6, Zenon DEF sched
<1>8. /\ lk' \in [Locks -> CPUs \cup {0}] /\ (\A k \in Locks : lk'[k] = c <=> k = p)
      /\ \A d \in CPUs \ {c}, k \in Locks : lk'[k] = d <=> lk[k] = d
  <2>1. lk \in [Locks -> CPUs \cup {0}] /\ lk' = [lk EXCEPT ![loc[p].lk] = 0] /\ loc[p].lk \in Locks /\ loc[p].lk # p
    BY <1>1, <1>2, <1>4, Names, Zenon DEF release, Types
  <2> QED
    BY <1>5, <2>1, Names
<1>9. /\ loc'[p] = l /\ state'[p] = "SLEEPING"
      /\ chan' \in [Procs -> Int] /\ chan'[p] = loc[p].np /\ \A q \in Procs \ {p} : chan'[q] = chan[q]
  BY <1>1, <1>2, <1>4, <1>7, Zenon DEF Types
<1>10. ThreadOK(p)'
  <2>1. Shape(p)' /\ ForkOK(p)'
    BY <1>3, <1>9, Zenon DEF Shape, ForkOK, Forks, Pc, Bare, InExit
  <2>2. ExitOK(p)' /\ WaitOK(p)'
    BY <1>1, <1>2, <1>3, <1>9, ZenonT(40) DEF ThreadOK, ExitOK, WaitOK, Pc
  <2> QED
    BY <2>1, <2>2, Zenon DEF ThreadOK
<1>11. \/ loc[p].lk = wait_lock /\ loc[p].np = p
       \/ loc[p].lk = tickslock /\ loc[p].np = TICKS /\ loc[p].n # 0
  <2>1. loc[p].n \in Nat
    BY <1>2, Zenon DEF LocType
  <2>2. \/ loc[p].lk = wait_lock /\ loc[p].np = p
        \/ loc[p].lk = tickslock /\ loc[p].np = TICKS /\ loc[p].n > 0
    BY <1>1, <1>2, Zenon DEF ThreadOK, WaitOK
  <2> QED
    BY <2>1, <2>2
<1>12. chan'[p] = p => /\ \A q \in Procs : loc[q].pc \notin InExit
                       /\ \A q \in Procs : parent[q] = p => state[q] # "ZOMBIE"
  <2>1. SUFFICES ASSUME chan'[p] = p
                 PROVE  /\ \A q \in Procs : loc[q].pc \notin InExit
                        /\ \A q \in Procs : parent[q] = p => state[q] # "ZOMBIE"
    BY Zenon
  <2>2. loc[p].lk = wait_lock
    BY <1>9, <1>11, <2>1, Names, Zenon
  <2>3. \A q \in Procs \ {p} : loc[q].pc \notin InExit
    BY <1>1, <2>2, Alone, Zenon
  <2>4. loc[p].pc \notin InExit
    BY <1>1, Zenon DEF InExit
  <2> QED
    BY <1>1, <1>2, <2>2, <2>3, <2>4, Zenon DEF ThreadOK, WaitOK
<1>13. chan'[p] = TICKS => l.n # 0
  BY <1>3, <1>9, <1>11, Names, Zenon
<1>14. panicked' = panicked
  BY <1>7, Zenon DEF sleep_release, At
<1> QED
  <2>1. /\ cpu[c].proc = p /\ cpu[c].intr = 0 /\ loc[p].pc # "wakeup" /\ loc' = [loc EXCEPT ![p] = l]
        /\ UNCHANGED <<killed, parent, pid, nextpid, panicked>>
    BY <1>1, <1>14, Zenon
  <2>2. chan' \in [Procs -> Int] /\ \A q \in Procs \ {p} : chan'[q] = chan[q]
    BY <1>9, Zenon
  <2>3. "SLEEPING" = "ZOMBIE" <=> state[p] = "ZOMBIE"
    BY <1>5, Zenon
  <2> QED
    BY <1>3, <1>7, <1>8, <1>10, <1>12, <1>13, <2>1, <2>2, <2>3, SwitchOff, ZenonT(40)

\* exit's last step.
LEMMA ExitSchedStep ==
    ASSUME Inv, NEW c \in CPUs, NEW p \in Procs, kexit_sched(c, p)
    PROVE  Inv'
<1> DEFINE l == [loc[p] EXCEPT !.pc = "resume"]
<1>1. /\ cpu[c].proc = p /\ cpu[c].intr = 0 /\ loc[p].pc = "exit_release" /\ release(wait_lock)
      /\ loc' = [loc EXCEPT ![p] = l]
      /\ sched(c, p, Held(c) \ {wait_lock}, "ZOMBIE") /\ UNCHANGED <<chan, killed, parent, pid, nextpid>>
  BY Zenon DEF kexit_sched, At, Goto, Inv, Types
<1>2. Types /\ loc[p] \in LocType /\ ThreadOK(p)
  BY Zenon DEF Inv, Types, Threads
<1>3. l \in LocType /\ l.pc = "resume" /\ l.back = loc[p].back /\ l.moved = loc[p].moved
  BY <1>2, SetPc, Zenon DEF PC
<1> HIDE DEF l
<1>4. state[p] = "ZOMBIE" /\ p # 1 /\ \A k \in Locks : lk[k] = c <=> k \in {wait_lock, p}
  BY <1>1, RunningThread, ExitingProcess, Places DEF InExit
<1>5. Held(c) \ {wait_lock} = {p}
  BY <1>4, Names, Zenon DEF Held
<1>6. /\ panicked' = "" /\ state' = [state EXCEPT ![p] = "ZOMBIE"]
      /\ cpu' = [cpu EXCEPT ![c] = [Idle EXCEPT !.from = p]]
  BY <1>1, <1>5, Zenon DEF sched
<1>7. /\ lk' \in [Locks -> CPUs \cup {0}] /\ (\A k \in Locks : lk'[k] = c <=> k = p)
      /\ \A d \in CPUs \ {c}, k \in Locks : lk'[k] = d <=> lk[k] = d
  <2>1. lk \in [Locks -> CPUs \cup {0}] /\ lk' = [lk EXCEPT ![wait_lock] = 0]
    BY <1>1, <1>2, Zenon DEF release, Types
  <2> QED
    BY <1>4, <2>1, Names
<1>8. loc'[p] = l /\ state'[p] = "ZOMBIE"
  BY <1>1, <1>2, <1>6, Zenon DEF Types
<1>9. l.back = "" /\ l.moved = {}
  BY <1>1, <1>2, <1>3, Zenon DEF ThreadOK, Shape, ExitOK
<1>10. ThreadOK(p)'
  <2>1. Shape(p)' /\ ForkOK(p)'
    BY <1>3, <1>4, <1>8, <1>9, Zenon DEF Shape, ForkOK, Forks, Pc, InExit
  <2>2. ExitOK(p)' /\ WaitOK(p)'
    BY <1>3, <1>8, <1>9, Zenon DEF ExitOK, WaitOK, Pc
  <2> QED
    BY <2>1, <2>2, Zenon DEF ThreadOK
<1>11. chan' \in [Procs -> Int] /\ panicked' = panicked
  <2>1. panicked = ""
    BY Zenon DEF yield, kexit_sched, At
  <2> QED
    BY <1>1, <1>2, <1>6, <2>1, Zenon DEF Types
<1> QED
  BY <1>1, <1>3, <1>4, <1>6, <1>7, <1>10, <1>11, SwitchOff, Zenon

\* The scheduler releases the lock of the process that switched to it.
LEMMA SchedulerReleaseStep ==
    ASSUME Inv, NEW c \in CPUs, scheduler_release(c)
    PROVE  Inv'
<1>1. /\ cpu[c].from # 0 /\ release(cpu[c].from) /\ cpu' = [cpu EXCEPT ![c].from = 0]
      /\ UNCHANGED <<state, chan, killed, parent, pid, nextpid, loc, panicked>>
  BY Zenon DEF scheduler_release, procs
<1>2. Types /\ cpu[c] \in CpuType /\ cpu[c].from \in Procs /\ cpu[c].proc = 0 /\ cpu[c].intr = 0
  BY <1>1, ZenonT(40) DEF Inv, Types, CpuType, Stacks
<1>3. /\ cpu' \in [CPUs -> CpuType] /\ cpu'[c].proc = 0 /\ cpu'[c].from = 0 /\ cpu'[c].intr = 0
      /\ \A d \in CPUs \ {c} : cpu'[d] = cpu[d]
  BY <1>1, <1>2, Zenon DEF Types, CpuType
<1>4. /\ lk' \in [Locks -> CPUs \cup {0}] /\ \A k \in Locks : lk'[k] = IF k = cpu[c].from THEN 0 ELSE lk[k]
  BY <1>1, <1>2, Names, Zenon DEF Types, release
<1>5. \A k \in Locks : lk[k] = c <=> k = cpu[c].from
  BY <1>1, <1>2 DEF Inv, Owners, Owns
<1>6. Types'
  BY <1>1, <1>2, <1>3, <1>4, Zenon DEF Types
<1>7. Stacks'
  <2>1. \A d \in CPUs : cpu'[d].proc = cpu[d].proc /\ cpu'[d].intr = cpu[d].intr /\ cpu'[d].from \in {0, cpu[d].from}
    BY <1>2, <1>3, Zenon
  <2>2. ASSUME NEW d \in CPUs
        PROVE  /\ cpu'[d].from # 0 => cpu'[d].proc = 0 /\ cpu'[d].intr = 0
                                      /\ state'[cpu'[d].from] \in {"SLEEPING", "RUNNABLE", "ZOMBIE"}
               /\ cpu'[d].proc # 0 => /\ loc'[cpu'[d].proc].pc # "resume"
                                      /\ state'[cpu'[d].proc] = IF loc'[cpu'[d].proc].pc = "exit_release"
                                                                THEN "ZOMBIE" ELSE "RUNNING"
               /\ cpu'[d].intr > 0 => d = 1 /\ (cpu'[d].proc # 0 => loc'[cpu'[d].proc].pc \in Bare \cup {"tick", "yield"})
    <3>1. /\ cpu[d].from # 0 => cpu[d].proc = 0 /\ cpu[d].intr = 0
                                /\ state[cpu[d].from] \in {"SLEEPING", "RUNNABLE", "ZOMBIE"}
          /\ cpu[d].proc # 0 => /\ loc[cpu[d].proc].pc # "resume"
                                /\ state[cpu[d].proc] = IF loc[cpu[d].proc].pc = "exit_release"
                                                        THEN "ZOMBIE" ELSE "RUNNING"
          /\ cpu[d].intr > 0 => d = 1 /\ (cpu[d].proc # 0 => loc[cpu[d].proc].pc \in Bare \cup {"tick", "yield"})
      BY Zenon DEF Inv, Stacks
    <3>2. state' = state /\ loc' = loc
      BY <1>1, Zenon
    <3>3. cpu'[d].from # 0 => cpu'[d].from = cpu[d].from
      BY <2>1, Zenon
    <3>4. cpu'[d].proc = cpu[d].proc /\ cpu'[d].intr = cpu[d].intr
      BY <2>1, Zenon
    <3> QED
      BY <3>1, <3>2, <3>3, <3>4, Zenon
  <2>3. \A d, e \in CPUs : d # e => /\ cpu'[d].proc # 0 => cpu'[d].proc \notin {cpu'[e].proc, cpu'[e].from}
                                    /\ cpu'[d].from # 0 => cpu'[d].from # cpu'[e].from
    <3> SUFFICES ASSUME NEW d \in CPUs, NEW e \in CPUs, d # e
                 PROVE  /\ cpu'[d].proc # 0 => cpu'[d].proc \notin {cpu'[e].proc, cpu'[e].from}
                        /\ cpu'[d].from # 0 => cpu'[d].from # cpu'[e].from
      BY Zenon
    <3>1. /\ cpu[d].proc # 0 => cpu[d].proc \notin {cpu[e].proc, cpu[e].from}
          /\ cpu[d].from # 0 => cpu[d].from # cpu[e].from
      BY Zenon DEF Inv, Stacks
    <3> QED
      BY <2>1, <3>1, Zenon
  <2>4. \A q \in Procs : (\A d \in CPUs : cpu'[d].proc # q) => loc'[q].pc = "resume" /\ state'[q] # "RUNNING"
    <3>1. \A q \in Procs : (\A d \in CPUs : cpu[d].proc # q) => loc[q].pc = "resume" /\ state[q] # "RUNNING"
      BY Zenon DEF Inv, Stacks
    <3>2. state' = state /\ loc' = loc
      BY <1>1, Zenon
    <3> QED
      BY <2>1, <3>1, <3>2, Zenon
  <2> QED
    BY <2>2, <2>3, <2>4, Zenon DEF Stacks
<1>8. Owners'
  <2>1. ASSUME NEW k \in Locks
        PROVE  lk'[k] = c <=> Owns(c, k)'
    BY <1>3, <1>4, <1>5, Names DEF Owns
  <2>2. ASSUME NEW d \in CPUs \ {c}, NEW k \in Locks
        PROVE  lk'[k] = d <=> Owns(d, k)'
    <3>1. Owns(d, k)' <=> Owns(d, k)
      BY <1>1, <1>3, Zenon DEF Owns, OwnsAt
    <3>2. lk'[k] = d <=> lk[k] = d
      BY <1>4, <1>5, Names
    <3> QED
      BY <3>1, <3>2, Zenon DEF Inv, Owners
  <2> QED
    BY <2>1, <2>2, Zenon DEF Owners
<1>9. Table'
  BY <1>1, Zenon DEF Inv, Table
<1>10. Threads'
  <2>1. \A q \in Procs : Pc(q)' = Pc(q) /\ (Forks(q)' <=> Forks(q)) /\ (Dozes(parent[q])' <=> Dozes(parent[q]))
    BY <1>1, Zenon DEF Pc, Forks, Dozes
  <2>2. ASSUME NEW q \in Procs
        PROVE  ThreadOK(q)'
    <3>1. ThreadOK(q)
      BY Zenon DEF Inv, Threads
    <3>2. Shape(q)' /\ ForkOK(q)'
      BY <1>1, <2>1, <3>1, Zenon DEF ThreadOK, Shape, ForkOK
    <3>3. ExitOK(q)' /\ WaitOK(q)'
      BY <1>1, <2>1, <3>1, Zenon DEF ThreadOK, ExitOK, WaitOK
    <3> QED
      BY <3>2, <3>3, Zenon DEF ThreadOK
  <2> QED
    BY <2>2, Zenon DEF Threads
<1>11. Wakes'
  <2>1. cpu'[1].intr = cpu[1].intr
    BY <1>2, <1>3, Names, Zenon
  <2> QED
    BY <1>1, <2>1, Zenon DEF Inv, Wakes, Dozes
<1> QED
  BY <1>6, <1>7, <1>8, <1>9, <1>10, <1>11, Zenon DEF Inv

\* A scheduler resumes a process that no CPU is on.
LEMMA SchedulerStep ==
    ASSUME Inv, NEW c \in CPUs, NEW p \in Procs, scheduler(c, p)
    PROVE  Inv'
<1> DEFINE l == [loc[p] EXCEPT !.pc = loc[p].back, !.back = ""]
<1>1. /\ cpu[c] = Idle /\ state[p] = "RUNNABLE" /\ Free(p)
      /\ state' = [state EXCEPT ![p] = "RUNNING"] /\ cpu' = [cpu EXCEPT ![c].proc = p]
      /\ chan' = [chan EXCEPT ![p] = 0] /\ loc' = [loc EXCEPT ![p] = l]
      /\ UNCHANGED <<killed, parent, pid, nextpid, lk, panicked>>
  BY Zenon DEF scheduler, Go
<1>2. Types /\ loc[p] \in LocType /\ ThreadOK(p) /\ p # 0
  BY Names, Zenon DEF Inv, Types, Threads
<1>3. \A d \in CPUs : cpu[d].proc # p /\ cpu[d].from # p
  <2>1. \A d \in CPUs : cpu[d].proc # p
    BY <1>1, RunningThread, Zenon
  <2>2. ASSUME NEW d \in CPUs, cpu[d].from = p
        PROVE  FALSE
    <3>1. lk[p] = d
      BY <1>2, <2>2, Names, Zenon DEF Inv, Owners, Owns
    <3> QED
      BY <1>1, <3>1, Names, Zenon DEF Free
  <2> QED
    BY <2>1, <2>2, Zenon
<1>4. loc[p].pc = "resume" /\ loc[p].back \in Bare
  <2>1. loc[p].pc = "resume"
    BY <1>3, Zenon DEF Inv, Stacks
  <2> QED
    BY <1>1, <1>2, <2>1, Zenon DEF ThreadOK, Shape
<1>5. /\ l \in LocType /\ l.pc = loc[p].back /\ l.np = loc[p].np /\ l.i = loc[p].i /\ l.moved = loc[p].moved
  <2>1. loc[p].back \in PC
    BY <1>4, Zenon DEF PC
  <2> QED
    BY <1>2, <2>1, Zenon DEF LocType
<1> HIDE DEF l
<1>6. loc' \in [Procs -> LocType] /\ \A q \in Procs : loc'[q] = IF q = p THEN l ELSE loc[q]
  BY <1>1, <1>2, <1>5, Zenon DEF Types
<1>7. /\ state' \in [Procs -> Status] /\ \A q \in Procs : state'[q] = IF q = p THEN "RUNNING" ELSE state[q]
  BY <1>1, <1>2, Zenon DEF Types, Status
<1>8. chan' \in [Procs -> Int] /\ \A q \in Procs : chan'[q] = IF q = p THEN 0 ELSE chan[q]
  <2>1. chan \in [Procs -> Int]
    BY <1>2, Zenon DEF Types
  <2> QED
    BY <1>1, <2>1
<1>9. /\ cpu' \in [CPUs -> CpuType] /\ cpu'[c].proc = p /\ cpu'[c].from = 0 /\ cpu'[c].intr = 0
      /\ \A d \in CPUs \ {c} : cpu'[d] = cpu[d]
  <2>1. cpu[c] \in CpuType /\ cpu[c].from = 0 /\ cpu[c].intr = 0 /\ cpu[c].proc = 0
    <3>1. cpu[c] \in CpuType
      BY <1>2, Zenon DEF Types
    <3> QED
      BY <1>1, <3>1 DEF Idle
  <2> QED
    BY <1>1, <1>2, <2>1, Zenon DEF Types, CpuType
<1>10. cpu[c].from = 0 /\ cpu[c].intr = 0 /\ cpu[c].proc = 0
  BY <1>1 DEF Idle
<1>11. \A d \in CPUs : cpu[d].proc \in Procs \cup {0} /\ cpu[d].from \in Procs \cup {0}
  BY <1>2, Zenon DEF Types, CpuType
<1>12. Types'
  BY <1>1, <1>2, <1>6, <1>7, <1>8, <1>9, Zenon DEF Types
<1>13. Stacks'
  <2>1. ASSUME NEW d \in CPUs
        PROVE  /\ cpu'[d].from # 0 => cpu'[d].proc = 0 /\ cpu'[d].intr = 0
                                      /\ state'[cpu'[d].from] \in {"SLEEPING", "RUNNABLE", "ZOMBIE"}
               /\ cpu'[d].proc # 0 => /\ loc'[cpu'[d].proc].pc # "resume"
                                      /\ state'[cpu'[d].proc] = IF loc'[cpu'[d].proc].pc = "exit_release"
                                                                THEN "ZOMBIE" ELSE "RUNNING"
               /\ cpu'[d].intr > 0 => d = 1 /\ (cpu'[d].proc # 0 => loc'[cpu'[d].proc].pc \in Bare \cup {"tick", "yield"})
    <3>1. CASE d = c
      <4>1. l.pc # "resume" /\ l.pc # "exit_release"
        BY <1>4, <1>5, Zenon DEF Bare
      <4> QED
        BY <1>6, <1>7, <1>9, <3>1, <4>1
    <3>2. CASE d # c
      <4>1. cpu'[d] = cpu[d] /\ cpu[d].proc # p /\ cpu[d].from # p
        BY <1>3, <1>9, <3>2, Zenon
      <4> QED
        BY <1>6, <1>7, <1>11, <4>1 DEF Inv, Stacks
    <3> QED
      BY <3>1, <3>2, Zenon
  <2>2. \A d, e \in CPUs : d # e => /\ cpu'[d].proc # 0 => cpu'[d].proc \notin {cpu'[e].proc, cpu'[e].from}
                                    /\ cpu'[d].from # 0 => cpu'[d].from # cpu'[e].from
    BY <1>3, <1>9, <1>10 DEF Inv, Stacks
  <2>3. ASSUME NEW q \in Procs, \A d \in CPUs : cpu'[d].proc # q
        PROVE  loc'[q].pc = "resume" /\ state'[q] # "RUNNING"
    <3>1. q # p
      BY <1>9, <2>3, Zenon
    <3>2. \A d \in CPUs : cpu[d].proc # q
      BY <1>9, <1>10, <2>3, Names, Zenon
    <3> QED
      BY <1>6, <1>7, <3>1, <3>2, Zenon DEF Inv, Stacks
  <2> QED
    BY <2>1, <2>2, <2>3, Zenon DEF Stacks
<1>14. Owners'
  <2>1. ASSUME NEW k \in Locks
        PROVE  lk'[k] = c <=> Owns(c, k)'
    <3>1. ~OwnsAt(l, p, k)
      BY <1>4, <1>5, Places, Zenon
    <3>2. ~Owns(c, k) /\ ~Owns(c, k)'
      BY <1>6, <1>9, <1>10, <3>1 DEF Owns
    <3> QED
      BY <1>1, <3>2, Zenon DEF Inv, Owners
  <2>2. ASSUME NEW d \in CPUs \ {c}, NEW k \in Locks
        PROVE  lk'[k] = d <=> Owns(d, k)'
    <3>1. Owns(d, k)' <=> Owns(d, k)
      BY <1>3, <1>6, <1>9, <1>11 DEF Owns, OwnsAt
    <3> QED
      BY <1>1, <3>1, Zenon DEF Inv, Owners
  <2> QED
    BY <2>1, <2>2, Zenon DEF Owners
<1>15. Table'
  <2>1. \A q \in Procs : /\ state'[q] = "UNUSED" <=> state[q] = "UNUSED"
                         /\ state'[q] = "USED" <=> state[q] = "USED"
                         /\ state'[q] = "ZOMBIE" <=> state[q] = "ZOMBIE"
                         /\ state'[q] = "UNUSED" => chan'[q] = chan[q]
    BY <1>1, <1>7, <1>8, Zenon
  <2> QED
    BY <1>1, <2>1, Names DEF Inv, Table
<1>16. /\ Pc(p)' = Pc(p) /\ (\A q \in Procs : Forks(q)' <=> Forks(q)) /\ \A q \in Procs : Dozes(q)' => Dozes(q)
  <2>1. l.pc \notin {"resume", "yield"}
    BY <1>4, <1>5, Zenon DEF Bare
  <2>2. Pc(p)' = Pc(p)
    BY <1>4, <1>5, <1>6, <2>1, Zenon DEF Pc
  <2> QED
    BY <1>6, <1>7, <1>8, <2>2, Zenon DEF Pc, Forks, Dozes
<1>17. Threads'
  <2>1. ThreadOK(p)'
    <3>1. l.pc \notin InExit \cup {"yield", "resume", "sleep", "sleep_release", "wait_scan"}
      BY <1>4, <1>5, Zenon DEF Bare, InExit
    <3>2. Shape(p)'
      BY <1>2, <1>5, <1>6, <1>16, <3>1, Zenon DEF ThreadOK, Shape, InExit
    <3>3. ForkOK(p)'
      BY <1>1, <1>2, <1>5, <1>6, <1>7, <1>16 DEF ThreadOK, ForkOK
    <3>4. loc[p].moved = {}
      BY <1>2, <1>4, Zenon DEF ThreadOK, ExitOK
    <3>5. ExitOK(p)'
      BY <1>5, <1>6, <3>1, <3>4, Zenon DEF ExitOK, InExit
    <3>6. WaitOK(p)'
      BY <1>2, <1>5, <1>6, <1>16, <3>1, Zenon DEF ThreadOK, WaitOK
    <3> QED
      BY <3>2, <3>3, <3>5, <3>6, Zenon DEF ThreadOK
  <2>2. ASSUME NEW q \in Procs \ {p}
        PROVE  ThreadOK(q)'
    <3>1. ThreadOK(q)
      BY Zenon DEF Inv, Threads
    <3>2. Forks(q) => /\ state'[loc[q].np] = "USED"
                      /\ \A r \in Procs \ {q} : Forks(r)' => loc'[r].np # loc[q].np
      BY <1>1, <1>5, <1>6, <1>7, <1>16, <3>1, ZenonT(40) DEF ThreadOK, ForkOK
    <3>3. \A r \in loc[q].moved : parent'[r] = 1
      BY <1>1, <3>1, Zenon DEF ThreadOK, ExitOK
    <3>4. loc[q].pc \in InExit => (Dozes(parent[q])' => Dozes(parent[q]))
      BY <1>1, <1>16, ExitingProcess, Zenon DEF Dozes
    <3> QED
      BY <1>1, <1>6, <1>7, <3>2, <3>3, <3>4, ThreadKept, Zenon
  <2> QED
    BY <2>1, <2>2, Zenon DEF Threads
<1>18. Wakes'
  <2>1. ASSUME NEW q \in Procs, NEW r \in Procs, Dozes(q)', parent'[r] = q, state'[r] = "ZOMBIE"
        PROVE  q = 1 /\ \E s \in Procs : loc'[s].pc = "wakeup" /\ loc'[s].ret = "reparent" /\ loc'[s].j = 1
    <3>1. PICK s \in Procs : q = 1 /\ loc[s].pc = "wakeup" /\ loc[s].ret = "reparent" /\ loc[s].j = 1
      BY <1>1, <1>7, <1>16, <2>1, Zenon DEF Inv, Wakes
    <3> QED
      BY <1>4, <1>6, <3>1, Zenon
  <2>2. ASSUME NEW q \in Procs, state'[q] = "SLEEPING", chan'[q] = TICKS, loc'[q].n = 0
        PROVE  cpu'[1].intr > 0 /\ cpu'[1].intr <= q
    <3>1. q # p
      BY <1>7, <2>2, Zenon
    <3>2. cpu[1].intr > 0 /\ cpu[1].intr <= q
      BY <1>6, <1>7, <1>8, <2>2, <3>1, Zenon DEF Inv, Wakes
    <3>3. cpu'[1].intr = cpu[1].intr
      BY <1>9, <1>10, Names, Zenon
    <3> QED
      BY <3>2, <3>3, Zenon
  <2> QED
    BY <2>1, <2>2, Zenon DEF Wakes
<1> QED
  BY <1>12, <1>13, <1>14, <1>15, <1>17, <1>18, Zenon DEF Inv

-----------------------------------------------------------------------------
(* Timer interrupts.                                                         *)

\* A CPU takes one only where its thread holds no lock.
LEMMA HoldsNothing ==
    ASSUME Inv, NEW c \in CPUs, NEW p \in Procs, cpu[c].proc = p, cpu[c].intr = 0, Held(c) = {}
    PROVE  loc[p].pc \in Bare \cup {"tick", "yield"}
<1>1. \A k \in Locks : ~OwnsAt(loc[p], p, k)
  BY RunningThread DEF Held
<1>2. loc[p].pc \in PC \ {"resume"} /\ loc[p].lk \in Locks
  <2>1. loc[p] \in LocType /\ loc[p].pc # "resume"
    <3>1. loc[p] \in LocType
      BY Zenon DEF Inv, Types
    <3> QED
      BY <3>1, RunningThread
  <2>2. loc[p].lk \in {wait_lock, tickslock} /\ loc[p].pc \in PC
    BY <2>1, Zenon DEF LocType
  <2> QED
    BY <2>1, <2>2, Names, Zenon
<1> QED
  BY <1>1, <1>2, Names, Zenon DEF OwnsAt, PC, InExit

\* The interrupted thread goes on after the yield where it was.
LEMMA InterruptedOK ==
    ASSUME Inv, NEW p \in Procs, loc[p].pc \in Bare, loc'[p] = Interrupted(p),
           \A q \in Procs \ {p} : loc'[q] = loc[q], UNCHANGED <<state, parent>>
    PROVE  Interrupted(p) \in LocType /\ Interrupted(p).pc \in {"tick", "yield"} /\ ThreadOK(p)'
<1>1. loc[p] \in LocType /\ ThreadOK(p)
  BY Zenon DEF Inv, Types, Threads
<1>2. loc[p].moved = {}
  BY <1>1, Zenon DEF ThreadOK, ExitOK, Bare
<1>3. CASE loc[p].pc = "user"
  <2>1. Interrupted(p) = Loc("tick")
    BY <1>3, Zenon DEF Interrupted
  <2>2. Plain(p, Loc("tick")) /\ Loc("tick") \in LocType /\ Loc("tick").pc = "tick"
    BY LocFields, Zenon DEF Plain, PC, Bare
  <2> QED
    BY <2>1, <2>2, PlainOK, Zenon
<1>4. CASE loc[p].pc # "user"
  <2> DEFINE l == [loc[p] EXCEPT !.pc = "yield", !.back = loc[p].pc]
  <2>1. "yield" \in PC /\ loc[p].pc \in PC
    BY Zenon DEF PC
  <2>2. /\ l \in LocType /\ l.pc = "yield" /\ l.back = loc[p].pc /\ l.np = loc[p].np /\ l.i = loc[p].i
        /\ l.moved = loc[p].moved
    BY <1>1, <2>1, Zenon DEF LocType
  <2>3. Interrupted(p) = l
    BY <1>4, Zenon DEF Interrupted
  <2> HIDE DEF l
  <2>4. loc'[p] = l
    BY <2>3, Zenon
  <2>5. Pc(p)' = Pc(p) /\ \A q \in Procs : Forks(q)' <=> Forks(q)
    <3>1. Pc(p)' = Pc(p)
      BY <2>2, <2>4, Zenon DEF Pc, Bare
    <3> QED
      BY <3>1, Zenon DEF Forks, Pc
  <2>6. Shape(p)'
    BY <1>1, <2>2, <2>4, <2>5, Zenon DEF ThreadOK, Shape
  <2>7. ForkOK(p)'
    BY <1>1, <2>2, <2>4, <2>5, Zenon DEF ThreadOK, ForkOK
  <2>8. ExitOK(p)' /\ WaitOK(p)'
    BY <1>1, <1>2, <2>2, <2>4, <2>5, Zenon DEF ThreadOK, ExitOK, WaitOK
  <2> QED
    BY <2>2, <2>3, <2>6, <2>7, <2>8, Zenon DEF ThreadOK
<1> QED
  BY <1>3, <1>4, Zenon

\* A tick that nobody waits for, and the timers of the other CPUs.
LEMMA TimerPlainStep ==
    ASSUME Inv, NEW c \in CPUs, timer(c), ~(c = 1 /\ \E q \in Procs : Pausing(q))
    PROVE  Inv'
<1>1. /\ Held(c) = {} /\ cpu[c].intr = 0 /\ cpu[c].proc # 0 /\ loc[cpu[c].proc].pc \notin {"tick", "yield"}
      /\ loc' = [loc EXCEPT ![cpu[c].proc] = Interrupted(cpu[c].proc)]
      /\ UNCHANGED <<state, chan, killed, parent, pid, nextpid, lk, cpu, panicked>>
  BY Zenon DEF timer, Go, procs
<1>2. PICK p \in Procs : p = cpu[c].proc
  BY <1>1, Zenon DEF Inv, Types, CpuType
<1>3. loc[p].pc \in Bare
  BY <1>1, <1>2, HoldsNothing, Zenon
<1>4. loc'[p] = Interrupted(p) /\ \A q \in Procs \ {p} : loc'[q] = loc[q]
  BY <1>1, <1>2, Zenon DEF Inv, Types
<1> DEFINE l == Interrupted(p)
<1>5. l \in LocType /\ l.pc \in {"tick", "yield"} /\ ThreadOK(p)'
  BY <1>1, <1>3, <1>4, InterruptedOK, Zenon
<1>6. loc' = [loc EXCEPT ![p] = l]
  BY <1>1, <1>2, Zenon
<1> HIDE DEF l
<1>7. LockMove(c, p, l)
  BY <1>1, <1>3, <1>5, Places, Zenon DEF LockMove
<1>8. loc[p].pc \notin {"wakeup", "exit_release"}
  BY <1>3, Zenon DEF Bare
<1> QED
  BY <1>1, <1>2, <1>5, <1>6, <1>7, <1>8, SamePid, Quiet, Zenon

\* A tick of the first CPU, for those in pause.
LEMMA TickStep ==
    ASSUME Inv, NEW c \in CPUs, timer(c), c = 1 /\ \E q \in Procs : Pausing(q)
    PROVE  Inv'
<1>1. /\ Held(c) = {} /\ cpu[c].intr = 0 /\ cpu[c].from = 0 /\ acquire(c, tickslock)
      /\ cpu' = [cpu EXCEPT ![c].intr = 1]
      /\ loc' = [q \in Procs |-> IF Pausing(q) THEN [loc[q] EXCEPT !.n = @ - 1] ELSE loc[q]]
      /\ UNCHANGED <<state, chan, killed, parent, pid, nextpid, panicked>>
  BY Zenon DEF timer, procs
<1>2. Types
  BY Zenon DEF Inv
<1>3. ASSUME NEW q \in Procs
      PROVE  /\ loc'[q] \in LocType /\ loc'[q].pc = loc[q].pc /\ loc'[q].i = loc[q].i /\ loc'[q].j = loc[q].j
             /\ loc'[q].np = loc[q].np /\ loc'[q].ret = loc[q].ret /\ loc'[q].back = loc[q].back
             /\ loc'[q].lk = loc[q].lk /\ loc'[q].moved = loc[q].moved
  <2>1. loc[q] \in LocType
    BY <1>2, Zenon DEF Types
  <2>2. CASE Pausing(q)
    <3>1. loc[q].n \in Nat /\ loc[q].n > 0
      BY <2>1, <2>2, Zenon DEF LocType, Pausing
    <3>2. loc[q].n - 1 \in Nat
      BY <3>1
    <3>3. loc'[q] = [loc[q] EXCEPT !.n = @ - 1]
      BY <1>1, <2>2, Zenon
    <3> QED
      BY <2>1, <3>2, <3>3, Zenon DEF LocType
  <2>3. CASE ~Pausing(q)
    BY <1>1, <2>1, <2>3, Zenon
  <2> QED
    BY <2>2, <2>3, Zenon
<1>4. /\ cpu' \in [CPUs -> CpuType] /\ cpu'[c].proc = cpu[c].proc /\ cpu'[c].from = 0 /\ cpu'[c].intr = 1
      /\ \A d \in CPUs \ {c} : cpu'[d] = cpu[d]
  <2>1. cpu[c] \in CpuType /\ 1 \in Nat
    BY <1>2, Zenon DEF Types
  <2> QED
    BY <1>1, <1>2, <2>1, Zenon DEF Types, CpuType
<1>5. /\ lk' \in [Locks -> CPUs \cup {0}] /\ lk[tickslock] = 0
      /\ \A k \in Locks : lk'[k] = IF k = tickslock THEN c ELSE lk[k]
  BY <1>1, <1>2, Names, Zenon DEF Types, acquire, Free
<1>6. \A d \in CPUs : cpu[d].proc \in Procs \cup {0} /\ cpu[d].from \in Procs \cup {0}
  BY <1>2, Zenon DEF Types, CpuType
<1>7. Types'
  <2>1. loc' \in [Procs -> LocType]
    BY <1>1, <1>3, Zenon
  <2> QED
    BY <1>1, <1>2, <1>4, <1>5, <2>1, Zenon DEF Types
<1>8. cpu[c].proc # 0 => loc[cpu[c].proc].pc \in Bare \cup {"tick", "yield"}
  BY <1>1, <1>6, HoldsNothing, Zenon
<1>9. Stacks'
  <2>1. \A d \in CPUs : cpu'[d].proc = cpu[d].proc /\ cpu'[d].from = cpu[d].from /\ (d # c => cpu'[d].intr = cpu[d].intr)
    BY <1>1, <1>4, Zenon
  <2>2. \A q \in Procs : loc'[q].pc = loc[q].pc /\ state'[q] = state[q]
    BY <1>1, <1>3, Zenon
  <2>3. ASSUME NEW d \in CPUs
        PROVE  /\ cpu'[d].from # 0 => cpu'[d].proc = 0 /\ cpu'[d].intr = 0
                                      /\ state'[cpu'[d].from] \in {"SLEEPING", "RUNNABLE", "ZOMBIE"}
               /\ cpu'[d].proc # 0 => /\ loc'[cpu'[d].proc].pc # "resume"
                                      /\ state'[cpu'[d].proc] = IF loc'[cpu'[d].proc].pc = "exit_release"
                                                                THEN "ZOMBIE" ELSE "RUNNING"
               /\ cpu'[d].intr > 0 => d = 1 /\ (cpu'[d].proc # 0 => loc'[cpu'[d].proc].pc \in Bare \cup {"tick", "yield"})
    BY <1>1, <1>4, <1>6, <1>8, <2>1, <2>2 DEF Inv, Stacks
  <2>4. \A d, e \in CPUs : d # e => /\ cpu'[d].proc # 0 => cpu'[d].proc \notin {cpu'[e].proc, cpu'[e].from}
                                    /\ cpu'[d].from # 0 => cpu'[d].from # cpu'[e].from
    <3> SUFFICES ASSUME NEW d \in CPUs, NEW e \in CPUs, d # e
                 PROVE  /\ cpu'[d].proc # 0 => cpu'[d].proc \notin {cpu'[e].proc, cpu'[e].from}
                        /\ cpu'[d].from # 0 => cpu'[d].from # cpu'[e].from
      BY Zenon
    <3>1. /\ cpu[d].proc # 0 => cpu[d].proc \notin {cpu[e].proc, cpu[e].from}
          /\ cpu[d].from # 0 => cpu[d].from # cpu[e].from
      BY Zenon DEF Inv, Stacks
    <3> QED
      BY <2>1, <3>1, Zenon
  <2>5. \A q \in Procs : (\A d \in CPUs : cpu'[d].proc # q) => loc'[q].pc = "resume" /\ state'[q] # "RUNNING"
    <3>1. \A q \in Procs : (\A d \in CPUs : cpu[d].proc # q) => loc[q].pc = "resume" /\ state[q] # "RUNNING"
      BY Zenon DEF Inv, Stacks
    <3> QED
      BY <2>1, <2>2, <3>1, Zenon
  <2> QED
    BY <2>3, <2>4, <2>5, Zenon DEF Stacks
<1>10. Owners'
  <2>1. ASSUME NEW k \in Locks
        PROVE  lk'[k] = c <=> Owns(c, k)'
    <3>1. cpu[c].proc # 0 => ~OwnsAt(loc'[cpu[c].proc], cpu[c].proc, k)
      BY <1>3, <1>6, <1>8, Places, Zenon
    <3>2. Owns(c, k)' <=> k = tickslock
      BY <1>4, <3>1 DEF Owns
    <3>3. lk[k] # c
      BY <1>1, Zenon DEF Held
    <3> QED
      BY <1>5, <3>2, <3>3, Zenon
  <2>2. ASSUME NEW d \in CPUs \ {c}, NEW k \in Locks
        PROVE  lk'[k] = d <=> Owns(d, k)'
    <3>1. Owns(d, k)' <=> Owns(d, k)
      <4>1. cpu'[d] = cpu[d]
        BY <1>4, Zenon
      <4>2. cpu[d].proc # 0 => (OwnsAt(loc[cpu[d].proc], cpu[d].proc, k)' <=> OwnsAt(loc[cpu[d].proc], cpu[d].proc, k))
        BY <1>3, <1>6, <4>1 DEF OwnsAt
      <4> QED
        BY <4>1, <4>2, Zenon DEF Owns
    <3>2. lk'[k] = d <=> lk[k] = d
      BY <1>5, Names, Zenon
    <3> QED
      BY <3>1, <3>2, Zenon DEF Inv, Owners
  <2> QED
    BY <2>1, <2>2 DEF Owners
<1>11. Table'
  BY <1>1, Zenon DEF Inv, Table
<1>12. Threads'
  <2>1. \A q \in Procs : Pc(q)' = Pc(q) /\ (Forks(q)' <=> Forks(q)) /\ (Dozes(parent[q])' <=> Dozes(parent[q]))
    BY <1>1, <1>3 DEF Pc, Forks, Dozes
  <2>2. ASSUME NEW q \in Procs
        PROVE  ThreadOK(q)'
    <3>1. ThreadOK(q)
      BY Zenon DEF Inv, Threads
    <3>2. Shape(q)'
      BY <1>1, <1>3, <2>1, <3>1, Zenon DEF ThreadOK, Shape
    <3>3. ForkOK(q)'
      BY <1>1, <1>3, <2>1, <3>1 DEF ThreadOK, ForkOK
    <3>4. ExitOK(q)'
      BY <1>1, <1>3, <2>1, <3>1, Zenon DEF ThreadOK, ExitOK
    <3>5. loc[q].pc \in {"sleep", "sleep_release"} => loc[q].lk # tickslock
      <4>1. ~OwnsAt(loc[q], q, tickslock)
        BY <1>5, OneOwner, Names, Zenon DEF Free
      <4> QED
        BY <4>1, Places, Zenon
    <3>6. WaitOK(q)'
      BY <1>1, <1>3, <2>1, <3>1, <3>5, Zenon DEF ThreadOK, WaitOK
    <3> QED
      BY <3>2, <3>3, <3>4, <3>6, Zenon DEF ThreadOK
  <2> QED
    BY <2>2, Zenon DEF Threads
<1>13. Wakes'
  <2>1. ASSUME NEW q \in Procs, NEW r \in Procs, Dozes(q)', parent'[r] = q, state'[r] = "ZOMBIE"
        PROVE  q = 1 /\ \E s \in Procs : loc'[s].pc = "wakeup" /\ loc'[s].ret = "reparent" /\ loc'[s].j = 1
    <3>1. PICK s \in Procs : q = 1 /\ loc[s].pc = "wakeup" /\ loc[s].ret = "reparent" /\ loc[s].j = 1
      BY <1>1, <2>1, Zenon DEF Inv, Wakes, Dozes
    <3> QED
      BY <1>3, <3>1, Zenon
  <2>2. \A q \in Procs : cpu'[1].intr > 0 /\ cpu'[1].intr <= q
    BY <1>4 DEF Procs
  <2> QED
    BY <2>1, <2>2, Zenon DEF Wakes
<1> QED
  BY <1>7, <1>9, <1>10, <1>11, <1>12, <1>13, Zenon DEF Inv
=============================================================================
