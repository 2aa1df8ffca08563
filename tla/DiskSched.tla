----------------------------- MODULE DiskSched -----------------------------
(***************************************************************************)
(* kernel/disksched.c: the request queue between the buffer cache and the  *)
(* virtio driver.  A kernel thread that holds a buffer's sleep-lock calls  *)
(* disksched_submit from bread or bwrite; the part of submit under dq_lock *)
(* is one step, the I/O it then performs outside the lock another.         *)
(***************************************************************************)
EXTENDS Integers, FiniteSets

CONSTANTS Threads,          \* kernel threads that do I/O
          Buf,              \* buffers of the cache
          Block,            \* block numbers, below FSSIZE: distances stay below 0xFFFFFFFF
          Prio,             \* p->level of the submitting process, 99 without one
          MAX_DISK_QUEUE,   \* 64
          UINT,             \* number of values of dq_seq, a uint (2^32)
          MAX_OPS           \* bound: submissions in a behaviour

ROTATIONAL_CONST == 5
FCFS == 0
SSTF == 1
None == -1

Slot == 0 .. MAX_DISK_QUEUE - 1
NoReq == [valid |-> FALSE, buf |-> None, write |-> 0, blockno |-> 0, priority |-> 0, seq |-> 0]
Req   == [valid : BOOLEAN, buf : Buf \cup {None}, write : {0, 1}, blockno : Block \cup {0},
          priority : Prio \cup {0}, seq : 0 .. UINT - 1]

ASSUME DiskAssumption == /\ MAX_DISK_QUEUE \in Nat \ {0}
                         /\ UINT \in Nat /\ UINT > 1
                         /\ MAX_OPS \in Nat
                         /\ Block \subseteq Nat
                         /\ Prio \subseteq Nat
                         /\ None \notin Buf

VARIABLES dq,               \* the fields of a request that is not valid are blanked
          dq_size, dq_seq, current_head, sched_policy, total_latency, total_ops,
          pc,               \* where each thread is in disksched_submit
          mine,             \* the buffer each thread has locked, None without one
          chosen,           \* the buffer the thread does I/O on
          served,           \* history: buffers whose pending request has been performed
          submits           \* history: number of submissions, for MAX_OPS

stats == <<current_head, total_latency, total_ops>>
vars  == <<dq, dq_size, dq_seq, sched_policy, stats, pc, mine, chosen, served, submits>>

TypeOK == /\ dq \in [Slot -> Req]
          /\ dq_size \in Int
          /\ dq_seq \in 0 .. UINT - 1
          /\ current_head \in Block \cup {0}
          /\ sched_policy \in {FCFS, SSTF}
          /\ total_latency \in Nat /\ total_ops \in Nat
          /\ pc \in [Threads -> {"idle", "io", "returned", "panic"}]
          /\ mine \in [Threads -> Buf \cup {None}]
          /\ chosen \in [Threads -> Buf \cup {None}]
          /\ served \subseteq Buf
          /\ submits \in 0 .. MAX_OPS

\* disksched_init
Init == /\ dq = [i \in Slot |-> NoReq]
        /\ dq_size = 0
        /\ dq_seq = 0
        /\ current_head = 0
        /\ sched_policy = FCFS
        /\ total_latency = 0 /\ total_ops = 0
        /\ pc = [t \in Threads |-> "idle"]
        /\ mine = [t \in Threads |-> None]
        /\ chosen = [t \in Threads |-> None]
        /\ served = {}
        /\ submits = 0

-----------------------------------------------------------------------------
Valid(q) == {i \in Slot : q[i].valid}

\* The first slot that is not valid; None in a full queue.
dq_alloc_slot == IF Valid(dq) = Slot THEN None
                 ELSE CHOOSE i \in Slot \ Valid(dq) : \A j \in Slot \ Valid(dq) : i <= j

\* The scan starts from best_seq = 0xFFFFFFFF and compares with <.
pick_fcfs(q) ==
    LET S == {i \in Valid(q) : q[i].seq < UINT - 1}
    IN  IF S = {} THEN None
        ELSE CHOOSE i \in S : \A j \in S : \/ q[i].seq < q[j].seq
                                           \/ q[i].seq = q[j].seq /\ i <= j

Dist(block) == IF block > current_head THEN block - current_head ELSE current_head - block

\* Nearest block, then the lower priority value, then the lower slot.
pick_sstf(q) ==
    LET S == Valid(q)
        before(i, j) == \/ Dist(q[i].blockno) < Dist(q[j].blockno)
                        \/ /\ Dist(q[i].blockno) = Dist(q[j].blockno)
                           /\ \/ q[i].priority < q[j].priority
                              \/ q[i].priority = q[j].priority /\ i <= j
    IN  IF S = {} THEN None
        ELSE CHOOSE i \in S : \A j \in S : before(i, j)

Pick(q) == IF sched_policy = SSTF THEN pick_sstf(q) ELSE pick_fcfs(q)

compute_and_record_latency(block) ==
    /\ total_latency' = total_latency + Dist(block) + ROTATIONAL_CONST
    /\ total_ops' = total_ops + 1

\* Mutant: the chosen request stays valid.
Extract_Keep(q, c) == /\ dq' = q
                      /\ compute_and_record_latency(q[c].blockno)
                      /\ current_head' = q[c].blockno

\* Remove slot c of q, account for it and move the head.
Extract(q, c) == /\ dq' = [q EXCEPT ![c] = NoReq]
                 /\ compute_and_record_latency(q[c].blockno)
                 /\ current_head' = q[c].blockno

-----------------------------------------------------------------------------
(* bread and bwrite lock a buffer of the cache, caching block blk, and submit it. *)

disksched_submit(t, b, blk, w, prio) ==
    LET slot == dq_alloc_slot
        q    == [dq EXCEPT ![slot] = [valid |-> TRUE, buf |-> b, write |-> w, blockno |-> blk,
                                      priority |-> prio, seq |-> dq_seq]]
        c    == Pick(q)
    IN  /\ pc[t] = "idle"
        /\ \A u \in Threads : mine[u] # b
        /\ submits < MAX_OPS
        /\ submits' = submits + 1
        /\ mine' = [mine EXCEPT ![t] = b]
        /\ served' = served \ {b}
        /\ IF slot = None
           THEN /\ pc' = [pc EXCEPT ![t] = "panic"]
                /\ UNCHANGED <<dq, dq_size, dq_seq, stats, chosen>>
           ELSE /\ dq_seq' = (dq_seq + 1) % UINT
                /\ IF c = None
                   THEN /\ dq' = q
                        /\ dq_size' = dq_size + 1
                        /\ pc' = [pc EXCEPT ![t] = "returned"]
                        /\ UNCHANGED <<stats, chosen>>
                   ELSE /\ Extract(q, c)
                        /\ dq_size' = dq_size
                        /\ chosen' = [chosen EXCEPT ![t] = q[c].buf]
                        /\ pc' = [pc EXCEPT ![t] = "io"]
        /\ UNCHANGED sched_policy

\* virtio_disk_rw sleeps until the device has done the request.
virtio_disk_rw(t) ==
    /\ pc[t] = "io"
    /\ served' = served \cup {chosen[t]}
    /\ chosen' = [chosen EXCEPT ![t] = None]
    /\ pc' = [pc EXCEPT ![t] = "returned"]
    /\ UNCHANGED <<dq, dq_size, dq_seq, stats, sched_policy, mine, submits>>

\* bread sets b->valid and hands the buffer out; the caller releases it later.
Return(t) ==
    /\ pc[t] = "returned"
    /\ pc' = [pc EXCEPT ![t] = "idle"]
    /\ mine' = [mine EXCEPT ![t] = None]
    /\ UNCHANGED <<dq, dq_size, dq_seq, stats, sched_policy, chosen, served, submits>>

\* sys_setdisksched rejects other values before it calls this.
disksched_set_policy(policy) ==
    /\ sched_policy' = policy
    /\ UNCHANGED <<dq, dq_size, dq_seq, stats, pc, mine, chosen, served, submits>>

Next == \/ \E t \in Threads, b \in Buf, blk \in Block, w \in {0, 1}, prio \in Prio :
              disksched_submit(t, b, blk, w, prio)
        \/ \E t \in Threads : virtio_disk_rw(t) \/ Return(t)
        \/ \E policy \in {FCFS, SSTF} : disksched_set_policy(policy)

Spec == Init /\ [][Next]_vars

-----------------------------------------------------------------------------
(* Properties. *)

\* Whenever dq_lock is free the queue is empty: each disksched_submit takes out what
\* it put in.  So "queue full" is never reached, whatever the number of threads, and
\* SSTF never has two requests to choose from.
QueueDrained == /\ Valid(dq) = {}
                /\ dq_size = 0
                /\ \A t \in Threads : pc[t] # "panic"

\* The I/O a thread performs after disksched_submit's critical section is the one
\* for the buffer it locked, whatever the others submit and set in between.
PerformsOwnRequest == \A t \in Threads : pc[t] = "io" => chosen[t] = mine[t]

\* Two threads never have a request for the same buffer at the driver.
IoExclusive == \A t, u \in Threads : pc[t] = "io" /\ pc[u] = "io" /\ chosen[t] = chosen[u] => t = u

\* When disksched_submit returns, the I/O on the caller's buffer has been done:
\* "Return a locked buf with the contents of the indicated block" (bio.c:92).
BreadGetsBlock == \A t \in Threads : pc[t] = "returned" => mine[t] \in served

\* disksched_submit serves its caller: the queue never holds anybody else's request, so that
\* each thread does the I/O of its own buffer, alone, and has it when it returns.
ServesCaller == TypeOK /\ QueueDrained /\ PerformsOwnRequest /\ IoExclusive /\ BreadGetsBlock
=============================================================================
