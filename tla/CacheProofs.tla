---------------------------- MODULE CacheProofs ----------------------------
(***************************************************************************)
(* Proofs about DiskSched, and the part of the proofs about the disk stack  *)
(* (BufCache over DiskSched over Virtio) that concerns bio.c: for any set   *)
(* of threads, buffers and blocks, any queue length and any number of       *)
(* descriptors, in behaviours of fewer submissions than dq_seq has values.  *)
(***************************************************************************)
EXTENDS BufCache, FiniteSetTheorems, TLAPS

-----------------------------------------------------------------------------
\* The request queue.

EmptyQueue == [i \in Slot |-> NoReq]

\* The inductive invariant: an empty queue, a sequence number that has not wrapped,
\* and threads that hold different buffers and work on their own.
DrainInv ==
    /\ TypeOK
    /\ dq = EmptyQueue
    /\ dq_size = 0
    /\ dq_seq = submits
    /\ \A t \in Threads : /\ pc[t] # "panic"
                          /\ pc[t] = "io" => chosen[t] = mine[t]
                          /\ pc[t] # "idle" => mine[t] \in Buf
                          /\ pc[t] = "returned" => mine[t] \in served
    /\ \A t, u \in Threads : mine[t] = mine[u] /\ mine[t] \in Buf => t = u

\* The first free slot of an empty queue is slot 0.
LEMMA EmptySlot ==
    ASSUME dq = EmptyQueue
    PROVE  dq_alloc_slot = 0 /\ 0 \in Slot
<1>1. 0 \in Slot /\ Slot \subseteq Nat
  BY DiskAssumption DEF Slot
<1>2. Valid(dq) = {}
  BY Zenon DEF Valid, EmptyQueue, NoReq
<1> DEFINE P(i) == \A j \in Slot \ Valid(dq) : i <= j
<1>3. \A i \in Slot \ Valid(dq) : P(i) => i = 0
  BY <1>1, <1>2
<1>4. 0 \in Slot \ Valid(dq) /\ P(0)
  BY <1>1, <1>2
<1>5. (CHOOSE i \in Slot \ Valid(dq) : P(i)) = 0
  BY <1>3, <1>4, Zenon
<1>6. Valid(dq) # Slot
  BY <1>1, <1>2, Zenon
<1> QED
  BY <1>1, <1>5, <1>6, Zenon DEF dq_alloc_slot

\* With one request in the queue, whose sequence number is not the last one, both
\* policies pick it.
LEMMA PickOnly ==
    ASSUME NEW q, NEW s \in Slot, Valid(q) = {s}, q[s].seq \in Nat, q[s].seq < UINT - 1
    PROVE  Pick(q) = s
<1>0. s \in Int
  BY DiskAssumption DEF Slot
<1>1. pick_fcfs(q) = s
  <2> DEFINE S == {i \in Valid(q) : q[i].seq < UINT - 1}
             P(i) == \A j \in S : \/ q[i].seq < q[j].seq
                                  \/ q[i].seq = q[j].seq /\ i <= j
  <2>1. S = {s}
    BY Zenon
  <2>2. P(s)
    BY <1>0, <2>1
  <2>3. (CHOOSE i \in S : P(i)) = s
    <3> HIDE DEF P
    <3> QED BY <2>1, <2>2, Zenon
  <2> QED
    BY <2>1, <2>3, Zenon DEF pick_fcfs
<1>2. pick_sstf(q) = s
  <2> DEFINE before(i, j) == \/ Dist(q[i].blockno) < Dist(q[j].blockno)
                             \/ /\ Dist(q[i].blockno) = Dist(q[j].blockno)
                                /\ \/ q[i].priority < q[j].priority
                                   \/ q[i].priority = q[j].priority /\ i <= j
             P(i) == \A j \in Valid(q) : before(i, j)
  <2>1. P(s)
    BY <1>0
  <2>2. (CHOOSE i \in Valid(q) : P(i)) = s
    <3> HIDE DEF P
    <3> QED BY <2>1, Zenon
  <2> QED
    BY <2>2, Zenon DEF pick_sstf
<1> QED
  BY <1>1, <1>2, Zenon DEF Pick

\* disksched_submit leaves the queue as it found it and goes on with its own request.
LEMMA SubmitOwn ==
    ASSUME DrainInv, MAX_OPS < UINT,
           NEW t \in Threads, NEW b \in Buf, NEW blk \in Block, NEW w \in {0, 1}, NEW prio \in Prio,
           disksched_submit(t, b, blk, w, prio)
    PROVE  /\ dq' = EmptyQueue
           /\ dq_size' = 0
           /\ dq_seq' = submits'
           /\ chosen' = [chosen EXCEPT ![t] = b]
           /\ pc' = [pc EXCEPT ![t] = "io"]
           /\ total_latency' \in Nat /\ total_ops' \in Nat /\ current_head' = blk
<1> DEFINE r == [valid |-> TRUE, buf |-> b, write |-> w, blockno |-> blk,
                 priority |-> prio, seq |-> dq_seq]
           q == [dq EXCEPT ![0] = r]
<1>1. dq_alloc_slot = 0 /\ 0 \in Slot
  BY EmptySlot, Zenon DEF DrainInv
<1>2. dq_seq \in Nat /\ dq_seq < UINT - 1 /\ (dq_seq + 1) % UINT = dq_seq + 1
      /\ submits \in Nat /\ submits' = submits + 1 /\ dq_seq = submits
  BY DiskAssumption DEF DrainInv, TypeOK, disksched_submit
<1>3. Valid(q) = {0} /\ q[0] = r
  BY <1>1, Zenon DEF DrainInv, EmptyQueue, Valid, NoReq
<1>4. Pick(q) = 0
  <2>1. q[0].seq = dq_seq
    BY <1>3
  <2> HIDE DEF q
  <2> QED BY <1>1, <1>2, <1>3, <2>1, PickOnly, Zenon
<1>5. None # 0
  BY DEF None
<1>6. /\ dq_seq' = (dq_seq + 1) % UINT
      /\ Extract(q, 0)
      /\ dq_size' = dq_size
      /\ chosen' = [chosen EXCEPT ![t] = q[0].buf]
      /\ pc' = [pc EXCEPT ![t] = "io"]
  BY <1>1, <1>4, <1>5, Zenon DEF disksched_submit
<1>7. dq' = EmptyQueue
  BY <1>1, <1>6, Zenon DEF Extract, DrainInv, EmptyQueue
<1>8. current_head' = blk /\ total_ops' = total_ops + 1
      /\ total_latency' = total_latency + Dist(blk) + ROTATIONAL_CONST
  BY <1>3, <1>6 DEF Extract, compute_and_record_latency
<1>9. Dist(blk) \in Nat
  BY DiskAssumption DEF Dist, DrainInv, TypeOK
<1>10. total_latency' \in Nat /\ total_ops' \in Nat
  BY <1>8, <1>9 DEF DrainInv, TypeOK, ROTATIONAL_CONST
<1>11. dq_size' = 0 /\ chosen' = [chosen EXCEPT ![t] = b]
  <2>1. q[0].buf = b
    BY <1>3
  <2> HIDE DEF q
  <2> QED BY <1>6, <2>1, Zenon DEF DrainInv
<1> QED
  BY <1>2, <1>6, <1>7, <1>8, <1>10, <1>11, Zenon

\* Every step of disksched keeps the invariant while dq_seq has not wrapped.
LEMMA DrainStep ==
    ASSUME MAX_OPS < UINT, DrainInv, [Next]_vars
    PROVE  DrainInv'
<1>0. NoReq \in Req
  BY DiskAssumption DEF NoReq, Req
<1>1. ASSUME NEW t \in Threads, NEW b \in Buf, NEW blk \in Block, NEW w \in {0, 1}, NEW prio \in Prio,
             disksched_submit(t, b, blk, w, prio)
      PROVE  DrainInv'
  <2>1. /\ dq' = EmptyQueue /\ dq_size' = 0 /\ dq_seq' = submits'
        /\ chosen' = [chosen EXCEPT ![t] = b]
        /\ pc' = [pc EXCEPT ![t] = "io"]
        /\ total_latency' \in Nat /\ total_ops' \in Nat /\ current_head' = blk
    BY <1>1, SubmitOwn
  <2>2. /\ pc[t] = "idle" /\ \A u \in Threads : mine[u] # b
        /\ mine' = [mine EXCEPT ![t] = b]
        /\ served' = served \ {b}
        /\ submits' = submits + 1 /\ submits < MAX_OPS
        /\ sched_policy' = sched_policy
    BY <1>1, Zenon DEF disksched_submit
  <2>3. TypeOK'
    BY <1>0, <2>1, <2>2, DiskAssumption DEF DrainInv, TypeOK, EmptyQueue
  <2>4. \A u \in Threads : /\ pc'[u] # "panic"
                           /\ pc'[u] = "io" => chosen'[u] = mine'[u]
                           /\ pc'[u] # "idle" => mine'[u] \in Buf
                           /\ pc'[u] = "returned" => mine'[u] \in served'
    BY <2>1, <2>2, Zenon DEF DrainInv, TypeOK
  <2>5. \A u, v \in Threads : mine'[u] = mine'[v] /\ mine'[u] \in Buf => u = v
    BY <2>2, Zenon DEF DrainInv, TypeOK
  <2> QED
    BY <2>1, <2>3, <2>4, <2>5, Zenon DEF DrainInv
<1>2. ASSUME NEW t \in Threads, virtio_disk_rw(t)
      PROVE  DrainInv'
  <2>1. mine[t] \in Buf /\ chosen[t] = mine[t]
    BY <1>2, Zenon DEF virtio_disk_rw, DrainInv
  <2>2. TypeOK'
    BY <1>2, <2>1, Zenon DEF virtio_disk_rw, DrainInv, TypeOK, stats
  <2> QED
    BY <1>2, <2>1, <2>2, Zenon DEF virtio_disk_rw, DrainInv, TypeOK
<1>3. ASSUME NEW t \in Threads, Return(t)
      PROVE  DrainInv'
  <2>1. TypeOK'
    BY <1>3, Zenon DEF Return, DrainInv, TypeOK, stats
  <2>2. None \notin Buf
    BY DiskAssumption, Zenon
  <2> QED
    BY <1>3, <2>1, <2>2 DEF Return, DrainInv, TypeOK
<1>4. ASSUME NEW policy \in {FCFS, SSTF}, disksched_set_policy(policy)
      PROVE  DrainInv'
  BY <1>4, Zenon DEF disksched_set_policy, DrainInv, TypeOK, stats
<1>5. CASE UNCHANGED vars
  BY <1>5, Zenon DEF vars, stats, DrainInv, TypeOK
<1> QED
  BY <1>1, <1>2, <1>3, <1>4, <1>5, Zenon DEF Next

\* An empty queue, and every thread at its own request: what disksched_submit owes bread.
LEMMA DrainServes ==
    ASSUME DrainInv
    PROVE  ServesCaller
<1> SUFFICES QueueDrained /\ PerformsOwnRequest /\ IoExclusive /\ BreadGetsBlock
  BY Zenon DEF DrainInv, ServesCaller
<1>1. Valid(dq) = {}
  BY Zenon DEF DrainInv, Valid, EmptyQueue, NoReq
<1> QED
  BY <1>1, Zenon DEF DrainInv, QueueDrained, PerformsOwnRequest, IoExclusive, BreadGetsBlock

\* With fewer submissions than sequence numbers, the queue is empty whenever dq_lock
\* is free, each thread performs its own I/O, no buffer is at the driver twice, and
\* bread returns a buffer that has been read: for any number of threads and any
\* queue length.
THEOREM DrainCorrect ==
    MAX_OPS < UINT => (Spec => []ServesCaller)
<1> SUFFICES ASSUME MAX_OPS < UINT
             PROVE  Spec => []ServesCaller
  BY Zenon
<1>1. Init => DrainInv
  BY DiskAssumption DEF Init, DrainInv, TypeOK, EmptyQueue, NoReq, Req, FCFS
<1>2. DrainInv /\ [Next]_vars => DrainInv'
  BY DrainStep, Zenon
<1>3. DrainInv => ServesCaller
  BY DrainServes, Zenon
<1> QED
  BY <1>1, <1>2, <1>3, PTL DEF Spec

-----------------------------------------------------------------------------
\* The disk stack: the inductive invariant.

Stage   == {"out", "bread", "reading", "holds", "changed", "writing", "written", "done", "brelse"}
Filled  == {"holds", "changed", "writing", "written", "done"}
Holding == Filled \cup {"reading"}

Content == Val \cup {0}
OpType  == [b : Buf \cup {None}, blockno : Block \cup {0}, write : {0, 1}]
InfoType == [b : Buf \cup {None}, status : {0, 255}]

CacheTypes ==
    /\ blockno \in [Buf -> Block \cup {0}] /\ data \in [Buf -> Content]
    /\ valid \in [Buf -> BOOLEAN] /\ refcnt \in [Buf -> Nat] /\ lock \in [Buf -> Threads \cup {None}]
    /\ wr \in [Buf -> {0, 1}] /\ pinned \subseteq Buf
    /\ at \in [Threads -> Stage] /\ my \in [Threads -> Buf \cup {None}]
    /\ image \in [Block -> Content] /\ latest \in [Block -> Content]

RingTypes ==
    /\ NUM \in NUMS /\ free \subseteq Desc /\ next \in [Desc -> Desc \cup {None}]
    /\ ops \in [Desc -> OpType] /\ info \in [Desc -> InfoType]
    /\ avail \in Seq(Desc) /\ used \in Seq(Desc)
    /\ owned \in [Buf -> BOOLEAN]
    /\ head \in [Threads -> Desc \cup {None}] /\ rw \in [Threads -> {"ready", "free", "buf"}]
    /\ intr \in BOOLEAN /\ pending \in BOOLEAN

\* Where a thread is in bio.c says where it is in disksched_submit, and which lock it holds.
ControlOK(t) ==
    /\ my[t] = None <=> at[t] = "out"
    /\ pc[t] # "idle" <=> at[t] \in {"reading", "writing"}
    /\ pc[t] # "idle" => mine[t] = my[t]
    /\ pc[t] = "idle" => mine[t] = None
    /\ pc[t] # "io" => head[t] = None /\ rw[t] = "ready"
    /\ at[t] \in Holding => lock[my[t]] = t

Control ==
    /\ \A t \in Threads : ControlOK(t)
    /\ \A b \in Buf : lock[b] # None => my[lock[b]] = b /\ at[lock[b]] \in Holding

Users(b) == {t \in Threads : my[t] = b}

\* The list holds every buffer once, a block has one buffer, and the counts are exact.
Lru == lru \in Seq(Buf) /\ Len(lru) = Cardinality(Buf) /\ \A b \in Buf : \E i \in DOMAIN lru : lru[i] = b

Counts ==
    /\ \A b, c \in Buf : blockno[b] = blockno[c] /\ blockno[b] # 0 => b = c
    /\ \A b \in Buf : refcnt[b] = Cardinality(Users(b)) + (IF b \in pinned THEN 1 ELSE 0)
    /\ \A t \in Threads : my[t] # None => blockno[my[t]] # 0

\* Has the device done the request of t?
Answered(t) == pc[t] = "returned" \/ (head[t] # None /\ head[t] \notin Range(avail))

\* A valid buffer has the latest content of its block; the disk has it too, unless the
\* buffer is pinned or its holder has yet to write it.
DataOK(t) ==
    /\ at[t] \in Filled => valid[my[t]]
    /\ at[t] = "reading" => ~valid[my[t]] /\ wr[my[t]] = 0
    /\ at[t] = "writing" => wr[my[t]] = 1
    /\ at[t] = "written" => my[t] \in pinned
    /\ at[t] = "reading" /\ Answered(t) => data[my[t]] = latest[blockno[my[t]]]
    /\ (at[t] = "writing" /\ Answered(t)) \/ at[t] = "written" =>
          image[blockno[my[t]]] = latest[blockno[my[t]]]

Dirty(b) == b \in pinned \/ \E t \in Threads : my[t] = b /\ at[t] \in {"changed", "writing"}

Contents ==
    /\ \A b \in Buf : valid[b] => blockno[b] # 0 /\ data[b] = latest[blockno[b]]
    /\ \A b \in pinned : valid[b]
    /\ \A t \in Threads : DataOK(t)
    /\ \A n \in Block : image[n] = latest[n] \/ \E b \in Buf : blockno[b] = n /\ valid[b] /\ Dirty(b)

-----------------------------------------------------------------------------
Distinct(s) == \A i, j \in DOMAIN s : s[i] = s[j] => i = j
InRings == Range(avail) \cup Range(used)
Busy == {t \in Threads : head[t] # None}

\* The request of a thread with a chain, and how far it is.
RequestOK(t) ==
    /\ info[head[t]].b = my[t]
    /\ ops[head[t]] = [b |-> my[t], blockno |-> blockno[my[t]], write |-> wr[my[t]]]
    /\ owned[my[t]] <=> head[t] \in InRings

Chains ==
    /\ \A t \in Busy : Chain(head[t]) \subseteq Desc \ free
    /\ \A t, u \in Busy : t # u => Chain(head[t]) \cap Chain(head[u]) = {}
    /\ \A d \in Desc \ free : \E t \in Busy : d \in Chain(head[t])

Rings ==
    /\ Distinct(avail) /\ Distinct(used) /\ Range(avail) \cap Range(used) = {}
    /\ \A d \in InRings : \E t \in Busy : head[t] = d
    /\ \A t \in Busy : RequestOK(t)
    /\ \A b \in Buf : owned[b] => \E t \in Busy : my[t] = b
    /\ \A d \in Range(used) : info[d].status = 0

Wakes ==
    /\ used # <<>> => pending \/ intr
    /\ \A t \in Threads : /\ rw[t] = "buf" => head[t] # None /\ owned[my[t]]
                          /\ rw[t] = "free" => head[t] = None /\ Cardinality(free) < 3

\* The inductive invariant of the disk stack.
DiskInv ==
    /\ DrainInv /\ CacheTypes /\ RingTypes
    /\ Control /\ Lru /\ Counts /\ Contents
    /\ Chains /\ Rings /\ Wakes

-----------------------------------------------------------------------------
\* Sequences: what the rings and the list need of Append, Tail and Without.

\* An entry added to a ring: the device or the driver puts it at the end.
LEMMA AppendFacts ==
    ASSUME NEW S, NEW s \in Seq(S), NEW e \in S
    PROVE  /\ Append(s, e) \in Seq(S) /\ Range(Append(s, e)) = Range(s) \cup {e}
           /\ Append(s, e) # <<>>
           /\ Distinct(s) /\ e \notin Range(s) => Distinct(Append(s, e))
<1>1. /\ Append(s, e) \in Seq(S) /\ Len(Append(s, e)) = Len(s) + 1 /\ Len(s) \in Nat
      /\ DOMAIN s = 1 .. Len(s) /\ DOMAIN Append(s, e) = 1 .. Len(s) + 1
  OBVIOUS
<1>2. /\ \A i \in 1 .. Len(s) : Append(s, e)[i] = s[i]
      /\ Append(s, e)[Len(s) + 1] = e
  OBVIOUS
<1>3. Range(Append(s, e)) = Range(s) \cup {e}
  <2>1. \A i \in DOMAIN Append(s, e) : Append(s, e)[i] \in Range(s) \cup {e}
    BY <1>1, <1>2 DEF Range
  <2>2. \A i \in DOMAIN s : s[i] \in Range(Append(s, e))
    BY <1>1, <1>2 DEF Range
  <2>3. e \in Range(Append(s, e))
    BY <1>1, <1>2 DEF Range
  <2> QED
    BY <2>1, <2>2, <2>3, Zenon DEF Range
<1>4. ASSUME Distinct(s), e \notin Range(s)
      PROVE  Distinct(Append(s, e))
  <2>1. \A i \in 1 .. Len(s) : s[i] # e
    BY <1>1, <1>4, Zenon DEF Range
  <2> QED
    BY <1>1, <1>2, <1>4, <2>1 DEF Distinct
<1>5. Append(s, e) # <<>>
  BY <1>1
<1> QED
  BY <1>1, <1>3, <1>4, <1>5, Zenon

\* The oldest entry of a ring taken out: the other entries stay, each once.
LEMMA TailFacts ==
    ASSUME NEW S, NEW s \in Seq(S), s # <<>>, Distinct(s)
    PROVE  /\ Tail(s) \in Seq(S) /\ Head(s) \in Range(s) /\ Head(s) \in S
           /\ Range(Tail(s)) = Range(s) \ {Head(s)} /\ Distinct(Tail(s))
<1>1. /\ Tail(s) \in Seq(S) /\ Len(s) \in Nat /\ Len(s) > 0 /\ Len(Tail(s)) = Len(s) - 1
      /\ DOMAIN s = 1 .. Len(s) /\ DOMAIN Tail(s) = 1 .. Len(s) - 1
      /\ Head(s) = s[1]
  OBVIOUS
<1>2. \A i \in 1 .. Len(s) - 1 : Tail(s)[i] = s[i + 1]
  OBVIOUS
<1>3. Head(s) \in Range(s) /\ Head(s) \in S
  BY <1>1 DEF Range
<1>4. Range(Tail(s)) = Range(s) \ {Head(s)}
  <2>1. \A i \in DOMAIN Tail(s) : Tail(s)[i] \in Range(s) \ {Head(s)}
    BY <1>1, <1>2 DEF Range, Distinct
  <2>2. ASSUME NEW i \in DOMAIN s, s[i] # Head(s)
        PROVE  s[i] \in Range(Tail(s))
    <3>1. i - 1 \in DOMAIN Tail(s) /\ Tail(s)[i - 1] = s[i]
      BY <1>1, <1>2, <2>2
    <3> QED
      BY <3>1, Zenon DEF Range
  <2> QED
    BY <2>1, <2>2, Zenon DEF Range
<1>5. Distinct(Tail(s))
  BY <1>1, <1>2 DEF Distinct
<1> QED
  BY <1>1, <1>3, <1>4, <1>5, Zenon

\* An entry taken out of the middle, as the device and brelse's list do: the order of the others stays.
LEMMA WithoutFacts ==
    ASSUME NEW S, NEW s \in Seq(S), NEW i \in DOMAIN s
    PROVE  /\ Without(s, i) \in Seq(S) /\ Len(Without(s, i)) = Len(s) - 1
           /\ Len(s) \in Nat /\ DOMAIN s = 1 .. Len(s)
           /\ \A j \in 1 .. Len(s) - 1 : Without(s, i)[j] = IF j < i THEN s[j] ELSE s[j + 1]
<1>1. Len(s) \in Nat /\ DOMAIN s = 1 .. Len(s) /\ i \in 1 .. Len(s)
  OBVIOUS
<1> DEFINE a == SubSeq(s, 1, i - 1)  b == SubSeq(s, i + 1, Len(s))
<1>2. a \in Seq(S) /\ Len(a) = i - 1 /\ \A j \in 1 .. i - 1 : a[j] = s[j]
  BY <1>1
<1>3. b \in Seq(S) /\ Len(b) = Len(s) - i /\ \A j \in 1 .. Len(s) - i : b[j] = s[j + i]
  BY <1>1
<1> HIDE DEF a, b
<1>4. /\ a \o b \in Seq(S) /\ Len(a \o b) = Len(a) + Len(b)
      /\ \A j \in 1 .. Len(a) + Len(b) : (a \o b)[j] = IF j <= Len(a) THEN a[j] ELSE b[j - Len(a)]
  <2>1. a \in Seq(S) /\ b \in Seq(S)
    BY <1>2, <1>3, Zenon
  <2> QED
    BY <2>1
<1>5. Without(s, i) = a \o b
  BY Zenon DEF Without, a, b
<1>6. i \in Nat /\ Len(a) + Len(b) = Len(s) - 1
  BY <1>1, <1>2, <1>3
<1>7. ASSUME NEW j \in 1 .. Len(s) - 1
      PROVE  (a \o b)[j] = IF j < i THEN s[j] ELSE s[j + 1]
  <2>1. (a \o b)[j] = IF j <= i - 1 THEN a[j] ELSE b[j - (i - 1)]
    BY <1>2, <1>4, <1>6, Zenon
  <2>2. CASE j < i
    <3>1. j <= i - 1 /\ j \in 1 .. i - 1
      BY <1>1, <1>6, <2>2
    <3> QED
      BY <1>2, <2>1, <2>2, <3>1, Zenon
  <2>3. CASE ~(j < i)
    <3>1. ~(j <= i - 1) /\ j - (i - 1) \in 1 .. Len(s) - i /\ (j - (i - 1)) + i = j + 1
      BY <1>1, <1>6, <2>3
    <3>2. b[j - (i - 1)] = s[j + 1]
      BY <1>3, <3>1, Zenon
    <3> QED
      BY <2>1, <2>3, <3>1, <3>2, Zenon
  <2> QED
    BY <2>2, <2>3, Zenon
<1>8. Without(s, i) \in Seq(S) /\ Len(Without(s, i)) = Len(s) - 1
  BY <1>4, <1>5, <1>6, Zenon
<1> QED
  BY <1>1, <1>5, <1>7, <1>8, Zenon

\* Taking one entry out of a ring of different ones.
LEMMA RingRemove ==
    ASSUME NEW S, NEW s \in Seq(S), NEW i \in DOMAIN s, Distinct(s)
    PROVE  /\ Without(s, i) \in Seq(S) /\ Distinct(Without(s, i))
           /\ Range(Without(s, i)) = Range(s) \ {s[i]}
<1> DEFINE r == Without(s, i)
<1>1. /\ r \in Seq(S) /\ Len(r) = Len(s) - 1 /\ Len(s) \in Nat /\ DOMAIN s = 1 .. Len(s)
      /\ \A j \in 1 .. Len(s) - 1 : r[j] = IF j < i THEN s[j] ELSE s[j + 1]
  BY WithoutFacts, Zenon
<1> HIDE DEF r
<1>2. DOMAIN r = 1 .. Len(s) - 1
  BY <1>1
<1>3. Distinct(r)
  <2> DEFINE k(j) == IF j < i THEN j ELSE j + 1
  <2>1. \A j \in DOMAIN r : k(j) \in DOMAIN s /\ r[j] = s[k(j)]
    BY <1>1, <1>2
  <2>2. \A j, l \in DOMAIN r : k(j) = k(l) => j = l
    BY <1>1, <1>2
  <2> HIDE DEF k
  <2> QED
    BY <2>1, <2>2, Zenon DEF Distinct
<1>4. \A j \in DOMAIN r : r[j] \in Range(s) \ {s[i]}
  BY <1>1, <1>2 DEF Distinct, Range
<1>5. ASSUME NEW j \in DOMAIN s, s[j] # s[i]
      PROVE  s[j] \in Range(r)
  <2>1. CASE j < i
    <3>1. j \in DOMAIN r /\ r[j] = s[j]
      BY <1>1, <1>2, <2>1
    <3> QED
      BY <3>1, Zenon DEF Range
  <2>2. CASE ~(j < i)
    <3>1. j - 1 \in DOMAIN r /\ r[j - 1] = s[j]
      BY <1>1, <1>2, <1>5, <2>2
    <3> QED
      BY <3>1, Zenon DEF Range
  <2> QED
    BY <2>1, <2>2, Zenon
<1>6. Range(r) = Range(s) \ {s[i]}
  BY <1>4, <1>5, Zenon DEF Range
<1> QED
  BY <1>1, <1>3, <1>6, Zenon DEF r

\* Moving one buffer to the front keeps the others in the list (brelse).
LEMMA MoveToFront ==
    ASSUME Lru, NEW i \in DOMAIN lru, lru' = <<lru[i]>> \o Without(lru, i)
    PROVE  Lru'
<1> DEFINE r == Without(lru, i)
<1>1. /\ r \in Seq(Buf) /\ Len(r) = Len(lru) - 1 /\ Len(lru) \in Nat /\ DOMAIN lru = 1 .. Len(lru)
      /\ \A j \in 1 .. Len(lru) - 1 : r[j] = IF j < i THEN lru[j] ELSE lru[j + 1]
  BY WithoutFacts, Zenon DEF Lru
<1> HIDE DEF r
<1>2. lru' = <<lru[i]>> \o r /\ <<lru[i]>> \in Seq(Buf) /\ Len(<<lru[i]>>) = 1 /\ <<lru[i]>>[1] = lru[i]
  BY <1>1 DEF r, Lru
<1> DEFINE f == <<lru[i]>>
<1> HIDE DEF f
<1>3. /\ lru' \in Seq(Buf) /\ Len(lru') = Len(lru) /\ DOMAIN lru' = 1 .. Len(lru)
      /\ lru'[1] = lru[i] /\ \A j \in 2 .. Len(lru) : lru'[j] = r[j - 1]
  <2>1. lru' = f \o r /\ f \in Seq(Buf) /\ Len(f) = 1 /\ f[1] = lru[i]
    BY <1>2, Zenon DEF f
  <2>2. /\ f \o r \in Seq(Buf) /\ Len(f \o r) = Len(lru)
        /\ \A j \in 1 .. Len(lru) : (f \o r)[j] = IF j <= 1 THEN f[j] ELSE r[j - 1]
    <3>0. f \in Seq(Buf) /\ r \in Seq(Buf)
      BY <1>1, <2>1, Zenon
    <3>1. f \o r \in Seq(Buf) /\ Len(f \o r) = Len(f) + Len(r)
      BY <3>0
    <3>2. \A j \in 1 .. Len(f) + Len(r) : (f \o r)[j] = IF j <= Len(f) THEN f[j] ELSE r[j - Len(f)]
      BY <3>0
    <3>3. Len(f) + Len(r) = Len(lru)
      BY <1>1, <2>1
    <3> QED
      BY <2>1, <3>1, <3>2, <3>3, Zenon
  <2>3. Len(lru) \in Nat \ {0}
    BY <1>1
  <2>4. \A j \in 2 .. Len(lru) : j \in 1 .. Len(lru) /\ ~(j <= 1)
    BY <2>3
  <2>5. (f \o r)[1] = f[1]
    BY <2>2, <2>3
  <2>6. \A j \in 2 .. Len(lru) : (f \o r)[j] = r[j - 1]
    BY <2>2, <2>4, Zenon
  <2>7. DOMAIN lru' = 1 .. Len(lru)
    BY <2>1, <2>2
  <2> QED
    BY <2>1, <2>2, <2>5, <2>6, <2>7, Zenon
<1>4. ASSUME NEW b \in Buf
      PROVE  \E j \in DOMAIN lru' : lru'[j] = b
  <2>1. PICK k \in DOMAIN lru : lru[k] = b
    BY Zenon DEF Lru
  <2>2. CASE k = i
    <3>1. 1 \in DOMAIN lru'
      BY <1>1, <1>3
    <3> QED
      BY <1>3, <2>1, <2>2, <3>1, Zenon
  <2>3. CASE k < i
    <3>1. k + 1 \in 2 .. Len(lru) /\ lru'[k + 1] = b
      BY <1>1, <1>3, <2>1, <2>3
    <3> QED
      BY <1>3, <3>1
  <2>4. CASE k > i
    <3>1. k \in 2 .. Len(lru) /\ lru'[k] = b
      BY <1>1, <1>3, <2>1, <2>4
    <3> QED
      BY <1>3, <3>1
  <2> QED
    BY <1>1, <2>2, <2>3, <2>4
<1> QED
  BY <1>3, <1>4, Zenon DEF Lru

-----------------------------------------------------------------------------
\* What the invariant says of a thread at the driver, and of the holder of a buffer.

\* A thread in virtio_disk_rw reads or writes the buffer it has locked.
LEMMA IoThread ==
    ASSUME DiskInv, NEW t \in Threads, pc[t] = "io"
    PROVE  /\ at[t] \in {"reading", "writing"} /\ my[t] \in Buf /\ chosen[t] = my[t] /\ mine[t] = my[t]
           /\ lock[my[t]] = t /\ blockno[my[t]] \in Block
<1>1. ControlOK(t) /\ my[t] \in Buf \cup {None} /\ chosen[t] = mine[t] /\ mine[t] \in Buf
  BY Zenon DEF DiskInv, Control, CacheTypes, DrainInv
<1>2. at[t] \in {"reading", "writing"} /\ at[t] \in Holding /\ mine[t] = my[t]
  BY <1>1, Zenon DEF ControlOK, Holding, Filled
<1>3. my[t] \in Buf /\ my[t] # None
  BY <1>1, <1>2, DiskAssumption, Zenon
<1>4. lock[my[t]] = t
  BY <1>1, <1>2, Zenon DEF ControlOK
<1>5. blockno[my[t]] \in Block
  BY <1>3 DEF DiskInv, Counts, CacheTypes
<1> QED
  BY <1>1, <1>2, <1>3, <1>4, <1>5, Zenon

\* One with a chain of descriptors is such a thread.
LEMMA BusyThread ==
    ASSUME DiskInv, NEW t \in Busy
    PROVE  t \in Threads /\ pc[t] = "io" /\ head[t] \in Desc /\ my[t] \in Buf /\ at[t] \in {"reading", "writing"}
<1>1. t \in Threads /\ head[t] # None
  BY Zenon DEF Busy
<1>2. pc[t] = "io" /\ head[t] \in Desc
  BY <1>1 DEF DiskInv, Control, ControlOK, RingTypes
<1> QED
  BY <1>1, <1>2, IoThread, Zenon

\* A buffer's sleep lock has one holder.
LEMMA OneHolder ==
    ASSUME DiskInv, NEW t \in Threads, at[t] \in Holding
    PROVE  /\ my[t] \in Buf /\ lock[my[t]] = t /\ blockno[my[t]] \in Block
           /\ \A u \in Threads : at[u] \in Holding /\ my[u] = my[t] => u = t
<1>1. ControlOK(t) /\ my[t] \in Buf \cup {None} /\ \A u \in Threads : ControlOK(u)
  BY Zenon DEF DiskInv, Control, CacheTypes
<1>2. at[t] # "out"
  BY Zenon DEF Holding, Filled
<1>3. my[t] \in Buf /\ my[t] # None
  BY <1>1, <1>2, Zenon DEF ControlOK
<1>4. blockno[my[t]] \in Block
  BY <1>3 DEF DiskInv, Counts, CacheTypes
<1>5. \A u \in Threads : at[u] \in Holding => lock[my[u]] = u
  BY <1>1, Zenon DEF ControlOK
<1> QED
  BY <1>3, <1>4, <1>5, Zenon

\* Threads at the driver have different buffers, and their chains different heads.
LEMMA BusyApart ==
    ASSUME DiskInv, NEW t \in Busy, NEW u \in Busy, t # u
    PROVE  my[t] # my[u] /\ head[t] # head[u]
<1>1. /\ t \in Threads /\ u \in Threads
      /\ at[t] \in {"reading", "writing"} /\ at[u] \in {"reading", "writing"}
  BY BusyThread, Zenon
<1>2. at[t] \in Holding /\ at[u] \in Holding
  BY <1>1, Zenon DEF Holding, Filled
<1>3. my[t] # my[u]
  BY <1>1, <1>2, OneHolder, Zenon
<1>4. Chain(head[t]) \cap Chain(head[u]) = {}
  BY Zenon DEF DiskInv, Chains
<1>5. head[t] \in Chain(head[t]) /\ head[u] \in Chain(head[u])
  BY Zenon DEF Chain
<1> QED
  BY <1>3, <1>4, <1>5, Zenon

\* A step of bio.c leaves the driver alone.
LEMMA RingsKept ==
    ASSUME DiskInv, UNCHANGED vqueue,
           \A t \in Busy : my'[t] = my[t] /\ blockno'[my[t]] = blockno[my[t]] /\ wr'[my[t]] = wr[my[t]]
    PROVE  RingTypes' /\ Chains' /\ Rings' /\ Wakes'
<1>1. /\ NUM' = NUM /\ owned' = owned /\ free' = free /\ next' = next /\ ops' = ops /\ info' = info
      /\ head' = head /\ rw' = rw /\ intr' = intr /\ pending' = pending /\ avail' = avail /\ used' = used
  BY Zenon DEF vqueue, driver, device
<1>2. Desc' = Desc /\ Busy' = Busy /\ InRings' = InRings
  BY <1>1, Zenon DEF Desc, Busy, InRings
<1>3. RingTypes'
  BY <1>1, <1>2, Zenon DEF DiskInv, RingTypes
<1>4. \A d : Chain(d)' = Chain(d)
  BY <1>1, Zenon DEF Chain
<1>5. Chains'
  BY <1>1, <1>2, <1>4, Zenon DEF DiskInv, Chains
<1>6. \A t \in Busy : RequestOK(t)'
  BY <1>1, <1>2 DEF DiskInv, Rings, RequestOK
<1>7. Rings'
  <2>1. /\ Distinct(avail)' = Distinct(avail) /\ Distinct(used)' = Distinct(used)
        /\ Range(avail)' = Range(avail) /\ Range(used)' = Range(used)
    BY <1>1, Zenon
  <2>2. \A b \in Buf : owned'[b] => \E t \in Busy : my'[t] = b
    <3>1. \A b \in Buf : owned[b] => \E t \in Busy : my[t] = b
      BY Zenon DEF DiskInv, Rings
    <3>2. \A t \in Busy : my'[t] = my[t]
      BY Zenon
    <3> QED
      BY <1>1, <3>1, <3>2, Zenon
  <2> QED
    BY <1>1, <1>2, <1>6, <2>1, <2>2, Zenon DEF DiskInv, Rings
<1>8. Wakes'
  <2>1. \A t \in Threads : rw[t] = "buf" => t \in Busy
    BY Zenon DEF DiskInv, Wakes, Busy
  <2> QED
    BY <1>1, <2>1, Zenon DEF DiskInv, Wakes
<1> QED
  BY <1>3, <1>5, <1>7, <1>8, Zenon

\* The steps of bio.c, of the driver and of the device are steps of DiskSched or leave it
\* alone, so that what is proved of DiskSched holds of the stack.
LEMMA SubmitIsSubmit ==
    ASSUME DiskInv, MAX_OPS < UINT, NEW t \in Threads, my[t] \in Buf, NEW w \in {0, 1}, Submit(t, w)
    PROVE  /\ DrainInv'
           /\ pc[t] = "idle"
           /\ pc' = [pc EXCEPT ![t] = "io"] /\ mine' = [mine EXCEPT ![t] = my[t]]
           /\ chosen' = [chosen EXCEPT ![t] = my[t]]
           /\ wr' = [wr EXCEPT ![my[t]] = w]
<1>1. DrainInv /\ blockno[my[t]] \in Block
  BY DiskAssumption DEF DiskInv, CacheTypes, Counts
<1>2. PICK prio \in Prio : disksched_submit(t, my[t], blockno[my[t]], w, prio)
  BY Zenon DEF Submit
<1>3. Next
  BY <1>1, <1>2, Zenon DEF Next
<1>4. DrainInv'
  BY <1>1, <1>3, DrainStep, Zenon
<1>5. pc' = [pc EXCEPT ![t] = "io"] /\ chosen' = [chosen EXCEPT ![t] = my[t]]
  BY <1>1, <1>2, SubmitOwn
<1>6. pc[t] = "idle" /\ mine' = [mine EXCEPT ![t] = my[t]]
  BY <1>2, Zenon DEF disksched_submit
<1> QED
  BY <1>4, <1>5, <1>6, Zenon DEF Submit

\* disksched_submit returns to bread or bwrite: the thread has no request any more.
LEMMA ReturnIsReturn ==
    ASSUME DiskInv, MAX_OPS < UINT, NEW t \in Threads, Return(t)
    PROVE  /\ DrainInv'
           /\ pc[t] = "returned"
           /\ pc' = [pc EXCEPT ![t] = "idle"] /\ mine' = [mine EXCEPT ![t] = None]
<1>1. DrainInv'
  BY DrainStep, Zenon DEF Next, DiskInv
<1> QED
  BY <1>1, Zenon DEF Return

\* A step that does not touch disksched.c keeps its invariant.
LEMMA DrainSame ==
    ASSUME DiskInv, UNCHANGED vars, MAX_OPS < UINT
    PROVE  DrainInv' /\ UNCHANGED <<pc, mine, chosen>>
BY DrainStep, Zenon DEF DiskInv, vars

-----------------------------------------------------------------------------
\* The steps of bio.c.

\* What is left to show of a step of bio.c that touches neither the request queue nor the driver.
LEMMA QuietStep ==
    ASSUME DiskInv, MAX_OPS < UINT, UNCHANGED <<vars, vqueue, wr>>,
           \A t \in Busy : my'[t] = my[t] /\ blockno'[my[t]] = blockno[my[t]],
           CacheTypes', Control', Lru', Counts', Contents'
    PROVE  DiskInv'
<1>1. UNCHANGED vqueue /\ wr' = wr /\ UNCHANGED vars
  BY Zenon
<1>2. DrainInv'
  BY <1>1, DrainSame, Zenon
<1>3. RingTypes' /\ Chains' /\ Rings' /\ Wakes'
  BY <1>1, RingsKept, Zenon
<1> QED
  BY <1>2, <1>3, Zenon DEF DiskInv

\* A thread that moves without touching a lock, a buffer or the queue.
LEMMA ThreadMoves ==
    ASSUME DiskInv, UNCHANGED <<vars, vqueue, lock>>, NEW t \in Threads, CacheTypes',
           \A u \in Threads \ {t} : at'[u] = at[u] /\ my'[u] = my[u],
           at[t] \notin {"reading", "writing"}, at'[t] \notin {"reading", "writing"},
           my'[t] = None <=> at'[t] = "out",
           at[t] \in Holding <=> at'[t] \in Holding, at[t] \in Holding => my'[t] = my[t]
    PROVE  Control'
<1>1. UNCHANGED <<pc, mine, head, rw, lock>>
  BY Zenon DEF vars, vqueue, driver
<1>2. \A u \in Threads : ControlOK(u)
  BY Zenon DEF DiskInv, Control
<1>3. ASSUME NEW u \in Threads \ {t}
      PROVE  ControlOK(u)'
  <2>1. ControlOK(u) /\ at'[u] = at[u] /\ my'[u] = my[u]
    BY <1>2, Zenon
  <2> QED
    BY <1>1, <2>1, Zenon DEF ControlOK
<1>4. ControlOK(t)'
  BY <1>1, <1>2 DEF ControlOK
<1>5. ASSUME NEW b \in Buf, lock'[b] # None
      PROVE  my'[lock'[b]] = b /\ at'[lock'[b]] \in Holding
  <2>1. lock[b] \in Threads /\ my[lock[b]] = b /\ at[lock[b]] \in Holding
    BY <1>1, <1>5 DEF DiskInv, Control, CacheTypes
  <2> QED
    BY <1>1, <2>1, Zenon
<1> QED
  BY <1>3, <1>4, <1>5, Zenon DEF Control

\* The contents when only the place and the buffer of one thread change.
LEMMA ContentsKept ==
    ASSUME DiskInv, UNCHANGED <<vars, vqueue, blockno, data, wr, valid, pinned, latest>>, NEW t \in Threads,
           \A u \in Threads \ {t} : at'[u] = at[u] /\ my'[u] = my[u],
           at[t] \notin {"changed", "writing"},
           at'[t] \in {"out", "bread", "brelse"} \/ (at'[t] = "holds" /\ valid[my'[t]])
    PROVE  Contents'
<1>1. UNCHANGED <<pc, head, avail, image>>
  BY Zenon DEF vars, vqueue, driver, device
<1>2. \A u \in Threads \ {t} : DataOK(u)'
  BY <1>1 DEF DiskInv, Contents, DataOK, Answered
<1>3. DataOK(t)'
  BY Zenon DEF DataOK, Filled
<1>4. \A b \in Buf : Dirty(b) => Dirty(b)'
  BY Zenon DEF Dirty
<1> QED
  BY <1>1, <1>2, <1>3, <1>4, Zenon DEF DiskInv, Contents

\* One more user of a buffer, and one fewer.
LEMMA UsersMove ==
    ASSUME CacheTypes, NEW t \in Threads, NEW b \in Buf \cup {None}, my' = [my EXCEPT ![t] = b]
    PROVE  \A c \in Buf : /\ Cardinality(Users(c)) \in Nat
                          /\ c # b /\ c # my[t] => Users(c)' = Users(c)
                          /\ c = b /\ c # my[t] => Cardinality(Users(c)') = Cardinality(Users(c)) + 1
                          /\ c # b /\ c = my[t] => Cardinality(Users(c)') = Cardinality(Users(c)) - 1
<1> SUFFICES ASSUME NEW c \in Buf
             PROVE  /\ Cardinality(Users(c)) \in Nat
                    /\ c # b /\ c # my[t] => Users(c)' = Users(c)
                    /\ c = b /\ c # my[t] => Cardinality(Users(c)') = Cardinality(Users(c)) + 1
                    /\ c # b /\ c = my[t] => Cardinality(Users(c)') = Cardinality(Users(c)) - 1
  BY Zenon
<1>1. \A u \in Threads : my'[u] = IF u = t THEN b ELSE my[u]
  BY Zenon DEF CacheTypes
<1>2. IsFiniteSet(Users(c))
  BY CacheAssumption, FS_Subset, Zenon DEF Users
<1>3. Cardinality(Users(c)) \in Nat
  BY <1>2, FS_CardinalityType, Zenon
<1>4. c # b /\ c # my[t] => Users(c)' = Users(c)
  BY <1>1, Zenon DEF Users
<1>5. c = b /\ c # my[t] => Users(c)' = Users(c) \cup {t} /\ t \notin Users(c)
  BY <1>1, Zenon DEF Users
<1>6. c # b /\ c = my[t] => Users(c)' = Users(c) \ {t} /\ t \in Users(c)
  BY <1>1, Zenon DEF Users
<1>7. /\ Cardinality(Users(c) \cup {t}) = IF t \in Users(c) THEN Cardinality(Users(c)) ELSE Cardinality(Users(c)) + 1
      /\ Cardinality(Users(c) \ {t}) = IF t \in Users(c) THEN Cardinality(Users(c)) - 1 ELSE Cardinality(Users(c))
  BY <1>2, FS_AddElement, FS_RemoveElement, Zenon
<1> QED
  BY <1>3, <1>4, <1>5, <1>6, <1>7, Zenon

\* bget finds the block in the cache.
LEMMA BgetHit ==
    ASSUME DiskInv, MAX_OPS < UINT, NEW t \in Threads, NEW n \in Block, NEW b \in Buf,
           at[t] = "out", blockno[b] = n,
           refcnt' = [refcnt EXCEPT ![b] = @ + 1], my' = [my EXCEPT ![t] = b], Move(t, "bread"),
           UNCHANGED <<blockno, valid, vars, data, wr, vqueue, lock, lru, pinned, latest>>
    PROVE  DiskInv'
<1>1. /\ CacheTypes /\ image' = image /\ n # 0 /\ my[t] = None /\ None \notin Buf
      /\ at' = [at EXCEPT ![t] = "bread"]
  BY CacheAssumption, DiskAssumption, ZenonT(40) DEF DiskInv, Control, ControlOK, vqueue, device, Move
<1>2. /\ \A u \in Threads \ {t} : at'[u] = at[u] /\ my'[u] = my[u]
      /\ at'[t] = "bread" /\ my'[t] = b /\ at' \in [Threads -> Stage] /\ my' \in [Threads -> Buf \cup {None}]
  BY <1>1, Zenon DEF CacheTypes, Stage
<1>3. CacheTypes'
  <2>1. refcnt' \in [Buf -> Nat]
    BY <1>1 DEF CacheTypes
  <2> QED
    BY <1>1, <1>2, <2>1, Zenon DEF CacheTypes
<1>4. Control'
  <2>1. at[t] \notin Holding /\ at'[t] \notin Holding
    BY <1>2, Zenon DEF Holding, Filled
  <2> QED
    BY <1>1, <1>2, <1>3, <2>1, ThreadMoves, Zenon
<1>5. Lru' /\ Contents'
  BY <1>2, ContentsKept, Zenon DEF DiskInv, Lru
<1>6. Counts'
  <2>1. \A c \in Buf : refcnt'[c] = Cardinality(Users(c)') + (IF c \in pinned THEN 1 ELSE 0)
    <3>1. \A c \in Buf : /\ Cardinality(Users(c)) \in Nat
                         /\ c # b => Users(c)' = Users(c)
                         /\ c = b => Cardinality(Users(c)') = Cardinality(Users(c)) + 1
      BY <1>1, UsersMove, Zenon
    <3>2. \A c \in Buf : /\ refcnt[c] = Cardinality(Users(c)) + (IF c \in pinned THEN 1 ELSE 0)
                         /\ refcnt'[c] = IF c = b THEN refcnt[c] + 1 ELSE refcnt[c]
      BY <1>1, Zenon DEF DiskInv, Counts, CacheTypes
    <3> QED
      BY <3>1, <3>2
  <2> QED
    BY <1>1, <1>2, <2>1 DEF DiskInv, Counts
<1>7. \A u \in Busy : u # t
  BY <1>1, BusyThread, Zenon
<1> QED
  BY <1>2, <1>3, <1>4, <1>5, <1>6, <1>7, BusyThread, QuietStep, Zenon

\* The count of a buffer that gets its first user.
LEMMA FirstUser ==
    ASSUME NEW k, NEW p, k = 0, p = 0
    PROVE  1 = (k + 1) + p
OBVIOUS

\* A count of zero: no user and no pin.
LEMMA NoUser ==
    ASSUME NEW n, NEW k \in Nat, NEW b, NEW S, n = 0, n = k + (IF b \in S THEN 1 ELSE 0)
    PROVE  b \notin S /\ k = 0
OBVIOUS

\* bget recycles a buffer that nobody uses: the only copy of no block.
LEMMA BgetRecycle ==
    ASSUME DiskInv, MAX_OPS < UINT, NEW t \in Threads, NEW n \in Block, NEW b \in Buf,
           at[t] = "out", \A c \in Buf : blockno[c] # n, refcnt[b] = 0,
           Recycle(b, n), my' = [my EXCEPT ![t] = b], Move(t, "bread"),
           UNCHANGED <<vars, data, wr, vqueue, lock, lru, pinned, latest>>
    PROVE  DiskInv'
<1>1. /\ CacheTypes /\ image' = image /\ n # 0 /\ my[t] = None /\ None \notin Buf
      /\ at' = [at EXCEPT ![t] = "bread"] /\ UNCHANGED <<pc, head, avail>>
  <2>1. CacheTypes /\ ControlOK(t)
    BY Zenon DEF DiskInv, Control
  <2>2. n # 0 /\ None \notin Buf
    BY CacheAssumption, DiskAssumption, Zenon
  <2>3. image' = image /\ at' = [at EXCEPT ![t] = "bread"] /\ UNCHANGED <<pc, head, avail>>
    BY Zenon DEF vqueue, device, driver, vars, Move
  <2> QED
    BY <2>1, <2>2, <2>3, Zenon DEF ControlOK
<1>2. /\ \A u \in Threads \ {t} : at'[u] = at[u] /\ my'[u] = my[u]
      /\ at'[t] = "bread" /\ my'[t] = b /\ at' \in [Threads -> Stage] /\ my' \in [Threads -> Buf \cup {None}]
  BY <1>1, Zenon DEF CacheTypes, Stage
<1>3. /\ blockno' \in [Buf -> Block \cup {0}] /\ valid' \in [Buf -> BOOLEAN] /\ refcnt' \in [Buf -> Nat]
      /\ \A c \in Buf \ {b} : blockno'[c] = blockno[c] /\ valid'[c] = valid[c] /\ refcnt'[c] = refcnt[c]
      /\ blockno'[b] = n /\ valid'[b] = FALSE /\ refcnt'[b] = 1
  BY <1>1, Zenon DEF CacheTypes, Recycle
<1>4. CacheTypes'
  BY <1>1, <1>2, <1>3, Zenon DEF CacheTypes
<1>5. Control'
  <2>1. at[t] \notin Holding /\ at'[t] \notin Holding
    BY <1>2, Zenon DEF Holding, Filled
  <2> QED
    BY <1>1, <1>2, <1>4, <2>1, ThreadMoves, Zenon
<1>6. b \notin pinned /\ Cardinality(Users(b)) = 0 /\ \A u \in Threads : my[u] # b
  <2>1. refcnt[b] = Cardinality(Users(b)) + (IF b \in pinned THEN 1 ELSE 0)
    BY Zenon DEF DiskInv, Counts
  <2>2. IsFiniteSet(Users(b)) /\ Cardinality(Users(b)) \in Nat
    BY CacheAssumption, FS_Subset, FS_CardinalityType, Zenon DEF Users
  <2>3. b \notin pinned /\ Cardinality(Users(b)) = 0
    BY <2>1, <2>2, NoUser, Zenon
  <2>4. Users(b) = {}
    BY <2>2, <2>3, FS_EmptySet, Zenon
  <2> QED
    BY <2>3, <2>4, Zenon DEF Users
<1>7. Counts'
  <2>1. \A c \in Buf : refcnt'[c] = Cardinality(Users(c)') + (IF c \in pinned THEN 1 ELSE 0)
    <3>1. \A c \in Buf : /\ Cardinality(Users(c)) \in Nat
                         /\ c # b => Users(c)' = Users(c)
                         /\ c = b => Cardinality(Users(c)') = Cardinality(Users(c)) + 1
      BY <1>1, UsersMove, Zenon
    <3>2. \A c \in Buf : refcnt[c] = Cardinality(Users(c)) + (IF c \in pinned THEN 1 ELSE 0)
      BY Zenon DEF DiskInv, Counts
    <3>3. (IF b \in pinned THEN 1 ELSE 0) = 0
      BY <1>6, Zenon
    <3>4. refcnt'[b] = Cardinality(Users(b)') + (IF b \in pinned THEN 1 ELSE 0)
      <4>1. Cardinality(Users(b)') = Cardinality(Users(b)) + 1 /\ refcnt'[b] = 1
        BY <1>3, <3>1, Zenon
      <4>2. 1 = (Cardinality(Users(b)) + 1) + (IF b \in pinned THEN 1 ELSE 0)
        BY <1>6, <3>3, FirstUser, Zenon
      <4> QED
        BY <4>1, <4>2, Zenon
    <3> QED
      BY <1>3, <3>1, <3>2, <3>4, Zenon
  <2>2. \A c, d \in Buf : blockno'[c] = blockno'[d] /\ blockno'[c] # 0 => c = d
    <3>1. \A c, d \in Buf : blockno[c] = blockno[d] /\ blockno[c] # 0 => c = d
      BY Zenon DEF DiskInv, Counts
    <3>2. \A c \in Buf : blockno'[c] = IF c = b THEN n ELSE blockno[c]
      BY <1>3, Zenon
    <3> QED
      BY <3>1, <3>2, Zenon
  <2>3. ASSUME NEW u \in Threads, my'[u] # None
        PROVE  blockno'[my'[u]] # 0
    <3>1. CASE u = t
      BY <1>1, <1>2, <1>3, <3>1, Zenon
    <3>2. CASE u # t
      <4>1. my'[u] = my[u] /\ my[u] \in Buf \ {b} /\ blockno[my[u]] # 0
        BY <1>1, <1>2, <1>6, <2>3, <3>2, Zenon DEF DiskInv, Counts, CacheTypes
      <4> QED
        BY <1>3, <4>1, Zenon
    <3> QED
      BY <3>1, <3>2, Zenon
  <2> QED
    BY <2>1, <2>2, <2>3, Zenon DEF Counts
<1>8. Contents'
  <2>1. ASSUME NEW u \in Threads \ {t}, at[u] \in Holding
        PROVE  my[u] \in Buf /\ blockno'[my[u]] = blockno[my[u]] /\ valid'[my[u]] = valid[my[u]]
    BY <1>3, <1>6, <2>1, OneHolder, Zenon
  <2>2. ASSUME NEW u \in Threads \ {t}
        PROVE  DataOK(u)'
    <3>1. DataOK(u) /\ (Answered(u)' <=> Answered(u)) /\ at'[u] = at[u] /\ my'[u] = my[u]
      BY <1>1, <1>2, Zenon DEF DiskInv, Contents, Answered
    <3>2. CASE at[u] \in Holding
      <4>1. blockno'[my[u]] = blockno[my[u]] /\ valid'[my[u]] = valid[my[u]]
        BY <2>1, <3>2, Zenon
      <4>2. data' = data /\ wr' = wr /\ pinned' = pinned /\ latest' = latest /\ image' = image
        BY <1>1, Zenon
      <4> QED
        BY <3>1, <4>1, <4>2, Zenon DEF DataOK
    <3>3. CASE at[u] \notin Holding
      BY <3>1, <3>3, Zenon DEF DataOK, Holding, Filled
    <3> QED
      BY <3>2, <3>3, Zenon
  <2>3. DataOK(t)'
    BY <1>2, Zenon DEF DataOK, Filled
  <2>4. \A c \in Buf \ {b} : Dirty(c) => Dirty(c)'
    BY <1>2, Zenon DEF Dirty
  <2>5. ~Dirty(b)
    BY <1>6, Zenon DEF Dirty
  <2>6. \A m \in Block : image[m] = latest[m] \/ \E c \in Buf \ {b} : blockno[c] = m /\ valid[c] /\ Dirty(c)
    BY <2>5, Zenon DEF DiskInv, Contents
  <2>7. \A m \in Block : image[m] = latest[m] \/ \E c \in Buf : blockno'[c] = m /\ valid'[c] /\ Dirty(c)'
    <3> SUFFICES ASSUME NEW m \in Block, image[m] # latest[m]
                 PROVE  \E c \in Buf : blockno'[c] = m /\ valid'[c] /\ Dirty(c)'
      BY Zenon
    <3>1. PICK c \in Buf \ {b} : blockno[c] = m /\ valid[c] /\ Dirty(c)
      BY <2>6, Zenon
    <3>2. blockno'[c] = m /\ valid'[c] /\ Dirty(c)'
      BY <1>3, <2>4, <3>1, Zenon
    <3> QED
      BY <3>2, Zenon
  <2>8. \A c \in Buf : valid'[c] => blockno'[c] # 0 /\ data'[c] = latest'[blockno'[c]]
    <3>1. \A c \in Buf : valid[c] => blockno[c] # 0 /\ data[c] = latest[blockno[c]]
      BY Zenon DEF DiskInv, Contents
    <3>2. data' = data /\ latest' = latest /\ ~valid'[b]
      BY <1>3, Zenon
    <3>3. \A c \in Buf : c # b => blockno'[c] = blockno[c] /\ valid'[c] = valid[c]
      BY <1>3, Zenon
    <3> QED
      BY <3>1, <3>2, <3>3, Zenon
  <2>9. \A c \in pinned : valid'[c]
    BY <1>1, <1>3, <1>6, Zenon DEF DiskInv, Contents, CacheTypes
  <2> QED
    BY <1>1, <2>2, <2>3, <2>7, <2>8, <2>9, Zenon DEF Contents
<1>9. Lru'
  BY Zenon DEF DiskInv, Lru
<1>10. \A u \in Busy : u # t /\ my[u] # b /\ my[u] \in Buf
  BY <1>1, <1>6, BusyThread, Zenon
<1>11. \A u \in Busy : my'[u] = my[u] /\ blockno'[my[u]] = blockno[my[u]]
  BY <1>2, <1>3, <1>10, BusyThread, Zenon
<1> QED
  BY <1>4, <1>5, <1>7, <1>8, <1>9, <1>11, QuietStep, ZenonT(40)

\* bget finds a buffer: with fewer threads and pins than buffers, some buffer has no reference.
LEMMA SomeUnused ==
    ASSUME DiskInv, Admitted
    PROVE  Unused # {}
<1> DEFINE In == {t \in Threads : at[t] # "out"}
           used_by == [t \in In |-> my[t]]
           R == {my[t] : t \in In}
<1>1. /\ CacheTypes /\ IsFiniteSet(Buf) /\ IsFiniteSet(In) /\ IsFiniteSet(pinned)
      /\ Cardinality(In) \in Nat /\ Cardinality(pinned) \in Nat /\ Cardinality(Buf) \in Nat
  <2>1. CacheTypes /\ IsFiniteSet(Buf) /\ IsFiniteSet(In) /\ pinned \subseteq Buf
    BY CacheAssumption, FS_Subset, Zenon DEF DiskInv, CacheTypes
  <2>2. IsFiniteSet(pinned)
    BY <2>1, FS_Subset, Zenon
  <2> HIDE DEF In
  <2> QED
    BY <2>1, <2>2, FS_CardinalityType, Zenon
<1>2. IsFiniteSet(R) /\ Cardinality(R) <= Cardinality(In)
  <2>1. used_by \in Surjection(In, R)
    BY Zenon DEF Surjection
  <2> HIDE DEF In, used_by, R
  <2> QED
    BY <1>1, <2>1, FS_Surjection, Zenon
<1>3. SUFFICES ASSUME Unused = {}
               PROVE  FALSE
  BY Zenon
<1>4. \A b \in Buf : refcnt[b] # 0
  BY <1>3, Zenon DEF Unused, DiskInv, Lru
<1>5. ASSUME NEW b \in Buf, b \notin pinned
      PROVE  b \in R
  <2>1. refcnt[b] = Cardinality(Users(b))
    <3>1. refcnt[b] = Cardinality(Users(b)) + 0 /\ refcnt[b] \in Nat
      BY <1>1, <1>5, Zenon DEF DiskInv, Counts, CacheTypes
    <3>2. IsFiniteSet(Users(b)) /\ Cardinality(Users(b)) \in Nat
      BY CacheAssumption, FS_Subset, FS_CardinalityType, Zenon DEF Users
    <3> QED
      BY <3>1, <3>2
  <2>2. Users(b) # {}
    BY <1>4, <2>1, FS_EmptySet, Zenon
  <2>3. PICK t \in Threads : my[t] = b
    BY <2>2, Zenon DEF Users
  <2>4. b # None
    BY DiskAssumption, Zenon
  <2>5. t \in In
    BY <2>3, <2>4, Zenon DEF DiskInv, Control, ControlOK
  <2> QED
    BY <2>3, <2>5, Zenon
<1>6. Buf \in SUBSET (R \cup pinned)
  BY <1>5, Zenon
<1> HIDE DEF R
<1>7. /\ IsFiniteSet(R \cup pinned) /\ IsFiniteSet(R \cap pinned)
      /\ Cardinality(R \cup pinned) = Cardinality(R) + Cardinality(pinned) - Cardinality(R \cap pinned)
  BY <1>1, <1>2, FS_Union, FS_Intersection, Zenon
<1>8. Cardinality(Buf) <= Cardinality(R \cup pinned)
  BY <1>6, <1>7, FS_Subset, Zenon
<1>9. Cardinality(R) \in Nat /\ Cardinality(R \cap pinned) \in Nat
  BY <1>2, <1>7, FS_CardinalityType, Zenon
<1>10. Cardinality(pinned) + Cardinality(In) < Cardinality(Buf)
  BY Zenon DEF Admitted
<1> HIDE DEF In
<1> QED
  BY <1>1, <1>2, <1>7, <1>8, <1>9, <1>10

\* bget: the block is cached, or the least recently used free buffer is recycled.
LEMMA BgetStep ==
    ASSUME DiskInv, MAX_OPS < UINT, NEW t \in Threads, NEW n \in Block, bget(t, n)
    PROVE  DiskInv'
<1> DEFINE hit == {b \in Buf : blockno[b] = n}
<1>1. at[t] = "out" /\ Admitted /\ UNCHANGED <<vars, data, wr, vqueue, lock, lru, pinned, latest>>
  BY Zenon DEF bget
<1>2. CASE hit # {}
  <2>1. PICK b \in hit : /\ refcnt' = [refcnt EXCEPT ![b] = @ + 1]
                         /\ my' = [my EXCEPT ![t] = b] /\ Move(t, "bread")
                         /\ UNCHANGED <<blockno, valid>>
    BY <1>2, Zenon DEF bget
  <2> QED
    BY <1>1, <2>1, BgetHit, Zenon
<1>3. CASE hit = {}
  <2>1. PICK i \in Unused : Recycle(lru[i], n) /\ my' = [my EXCEPT ![t] = lru[i]] /\ Move(t, "bread")
    BY <1>1, <1>3, SomeUnused, Zenon DEF bget
  <2>2. lru[i] \in Buf /\ refcnt[lru[i]] = 0 /\ \A b \in Buf : blockno[b] # n
    BY <1>3, <2>1 DEF Unused, DiskInv, Lru
  <2> QED
    BY <1>1, <2>1, <2>2, BgetRecycle, Zenon
<1> QED
  BY <1>2, <1>3, Zenon

\* The invariant of the threads when t moves on with its buffer, takes its lock or leaves it.
LEMMA HolderMoves ==
    ASSUME DiskInv, NEW t \in Threads, my[t] \in Buf, UNCHANGED <<my, head, rw>>,
           \A u \in Threads \ {t} : at'[u] = at[u] /\ pc'[u] = pc[u] /\ mine'[u] = mine[u],
           ControlOK(t)', at'[t] \in Holding \/ at'[t] = "brelse",
           \/ lock' = lock /\ at[t] \in Holding /\ at'[t] \in Holding
           \/ lock[my[t]] = None /\ lock' = [lock EXCEPT ![my[t]] = t] /\ at'[t] \in Holding
           \/ at[t] \in Holding /\ lock' = [lock EXCEPT ![my[t]] = None] /\ at'[t] = "brelse"
    PROVE  Control'
<1>1. /\ lock \in [Buf -> Threads \cup {None}] /\ None \notin Threads /\ (at[t] \in Holding => lock[my[t]] = t)
      /\ \A b \in Buf : lock[b] # None => my[lock[b]] = b /\ at[lock[b]] \in Holding
      /\ \A u \in Threads : ControlOK(u)
  BY CacheAssumption, OneHolder, Zenon DEF DiskInv, Control, CacheTypes
<1>2. \A b \in Buf \ {my[t]} : lock'[b] = lock[b]
  BY <1>1, Zenon
<1>3. ASSUME NEW u \in Threads \ {t}
      PROVE  ControlOK(u)'
  <2>0. /\ ControlOK(u) /\ at'[u] = at[u] /\ pc'[u] = pc[u] /\ mine'[u] = mine[u]
        /\ my'[u] = my[u] /\ head'[u] = head[u] /\ rw'[u] = rw[u]
    BY <1>1, Zenon
  <2>1. CASE at[u] \notin Holding
    BY <2>0, <2>1, Zenon DEF ControlOK
  <2>2. CASE at[u] \in Holding
    <3>1. my[u] \in Buf /\ lock[my[u]] = u /\ my[u] # my[t]
      BY <1>1, <2>2, OneHolder
    <3>2. lock'[my'[u]] = u
      BY <1>2, <2>0, <3>1, Zenon
    <3> QED
      BY <2>0, <3>2, Zenon DEF ControlOK
  <2> QED
    BY <2>1, <2>2, Zenon
<1>4. ASSUME NEW b \in Buf, lock'[b] # None
      PROVE  my'[lock'[b]] = b /\ at'[lock'[b]] \in Holding
  <2>1. CASE b = my[t]
    BY <1>1, <1>4, <2>1
  <2>2. CASE b # my[t]
    <3>1. lock'[b] = lock[b] /\ lock[b] \in Threads \ {t}
      BY <1>1, <1>2, <1>4, <2>2
    <3> QED
      BY <1>1, <3>1, Zenon
  <2> QED
    BY <2>1, <2>2, Zenon
<1> QED
  BY <1>3, <1>4, Zenon DEF Control

\* The counts while no thread takes or leaves a buffer.
LEMMA CountsKept ==
    ASSUME Counts, UNCHANGED <<blockno, refcnt, my, pinned>>
    PROVE  Counts'
BY Zenon DEF Counts, Users

\* Threads at the driver are not the one that holds no request.
LEMMA NotBusy ==
    ASSUME DiskInv, NEW t \in Threads, pc[t] # "io"
    PROVE  t \notin Busy /\ head[t] = None /\ rw[t] = "ready"
BY Zenon DEF DiskInv, Control, ControlOK, Busy

\* bread of a valid buffer.
LEMMA BreadValid ==
    ASSUME DiskInv, MAX_OPS < UINT, NEW t \in Threads, at[t] = "bread", lock[my[t]] = None, valid[my[t]],
           lock' = [lock EXCEPT ![my[t]] = t], Move(t, "holds"),
           UNCHANGED <<vars, wr, blockno, data, vqueue, valid, refcnt, lru, pinned, my, latest>>
    PROVE  DiskInv'
<1>1. /\ CacheTypes /\ UNCHANGED <<pc, mine, head, rw, image>> /\ at' = [at EXCEPT ![t] = "holds"]
      /\ my[t] \in Buf
  <2>1. CacheTypes /\ ControlOK(t)
    BY Zenon DEF DiskInv, Control
  <2>2. UNCHANGED <<pc, mine, head, rw, image>> /\ at' = [at EXCEPT ![t] = "holds"]
    BY Zenon DEF vars, vqueue, driver, device, Move
  <2>3. my[t] # None
    BY <2>1, Zenon DEF ControlOK
  <2> QED
    BY <2>1, <2>2, <2>3, Zenon DEF CacheTypes
<1>2. /\ at'[t] = "holds" /\ \A u \in Threads \ {t} : at'[u] = at[u]
      /\ at' \in [Threads -> Stage] /\ lock' \in [Buf -> Threads \cup {None}] /\ lock'[my[t]] = t
  BY <1>1, Zenon DEF CacheTypes, Stage
<1>3. CacheTypes'
  BY <1>1, <1>2, Zenon DEF CacheTypes
<1>4. Control'
  <2>1. "holds" \in Holding
    BY Zenon DEF Holding, Filled
  <2>2. ControlOK(t)'
    <3>1. ControlOK(t) /\ my[t] # None
      BY <1>1, DiskAssumption, Zenon DEF DiskInv, Control
    <3> QED
      BY <1>1, <1>2, <3>1, Zenon DEF ControlOK
  <2> QED
    BY <1>1, <1>2, <2>1, <2>2, HolderMoves, Zenon
<1>5. Contents'
  BY <1>2, ContentsKept, Zenon
<1>6. Lru' /\ Counts'
  BY CountsKept, Zenon DEF DiskInv, Lru
<1> QED
  BY <1>3, <1>4, <1>5, <1>6, QuietStep, Zenon

\* A request is submitted: by bread with the lock it has just taken, or by bwrite.
LEMMA SubmitStep ==
    ASSUME DiskInv, MAX_OPS < UINT, NEW t \in Threads, my[t] \in Buf,
           \/ /\ at[t] = "bread" /\ lock[my[t]] = None /\ ~valid[my[t]]
              /\ lock' = [lock EXCEPT ![my[t]] = t] /\ Submit(t, 0) /\ Move(t, "reading")
           \/ /\ at[t] \in {"changed", "holds"} /\ lock' = lock /\ Submit(t, 1) /\ Move(t, "writing"),
           UNCHANGED <<blockno, data, vqueue, valid, refcnt, lru, pinned, my, latest>>
    PROVE  DiskInv'
<1>1. PICK w \in {0, 1} : /\ Submit(t, w) /\ at' = [at EXCEPT ![t] = IF w = 0 THEN "reading" ELSE "writing"]
                          /\ w = 0 => at[t] = "bread" /\ ~valid[my[t]]
                          /\ w = 1 => at[t] \in {"changed", "holds"}
  BY DEF Move
<1>2. /\ DrainInv' /\ pc[t] = "idle" /\ wr' = [wr EXCEPT ![my[t]] = w]
      /\ pc' = [pc EXCEPT ![t] = "io"] /\ mine' = [mine EXCEPT ![t] = my[t]]
  BY <1>1, SubmitIsSubmit, Zenon
<1>3. /\ CacheTypes /\ UNCHANGED <<head, rw, image, avail>> /\ my[t] # None
      /\ pc \in [Threads -> {"idle", "io", "returned", "panic"}] /\ mine \in [Threads -> Buf \cup {None}]
  BY DiskAssumption, Zenon DEF DiskInv, DrainInv, TypeOK, vqueue, driver, device
<1>4. /\ at'[t] = (IF w = 0 THEN "reading" ELSE "writing") /\ pc'[t] = "io" /\ mine'[t] = my[t]
      /\ \A u \in Threads \ {t} : at'[u] = at[u] /\ pc'[u] = pc[u] /\ mine'[u] = mine[u]
      /\ at' \in [Threads -> Stage]
  BY <1>1, <1>2, <1>3, Zenon DEF CacheTypes, Stage
<1>5. /\ wr' \in [Buf -> {0, 1}] /\ wr'[my[t]] = w /\ \A b \in Buf \ {my[t]} : wr'[b] = wr[b]
  BY <1>1, <1>2, <1>3, Zenon DEF CacheTypes
<1>6. lock' \in [Buf -> Threads \cup {None}] /\ (at[t] \in Holding => lock[my[t]] = t)
  BY <1>3, OneHolder DEF CacheTypes
<1>7. lock'[my[t]] = t
  BY <1>3, <1>6, Zenon DEF CacheTypes, Holding, Filled
<1>8. CacheTypes'
  BY <1>3, <1>4, <1>5, <1>6, Zenon DEF CacheTypes
<1>9. \A u \in Threads \ {t} : at[u] \in Holding => my[u] \in Buf \ {my[t]}
  <2>1. CASE lock[my[t]] = None
    BY <2>1, OneHolder, CacheAssumption, ZenonT(40)
  <2>2. CASE at[t] \in Holding
    BY <2>2, OneHolder, Zenon
  <2> QED
    BY <2>1, <2>2, Zenon DEF Holding, Filled
<1>10. Control'
  <2>1. at'[t] \in Holding
    BY <1>4, Zenon DEF Holding, Filled
  <2>2. ControlOK(t)'
    <3>1. head[t] = None /\ rw[t] = "ready"
      BY <1>2, NotBusy, Zenon
    <3> QED
      BY <1>3, <1>4, <1>7, Zenon DEF ControlOK
  <2>3. at[t] \in {"changed", "holds"} => at[t] \in Holding
    BY Zenon DEF Holding, Filled
  <2> QED
    BY <1>3, <1>4, <2>1, <2>2, <2>3, HolderMoves, Zenon
<1>11. Lru' /\ Counts'
  BY CountsKept, Zenon DEF DiskInv, Lru
<1>12. Contents'
  <2>1. \A u \in Threads : DataOK(u) /\ (u # t => (Answered(u)' <=> Answered(u)))
    BY <1>3, <1>4, Zenon DEF DiskInv, Contents, Answered
  <2>2. ASSUME NEW u \in Threads \ {t}
        PROVE  DataOK(u)'
    <3>1. CASE at[u] \in Holding
      <4>1. at'[u] = at[u] /\ wr'[my[u]] = wr[my[u]] /\ DataOK(u) /\ (Answered(u)' <=> Answered(u))
        BY <1>4, <1>5, <1>9, <2>1, <3>1, Zenon
      <4>2. UNCHANGED <<my, valid, pinned, data, latest, blockno, image>>
        BY <1>3, Zenon
      <4> QED
        BY <4>1, <4>2, Zenon DEF DataOK
    <3>2. CASE at[u] \notin Holding
      BY <1>4, <3>2, Zenon DEF DataOK, Holding, Filled
    <3> QED
      BY <3>1, <3>2, Zenon
  <2>3. ~Answered(t)'
    BY <1>2, <1>3, <1>4, NotBusy, Zenon DEF Answered
  <2>4. w = 1 => valid[my[t]]
    BY <1>1, <2>1, Zenon DEF DataOK, Filled
  <2>5. DataOK(t)'
    BY <1>1, <1>4, <1>5, <2>3, <2>4, Zenon DEF DataOK, Filled
  <2>6. \A b \in Buf : Dirty(b) => Dirty(b)'
    BY <1>1, <1>4, Zenon DEF Dirty
  <2> QED
    BY <1>3, <2>2, <2>5, <2>6, Zenon DEF DiskInv, Contents
<1>13. RingTypes' /\ Chains' /\ Rings' /\ Wakes'
  <2>1. ASSUME NEW u \in Busy
        PROVE  my[u] \in Buf \ {my[t]}
    <3>1. u \in Threads \ {t} /\ at[u] \in {"reading", "writing"}
      BY <1>2, BusyThread, Zenon
    <3> QED
      BY <1>9, <3>1, Zenon DEF Holding, Filled
  <2> QED
    BY <1>5, <2>1, RingsKept, Zenon
<1> QED
  BY <1>2, <1>8, <1>10, <1>11, <1>12, <1>13, Zenon DEF DiskInv

\* The invariant of the contents when the holder of a buffer moves on, and with it only its
\* buffer and the latest content of its block change.
LEMMA HolderContents ==
    ASSUME DiskInv, NEW t \in Threads, at[t] \in Holding,
           UNCHANGED <<my, blockno, image, head, avail>>,
           \A u \in Threads \ {t} : at'[u] = at[u] /\ pc'[u] = pc[u],
           \A b \in Buf \ {my[t]} : /\ valid'[b] = valid[b] /\ data'[b] = data[b] /\ wr'[b] = wr[b]
                                    /\ b \in pinned' <=> b \in pinned,
           \A n \in Block \ {blockno[my[t]]} : latest'[n] = latest[n],
           pinned' \subseteq Buf, DataOK(t)',
           valid'[my[t]] /\ data'[my[t]] = latest'[blockno[my[t]]],
           image[blockno[my[t]]] = latest'[blockno[my[t]]] \/ Dirty(my[t])'
    PROVE  Contents'
<1> DEFINE m == my[t]  k == blockno[my[t]]
<1>1. /\ m \in Buf /\ k \in Block /\ k # 0 /\ my \in [Threads -> Buf \cup {None}]
      /\ \A b \in Buf \ {m} : blockno[b] # k
      /\ \A u \in Threads \ {t} : at[u] \in Holding => my[u] \in Buf \ {m} /\ blockno[my[u]] \in Block \ {k}
  <2>1. /\ m \in Buf /\ k \in Block /\ \A u \in Threads : at[u] \in Holding /\ my[u] = my[t] => u = t
    BY OneHolder, Zenon
  <2>2. \A u \in Threads : at[u] \in Holding => my[u] \in Buf /\ blockno[my[u]] \in Block
    BY OneHolder, Zenon
  <2>3. k # 0 /\ my \in [Threads -> Buf \cup {None}]
    BY <2>1, CacheAssumption, Zenon DEF DiskInv, CacheTypes
  <2>4. \A b \in Buf \ {m} : blockno[b] # k
    BY <2>1, <2>3 DEF DiskInv, Counts
  <2> QED
    BY <2>1, <2>2, <2>3, <2>4, Zenon
<1>2. Contents /\ blockno \in [Buf -> Block \cup {0}]
  BY Zenon DEF DiskInv, CacheTypes
<1>3. valid'[m] /\ data'[m] = latest'[k] /\ (image[k] = latest'[k] \/ Dirty(m)')
  BY Zenon
<1>4. /\ \A b \in Buf \ {m} : /\ valid'[b] = valid[b] /\ data'[b] = data[b] /\ wr'[b] = wr[b]
                              /\ b \in pinned' <=> b \in pinned
      /\ \A n \in Block \ {k} : latest'[n] = latest[n]
  BY Zenon
<1>5. \A u \in Threads : my[u] = m => (u = t \/ at[u] \notin Holding)
  BY <1>1, Zenon
<1>6. my[t] = m /\ blockno[m] = k
  BY Zenon
<1> HIDE DEF m, k
<1>7. ASSUME NEW u \in Threads \ {t}
      PROVE  DataOK(u)'
  <2>1. at'[u] = at[u] /\ pc'[u] = pc[u] /\ DataOK(u) /\ (Answered(u)' <=> Answered(u))
    BY <1>2, Zenon DEF Contents, Answered
  <2>2. CASE at[u] \notin Holding
    BY <2>1, <2>2, Zenon DEF DataOK, Holding, Filled
  <2>3. CASE at[u] \in Holding
    <3>1. my[u] \in Buf \ {m} /\ blockno[my[u]] \in Block \ {k}
      BY <1>1, <2>3, Zenon
    <3>2. /\ valid'[my[u]] = valid[my[u]] /\ data'[my[u]] = data[my[u]] /\ wr'[my[u]] = wr[my[u]]
          /\ my[u] \in pinned' <=> my[u] \in pinned
          /\ latest'[blockno[my[u]]] = latest[blockno[my[u]]]
      BY <1>4, <3>1, Zenon
    <3>3. UNCHANGED <<my, blockno, image>>
      BY Zenon
    <3> QED
      BY <2>1, <3>2, <3>3, ZenonT(40) DEF DataOK
  <2> QED
    BY <2>2, <2>3, Zenon
<1>8. ASSUME NEW b \in Buf, valid'[b]
      PROVE  blockno'[b] # 0 /\ data'[b] = latest'[blockno'[b]]
  <2>1. CASE b = m
    BY <1>1, <1>3, <1>6, <2>1, Zenon
  <2>2. CASE b # m
    <3>1. valid[b] /\ data'[b] = data[b]
      BY <1>4, <1>8, <2>2, Zenon
    <3>2. blockno[b] # 0 /\ data[b] = latest[blockno[b]] /\ blockno[b] \in Block \ {k}
      BY <1>1, <1>2, <2>2, <3>1, Zenon DEF Contents
    <3> QED
      BY <1>4, <3>1, <3>2, Zenon
  <2> QED
    BY <2>1, <2>2, Zenon
<1>9. \A b \in pinned' : valid'[b]
  <2>1. \A b \in pinned' : b \in Buf
    BY Zenon
  <2>2. \A b \in pinned : valid[b]
    BY <1>2, Zenon DEF Contents
  <2>3. \A b \in pinned' \ {m} : b \in pinned /\ valid'[b] = valid[b]
    BY <1>4, <2>1, Zenon
  <2> QED
    BY <1>3, <2>2, <2>3, Zenon
<1>10. ASSUME NEW n \in Block, image'[n] # latest'[n]
       PROVE  \E b \in Buf : blockno'[b] = n /\ valid'[b] /\ Dirty(b)'
  <2>1. CASE n = k
    BY <1>1, <1>3, <1>6, <1>10, <2>1, Zenon
  <2>2. CASE n # k
    <3>1. latest'[n] = latest[n] /\ image[n] # latest[n]
      BY <1>4, <1>10, <2>2, Zenon
    <3>2. PICK b \in Buf : blockno[b] = n /\ valid[b] /\ Dirty(b)
      BY <1>2, <3>1, Zenon DEF Contents
    <3>3. b # m
      BY <1>6, <2>2, <3>2, Zenon
    <3>4. Dirty(b)'
      <4>1. CASE b \in pinned
        BY <1>4, <3>3, <4>1, Zenon DEF Dirty
      <4>2. CASE \E u \in Threads : my[u] = b /\ at[u] \in {"changed", "writing"}
        <5>1. PICK u \in Threads : my[u] = b /\ at[u] \in {"changed", "writing"}
          BY <4>2, Zenon
        <5>2. u # t /\ at'[u] = at[u] /\ my' = my
          BY <1>6, <3>3, <5>1, Zenon
        <5> QED
          BY <5>1, <5>2, Zenon DEF Dirty
      <4> QED
        BY <3>2, <4>1, <4>2, Zenon DEF Dirty
    <3>5. valid'[b]
      BY <1>4, <3>2, <3>3, Zenon
    <3> QED
      BY <3>2, <3>4, <3>5, Zenon
  <2> QED
    BY <2>1, <2>2, Zenon
<1>11. \A u \in Threads : DataOK(u)'
  BY <1>7, Zenon
<1> QED
  BY <1>8, <1>9, <1>10, <1>11, Zenon DEF Contents

\* The disk is up to date for a buffer that nobody has changed.
LEMMA CleanHolder ==
    ASSUME DiskInv, NEW t \in Threads, at[t] \in Holding, at[t] \notin {"changed", "writing"},
           my[t] \notin pinned
    PROVE  image[blockno[my[t]]] = latest[blockno[my[t]]]
<1>1. /\ my[t] \in Buf /\ blockno[my[t]] \in Block /\ blockno[my[t]] # 0
      /\ \A u \in Threads : at[u] \in Holding /\ my[u] = my[t] => u = t
  BY OneHolder, CacheAssumption, Zenon
<1>2. ~Dirty(my[t])
  BY <1>1, Zenon DEF Dirty, Holding, Filled
<1>3. \A b \in Buf : blockno[b] = blockno[my[t]] => b = my[t]
  BY <1>1, Zenon DEF DiskInv, Counts
<1> QED
  BY <1>1, <1>2, <1>3, Zenon DEF DiskInv, Contents

\* The types of the queue the steps of bio.c need.
LEMMA PcType ==
    ASSUME DiskInv
    PROVE  /\ pc \in [Threads -> {"idle", "io", "returned", "panic"}]
           /\ mine \in [Threads -> Buf \cup {None}]
BY Zenon DEF DiskInv, DrainInv, TypeOK

\* A step of a holder: its control, its type and the rings.
LEMMA HolderStep ==
    ASSUME DiskInv, NEW t \in Threads, at[t] \in Holding, NEW s \in Filled \ {"writing"}, Move(t, s),
           UNCHANGED <<my, blockno, vqueue, lru, lock>>,
           DrainInv', pc' = [pc EXCEPT ![t] = "idle"], mine' = [mine EXCEPT ![t] = None],
           pc[t] # "io",
           \A b \in Buf \ {my[t]} : wr'[b] = wr[b],
           data' \in [Buf -> Content], valid' \in [Buf -> BOOLEAN], refcnt' \in [Buf -> Nat],
           wr' \in [Buf -> {0, 1}], pinned' \subseteq Buf, latest' \in [Block -> Content],
           Counts', Contents'
    PROVE  DiskInv'
<1>1. /\ CacheTypes /\ UNCHANGED <<head, rw, image>> /\ at' = [at EXCEPT ![t] = s]
      /\ my[t] \in Buf /\ lock[my[t]] = t /\ my[t] # None
      /\ pc \in [Threads -> {"idle", "io", "returned", "panic"}] /\ mine \in [Threads -> Buf \cup {None}]
  BY OneHolder, DiskAssumption, PcType, Zenon DEF DiskInv, vqueue, driver, device, Move
<1>2. /\ at'[t] = s /\ pc'[t] = "idle" /\ mine'[t] = None
      /\ \A u \in Threads \ {t} : at'[u] = at[u] /\ pc'[u] = pc[u] /\ mine'[u] = mine[u]
      /\ at' \in [Threads -> Stage]
  BY <1>1, Zenon DEF CacheTypes, Stage, Filled
<1>3. CacheTypes'
  BY <1>1, <1>2, Zenon DEF CacheTypes
<1>4. s \in Holding /\ s # "out" /\ s \notin {"reading", "writing"}
  BY Zenon DEF Holding, Filled
<1>5. head[t] = None /\ rw[t] = "ready" /\ t \notin Busy
  BY NotBusy, Zenon
<1>6. ControlOK(t)'
  BY <1>1, <1>2, <1>4, <1>5, Zenon DEF ControlOK
<1>7. Control'
  BY <1>1, <1>2, <1>4, <1>6, HolderMoves, Zenon
<1>8. RingTypes' /\ Chains' /\ Rings' /\ Wakes'
  <2>1. \A u \in Busy : my[u] \in Buf \ {my[t]}
    <3>1. \A u \in Busy : u \in Threads /\ u # t /\ at[u] \in Holding /\ my[u] \in Buf
      BY <1>5, BusyThread, Zenon DEF Holding, Filled
    <3> QED
      BY <3>1, OneHolder, Zenon
  <2> QED
    BY <2>1, RingsKept, Zenon
<1> QED
  BY <1>3, <1>7, <1>8, Zenon DEF DiskInv, Lru

\* bread returns with the content of the block.
LEMMA BreadReturnStep ==
    ASSUME DiskInv, MAX_OPS < UINT, NEW t \in Threads, bread_return(t)
    PROVE  DiskInv'
<1>1. /\ at[t] = "reading" /\ Return(t) /\ valid' = [valid EXCEPT ![my[t]] = TRUE] /\ Move(t, "holds")
      /\ UNCHANGED <<blockno, data, wr, vqueue, refcnt, lock, lru, pinned, my, latest>>
  BY Zenon DEF bread_return
<1>2. /\ DrainInv' /\ pc[t] = "returned" /\ pc' = [pc EXCEPT ![t] = "idle"] /\ mine' = [mine EXCEPT ![t] = None]
  BY <1>1, ReturnIsReturn, Zenon
<1>3. /\ CacheTypes /\ UNCHANGED <<head, avail, image>> /\ at[t] \in Holding /\ DataOK(t) /\ Answered(t)
      /\ \A b \in pinned : valid[b]
  BY <1>1, <1>2, Zenon DEF DiskInv, Contents, vqueue, driver, device, Holding, Answered
<1>4. my[t] \in Buf /\ ~valid[my[t]] /\ data[my[t]] = latest[blockno[my[t]]]
  BY <1>1, <1>3, OneHolder, Zenon DEF DataOK
<1>5. image[blockno[my[t]]] = latest[blockno[my[t]]]
  BY <1>1, <1>3, <1>4, CleanHolder, Zenon
<1>6. /\ valid' \in [Buf -> BOOLEAN] /\ valid'[my[t]] = TRUE /\ \A b \in Buf \ {my[t]} : valid'[b] = valid[b]
  BY <1>1, <1>3, <1>4, Zenon DEF CacheTypes
<1>7. /\ at'[t] = "holds" /\ \A u \in Threads \ {t} : at'[u] = at[u] /\ pc'[u] = pc[u]
  BY <1>1, <1>2, <1>3, PcType, Zenon DEF CacheTypes, Move
<1>8. DataOK(t)'
  BY <1>1, <1>6, <1>7, Zenon DEF DataOK
<1>9. Contents'
  BY <1>1, <1>3, <1>4, <1>5, <1>6, <1>7, <1>8, HolderContents, Zenon DEF CacheTypes
<1>10. Counts'
  BY <1>1, CountsKept, Zenon DEF DiskInv
<1>11. "holds" \in Filled \ {"writing"}
  BY Zenon DEF Filled
<1> QED
  BY <1>1, <1>2, <1>3, <1>6, <1>9, <1>10, <1>11, HolderStep, Zenon DEF CacheTypes

\* bwrite returns when the disk has the content of the buffer.
LEMMA BwriteReturnStep ==
    ASSUME DiskInv, MAX_OPS < UINT, NEW t \in Threads, bwrite_return(t)
    PROVE  DiskInv'
<1>1. /\ at[t] = "writing" /\ Return(t) /\ wr' = [wr EXCEPT ![my[t]] = 0]
      /\ UNCHANGED <<blockno, data, vqueue, cache, my, latest>>
      /\ Move(t, IF my[t] \in pinned THEN "written" ELSE "done")
  BY Zenon DEF bwrite_return
<1>2. /\ DrainInv' /\ pc[t] = "returned" /\ pc' = [pc EXCEPT ![t] = "idle"] /\ mine' = [mine EXCEPT ![t] = None]
  BY <1>1, ReturnIsReturn, Zenon
<1>3. /\ CacheTypes /\ UNCHANGED <<head, avail, image, valid, refcnt, lock, lru, pinned>>
      /\ at[t] \in Holding /\ at[t] \in Filled /\ DataOK(t) /\ Answered(t)
      /\ \A b \in Buf : valid[b] => blockno[b] # 0 /\ data[b] = latest[blockno[b]]
  BY <1>1, <1>2, Zenon DEF DiskInv, Contents, vqueue, driver, device, cache, Holding, Filled, Answered
<1>4. /\ my[t] \in Buf /\ valid[my[t]] /\ data[my[t]] = latest[blockno[my[t]]]
      /\ image[blockno[my[t]]] = latest[blockno[my[t]]]
  BY <1>1, <1>3, OneHolder, Zenon DEF DataOK
<1>5. /\ wr' \in [Buf -> {0, 1}] /\ \A b \in Buf \ {my[t]} : wr'[b] = wr[b]
  BY <1>1, <1>3, <1>4, Zenon DEF CacheTypes
<1>6. PICK s \in {"written", "done"} : Move(t, s) /\ (s = "written" => my[t] \in pinned)
  BY <1>1, Zenon
<1>7. /\ at'[t] = s /\ \A u \in Threads \ {t} : at'[u] = at[u] /\ pc'[u] = pc[u]
  BY <1>2, <1>3, <1>6, PcType, Zenon DEF CacheTypes, Move
<1>8. DataOK(t)'
  <2>1. s \in {"written", "done"} /\ my' = my /\ valid' = valid /\ pinned' = pinned /\ latest' = latest /\ blockno' = blockno
        /\ image' = image
    BY <1>1, <1>3, Zenon
  <2> QED
    BY <1>4, <1>6, <1>7, <2>1, Zenon DEF DataOK
<1>9. Contents'
  BY <1>1, <1>3, <1>4, <1>5, <1>7, <1>8, HolderContents, Zenon DEF CacheTypes
<1>10. Counts'
  BY <1>1, <1>3, CountsKept, Zenon DEF DiskInv
<1>11. s \in Filled \ {"writing"}
  BY Zenon DEF Filled
<1> QED
  BY <1>1, <1>2, <1>3, <1>5, <1>6, <1>9, <1>10, <1>11, HolderStep, Zenon DEF CacheTypes

\* The holder changes the block.
LEMMA ChangeStep ==
    ASSUME DiskInv, MAX_OPS < UINT, NEW t \in Threads, NEW v \in Val, Change(t, v)
    PROVE  DiskInv'
<1>1. /\ at[t] = "holds" /\ data' = [data EXCEPT ![my[t]] = v]
      /\ latest' = [latest EXCEPT ![blockno[my[t]]] = v] /\ Move(t, "changed")
      /\ UNCHANGED vars /\ UNCHANGED <<blockno, wr, vqueue, my>> /\ UNCHANGED <<valid, refcnt, lock, lru, pinned>>
  BY Zenon DEF Change, cache
<1>2. DrainInv' /\ UNCHANGED <<pc, mine>>
  BY <1>1, DrainSame, Zenon
<1>3. /\ CacheTypes /\ UNCHANGED <<head, avail, image>> /\ at[t] \in Holding /\ at[t] \in Filled /\ DataOK(t)
  BY <1>1, Zenon DEF DiskInv, Contents, vqueue, driver, device, Holding, Filled
<1>4. my[t] \in Buf /\ valid[my[t]] /\ blockno[my[t]] \in Block
  BY <1>3, OneHolder, Zenon DEF DataOK
<1>5. /\ data' \in [Buf -> Content] /\ data'[my[t]] = v /\ \A b \in Buf \ {my[t]} : data'[b] = data[b]
      /\ latest' \in [Block -> Content] /\ latest'[blockno[my[t]]] = v
      /\ \A n \in Block \ {blockno[my[t]]} : latest'[n] = latest[n]
  BY <1>1, <1>3, <1>4, Zenon DEF CacheTypes, Content
<1>6. /\ at'[t] = "changed" /\ \A u \in Threads \ {t} : at'[u] = at[u] /\ pc'[u] = pc[u]
  BY <1>1, <1>2, <1>3, Zenon DEF CacheTypes, Move
<1>7. DataOK(t)'
  BY <1>1, <1>4, <1>6, Zenon DEF DataOK
<1>8. Dirty(my[t])'
  BY <1>1, <1>6, Zenon DEF Dirty
<1>9. Contents'
  BY <1>1, <1>3, <1>4, <1>5, <1>6, <1>7, <1>8, HolderContents, Zenon DEF CacheTypes
<1>10. Counts'
  BY <1>1, CountsKept, Zenon DEF DiskInv
<1>11. "changed" \in Filled \ {"writing"}
  BY Zenon DEF Filled
<1>12. pc[t] = "idle" /\ pc' = [pc EXCEPT ![t] = "idle"] /\ mine' = [mine EXCEPT ![t] = None]
  <2>1. pc[t] = "idle" /\ mine[t] = None
    BY <1>1, Zenon DEF DiskInv, Control, ControlOK
  <2> QED
    BY <1>2, <2>1, PcType, Zenon
<1> QED
  BY <1>1, <1>2, <1>3, <1>5, <1>9, <1>10, <1>11, <1>12, HolderStep, Zenon DEF CacheTypes

\* bpin and bunpin.
LEMMA PinStep ==
    ASSUME DiskInv, MAX_OPS < UINT, NEW t \in Threads, bpin(t) \/ bunpin(t)
    PROVE  DiskInv'
<1>1. /\ UNCHANGED vars /\ UNCHANGED <<blockno, data, wr, vqueue, valid, lock, lru, my, latest>> /\ Move(t, "done")
      /\ \/ /\ at[t] = "changed" /\ pinned' = pinned \cup {my[t]}
            /\ refcnt' = IF my[t] \in pinned THEN refcnt ELSE [refcnt EXCEPT ![my[t]] = @ + 1]
         \/ at[t] = "written" /\ pinned' = pinned \ {my[t]} /\ refcnt' = [refcnt EXCEPT ![my[t]] = @ - 1]
  BY Zenon DEF bpin, bunpin
<1>2. DrainInv' /\ UNCHANGED <<pc, mine>>
  BY <1>1, DrainSame, Zenon
<1>3. /\ CacheTypes /\ UNCHANGED <<head, avail, image>> /\ at[t] \in Holding /\ at[t] \in Filled /\ DataOK(t)
      /\ \A b \in Buf : valid[b] => blockno[b] # 0 /\ data[b] = latest[blockno[b]]
  BY <1>1, Zenon DEF DiskInv, Contents, vqueue, driver, device, Holding, Filled
<1>4. /\ my[t] \in Buf /\ valid[my[t]] /\ blockno[my[t]] \in Block /\ data[my[t]] = latest[blockno[my[t]]]
      /\ at[t] = "written" => my[t] \in pinned /\ image[blockno[my[t]]] = latest[blockno[my[t]]]
  BY <1>3, OneHolder, Zenon DEF DataOK
<1>5. /\ pinned' \subseteq Buf /\ \A b \in Buf \ {my[t]} : b \in pinned' <=> b \in pinned
  BY <1>1, <1>3, <1>4, Zenon DEF CacheTypes
<1>6. /\ at'[t] = "done" /\ \A u \in Threads \ {t} : at'[u] = at[u] /\ pc'[u] = pc[u]
  BY <1>1, <1>2, <1>3, Zenon DEF CacheTypes, Move
<1>7. DataOK(t)'
  BY <1>1, <1>4, <1>6, Zenon DEF DataOK
<1>8. image[blockno[my[t]]] = latest[blockno[my[t]]] \/ Dirty(my[t])'
  BY <1>1, <1>4, Zenon DEF Dirty
<1>9. Contents'
  BY <1>1, <1>3, <1>4, <1>5, <1>6, <1>7, <1>8, HolderContents, Zenon DEF CacheTypes
<1>10. refcnt' \in [Buf -> Nat] /\ Counts'
  <2>1. /\ \A b \in Buf : Cardinality(Users(b)) \in Nat /\ Users(b)' = Users(b)
        /\ \A b \in Buf : refcnt[b] = Cardinality(Users(b)) + (IF b \in pinned THEN 1 ELSE 0)
    <3>1. \A b \in Buf : IsFiniteSet(Users(b))
      BY CacheAssumption, FS_Subset, Zenon DEF Users
    <3> QED
      BY <1>1, <3>1, FS_CardinalityType, Zenon DEF Users, DiskInv, Counts
  <2>2. \A b \in Buf : refcnt'[b] = Cardinality(Users(b)) + (IF b \in pinned' THEN 1 ELSE 0)
    <3> SUFFICES ASSUME NEW b \in Buf
                 PROVE  refcnt'[b] = Cardinality(Users(b)) + (IF b \in pinned' THEN 1 ELSE 0)
      BY Zenon
    <3>1. CASE b = my[t]
      BY <1>1, <1>3, <1>4, <2>1, <3>1 DEF CacheTypes
    <3>2. CASE b # my[t]
      BY <1>1, <1>3, <1>4, <1>5, <2>1, <3>2, ZenonT(40) DEF CacheTypes
    <3> QED
      BY <3>1, <3>2, Zenon
  <2>3. refcnt' = [b \in Buf |-> refcnt'[b]]
    BY <1>1, <1>3, Zenon DEF CacheTypes
  <2>4. refcnt' \in [Buf -> Nat]
    BY <2>1, <2>2, <2>3
  <2>5. \A b \in Buf : refcnt'[b] = Cardinality(Users(b)') + (IF b \in pinned' THEN 1 ELSE 0)
    BY <2>1, <2>2, Zenon
  <2>6. /\ \A b, c \in Buf : blockno'[b] = blockno'[c] /\ blockno'[b] # 0 => b = c
        /\ \A u \in Threads : my'[u] # None => blockno'[my'[u]] # 0
    BY <1>1, Zenon DEF DiskInv, Counts
  <2> QED
    BY <2>4, <2>5, <2>6, Zenon DEF Counts
<1>11. "done" \in Filled \ {"writing"}
  BY Zenon DEF Filled
<1>12. pc[t] = "idle" /\ pc' = [pc EXCEPT ![t] = "idle"] /\ mine' = [mine EXCEPT ![t] = None]
  <2>1. pc[t] = "idle" /\ mine[t] = None
    BY <1>1, Zenon DEF DiskInv, Control, ControlOK
  <2> QED
    BY <1>2, <2>1, PcType, Zenon
<1> QED
  BY <1>1, <1>2, <1>3, <1>5, <1>9, <1>10, <1>11, <1>12, HolderStep, Zenon DEF CacheTypes

\* bread and bwrite.
LEMMA BreadStep ==
    ASSUME DiskInv, MAX_OPS < UINT, NEW t \in Threads, bread(t)
    PROVE  DiskInv'
<1>1. /\ at[t] = "bread" /\ lock[my[t]] = None /\ lock' = [lock EXCEPT ![my[t]] = t]
      /\ UNCHANGED <<blockno, data, vqueue, valid, refcnt, lru, pinned, my, latest>>
  BY Zenon DEF bread
<1>2. my[t] \in Buf
  BY <1>1 DEF DiskInv, CacheTypes, Control, ControlOK
<1>3. CASE valid[my[t]]
  <2>1. Move(t, "holds") /\ UNCHANGED <<vars, wr>>
    BY <1>3, Zenon DEF bread
  <2> QED
    BY <1>1, <1>3, <2>1, BreadValid, Zenon
<1>4. CASE ~valid[my[t]]
  <2>1. Submit(t, 0) /\ Move(t, "reading")
    BY <1>4, Zenon DEF bread
  <2> QED
    BY <1>1, <1>2, <1>4, <2>1, SubmitStep, Zenon
<1> QED
  BY <1>3, <1>4, Zenon

\* bwrite: the holder submits its buffer for writing.
LEMMA BwriteStep ==
    ASSUME DiskInv, MAX_OPS < UINT, NEW t \in Threads, bwrite(t)
    PROVE  DiskInv'
<1>1. /\ at[t] \in {"changed", "holds"} /\ Submit(t, 1) /\ Move(t, "writing")
      /\ UNCHANGED <<blockno, data, vqueue, valid, refcnt, lru, pinned, my, latest>> /\ lock' = lock
  BY Zenon DEF bwrite, cache
<1>2. my[t] \in Buf
  BY <1>1, OneHolder, Zenon DEF Holding, Filled
<1> QED
  BY <1>1, <1>2, SubmitStep, Zenon

\* brelse gives the lock back; what is not on the disk is pinned.
LEMMA BrelseStep ==
    ASSUME DiskInv, MAX_OPS < UINT, NEW t \in Threads, brelse(t)
    PROVE  DiskInv'
<1>1. /\ at[t] \in {"holds", "done"} /\ lock' = [lock EXCEPT ![my[t]] = None] /\ at' = [at EXCEPT ![t] = "brelse"]
      /\ UNCHANGED vars /\ UNCHANGED <<blockno, data, wr, vqueue, valid, refcnt, lru, pinned, my, latest>>
  BY Zenon DEF brelse, Move
<1>2. /\ CacheTypes /\ UNCHANGED <<pc, mine, head, rw, image, avail>> /\ at[t] \in Holding /\ at[t] \in Filled
      /\ my[t] \in Buf /\ my[t] # None
  BY <1>1, OneHolder, DiskAssumption, Zenon DEF DiskInv, vqueue, driver, device, vars, Holding, Filled
<1>3. /\ at'[t] = "brelse" /\ \A u \in Threads \ {t} : at'[u] = at[u]
      /\ at' \in [Threads -> Stage] /\ lock' \in [Buf -> Threads \cup {None}]
  BY <1>1, <1>2, Zenon DEF CacheTypes, Stage
<1>4. CacheTypes'
  BY <1>1, <1>2, <1>3, Zenon DEF CacheTypes
<1>5. Control'
  <2>1. ControlOK(t)'
    <3>1. ControlOK(t) /\ "brelse" \notin Holding
      BY Zenon DEF DiskInv, Control, Holding, Filled
    <3> QED
      BY <1>1, <1>2, <1>3, <3>1, Zenon DEF ControlOK
  <2> QED
    BY <1>1, <1>2, <1>3, <2>1, HolderMoves, Zenon
<1>6. Contents'
  <2>1. DiskInv /\ UNCHANGED <<vars, vqueue, blockno, data, wr, valid, pinned, latest>> /\ my' = my
    BY <1>1, Zenon
  <2> QED
    BY <1>1, <1>3, <2>1, ContentsKept, Zenon
<1>7. Lru' /\ Counts'
  BY <1>1, CountsKept, Zenon DEF DiskInv, Lru
<1> QED
  BY <1>1, <1>4, <1>5, <1>6, <1>7, QuietStep, Zenon

\* The end of brelse: a buffer nobody wants goes to the front of the list.
LEMMA UnrefStep ==
    ASSUME DiskInv, MAX_OPS < UINT, NEW t \in Threads, brelse_unref(t)
    PROVE  DiskInv'
<1>1. /\ at[t] = "brelse" /\ refcnt' = [refcnt EXCEPT ![my[t]] = @ - 1]
      /\ my' = [my EXCEPT ![t] = None] /\ at' = [at EXCEPT ![t] = "out"]
      /\ UNCHANGED vars /\ UNCHANGED <<blockno, data, wr, vqueue, valid, lock, pinned, latest>>
  BY Zenon DEF brelse_unref, Move
<1>2. PICK i \in DOMAIN lru : /\ lru[i] = my[t]
                              /\ lru' = IF refcnt[my[t]] = 1 THEN <<my[t]>> \o Without(lru, i) ELSE lru
  BY Zenon DEF brelse_unref
<1>3. /\ CacheTypes /\ UNCHANGED <<image>> /\ my[t] \in Buf /\ None \notin Buf /\ None \in Buf \cup {None}
  <2>1. CacheTypes /\ ControlOK(t)
    BY Zenon DEF DiskInv, Control
  <2>2. UNCHANGED image
    BY <1>1, Zenon DEF vqueue, device
  <2>3. my[t] # None
    BY <1>1, <2>1, Zenon DEF ControlOK
  <2> QED
    BY <2>1, <2>2, <2>3, DiskAssumption, Zenon DEF CacheTypes
<1>4. /\ \A u \in Threads \ {t} : at'[u] = at[u] /\ my'[u] = my[u]
      /\ at'[t] = "out" /\ my'[t] = None /\ at' \in [Threads -> Stage] /\ my' \in [Threads -> Buf \cup {None}]
  BY <1>1, <1>3, Zenon DEF CacheTypes, Stage
<1>5. PICK b \in Buf : b = my[t]
  BY <1>3, Zenon
<1>6. \A c \in Buf : /\ Cardinality(Users(c)) \in Nat /\ Cardinality(Users(c)') \in Nat
                     /\ c # b => Users(c)' = Users(c)
                     /\ c = b => Cardinality(Users(c)') = Cardinality(Users(c)) - 1
  <2>1. \A c \in Buf : IsFiniteSet(Users(c)')
    BY CacheAssumption, FS_Subset, Zenon DEF Users
  <2>2. \A c \in Buf : Cardinality(Users(c)') \in Nat
    BY <2>1, FS_CardinalityType, Zenon
  <2>3. \A c \in Buf : c # None
    BY <1>3, Zenon
  <2> QED
    BY <1>1, <1>3, <1>5, <2>2, <2>3, UsersMove, Zenon
<1>7. \A c \in Buf : /\ refcnt[c] = Cardinality(Users(c)) + (IF c \in pinned THEN 1 ELSE 0)
                     /\ refcnt'[c] = IF c = b THEN refcnt[c] - 1 ELSE refcnt[c]
  BY <1>1, <1>3, <1>5, ZenonT(40) DEF DiskInv, Counts, CacheTypes
<1>8. \A c \in Buf : refcnt'[c] = Cardinality(Users(c)') + (IF c \in pinned THEN 1 ELSE 0)
  BY <1>6, <1>7
<1>9. CacheTypes'
  <2>1. refcnt' = [c \in Buf |-> refcnt'[c]]
    BY <1>1, <1>3, Zenon DEF CacheTypes
  <2>2. refcnt' \in [Buf -> Nat]
    BY <1>6, <1>8, <2>1
  <2> QED
    BY <1>1, <1>3, <1>4, <2>2, Zenon DEF CacheTypes
<1>10. Control'
  <2>1. at[t] \notin Holding /\ at'[t] \notin Holding
    BY <1>1, <1>4, Zenon DEF Holding, Filled
  <2>2. UNCHANGED <<vars, vqueue, lock>>
    BY <1>1, Zenon
  <2> QED
    BY <1>1, <1>4, <1>9, <2>1, <2>2, ThreadMoves, Zenon
<1>11. Contents'
  <2>1. UNCHANGED <<vars, vqueue, blockno, data, wr, valid, pinned, latest>>
    BY <1>1, Zenon
  <2> QED
    BY <1>1, <1>4, <2>1, ContentsKept, Zenon
<1>12. Lru'
  BY <1>2, MoveToFront, Zenon DEF DiskInv, Lru
<1>13. Counts'
  <2>1. \A u \in Threads : my'[u] # None => my'[u] = my[u]
    BY <1>4, Zenon
  <2> QED
    BY <1>1, <1>8, <2>1, Zenon DEF DiskInv, Counts
<1>14. \A u \in Busy : u # t
  BY <1>1, BusyThread, Zenon
<1>15. UNCHANGED <<vars, vqueue, wr>>
  BY <1>1, Zenon
<1> QED
  BY <1>1, <1>4, <1>9, <1>10, <1>11, <1>12, <1>13, <1>14, <1>15, BusyThread, QuietStep, Zenon
=============================================================================
