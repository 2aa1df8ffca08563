------------------------------- MODULE Virtio -------------------------------
(***************************************************************************)
(* virtio_disk.c below disksched_submit: the descriptors, the two rings,    *)
(* the interrupt, and the device at the other end.  Steps of the driver are *)
(* critical sections of disk.vdisk_lock, which the interrupt handler holds  *)
(* while it goes through the used ring and the device adds to it.  The ring *)
(* indices are kept as the entries between them: NUM divides 2^16, so they  *)
(* wrap together, and a ring holds at most NUM / 3 entries.                 *)
(***************************************************************************)
EXTENDS DiskSched, Sequences, FiniteSetsExt

CONSTANTS NUMS,         \* the queue sizes looked at; the code has 8
          Val           \* contents of a block

ASSUME VirtioAssumption == NUMS \subseteq Nat /\ \A n \in NUMS : n >= 3

NoOp == [b |-> None, blockno |-> 0, write |-> 0]

VARIABLES
    NUM,                \* descriptors, and entries of each ring; constant in a behaviour
    blockno,            \* b->blockno, 0 before a first use
    data,               \* b->data
    owned,              \* b->disk: does disk "own" buf?
    wr,                 \* the write flag of the request made for b
    free, next,         \* of a descriptor: is it free, the next one of its chain, None at the end
    ops,                \* of a head descriptor: the request, as the device reads it
    info,               \* of a head descriptor: the buffer and the status, 255 until the device is done
    avail, used,        \* the rings: the entries the other side has not looked at yet
    head,               \* the chain of each thread, None without one
    rw,                 \* threads in virtio_disk_rw: ready, or asleep on &disk.free[0] or on b
    intr,               \* the interrupt handler holds vdisk_lock
    image, pending      \* the device: its blocks, its interrupt

driver == <<owned, free, next, ops, info, head, rw, intr>>
device == <<image, pending>>
vqueue == <<NUM, driver, device, avail, used>>

Desc == 0 .. NUM - 1

\* The sequence s without its i-th entry.
Without(s, i) == SubSeq(s, 1, i - 1) \o SubSeq(s, i + 1, Len(s))

VirtioInit ==
    /\ NUM \in NUMS
    /\ owned = [b \in Buf |-> FALSE] /\ wr = [b \in Buf |-> 0]
    /\ free = Desc /\ next = [d \in Desc |-> None]
    /\ ops = [d \in Desc |-> NoOp] /\ info = [d \in Desc |-> [b |-> None, status |-> 0]]
    /\ avail = <<>> /\ used = <<>> /\ head = [t \in Threads |-> None]
    /\ rw = [t \in Threads |-> "ready"]
    /\ intr = FALSE
    /\ pending = FALSE

\* Mutant: descriptors are given back silently.
WakeFree_None(r) == r

\* wakeup(&disk.free[0])
WakeFree(r) == [t \in Threads |-> IF r[t] = "free" THEN "ready" ELSE r[t]]

-----------------------------------------------------------------------------
\* The driver

\* virtio_disk_rw of thread t, awake and with the lock.
InRw(t) == pc[t] = "io" /\ rw[t] = "ready" /\ ~intr

\* alloc3_desc: the three lowest free descriptors.
alloc3_desc ==
    LET a == Min(free)  b == Min(free \ {a})  c == Min(free \ {a, b}) IN <<a, b, c>>

\* What is recorded for the interrupt handler.
Info(b) == [b |-> b, status |-> 255]

\* Three descriptors are found: the request is made and the device told.
virtio_disk_rw_post(t) ==
    /\ InRw(t) /\ head[t] = None /\ Cardinality(free) >= 3
    /\ \E b \in {chosen[t]}, d \in {alloc3_desc} :
          /\ free' = free \ {d[1], d[2], d[3]}
          /\ next' = [next EXCEPT ![d[1]] = d[2], ![d[2]] = d[3], ![d[3]] = None]
          /\ ops' = [ops EXCEPT ![d[1]] = [b |-> b, blockno |-> blockno[b], write |-> wr[b]]]
          /\ info' = [info EXCEPT ![d[1]] = Info(b)]
          /\ owned' = [owned EXCEPT ![b] = TRUE]
          /\ avail' = Append(avail, d[1])
          /\ head' = [head EXCEPT ![t] = d[1]]
          /\ rw' = [rw EXCEPT ![t] = "buf"]
    /\ UNCHANGED <<NUM, intr, used, device>>

\* Too few: the ones taken are given back, which wakes other threads that wait for some.
virtio_disk_rw_full(t) ==
    /\ InRw(t) /\ head[t] = None /\ Cardinality(free) < 3
    /\ rw' = [(IF free = {} THEN rw ELSE WakeFree(rw)) EXCEPT ![t] = "free"]
    /\ UNCHANGED <<NUM, owned, free, next, ops, info, head, intr, avail, used, device>>

\* Mutant: any wakeup counts.
Done_Woken(t) == TRUE

\* The test that ends the wait.
Done(t) == ~owned[chosen[t]]

\* Woken, but the device still has the buffer.
virtio_disk_rw_wait(t) ==
    /\ InRw(t) /\ head[t] # None /\ ~Done(t)
    /\ rw' = [rw EXCEPT ![t] = "buf"]
    /\ UNCHANGED <<NUM, owned, free, next, ops, info, head, intr, avail, used, device>>

\* Mutant: the last descriptor of a chain is forgotten.
Chain_Short(d) == {d, next[d]}

\* The descriptors free_chain follows.
Chain(d) == {d, next[d], next[next[d]]}

\* The request has been done.
virtio_disk_rw_done(t) ==
    /\ InRw(t) /\ head[t] # None /\ Done(t)
    /\ free' = free \cup Chain(head[t])
    /\ next' = [d \in Desc |-> IF d \in Chain(head[t]) THEN None ELSE next[d]]
    /\ info' = [info EXCEPT ![head[t]].b = None]
    /\ ops' = [ops EXCEPT ![head[t]] = NoOp]
    /\ rw' = WakeFree(rw)
    /\ head' = [head EXCEPT ![t] = None]
    /\ UNCHANGED <<NUM, owned, intr, avail, used, device>>

\* kkill makes any sleeper RUNNABLE.
kkill(t) ==
    /\ pc[t] = "io" /\ rw[t] # "ready"
    /\ rw' = [rw EXCEPT ![t] = "ready"]
    /\ UNCHANGED <<NUM, owned, free, next, ops, info, head, intr, avail, used, device>>

-----------------------------------------------------------------------------
\* The interrupt handler

virtio_disk_intr ==
    /\ pending /\ ~intr
    /\ intr' = TRUE /\ pending' = FALSE
    /\ UNCHANGED <<NUM, owned, free, next, ops, info, head, rw, image, avail, used>>

\* One entry of the used ring; the device may add others meanwhile.
virtio_disk_intr_next ==
    /\ intr /\ used # <<>>
    /\ \E b \in {info[Head(used)].b} :
          /\ owned' = [owned EXCEPT ![b] = FALSE]
          /\ rw' = [t \in Threads |-> IF rw[t] = "buf" /\ chosen[t] = b THEN "ready" ELSE rw[t]]
    /\ used' = Tail(used)
    /\ UNCHANGED <<NUM, free, next, ops, info, head, intr, avail, device>>

virtio_disk_intr_end ==
    /\ intr /\ used = <<>>
    /\ intr' = FALSE
    /\ UNCHANGED <<NUM, owned, free, next, ops, info, head, rw, avail, used, device>>

-----------------------------------------------------------------------------
\* The device does one of the requests it has been given, in whatever order.
device_done(d) ==
    /\ \E i \in DOMAIN avail : avail[i] = d /\ avail' = Without(avail, i)
    /\ LET o == ops[d]
       IN  IF o.write = 1
           THEN image' = [image EXCEPT ![o.blockno] = data[o.b]] /\ UNCHANGED data
           ELSE data' = [data EXCEPT ![o.b] = image[o.blockno]] /\ UNCHANGED image
    /\ info' = [info EXCEPT ![d].status = 0]
    /\ used' = Append(used, d)
    /\ pending' = TRUE
    /\ UNCHANGED <<NUM, owned, free, next, ops, head, rw, intr>>

-----------------------------------------------------------------------------
\* Every descriptor that is not free belongs to the chain of one thread, chains are disjoint
\* and whole: free_desc never finds a free one, and none is lost.
ChainsExact ==
    LET busy == {t \in Threads : head[t] # None}
    IN  /\ \A t, u \in busy : t # u => Chain(head[t]) \cap Chain(head[u]) = {}
        /\ free = Desc \ UNION {Chain(head[t]) : t \in busy}

\* The device works for a thread that waits: a buffer it owns is the one of exactly one thread,
\* whose request is on one of the rings or at the device, and whose completion the handler
\* will find, with the status done.
DeviceOwns ==
    LET asked == Range(avail)
        done  == Range(used)
    IN  /\ \A b \in Buf : owned[b] <=> \E d \in asked \cup done : info[d].b = b
        /\ \A b \in Buf : owned[b] =>
              \E t \in Threads : chosen[t] = b /\ info[head[t]].b = b /\ ops[head[t]].blockno = blockno[b]
        /\ asked \cap done = {}
        /\ \A d \in done : info[d].status = 0

\* Driver and device agree: descriptors are neither lost nor shared, and each request the
\* device works on is the one of a waiting thread (virtio_disk_rw, virtio_disk_intr).
RingsExact == ChainsExact /\ DeviceOwns

\* No wakeup is lost: a thread asleep on its buffer waits for a request the device still has,
\* or an interrupt is yet to report it; one asleep for descriptors lacks them.
IoWakes ==
    \A t \in Threads :
        /\ rw[t] = "buf" => owned[chosen[t]] /\ (used = <<>> \/ pending \/ intr)
        /\ rw[t] = "free" => Cardinality(free) < 3
=============================================================================
