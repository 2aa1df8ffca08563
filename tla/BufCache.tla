------------------------------ MODULE BufCache ------------------------------
(***************************************************************************)
(* bio.c over disksched.c over virtio_disk.c.  A kernel thread reads a      *)
(* block, may change it, and then, before it releases the buffer, either    *)
(* writes it or pins it, as log_write does; a pinned buffer is written      *)
(* before it is unpinned, as install_trans does.  A step is a critical      *)
(* section of bcache.lock, dq_lock or vdisk_lock.  A thread that waits for  *)
(* a sleep lock has no step until the lock is free (Process has the wait).  *)
(***************************************************************************)
EXTENDS Virtio

CONSTANT MaxPins        \* bound: buffers the log has pinned

ASSUME CacheAssumption == 0 \notin Block /\ None \notin Threads /\ IsFiniteSet(Threads) /\ IsFiniteSet(Buf)

VARIABLES
    valid, refcnt,
    lock,               \* the thread that has b->lock, None if nobody
    lru,                \* the list of buffers, most recent first
    at, my,             \* where each thread is; the buffer it asked for
    pinned,             \* history: buffers pinned
    latest              \* history: the content the last holder of each block left

cache == <<valid, refcnt, lock, lru, pinned>>
allvars == <<vars, blockno, data, wr, vqueue, cache, at, my, latest>>

\* binit, over a disk of zeroes.
CacheInit ==
    /\ Init /\ VirtioInit
    /\ image = [n \in Block |-> 0]
    /\ blockno = [b \in Buf |-> 0] /\ data = [b \in Buf |-> 0]
    /\ valid = [b \in Buf |-> FALSE] /\ refcnt = [b \in Buf |-> 0]
    /\ lock = [b \in Buf |-> None]
    /\ lru \in Injection(1 .. Cardinality(Buf), Buf)
    /\ at = [t \in Threads |-> "out"] /\ my = [t \in Threads |-> None]
    /\ pinned = {}
    /\ latest = image

Move(t, to) == at' = [at EXCEPT ![t] = to]

-----------------------------------------------------------------------------
\* Mutant: a buffer in use may be recycled.
Unused_Any == {i \in DOMAIN lru : lock[lru[i]] = None}

\* The candidates for recycling: their places in the list, the least recently used last.
Unused == {i \in DOMAIN lru : refcnt[lru[i]] = 0}

\* Mutant: the buffer keeps its valid bit.
Recycle_Valid(b, n) ==
    /\ blockno' = [blockno EXCEPT ![b] = n]
    /\ refcnt' = [refcnt EXCEPT ![b] = 1]
    /\ UNCHANGED valid

Recycle(b, n) ==
    /\ blockno' = [blockno EXCEPT ![b] = n]
    /\ valid' = [valid EXCEPT ![b] = FALSE]
    /\ refcnt' = [refcnt EXCEPT ![b] = 1]

\* An assumption on the callers, which are not in this module: they leave a buffer for each
\* thread.  NBUF is MAXOPBLOCKS * 3 and begin_op admits calls by MAXOPBLOCKS.
Admitted == Cardinality(pinned) + Cardinality({t \in Threads : at[t] # "out"}) < Cardinality(Buf)

\* bget: the buffer of block n, or the least recently used one that nobody uses.
bget(t, n) ==
    /\ at[t] = "out" /\ Admitted
    /\ LET hit == {b \in Buf : blockno[b] = n}
       IN  IF hit # {}
           THEN \E b \in hit :
                   /\ refcnt' = [refcnt EXCEPT ![b] = @ + 1]
                   /\ my' = [my EXCEPT ![t] = b] /\ Move(t, "bread")
                   /\ UNCHANGED <<blockno, valid>>
           ELSE IF Unused # {}
           THEN \E i \in Unused :
                   /\ \A j \in Unused : j <= i
                   /\ Recycle(lru[i], n)
                   /\ my' = [my EXCEPT ![t] = lru[i]] /\ Move(t, "bread")
           ELSE Move(t, "panic") /\ UNCHANGED <<blockno, valid, refcnt, my>>
    /\ UNCHANGED <<vars, data, wr, vqueue, lock, lru, pinned, latest>>

\* disksched_submit(b, w) by t.
Submit(t, w) ==
    /\ \E prio \in Prio : disksched_submit(t, my[t], blockno[my[t]], w, prio)
    /\ wr' = [wr EXCEPT ![my[t]] = w]

\* The rest of bread: acquiresleep, and the read of a buffer that is not valid.
bread(t) ==
    /\ at[t] = "bread" /\ lock[my[t]] = None
    /\ lock' = [lock EXCEPT ![my[t]] = t]
    /\ IF valid[my[t]]
       THEN Move(t, "holds") /\ UNCHANGED <<vars, wr>>
       ELSE Submit(t, 0) /\ Move(t, "reading")
    /\ UNCHANGED <<blockno, data, vqueue, valid, refcnt, lru, pinned, my, latest>>

bread_return(t) ==
    /\ at[t] = "reading" /\ Return(t)
    /\ valid' = [valid EXCEPT ![my[t]] = TRUE]
    /\ Move(t, "holds")
    /\ UNCHANGED <<blockno, data, wr, vqueue, refcnt, lock, lru, pinned, my, latest>>

\* The holder changes the block.
Change(t, v) ==
    /\ at[t] = "holds" /\ submits < MAX_OPS /\ v # data[my[t]]
    /\ data' = [data EXCEPT ![my[t]] = v]
    /\ latest' = [latest EXCEPT ![blockno[my[t]]] = v]
    /\ Move(t, "changed")
    /\ UNCHANGED <<vars, blockno, wr, vqueue, cache, my>>

bwrite(t) ==
    /\ at[t] = "changed" \/ (at[t] = "holds" /\ my[t] \in pinned)
    /\ Submit(t, 1) /\ Move(t, "writing")
    /\ UNCHANGED <<blockno, data, vqueue, cache, my, latest>>

bwrite_return(t) ==
    /\ at[t] = "writing" /\ Return(t)
    /\ wr' = [wr EXCEPT ![my[t]] = 0]      \* forgotten
    /\ Move(t, IF my[t] \in pinned THEN "written" ELSE "done")
    /\ UNCHANGED <<blockno, data, vqueue, cache, my, latest>>

\* log_write pins a buffer once.
bpin(t) ==
    /\ at[t] = "changed" /\ Cardinality(pinned \cup {my[t]}) <= MaxPins
    /\ pinned' = pinned \cup {my[t]}
    /\ refcnt' = IF my[t] \in pinned THEN refcnt ELSE [refcnt EXCEPT ![my[t]] = @ + 1]
    /\ Move(t, "done")
    /\ UNCHANGED <<vars, blockno, data, wr, vqueue, valid, lock, lru, my, latest>>

bunpin(t) ==
    /\ at[t] = "written"
    /\ pinned' = pinned \ {my[t]}
    /\ refcnt' = [refcnt EXCEPT ![my[t]] = @ - 1]
    /\ Move(t, "done")
    /\ UNCHANGED <<vars, blockno, data, wr, vqueue, valid, lock, lru, my, latest>>

\* brelse: the lock first, then the count and the list.
brelse(t) ==
    /\ at[t] \in {"holds", "done"}
    /\ lock' = [lock EXCEPT ![my[t]] = None]
    /\ Move(t, "brelse")
    /\ UNCHANGED <<vars, blockno, data, wr, vqueue, valid, refcnt, lru, pinned, my, latest>>

brelse_unref(t) ==
    /\ at[t] = "brelse"
    /\ refcnt' = [refcnt EXCEPT ![my[t]] = @ - 1]
    /\ \E i \in DOMAIN lru :
          /\ lru[i] = my[t]
          /\ lru' = IF refcnt[my[t]] = 1 THEN <<my[t]>> \o Without(lru, i) ELSE lru
    /\ my' = [my EXCEPT ![t] = None] /\ Move(t, "out")
    /\ UNCHANGED <<vars, blockno, data, wr, vqueue, valid, lock, pinned, latest>>

-----------------------------------------------------------------------------
\* The steps of the layers below.
Above == <<blockno, wr, cache, at, my, latest>>

Driver(t) ==
    \/ /\ virtio_disk_rw_post(t) \/ virtio_disk_rw_full(t) \/ virtio_disk_rw_wait(t) \/ kkill(t)
       /\ UNCHANGED <<vars, data>>
    \/ /\ virtio_disk_rw_done(t) /\ virtio_disk_rw(t)
       /\ UNCHANGED data

Interrupt == (virtio_disk_intr \/ virtio_disk_intr_next \/ virtio_disk_intr_end) /\ UNCHANGED <<vars, data>>
Device    == (\E d \in Desc : device_done(d)) /\ UNCHANGED vars

Thread(t) ==
    \/ \E n \in Block : bget(t, n)
    \/ bread(t) \/ bread_return(t)
    \/ \E v \in Val : Change(t, v)
    \/ bwrite(t) \/ bwrite_return(t) \/ bpin(t) \/ bunpin(t) \/ brelse(t) \/ brelse_unref(t)

CacheNext ==
    \/ \E t \in Threads : Thread(t)
    \/ (Interrupt \/ Device \/ \E t \in Threads : Driver(t)) /\ UNCHANGED Above
    \/ /\ sched_policy = FCFS /\ disksched_set_policy(SSTF)
       /\ UNCHANGED <<blockno, data, wr, vqueue, cache, at, my, latest>>

CacheSpec == CacheInit /\ [][CacheNext]_allvars

-----------------------------------------------------------------------------
\* The buffers, the queue, the descriptors and the threads keep their types: a reference
\* count is a number, a locked buffer has one owner, a slot holds a request (struct buf,
\* struct disk_request, struct disk).
CacheTypeOK ==
    /\ TypeOK
    /\ blockno \in [Buf -> Block \cup {0}] /\ refcnt \in [Buf -> Nat]
    /\ lock \in [Buf -> Threads \cup {None}]
    /\ Len(lru) = Cardinality(Buf) /\ Range(lru) = Buf
    /\ free \subseteq Desc

\* "Return a locked buf with the contents of the indicated block": whoever holds a block sees
\* what its last holder left there, through any sequence of recycling, pinning and transfers.
Coherent ==
    \A t \in Threads :
        at[t] \in {"holds", "changed", "writing", "written", "done"} =>
            valid[my[t]] /\ lock[my[t]] = t /\ data[my[t]] = latest[blockno[my[t]]]

\* A block has at most one buffer, and refcnt counts exactly the threads between bget and the
\* end of brelse, and the pin: only a buffer with none of those is recycled.
RefsExact ==
    /\ CacheTypeOK
    /\ \A b, c \in Buf : blockno[b] = blockno[c] /\ blockno[b] # 0 => b = c
    /\ \A b \in Buf :
          refcnt[b] = Cardinality({t \in Threads : my[t] = b}) + (IF b \in pinned THEN 1 ELSE 0)
    /\ \A t \in Threads : at[t] # "panic"

\* Nothing but a pinned buffer or one being changed is newer than the disk: what is recycled
\* can be read back.
CleanOnDisk ==
    \A n \in Block :
        \/ image[n] = latest[n]
        \/ \E b \in Buf : blockno[b] = n /\ (b \in pinned \/ lock[b] # None) /\ data[b] = latest[n]
=============================================================================
