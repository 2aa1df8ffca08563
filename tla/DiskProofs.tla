----------------------------- MODULE DiskProofs -----------------------------
(***************************************************************************)
(* Proofs about the disk stack, continued: the steps of the driver, of the  *)
(* interrupt handler and of the device, and what follows.                   *)
(***************************************************************************)
EXTENDS CacheProofs, WellFoundedInduction

-----------------------------------------------------------------------------
\* The steps of virtio_disk.c and of the device, which leave what bio.c keeps alone.

\* A step of the driver or of the device leaves the list, the counts and the blocks of bio.c alone.
LEMMA AboveKept ==
    ASSUME DiskInv, UNCHANGED Above
    PROVE  /\ Lru' /\ Counts'
           /\ UNCHANGED <<blockno, wr, valid, refcnt, lock, lru, pinned, at, my, latest>>
<1>1. UNCHANGED <<blockno, wr, valid, refcnt, lock, lru, pinned, at, my, latest>>
  BY Zenon DEF Above, cache
<1> QED
  BY <1>1, CountsKept, Zenon DEF DiskInv, Lru

\* A thread outside virtio_disk_rw has no chain and is not asleep there.
LEMMA DriverControl ==
    ASSUME DiskInv, UNCHANGED Above, UNCHANGED <<pc, mine>>,
           \A u \in Threads : pc[u] # "io" => head'[u] = None /\ rw'[u] = "ready"
    PROVE  Control'
<1>1. UNCHANGED <<lock, at, my, pc, mine>>
  BY AboveKept, Zenon
<1>2. ASSUME NEW u \in Threads
      PROVE  ControlOK(u)'
  <2>1. ControlOK(u)
    BY Zenon DEF DiskInv, Control
  <2> QED
    BY <1>1, <2>1, Zenon DEF ControlOK
<1> QED
  BY <1>1, <1>2, Zenon DEF DiskInv, Control

\* The contents while neither a buffer nor a block of the disk changes.
LEMMA DriverContents ==
    ASSUME DiskInv, UNCHANGED Above, UNCHANGED <<data, image>>,
           \A u \in Threads : Answered(u)' => Answered(u)
    PROVE  Contents'
<1>1. UNCHANGED <<blockno, wr, valid, pinned, at, my, latest, data, image>>
  BY AboveKept, Zenon
<1>2. ASSUME NEW u \in Threads
      PROVE  DataOK(u)'
  <2>1. DataOK(u) /\ (Answered(u)' => Answered(u))
    BY Zenon DEF DiskInv, Contents
  <2> QED
    BY <1>1, <2>1, Zenon DEF DataOK
<1>3. \A b : Dirty(b)' <=> Dirty(b)
  BY <1>1, Zenon DEF Dirty
<1> QED
  BY <1>1, <1>2, <1>3, Zenon DEF DiskInv, Contents

\* Steps that only put a thread to sleep, wake it, or raise or end the interrupt.
LEMMA SleepStep ==
    ASSUME DiskInv, MAX_OPS < UINT, UNCHANGED Above, UNCHANGED <<vars, data>>,
           UNCHANGED <<NUM, owned, free, next, ops, info, head, image, avail, used>>,
           rw' \in [Threads -> {"ready", "free", "buf"}], intr' \in BOOLEAN, pending' \in BOOLEAN,
           \A u \in Threads : pc[u] # "io" => rw'[u] = "ready",
           Wakes'
    PROVE  DiskInv'
<1>1. UNCHANGED vars /\ UNCHANGED data /\ image' = image
  BY Zenon
<1>2. DrainInv' /\ UNCHANGED <<pc, mine>>
  BY <1>1, DrainSame, Zenon
<1>3. /\ Lru' /\ Counts' /\ UNCHANGED <<blockno, wr, valid, refcnt, lock, pinned, at, my, latest>>
  BY AboveKept, Zenon
<1>4. CacheTypes'
  BY <1>1, <1>3, Zenon DEF DiskInv, CacheTypes
<1>5. Control'
  <2>1. \A u \in Threads : pc[u] # "io" => head'[u] = None
    BY NotBusy, Zenon
  <2> QED
    BY <1>2, <2>1, DriverControl, Zenon
<1>6. Contents'
  <2>1. \A u \in Threads : Answered(u)' => Answered(u)
    BY <1>2, Zenon DEF Answered
  <2> QED
    BY <1>1, <2>1, DriverContents, Zenon
<1>7. UNCHANGED <<NUM, owned, free, next, ops, info, head, avail, used>>
  BY Zenon
<1>8. Desc' = Desc /\ Busy' = Busy /\ InRings' = InRings
  BY <1>7, Zenon DEF Desc, Busy, InRings
<1>9. RingTypes'
  BY <1>7, <1>8, Zenon DEF DiskInv, RingTypes
<1>10. Chains'
  <2>1. \A d : Chain(d)' = Chain(d)
    BY <1>7, Zenon DEF Chain
  <2> QED
    BY <1>7, <1>8, <2>1, Zenon DEF DiskInv, Chains
<1>11. Rings'
  <2>1. \A u \in Busy : RequestOK(u)'
    BY <1>3, <1>7, <1>8 DEF DiskInv, Rings, RequestOK
  <2> QED
    BY <1>3, <1>7, <1>8, <2>1, Zenon DEF DiskInv, Rings, Distinct
<1> QED
  BY <1>2, <1>3, <1>4, <1>5, <1>6, <1>9, <1>10, <1>11, Zenon DEF DiskInv

\* virtio_disk_rw waits for descriptors or for its buffer, or is woken by kkill.
LEMMA WaitStep ==
    ASSUME DiskInv, MAX_OPS < UINT, UNCHANGED Above, UNCHANGED <<vars, data>>, NEW t \in Threads,
           virtio_disk_rw_full(t) \/ virtio_disk_rw_wait(t) \/ kkill(t)
    PROVE  DiskInv'
<1>1. /\ UNCHANGED <<NUM, owned, free, next, ops, info, head, image, avail, used>> /\ UNCHANGED <<intr, pending>>
      /\ pc[t] = "io"
  BY Zenon DEF virtio_disk_rw_full, virtio_disk_rw_wait, kkill, device, InRw
<1>2. /\ RingTypes /\ Wakes /\ \A u \in Threads : pc[u] # "io" => rw[u] = "ready"
  BY NotBusy, Zenon DEF DiskInv
<1>3. PICK v \in {"ready", "free", "buf"} :
          /\ rw' = [rw EXCEPT ![t] = v] \/ rw' = [WakeFree(rw) EXCEPT ![t] = v]
          /\ v = "free" => head[t] = None /\ Cardinality(free) < 3
          /\ v = "buf" => head[t] # None /\ owned[my[t]]
  <2>1. CASE virtio_disk_rw_full(t)
    BY <2>1, Zenon DEF virtio_disk_rw_full
  <2>2. CASE virtio_disk_rw_wait(t)
    BY <1>1, <2>2, IoThread, Zenon DEF virtio_disk_rw_wait, Done
  <2>3. CASE kkill(t)
    BY <2>3, Zenon DEF kkill
  <2> QED
    BY <2>1, <2>2, <2>3, Zenon
<1>4. /\ rw' \in [Threads -> {"ready", "free", "buf"}] /\ rw'[t] = v
      /\ \A u \in Threads \ {t} : rw'[u] = rw[u] \/ rw'[u] = "ready"
  BY <1>2, <1>3, Zenon DEF RingTypes, WakeFree
<1>5. UNCHANGED my
  BY AboveKept, Zenon
<1>6. Wakes'
  <2>1. used' # <<>> => pending' \/ intr'
    BY <1>1, <1>2, Zenon DEF Wakes
  <2>2. ASSUME NEW u \in Threads
        PROVE  /\ rw'[u] = "buf" => head'[u] # None /\ owned'[my'[u]]
               /\ rw'[u] = "free" => head'[u] = None /\ Cardinality(free') < 3
    BY <1>1, <1>2, <1>3, <1>4, <1>5, Zenon DEF Wakes
  <2> QED
    BY <2>1, <2>2, Zenon DEF Wakes
<1>7. \A u \in Threads : pc[u] # "io" => rw'[u] = "ready"
  BY <1>1, <1>2, <1>4, Zenon
<1>8. intr' \in BOOLEAN /\ pending' \in BOOLEAN
  BY <1>1, <1>2, Zenon DEF RingTypes
<1> QED
  BY <1>1, <1>4, <1>6, <1>7, <1>8, SleepStep, Zenon

\* The interrupt handler starts, and ends when the used ring is empty.
LEMMA IntrStep ==
    ASSUME DiskInv, MAX_OPS < UINT, UNCHANGED Above, UNCHANGED <<vars, data>>,
           virtio_disk_intr \/ virtio_disk_intr_end
    PROVE  DiskInv'
<1>1. /\ UNCHANGED <<NUM, owned, free, next, ops, info, head, image, avail, used>> /\ rw' = rw
      /\ \/ intr' = TRUE /\ pending' = FALSE
         \/ intr' = FALSE /\ pending' = pending /\ used = <<>>
  BY Zenon DEF virtio_disk_intr, virtio_disk_intr_end, device
<1>2. /\ RingTypes /\ Wakes /\ \A u \in Threads : pc[u] # "io" => rw[u] = "ready"
  BY NotBusy, Zenon DEF DiskInv
<1>3. UNCHANGED my
  BY AboveKept, Zenon
<1>4. Wakes'
  <2>1. used' # <<>> => pending' \/ intr'
    BY <1>1, Zenon
  <2> QED
    BY <1>1, <1>2, <1>3, <2>1, Zenon DEF Wakes
<1>5. rw' \in [Threads -> {"ready", "free", "buf"}] /\ intr' \in BOOLEAN /\ pending' \in BOOLEAN
  BY <1>1, <1>2, Zenon DEF RingTypes
<1> QED
  BY <1>1, <1>2, <1>4, <1>5, SleepStep, Zenon


\* A ring entry is the request of one thread, and of nobody else.
LEMMA EntryOwner ==
    ASSUME DiskInv, NEW d \in InRings
    PROVE  \E t \in Busy : /\ head[t] = d /\ t \in Threads /\ pc[t] = "io" /\ my[t] \in Buf /\ d \in Desc
                           /\ chosen[t] = my[t] /\ at[t] \in {"reading", "writing"} /\ RequestOK(t)
                           /\ \A u \in Busy \ {t} : my[u] # my[t] /\ head[u] # d
<1>1. PICK t \in Busy : head[t] = d
  BY Zenon DEF DiskInv, Rings
<1>2. t \in Threads /\ pc[t] = "io" /\ d \in Desc /\ my[t] \in Buf /\ at[t] \in {"reading", "writing"}
  BY <1>1, BusyThread, Zenon
<1>3. chosen[t] = my[t]
  BY <1>2, IoThread, Zenon
<1>4. \A u \in Busy \ {t} : my[u] # my[t] /\ head[u] # d
  BY <1>1, BusyApart, Zenon
<1>5. RequestOK(t)
  BY Zenon DEF DiskInv, Rings
<1> QED
  BY <1>1, <1>2, <1>3, <1>4, <1>5, Zenon

\* The handler takes an entry of the used ring and wakes the thread that waits for it.
LEMMA IntrNextStep ==
    ASSUME DiskInv, MAX_OPS < UINT, UNCHANGED Above, UNCHANGED <<vars, data>>, virtio_disk_intr_next
    PROVE  DiskInv'
<1> DEFINE d == Head(used)
<1>1. /\ used \in Seq(Desc) /\ used # <<>> /\ Distinct(used) /\ used' = Tail(used) /\ intr
      /\ owned' = [owned EXCEPT ![info[d].b] = FALSE]
      /\ rw' = [u \in Threads |-> IF rw[u] = "buf" /\ chosen[u] = info[d].b THEN "ready" ELSE rw[u]]
      /\ UNCHANGED <<NUM, free, next, ops, info, head, intr, avail, image, pending>>
  <2>1. used \in Seq(Desc) /\ Distinct(used)
    BY Zenon DEF DiskInv, RingTypes, Rings
  <2>2. intr /\ used # <<>> /\ used' = Tail(used)
    BY Zenon DEF virtio_disk_intr_next
  <2>3. UNCHANGED <<NUM, free, next, ops, info, head, intr, avail, image, pending>>
    BY Zenon DEF virtio_disk_intr_next, device
  <2>4. /\ owned' = [owned EXCEPT ![info[d].b] = FALSE]
        /\ rw' = [u \in Threads |-> IF rw[u] = "buf" /\ chosen[u] = info[d].b THEN "ready" ELSE rw[u]]
    BY Zenon DEF virtio_disk_intr_next
  <2> QED
    BY <2>1, <2>2, <2>3, <2>4, Zenon
<1>2. /\ used' \in Seq(Desc) /\ d \in Range(used) /\ Range(used') = Range(used) \ {d} /\ Distinct(used')
  BY <1>1, TailFacts, Zenon
<1> HIDE DEF d
<1>3. PICK t \in Busy : /\ head[t] = d /\ t \in Threads /\ pc[t] = "io" /\ my[t] \in Buf
                        /\ chosen[t] = my[t] /\ RequestOK(t)
                        /\ \A u \in Busy \ {t} : my[u] # my[t] /\ head[u] # d
  BY <1>2, EntryOwner DEF InRings
<1>4. info[d].b = my[t]
  BY <1>3, Zenon DEF RequestOK
<1>5. /\ RingTypes /\ Rings /\ Wakes /\ Chains
  BY Zenon DEF DiskInv
<1>6. /\ owned' \in [Buf -> BOOLEAN] /\ ~owned'[my[t]] /\ \A b \in Buf \ {my[t]} : owned'[b] = owned[b]
  BY <1>1, <1>3, <1>4, <1>5, Zenon DEF RingTypes
<1>7. /\ rw' \in [Threads -> {"ready", "free", "buf"}]
      /\ \A u \in Threads : rw'[u] = IF rw[u] = "buf" /\ chosen[u] = my[t] THEN "ready" ELSE rw[u]
  BY <1>1, <1>4, <1>5, Zenon DEF RingTypes
<1>8. UNCHANGED vars /\ UNCHANGED data
  BY Zenon
<1>9. DrainInv' /\ UNCHANGED <<pc, mine>>
  BY <1>8, DrainSame, Zenon
<1>10. /\ Lru' /\ Counts' /\ UNCHANGED <<blockno, wr, valid, refcnt, lock, pinned, at, my, latest>>
  BY AboveKept, Zenon
<1>11. CacheTypes'
  BY <1>1, <1>8, <1>10, Zenon DEF DiskInv, CacheTypes
<1>12. Control'
  <2>1. \A u \in Threads : pc[u] # "io" => head'[u] = None /\ rw[u] = "ready"
    BY <1>1, NotBusy, Zenon
  <2>2. \A u \in Threads : pc[u] # "io" => rw'[u] = "ready"
    BY <1>7, <2>1, Zenon
  <2> QED
    BY <1>9, <2>1, <2>2, DriverControl, Zenon
<1>13. Contents'
  <2>1. \A u \in Threads : Answered(u)' => Answered(u)
    BY <1>1, <1>9, Zenon DEF Answered
  <2> QED
    BY <1>1, <1>8, <2>1, DriverContents, Zenon
<1>14. Desc' = Desc /\ Busy' = Busy /\ InRings' = InRings \ {d}
  <2>1. d \notin Range(avail)
    BY <1>2, <1>5, Zenon DEF Rings
  <2> QED
    BY <1>1, <1>2, <2>1, Zenon DEF Desc, Busy, InRings
<1>15. RingTypes'
  BY <1>1, <1>2, <1>5, <1>6, <1>7, <1>14, Zenon DEF RingTypes
<1>16. Chains'
  <2>1. \A e : Chain(e)' = Chain(e)
    BY <1>1, Zenon DEF Chain
  <2> QED
    BY <1>1, <1>5, <1>14, <2>1, Zenon DEF Chains
<1>17. Rings'
  <2>1. ASSUME NEW u \in Busy
        PROVE  RequestOK(u)'
    <3>1. RequestOK(u) /\ my[u] \in Buf
      BY <1>5, BusyThread, Zenon DEF Rings
    <3>2. CASE u = t
      BY <1>1, <1>3, <1>6, <1>10, <1>14, <3>1, <3>2, Zenon DEF RequestOK
    <3>3. CASE u # t
      <4>1. my[u] # my[t] /\ head[u] # d
        BY <1>3, <3>3, Zenon
      <4> QED
        BY <1>1, <1>6, <1>10, <1>14, <3>1, <4>1, Zenon DEF RequestOK
    <3> QED
      BY <3>2, <3>3, Zenon
  <2>2. \A b \in Buf : owned'[b] => \E u \in Busy : my[u] = b
    BY <1>5, <1>6, Zenon DEF Rings
  <2>3. Distinct(avail)' /\ Distinct(used)' /\ Range(avail') \cap Range(used') = {}
    BY <1>1, <1>2, <1>5, Zenon DEF Rings, Distinct
  <2>4. \A e \in InRings' : \E u \in Busy : head[u] = e
    BY <1>5, <1>14, Zenon DEF Rings
  <2>5. \A e \in Range(used') : info[e].status = 0
    BY <1>2, <1>5, Zenon DEF Rings
  <2> QED
    BY <1>1, <1>10, <1>14, <2>1, <2>2, <2>3, <2>4, <2>5, Zenon DEF Rings
<1>18. Wakes'
  <2>1. ASSUME NEW u \in Threads
        PROVE  /\ rw'[u] = "buf" => head'[u] # None /\ owned'[my'[u]]
               /\ rw'[u] = "free" => head'[u] = None /\ Cardinality(free') < 3
    <3>1. /\ rw[u] = "buf" => head[u] # None /\ owned[my[u]]
          /\ rw[u] = "free" => head[u] = None /\ Cardinality(free) < 3
      BY <1>5, Zenon DEF Wakes
    <3>2. CASE rw'[u] = "buf"
      <4>1. rw[u] = "buf" /\ chosen[u] # my[t] /\ head[u] # None
        BY <1>7, <3>1, <3>2, Zenon
      <4>2. u \in Busy
        BY <4>1, Zenon DEF Busy
      <4>3. my[u] \in Buf /\ chosen[u] = my[u]
        BY <4>2, BusyThread, IoThread, Zenon
      <4> QED
        BY <1>1, <1>6, <1>10, <3>1, <3>2, <4>1, <4>3, Zenon
    <3>3. CASE rw'[u] # "buf"
      BY <1>1, <1>7, <3>1, <3>3, Zenon
    <3> QED
      BY <3>2, <3>3, Zenon
  <2> QED
    BY <1>1, <2>1, Zenon DEF Wakes
<1> QED
  BY <1>9, <1>10, <1>11, <1>12, <1>13, <1>15, <1>16, <1>17, <1>18, Zenon DEF DiskInv

\* The transfer of the request of t: a write brings the disk up to date, and what a read finds
\* is up to date, because no buffer of the block is dirty.
LEMMA TransferContents ==
    ASSUME DiskInv, UNCHANGED Above, UNCHANGED <<pc, head>>, NEW t \in Busy,
           Range(avail') = Range(avail) \ {head[t]},
           \/ wr[my[t]] = 1 /\ image' = [image EXCEPT ![blockno[my[t]]] = data[my[t]]] /\ data' = data
           \/ wr[my[t]] = 0 /\ data' = [data EXCEPT ![my[t]] = image[blockno[my[t]]]] /\ image' = image
    PROVE  CacheTypes' /\ Contents'
<1>1. UNCHANGED <<blockno, wr, valid, refcnt, lock, pinned, at, my, latest>>
  BY AboveKept, Zenon
<1>2. /\ t \in Threads /\ my[t] \in Buf /\ at[t] \in {"reading", "writing"} /\ at[t] \in Holding
  BY BusyThread, Zenon DEF Holding, Filled
<1>3. /\ CacheTypes /\ Contents /\ DataOK(t)
  BY <1>2, Zenon DEF DiskInv, Contents
<1>4. blockno[my[t]] \in Block /\ blockno[my[t]] # 0
  BY <1>2, OneHolder, CacheAssumption, Zenon
<1> DEFINE m == my[t]  k == blockno[my[t]]
<1>5. /\ \A b \in Buf \ {m} : blockno[b] # k
      /\ \A u \in Threads \ {t} : at[u] \in Holding => my[u] \in Buf \ {m} /\ blockno[my[u]] \in Block \ {k}
  <2>1. \A b \in Buf \ {m} : blockno[b] # k
    BY <1>2, <1>4, Zenon DEF DiskInv, Counts
  <2>2. \A u \in Threads : at[u] \in Holding => my[u] \in Buf /\ blockno[my[u]] \in Block
    BY OneHolder, Zenon
  <2>3. \A u \in Threads \ {t} : at[u] \in Holding => my[u] # m
    BY <1>2, OneHolder, Zenon
  <2> QED
    BY <2>1, <2>2, <2>3, Zenon
<1>6. wr[m] = 1 => at[t] = "writing" /\ valid[m] /\ data[m] = latest[k]
  BY <1>2, <1>3 DEF DataOK, Contents, Filled
<1>7. wr[m] = 0 => at[t] = "reading" /\ ~valid[m] /\ m \notin pinned /\ image[k] = latest[k]
  <2>1. wr[m] = 0 => at[t] = "reading" /\ ~valid[m] /\ m \notin pinned
    BY <1>2, <1>3 DEF DataOK, Contents
  <2> QED
    BY <1>2, <2>1, CleanHolder, Zenon
<1>8. m \in Buf /\ k \in Block /\ my[t] = m /\ blockno[m] = k
  BY <1>2, <1>4, Zenon
<1>9. \/ wr[m] = 1 /\ image' = [image EXCEPT ![k] = data[m]] /\ data' = data
      \/ wr[m] = 0 /\ data' = [data EXCEPT ![m] = image[k]] /\ image' = image
  BY Zenon
<1> HIDE DEF m, k
<1>10. /\ data' \in [Buf -> Content] /\ image' \in [Block -> Content]
       /\ \A b \in Buf \ {m} : data'[b] = data[b]
       /\ \A n \in Block \ {k} : image'[n] = image[n]
       /\ data'[m] = latest[k] /\ image'[k] = latest[k]
  BY <1>3, <1>6, <1>7, <1>8, <1>9 DEF CacheTypes
<1>11. CacheTypes'
  BY <1>1, <1>3, <1>10, Zenon DEF CacheTypes
<1>12. ASSUME NEW u \in Threads \ {t}
       PROVE  DataOK(u)'
  <2>1. CASE at[u] \notin Holding
    BY <1>1, <2>1, Zenon DEF DataOK, Holding, Filled
  <2>2. CASE at[u] \in Holding
    <3>1. my[u] \in Buf \ {m} /\ blockno[my[u]] \in Block \ {k}
      BY <1>5, <2>2, Zenon
    <3>2. data'[my[u]] = data[my[u]] /\ image'[blockno[my[u]]] = image[blockno[my[u]]]
      BY <1>10, <3>1, Zenon
    <3>3. Answered(u)' <=> Answered(u)
      <4>1. head[u] # None => head[u] # head[t]
        BY BusyApart, Zenon DEF Busy
      <4> QED
        BY <4>1, Zenon DEF Answered
    <3>4. DataOK(u)
      BY <1>3, Zenon DEF Contents
    <3> QED
      BY <1>1, <3>2, <3>3, <3>4, Zenon DEF DataOK
  <2> QED
    BY <2>1, <2>2, Zenon
<1>13. DataOK(t)'
  BY <1>1, <1>2, <1>3, <1>8, <1>10, Zenon DEF DataOK
<1>14. ASSUME NEW b \in Buf, valid[b]
       PROVE  blockno[b] # 0 /\ data'[b] = latest[blockno[b]]
  BY <1>3, <1>8, <1>4, <1>10, <1>14, Zenon DEF Contents
<1>15. ASSUME NEW n \in Block, image'[n] # latest[n]
       PROVE  \E b \in Buf : blockno[b] = n /\ valid[b] /\ Dirty(b)
  BY <1>3, <1>10, <1>15, Zenon DEF Contents
<1>16. \A b : Dirty(b)' <=> Dirty(b)
  BY <1>1, Zenon DEF Dirty
<1>17. Contents'
  BY <1>1, <1>3, <1>12, <1>13, <1>14, <1>15, <1>16, Zenon DEF Contents
<1> QED
  BY <1>11, <1>17, Zenon


\* The device does a request: the entry goes from one ring to the other.
LEMMA DeviceStep ==
    ASSUME DiskInv, MAX_OPS < UINT, UNCHANGED Above, UNCHANGED vars, NEW d \in Desc, device_done(d)
    PROVE  DiskInv'
<1>1. PICK i \in DOMAIN avail : avail[i] = d /\ avail' = Without(avail, i)
  BY Zenon DEF device_done
<1>2. /\ RingTypes /\ Rings /\ Wakes /\ Chains
  BY Zenon DEF DiskInv
<1>3. /\ avail' \in Seq(Desc) /\ Distinct(avail') /\ Range(avail') = Range(avail) \ {d} /\ d \in Range(avail)
  <2>1. avail \in Seq(Desc) /\ Distinct(avail)
    BY <1>2, Zenon DEF RingTypes, Rings
  <2>2. d \in Range(avail)
    BY <1>1, Zenon DEF Range
  <2> QED
    BY <1>1, <2>1, <2>2, RingRemove, Zenon
<1>4. /\ used' = Append(used, d) /\ pending' = TRUE /\ info' = [info EXCEPT ![d].status = 0]
      /\ UNCHANGED <<NUM, owned, free, next, ops, head, rw, intr>>
  BY Zenon DEF device_done
<1>5. /\ used' \in Seq(Desc) /\ Range(used') = Range(used) \cup {d} /\ Distinct(used')
  <2>1. used \in Seq(Desc) /\ Distinct(used) /\ d \notin Range(used)
    BY <1>2, <1>3, Zenon DEF RingTypes, Rings
  <2> QED
    BY <1>4, <2>1, AppendFacts
<1>6. PICK t \in Busy : /\ head[t] = d /\ my[t] \in Buf /\ RequestOK(t) /\ at[t] \in {"reading", "writing"}
                        /\ t \in Threads
  BY <1>3, EntryOwner, Zenon DEF InRings
<1>7. ops[d] = [b |-> my[t], blockno |-> blockno[my[t]], write |-> wr[my[t]]]
  BY <1>6, Zenon DEF RequestOK
<1>8. ops[d].b = my[t] /\ ops[d].blockno = blockno[my[t]] /\ ops[d].write = wr[my[t]]
  BY <1>7
<1>9. \/ wr[my[t]] = 1 /\ image' = [image EXCEPT ![blockno[my[t]]] = data[my[t]]] /\ data' = data
      \/ wr[my[t]] = 0 /\ data' = [data EXCEPT ![my[t]] = image[blockno[my[t]]]] /\ image' = image
  <2>1. wr[my[t]] \in {0, 1}
    BY <1>6, Zenon DEF DiskInv, CacheTypes
  <2>2. IF ops[d].write = 1
        THEN image' = [image EXCEPT ![ops[d].blockno] = data[ops[d].b]] /\ UNCHANGED data
        ELSE data' = [data EXCEPT ![ops[d].b] = image[ops[d].blockno]] /\ UNCHANGED image
    BY Zenon DEF device_done
  <2> QED
    BY <1>8, <2>1, <2>2, Zenon
<1>10. DrainInv' /\ UNCHANGED <<pc, mine>>
  BY DrainSame, Zenon
<1>11. /\ Lru' /\ Counts' /\ UNCHANGED <<blockno, wr, at, my>>
  BY AboveKept, Zenon
<1>12. CacheTypes' /\ Contents'
  BY <1>3, <1>4, <1>6, <1>9, <1>10, TransferContents, Zenon
<1>13. Control'
  <2>1. \A u \in Threads : pc[u] # "io" => head'[u] = None /\ rw'[u] = "ready"
    BY <1>4, NotBusy, Zenon
  <2> QED
    BY <1>10, <2>1, DriverControl, Zenon
<1>14. Desc' = Desc /\ Busy' = Busy /\ InRings' = InRings
  BY <1>3, <1>4, <1>5, Zenon DEF Desc, Busy, InRings
<1>15. /\ info' \in [Desc -> InfoType] /\ info'[d].status = 0
       /\ \A e \in Desc : info'[e].b = info[e].b /\ (e # d => info'[e] = info[e])
  <2>1. info \in [Desc -> InfoType] /\ d \in Desc
    BY <1>2, Zenon DEF RingTypes
  <2>2. info[d] \in InfoType
    BY <2>1, Zenon
  <2> DEFINE r == [info[d] EXCEPT !.status = 0]
  <2>3. r \in InfoType /\ r.status = 0 /\ r.b = info[d].b
    BY <2>2 DEF InfoType
  <2>4. info' = [info EXCEPT ![d] = r]
    BY <1>4, Zenon
  <2> HIDE DEF r
  <2> QED
    BY <2>1, <2>3, <2>4
<1>16. RingTypes'
  BY <1>2, <1>3, <1>4, <1>5, <1>14, <1>15, Zenon DEF RingTypes
<1>17. Chains'
  <2>1. \A e : Chain(e)' = Chain(e)
    BY <1>4, Zenon DEF Chain
  <2> QED
    BY <1>2, <1>4, <1>14, <2>1, Zenon DEF Chains
<1>18. Rings'
  <2>1. ASSUME NEW u \in Busy
        PROVE  RequestOK(u)'
    <3>1. RequestOK(u) /\ head[u] \in Desc
      BY <1>2, BusyThread, Zenon DEF Rings
    <3> QED
      BY <1>4, <1>11, <1>14, <1>15, <3>1, Zenon DEF RequestOK
  <2>2. Range(avail') \cap Range(used') = {}
    BY <1>2, <1>3, <1>5, Zenon DEF Rings
  <2>3. \A e \in Range(used') : info'[e].status = 0
    <3>1. \A e \in Range(used) : e \in Desc /\ info[e].status = 0
      BY <1>2, EntryOwner, Zenon DEF Rings, InRings
    <3> QED
      BY <1>5, <1>15, <3>1, Zenon
  <2> QED
    BY <1>2, <1>3, <1>4, <1>5, <1>11, <1>14, <2>1, <2>2, <2>3, Zenon DEF Rings
<1>19. Wakes'
  BY <1>2, <1>4, <1>11, Zenon DEF Wakes
<1> QED
  BY <1>10, <1>11, <1>12, <1>13, <1>16, <1>17, <1>18, <1>19, Zenon DEF DiskInv

\* The other threads' chains, requests and waits when only t's change.
LEMMA OtherChain ==
    ASSUME DiskInv, NEW u \in Busy, NEW X, X \cap Chain(head[u]) = {}, NUM' = NUM,
           head'[u] = head[u], \A d \in Desc \ X : next'[d] = next[d]
    PROVE  Chain(head[u])' = Chain(head[u])
<1>1. Chain(head[u]) \subseteq Desc
  BY Zenon DEF DiskInv, Chains
<1>2. /\ head[u] \in Desc \ X /\ next[head[u]] \in Desc \ X
  BY <1>1, Zenon DEF Chain
<1>3. next'[head[u]] = next[head[u]] /\ next'[next[head[u]]] = next[next[head[u]]]
  BY <1>2, Zenon
<1> QED
  BY <1>3, Zenon DEF Chain

\* The smallest element of a set of descriptors.
LEMMA MinIsIn ==
    ASSUME NEW S \in SUBSET Nat, S # {}
    PROVE  Min(S) \in S
<1> DEFINE R == OpToRel(<, Nat)
<1>1. \E x \in S : \A y \in S : ~(<<y, x>> \in R)
  <2>1. IsWellFoundedOn(R, Nat)
    BY NatLessThanWellFounded, Zenon
  <2> HIDE DEF R
  <2> QED
    BY <2>1, WFMin, Zenon
<1>2. PICK x \in S : \A y \in S : ~(<<y, x>> \in R)
  BY <1>1, Zenon
<1>3. R = {p \in Nat \X Nat : p[1] < p[2]}
  BY Zenon DEF OpToRel
<1> HIDE DEF R
<1>4. \A y \in S : x <= y
  <2> SUFFICES ASSUME NEW y \in S
               PROVE  x <= y
    BY Zenon
  <2>1. x \in Nat /\ y \in Nat /\ <<y, x>> \in Nat \X Nat /\ <<y, x>>[1] = y /\ <<y, x>>[2] = x
    BY Zenon
  <2>2. ~(<<y, x>>[1] < <<y, x>>[2])
    BY <1>2, <1>3, <2>1, Zenon
  <2> QED
    BY <2>1, <2>2
<1> QED
  BY <1>4, Zenon DEF Min

\* alloc3_desc finds three different free descriptors when there are as many.
LEMMA AllocThree ==
    ASSUME free \subseteq Desc, NUM \in Nat, Cardinality(free) >= 3
    PROVE  \E a, b, c \in free : alloc3_desc = <<a, b, c>> /\ a # b /\ a # c /\ b # c
<1>1. free \subseteq Nat /\ IsFiniteSet(free) /\ Cardinality(free) \in Nat
  <2>1. IsFiniteSet(Desc)
    BY FS_Interval DEF Desc
  <2>2. IsFiniteSet(free)
    BY <2>1, FS_Subset, Zenon
  <2> QED
    BY <2>2, FS_CardinalityType DEF Desc
<1> DEFINE a == Min(free)  b == Min(free \ {a})  c == Min(free \ {a, b})
<1>2. a \in free
  <2>1. free # {}
    BY <1>1, FS_EmptySet
  <2> QED
    BY <1>1, <2>1, MinIsIn, Zenon
<1>3. alloc3_desc = <<a, b, c>>
  BY Zenon DEF alloc3_desc
<1> HIDE DEF a
<1>4. IsFiniteSet(free \ {a}) /\ Cardinality(free \ {a}) = Cardinality(free) - 1
  BY <1>1, <1>2, FS_RemoveElement, Zenon
<1>5. b \in free \ {a}
  <2>1. free \ {a} # {}
    BY <1>1, <1>4, FS_EmptySet
  <2> QED
    BY <1>1, <2>1, MinIsIn, Zenon
<1> HIDE DEF b
<1>6. (free \ {a}) \ {b} = free \ {a, b}
  BY Zenon
<1>7. IsFiniteSet(free \ {a, b}) /\ Cardinality(free \ {a, b}) = Cardinality(free) - 2
  <2>1. IsFiniteSet((free \ {a}) \ {b}) /\ Cardinality((free \ {a}) \ {b}) = Cardinality(free \ {a}) - 1
    BY <1>4, <1>5, FS_RemoveElement, Zenon
  <2> QED
    BY <1>1, <1>4, <1>6, <2>1
<1>8. c \in free \ {a, b}
  <2>1. free \ {a, b} # {}
    BY <1>1, <1>7, FS_EmptySet
  <2> QED
    BY <1>1, <2>1, MinIsIn, Zenon
<1> HIDE DEF c
<1> QED
  BY <1>2, <1>3, <1>5, <1>8, Zenon


\* The contents, the control and the types of bio.c when t gets its chain.
LEMMA PostStep ==
    ASSUME DiskInv, MAX_OPS < UINT, UNCHANGED Above, UNCHANGED <<vars, data>>, NEW t \in Threads,
           virtio_disk_rw_post(t)
    PROVE  DiskInv'
<1>1. /\ pc[t] = "io" /\ head[t] = None /\ Cardinality(free) >= 3
      /\ UNCHANGED <<NUM, intr, used, image, pending>>
  BY Zenon DEF virtio_disk_rw_post, InRw, device
<1>2. /\ RingTypes /\ Rings /\ Wakes /\ Chains /\ CacheTypes /\ NUM \in Nat
  BY VirtioAssumption, Zenon DEF DiskInv, RingTypes
<1>3. PICK a, b, c \in free : alloc3_desc = <<a, b, c>> /\ a # b /\ a # c /\ b # c
  BY <1>1, <1>2, AllocThree, Zenon DEF RingTypes
<1>4. PICK m \in Buf : /\ m = my[t] /\ m = chosen[t] /\ at[t] \in Holding /\ blockno[m] \in Block
  BY <1>1, IoThread, Zenon DEF Holding, Filled
<1>5. /\ free' = free \ {a, b, c}
      /\ next' = [next EXCEPT ![a] = b, ![b] = c, ![c] = None]
      /\ ops' = [ops EXCEPT ![a] = [b |-> m, blockno |-> blockno[m], write |-> wr[m]]]
      /\ info' = [info EXCEPT ![a] = Info(m)]
      /\ owned' = [owned EXCEPT ![m] = TRUE]
      /\ avail' = Append(avail, a)
      /\ head' = [head EXCEPT ![t] = a]
      /\ rw' = [rw EXCEPT ![t] = "buf"]
  <2>1. <<a, b, c>>[1] = a /\ <<a, b, c>>[2] = b /\ <<a, b, c>>[3] = c
    BY Zenon
  <2>2. PICK q \in {chosen[t]}, d \in {alloc3_desc} :
          /\ free' = free \ {d[1], d[2], d[3]}
          /\ next' = [next EXCEPT ![d[1]] = d[2], ![d[2]] = d[3], ![d[3]] = None]
          /\ ops' = [ops EXCEPT ![d[1]] = [b |-> q, blockno |-> blockno[q], write |-> wr[q]]]
          /\ info' = [info EXCEPT ![d[1]] = Info(q)]
          /\ owned' = [owned EXCEPT ![q] = TRUE]
          /\ avail' = Append(avail, d[1])
          /\ head' = [head EXCEPT ![t] = d[1]]
          /\ rw' = [rw EXCEPT ![t] = "buf"]
    BY Zenon DEF virtio_disk_rw_post
  <2>3. q = m /\ d[1] = a /\ d[2] = b /\ d[3] = c
    BY <1>3, <1>4, <2>1, <2>2, Zenon
  <2> QED
    BY <2>2, <2>3, Zenon
<1>6. /\ a \in Desc /\ b \in Desc /\ c \in Desc /\ a # None /\ Desc' = Desc
  BY <1>1, <1>2 DEF RingTypes, Desc, None
<1>7. /\ next' \in [Desc -> Desc \cup {None}] /\ next'[a] = b /\ next'[b] = c
      /\ \A d \in Desc \ {a, b, c} : next'[d] = next[d]
  BY <1>2, <1>3, <1>5, <1>6, Zenon DEF RingTypes
<1>8. /\ head' \in [Threads -> Desc \cup {None}] /\ head'[t] = a /\ \A u \in Threads \ {t} : head'[u] = head[u]
      /\ rw' \in [Threads -> {"ready", "free", "buf"}] /\ rw'[t] = "buf" /\ \A u \in Threads \ {t} : rw'[u] = rw[u]
  BY <1>2, <1>5, <1>6, Zenon DEF RingTypes
<1>9. Busy' = Busy \cup {t} /\ t \notin Busy
  BY <1>1, <1>6, <1>8, Zenon DEF Busy
<1>10. /\ ops' \in [Desc -> OpType] /\ ops'[a] = [b |-> m, blockno |-> blockno[m], write |-> wr[m]]
       /\ \A d \in Desc \ {a} : ops'[d] = ops[d]
  <2>1. [b |-> m, blockno |-> blockno[m], write |-> wr[m]] \in OpType
    BY <1>2, <1>4, Zenon DEF OpType, CacheTypes
  <2> QED
    BY <1>2, <1>5, <1>6, <2>1, Zenon DEF RingTypes
<1>11. /\ info' \in [Desc -> InfoType] /\ info'[a].b = m /\ \A d \in Desc \ {a} : info'[d] = info[d]
  BY <1>2, <1>5, <1>6 DEF RingTypes, InfoType, Info
<1>12. /\ owned' \in [Buf -> BOOLEAN] /\ owned'[m] = TRUE /\ \A q \in Buf \ {m} : owned'[q] = owned[q]
  BY <1>2, <1>5, Zenon DEF RingTypes
<1>13. \A u \in Busy : u \in Threads \ {t} /\ head[u] \in Desc \ {a, b, c} /\ my[u] \in Buf \ {m}
  <2> SUFFICES ASSUME NEW u \in Busy
               PROVE  u \in Threads \ {t} /\ head[u] \in Desc \ {a, b, c} /\ my[u] \in Buf \ {m}
    BY Zenon
  <2>1. u \in Threads /\ u # t /\ head[u] \in Desc /\ my[u] \in Buf /\ at[u] \in Holding
    BY <1>9, BusyThread, Zenon DEF Holding, Filled
  <2>2. head[u] \in Desc \ free
    BY <1>2, Zenon DEF Chains, Chain
  <2>3. my[u] # my[t]
    BY <1>4, <2>1, OneHolder, Zenon
  <2> QED
    BY <1>4, <2>1, <2>2, <2>3, Zenon
<1>14. /\ avail' \in Seq(Desc) /\ Range(avail') = Range(avail) \cup {a} /\ Distinct(avail')
       /\ a \notin Range(avail) /\ a \notin Range(used)
  <2>1. \A d \in InRings : d # a
    BY <1>2, <1>13, Zenon DEF Rings
  <2>2. avail \in Seq(Desc) /\ Distinct(avail) /\ a \notin Range(avail) /\ a \notin Range(used)
    BY <1>2, <2>1, Zenon DEF RingTypes, Rings, InRings
  <2> QED
    BY <1>5, <1>6, <2>2, AppendFacts
<1>15. RingTypes'
  BY <1>1, <1>2, <1>5, <1>6, <1>7, <1>8, <1>10, <1>11, <1>12, <1>14, Zenon DEF RingTypes
<1>16. DrainInv' /\ UNCHANGED <<pc, mine>>
  <2>1. UNCHANGED vars
    BY Zenon
  <2> QED
    BY <2>1, DrainSame, Zenon
<1>17. /\ Lru' /\ Counts' /\ UNCHANGED <<blockno, wr, valid, refcnt, lock, pinned, at, my, latest>>
  BY AboveKept, Zenon
<1>18. CacheTypes'
  BY <1>1, <1>2, <1>17, Zenon DEF CacheTypes
<1>19. Control'
  <2>1. \A u \in Threads : pc[u] # "io" => head'[u] = None /\ rw'[u] = "ready"
    BY <1>1, <1>8, NotBusy, Zenon
  <2> QED
    BY <1>16, <2>1, DriverControl, Zenon
<1>20. Contents'
  <2>1. ASSUME NEW u \in Threads, Answered(u)'
        PROVE  Answered(u)
    <3>1. u # t
      BY <1>1, <1>8, <1>14, <1>16, <2>1, Zenon DEF Answered
    <3> QED
      BY <1>8, <1>14, <1>16, <2>1, <3>1, Zenon DEF Answered
  <2> QED
    BY <1>1, <2>1, DriverContents, Zenon
<1>21. Chains'
  <2>1. Chain(head[t])' = {a, b, c}
    BY <1>7, <1>8, Zenon DEF Chain
  <2>2. \A u \in Busy : /\ Chain(head[u])' = Chain(head[u]) /\ Chain(head[u]) \subseteq Desc \ free
    <3> SUFFICES ASSUME NEW u \in Busy
                 PROVE  Chain(head[u])' = Chain(head[u]) /\ Chain(head[u]) \subseteq Desc \ free
      BY Zenon
    <3>1. Chain(head[u]) \subseteq Desc \ free /\ head'[u] = head[u]
      BY <1>2, <1>8, <1>13, Zenon DEF Chains
    <3>2. {a, b, c} \cap Chain(head[u]) = {}
      BY <1>3, <3>1, Zenon
    <3>3. Chain(head[u])' = Chain(head[u])
      BY <1>1, <1>7, <3>1, <3>2, OtherChain, Zenon
    <3> QED
      BY <3>1, <3>3, Zenon
  <2>3. \A u, v \in Busy : u # v => Chain(head[u]) \cap Chain(head[v]) = {}
    BY <1>2, Zenon DEF Chains
  <2>4. \A d \in Desc \ free : \E u \in Busy : d \in Chain(head[u])
    BY <1>2, Zenon DEF Chains
  <2>5. \A u \in Busy' : Chain(head[u])' \subseteq Desc \ free'
    BY <1>5, <1>6, <1>9, <2>1, <2>2, Zenon
  <2>6. \A u, v \in Busy' : u # v => Chain(head[u])' \cap Chain(head[v])' = {}
    <3>1. \A u \in Busy : Chain(head[u])' \cap {a, b, c} = {}
      BY <1>3, <2>2, Zenon
    <3>2. \A u, v \in Busy : u # v => Chain(head[u])' \cap Chain(head[v])' = {}
      BY <2>2, <2>3, Zenon
    <3> QED
      BY <1>9, <2>1, <3>1, <3>2, Zenon
  <2>7. \A d \in Desc \ free' : \E u \in Busy' : d \in Chain(head[u])'
    <3> SUFFICES ASSUME NEW d \in Desc \ free'
                 PROVE  \E u \in Busy' : d \in Chain(head[u])'
      BY Zenon
    <3>1. CASE d \in {a, b, c}
      BY <1>9, <2>1, <3>1, Zenon
    <3>2. CASE d \notin {a, b, c}
      <4>1. d \in Desc \ free
        BY <1>5, <3>2, Zenon
      <4>2. PICK u \in Busy : d \in Chain(head[u])
        BY <2>4, <4>1, Zenon
      <4> QED
        BY <1>9, <2>2, <4>2, Zenon
    <3> QED
      BY <3>1, <3>2
  <2> QED
    BY <1>6, <2>5, <2>6, <2>7, Zenon DEF Chains
<1>22. InRings' = InRings \cup {a}
  BY <1>1, <1>14, Zenon DEF InRings
<1>23. Rings'
  <2>1. RequestOK(t)'
    BY <1>4, <1>8, <1>10, <1>11, <1>12, <1>17, <1>22, Zenon DEF RequestOK
  <2>2. ASSUME NEW u \in Busy
        PROVE  RequestOK(u)'
    <3>1. RequestOK(u) /\ head'[u] = head[u] /\ head[u] \in Desc \ {a} /\ my[u] \in Buf \ {m}
      BY <1>2, <1>8, <1>13, Zenon DEF Rings
    <3>2. info'[head[u]] = info[head[u]] /\ ops'[head[u]] = ops[head[u]] /\ owned'[my[u]] = owned[my[u]]
      BY <1>10, <1>11, <1>12, <3>1
    <3>3. head[u] \in InRings' <=> head[u] \in InRings
      BY <1>22, <3>1, Zenon
    <3> QED
      BY <1>17, <3>1, <3>2, <3>3, Zenon DEF RequestOK
  <2>3. \A d \in InRings' : \E u \in Busy' : head'[u] = d
    <3>1. \A d \in InRings : \E u \in Busy : head[u] = d
      BY <1>2, Zenon DEF Rings
    <3>2. \A u \in Busy : head'[u] = head[u]
      BY <1>8, <1>13, Zenon
    <3> QED
      BY <1>8, <1>9, <1>22, <3>1, <3>2, SMTT(30)
  <2>4. \A q \in Buf : owned'[q] => \E u \in Busy' : my'[u] = q
    <3>1. \A q \in Buf : owned[q] => \E u \in Busy : my[u] = q
      BY <1>2, Zenon DEF Rings
    <3> QED
      BY <1>4, <1>9, <1>12, <1>17, <3>1, Zenon
  <2>5. \A d \in Range(used') : info'[d].status = 0
    <3>1. \A d \in Range(used) : d \in Desc \ {a} /\ info[d].status = 0
      BY <1>2, <1>13, SMTT(30) DEF Rings, InRings
    <3> QED
      BY <1>1, <1>11, <3>1
  <2>6. Distinct(used)' /\ Range(avail') \cap Range(used') = {}
    BY <1>1, <1>2, <1>14, Zenon DEF Rings, Distinct
  <2> QED
    BY <1>9, <1>14, <2>1, <2>2, <2>3, <2>4, <2>5, <2>6 DEF Rings
<1>24. Wakes'
  <2>1. ASSUME NEW u \in Threads
        PROVE  /\ rw'[u] = "buf" => head'[u] # None /\ owned'[my'[u]]
               /\ rw'[u] = "free" => head'[u] = None /\ Cardinality(free') < 3
    <3>1. CASE u = t
      BY <1>4, <1>6, <1>8, <1>12, <1>17, <3>1, Zenon
    <3>2. CASE u # t
      <4>1. /\ rw[u] = "buf" => head[u] # None /\ owned[my[u]]
            /\ rw[u] # "free" /\ rw'[u] = rw[u] /\ head'[u] = head[u]
        <5>1. rw[u] = "free" => Cardinality(free) < 3
          BY <1>2, Zenon DEF Wakes
        <5>2. Cardinality(free) \in Nat
          <6>1. IsFiniteSet(Desc)
            BY <1>2, FS_Interval DEF Desc
          <6> QED
            BY <1>2, <6>1, FS_Subset, FS_CardinalityType, Zenon DEF RingTypes
        <5>3. ~(Cardinality(free) < 3)
          BY <1>1, <5>2
        <5> QED
          BY <1>2, <1>8, <3>2, <5>1, <5>3, Zenon DEF Wakes
      <4>2. rw[u] = "buf" => my[u] \in Buf \ {m}
        BY <1>13, <4>1, Zenon DEF Busy
      <4> QED
        BY <1>12, <1>17, <4>1, <4>2, ZenonT(40)
    <3> QED
      BY <3>1, <3>2, Zenon
  <2> QED
    BY <1>1, <1>2, <2>1, Zenon DEF Wakes
<1> QED
  BY <1>15, <1>16, <1>17, <1>18, <1>19, <1>20, <1>21, <1>23, <1>24, Zenon DEF DiskInv


\* The request has been done: the chain is given back and virtio_disk_rw returns.
LEMMA DoneStep ==
    ASSUME DiskInv, MAX_OPS < UINT, UNCHANGED Above, UNCHANGED data, NEW t \in Threads,
           virtio_disk_rw_done(t), virtio_disk_rw(t)
    PROVE  DiskInv'
<1>1. /\ pc[t] = "io" /\ head[t] # None /\ rw[t] = "ready" /\ ~owned[chosen[t]]
      /\ UNCHANGED <<NUM, owned, intr, avail, used, image, pending>>
      /\ free' = free \cup Chain(head[t])
      /\ next' = [d \in Desc |-> IF d \in Chain(head[t]) THEN None ELSE next[d]]
      /\ info' = [info EXCEPT ![head[t]].b = None] /\ ops' = [ops EXCEPT ![head[t]] = NoOp]
      /\ rw' = WakeFree(rw) /\ head' = [head EXCEPT ![t] = None]
  BY Zenon DEF virtio_disk_rw_done, InRw, Done, device
<1>2. pc' = [pc EXCEPT ![t] = "returned"] /\ mine' = mine /\ DrainInv'
  <2>1. Next
    BY Zenon DEF Next
  <2>2. DrainInv'
    BY <2>1, DrainStep, Zenon DEF DiskInv
  <2> QED
    BY <2>2, Zenon DEF virtio_disk_rw
<1>3. /\ RingTypes /\ Rings /\ Wakes /\ Chains /\ CacheTypes
  BY Zenon DEF DiskInv
<1>4. /\ t \in Busy /\ head[t] \in Desc /\ my[t] \in Buf /\ chosen[t] = my[t] /\ mine[t] = my[t]
      /\ at[t] \in {"reading", "writing"}
  <2>1. t \in Busy
    BY <1>1, Zenon DEF Busy
  <2> QED
    BY <1>1, <2>1, BusyThread, IoThread, Zenon
<1>5. ~owned[my[t]] /\ head[t] \notin InRings /\ RequestOK(t)
  <2>1. RequestOK(t) /\ owned[my[t]] = owned[chosen[t]]
    BY <1>3, <1>4, Zenon DEF Rings
  <2> QED
    BY <1>1, <2>1, Zenon DEF RequestOK
<1>6. /\ Lru' /\ Counts' /\ UNCHANGED <<blockno, wr, valid, refcnt, lock, pinned, at, my, latest>>
  BY AboveKept, Zenon
<1>7. CacheTypes'
  BY <1>1, <1>3, <1>6, Zenon DEF CacheTypes
<1>8. /\ head' \in [Threads -> Desc \cup {None}] /\ head'[t] = None /\ \A u \in Threads \ {t} : head'[u] = head[u]
      /\ rw' \in [Threads -> {"ready", "free", "buf"}]
      /\ \A u \in Threads : rw'[u] # "free" /\ (rw'[u] = "buf" => rw[u] = "buf") /\ (rw[u] = "ready" => rw'[u] = "ready")
  BY <1>1, <1>3, Zenon DEF RingTypes, WakeFree
<1>9. pc'[t] = "returned" /\ \A u \in Threads \ {t} : pc'[u] = pc[u]
  BY <1>2, PcType, Zenon
<1>10. Control'
  <2>1. ASSUME NEW u \in Threads
        PROVE  ControlOK(u)'
    <3>1. ControlOK(u)
      BY Zenon DEF DiskInv, Control
    <3>2. CASE u = t
      BY <1>1, <1>2, <1>4, <1>6, <1>8, <1>9, <3>1, <3>2, Zenon DEF ControlOK
    <3>3. CASE u # t
      BY <1>2, <1>6, <1>8, <1>9, <3>1, <3>3, Zenon DEF ControlOK
    <3> QED
      BY <3>2, <3>3, Zenon
  <2> QED
    BY <1>6, <2>1, Zenon DEF DiskInv, Control
<1>11. Contents'
  <2>1. Answered(t)
    BY <1>1, <1>5, Zenon DEF Answered, InRings
  <2>2. \A u \in Threads \ {t} : Answered(u)' => Answered(u)
    BY <1>1, <1>8, <1>9, Zenon DEF Answered
  <2> QED
    BY <1>1, <2>1, <2>2, DriverContents, Zenon
<1>12. Desc' = Desc /\ InRings' = InRings /\ Busy' = Busy \ {t}
  BY <1>1, <1>8, Zenon DEF Desc, InRings, Busy
<1>13. \A u \in Busy \ {t} : /\ u \in Threads /\ head[u] \in Desc /\ head[u] # head[t] /\ head'[u] = head[u]
                             /\ my[u] \in Buf /\ my[u] # my[t] /\ Chain(head[t]) \cap Chain(head[u]) = {}
  <2> SUFFICES ASSUME NEW u \in Busy \ {t}
               PROVE  /\ u \in Threads /\ head[u] \in Desc /\ head[u] # head[t] /\ head'[u] = head[u]
                      /\ my[u] \in Buf /\ my[u] # my[t] /\ Chain(head[t]) \cap Chain(head[u]) = {}
    BY Zenon
  <2>1. u \in Threads /\ head[u] \in Desc /\ my[u] \in Buf
    BY BusyThread, Zenon
  <2>2. my[t] # my[u] /\ head[t] # head[u]
    BY <1>4, BusyApart, Zenon
  <2>3. Chain(head[t]) \cap Chain(head[u]) = {}
    BY <1>3, <1>4, Zenon DEF Chains
  <2> QED
    BY <1>8, <2>1, <2>2, <2>3, Zenon
<1>14. /\ info' \in [Desc -> InfoType] /\ (\A d \in Desc : info'[d].status = info[d].status)
       /\ \A d \in Desc \ {head[t]} : info'[d] = info[d]
  BY <1>1, <1>3, <1>4 DEF RingTypes, InfoType
<1>15. /\ ops' \in [Desc -> OpType] /\ \A d \in Desc \ {head[t]} : ops'[d] = ops[d]
  <2>1. NoOp \in OpType
    BY Zenon DEF NoOp, OpType
  <2> QED
    BY <1>1, <1>3, <1>4, <2>1, Zenon DEF RingTypes
<1>16. Chain(head[t]) \subseteq Desc
  BY <1>3, <1>4, Zenon DEF Chains
<1>17. /\ next' \in [Desc -> Desc \cup {None}] /\ \A d \in Desc \ Chain(head[t]) : next'[d] = next[d]
  BY <1>1, <1>3, Zenon DEF RingTypes
<1>18. RingTypes'
  BY <1>1, <1>3, <1>8, <1>12, <1>14, <1>15, <1>16, <1>17, Zenon DEF RingTypes
<1>19. Chains'
  <2>1. \A u \in Busy \ {t} : Chain(head[u])' = Chain(head[u])
    BY <1>1, <1>13, <1>17, OtherChain, Zenon
  <2>2. \A u \in Busy' : Chain(head[u])' \subseteq Desc \ free'
    <3>1. \A u \in Busy \ {t} : Chain(head[u]) \subseteq Desc \ free
      BY <1>3, Zenon DEF Chains
    <3> QED
      BY <1>1, <1>12, <1>13, <2>1, <3>1
  <2>3. \A u, v \in Busy' : u # v => Chain(head[u])' \cap Chain(head[v])' = {}
    <3>1. \A u, v \in Busy : u # v => Chain(head[u]) \cap Chain(head[v]) = {}
      BY <1>3, Zenon DEF Chains
    <3> QED
      BY <1>12, <2>1, <3>1, Zenon
  <2>4. \A d \in Desc \ free' : \E u \in Busy' : d \in Chain(head[u])'
    <3>1. \A d \in Desc \ free : \E u \in Busy : d \in Chain(head[u])
      BY <1>3, Zenon DEF Chains
    <3> QED
      BY <1>1, <1>12, <2>1, <3>1, ZenonT(40)
  <2> QED
    BY <1>12, <2>2, <2>3, <2>4, Zenon DEF Chains
<1>20. Rings'
  <2>1. ASSUME NEW u \in Busy \ {t}
        PROVE  RequestOK(u)'
    <3>1. RequestOK(u) /\ head'[u] = head[u] /\ head[u] \in Desc \ {head[t]}
      BY <1>3, <1>13, Zenon DEF Rings
    <3>2. info'[head[u]] = info[head[u]] /\ ops'[head[u]] = ops[head[u]] /\ owned' = owned
      BY <1>1, <1>14, <1>15, <3>1, Zenon
    <3> QED
      BY <1>6, <1>12, <3>1, <3>2, Zenon DEF RequestOK
  <2>2. \A d \in InRings' : \E u \in Busy' : head'[u] = d
    <3>1. \A d \in InRings : \E u \in Busy : head[u] = d
      BY <1>3, Zenon DEF Rings
    <3> QED
      BY <1>5, <1>12, <1>13, <3>1, Zenon
  <2>3. \A q \in Buf : owned'[q] => \E u \in Busy' : my'[u] = q
    <3>1. \A q \in Buf : owned[q] => \E u \in Busy : my[u] = q
      BY <1>3, Zenon DEF Rings
    <3> QED
      BY <1>1, <1>5, <1>6, <1>12, <3>1, Zenon
  <2>4. \A d \in Range(used') : info'[d].status = 0
    <3>1. \A d \in Range(used) : d \in Desc /\ info[d].status = 0
      BY <1>3, EntryOwner, Zenon DEF Rings, InRings
    <3> QED
      BY <1>1, <1>14, <3>1, Zenon
  <2>5. Distinct(avail)' /\ Distinct(used)' /\ Range(avail') \cap Range(used') = {}
    BY <1>1, <1>3, Zenon DEF Rings, Distinct
  <2> QED
    BY <1>12, <2>1, <2>2, <2>3, <2>4, <2>5, Zenon DEF Rings
<1>21. Wakes'
  <2>1. ASSUME NEW u \in Threads
        PROVE  /\ rw'[u] = "buf" => head'[u] # None /\ owned'[my'[u]]
               /\ rw'[u] = "free" => head'[u] = None /\ Cardinality(free') < 3
    <3>1. rw[u] = "buf" => u # t /\ head[u] # None /\ owned[my[u]]
      BY <1>1, <1>3, Zenon DEF Wakes
    <3> QED
      BY <1>1, <1>6, <1>8, <3>1, Zenon
  <2> QED
    BY <1>1, <1>3, <2>1, Zenon DEF Wakes
<1> QED
  BY <1>2, <1>6, <1>7, <1>10, <1>11, <1>18, <1>19, <1>20, <1>21, Zenon DEF DiskInv

\* sys_setdisksched changes the policy under whatever is going on.
LEMMA PolicyStep ==
    ASSUME DiskInv, MAX_OPS < UINT, disksched_set_policy(SSTF),
           UNCHANGED <<blockno, data, wr, vqueue, cache, at, my, latest>>
    PROVE  DiskInv'
<1>1. /\ UNCHANGED <<blockno, data, wr, at, my, latest, valid, refcnt, lock, lru, pinned>> /\ UNCHANGED vqueue
      /\ UNCHANGED <<pc, mine>> /\ UNCHANGED <<head, rw, image, avail>> /\ UNCHANGED Above
  BY Zenon DEF cache, disksched_set_policy, vqueue, driver, device, Above
<1>2. DrainInv'
  <2>1. Next
    BY Zenon DEF Next
  <2> QED
    BY <2>1, DrainStep, Zenon DEF DiskInv
<1>3. RingTypes' /\ Chains' /\ Rings' /\ Wakes'
  BY <1>1, RingsKept, Zenon
<1>4. Lru' /\ Counts'
  BY <1>1, AboveKept, Zenon
<1>5. CacheTypes'
  BY <1>1, Zenon DEF DiskInv, CacheTypes
<1>6. Control'
  BY <1>1, NotBusy, DriverControl, Zenon
<1>7. Contents'
  <2>1. \A u \in Threads : Answered(u)' => Answered(u)
    BY <1>1, Zenon DEF Answered
  <2> QED
    BY <1>1, <2>1, DriverContents, Zenon
<1> QED
  BY <1>2, <1>3, <1>4, <1>5, <1>6, <1>7, Zenon DEF DiskInv

-----------------------------------------------------------------------------
\* Every step keeps the invariant.
LEMMA DiskStep ==
    ASSUME DiskInv, MAX_OPS < UINT, [CacheNext]_allvars
    PROVE  DiskInv'
<1>1. ASSUME NEW t \in Threads, Thread(t)
      PROVE  DiskInv'
  BY <1>1, BgetStep, BreadStep, BreadReturnStep, ChangeStep, BwriteStep, BwriteReturnStep, PinStep,
     BrelseStep, UnrefStep, Zenon DEF Thread
<1>2. ASSUME UNCHANGED Above, NEW t \in Threads, Driver(t)
      PROVE  DiskInv'
  BY <1>2, PostStep, WaitStep, DoneStep, Zenon DEF Driver
<1>3. ASSUME UNCHANGED Above, Interrupt
      PROVE  DiskInv'
  BY <1>3, IntrStep, IntrNextStep, Zenon DEF Interrupt
<1>4. ASSUME UNCHANGED Above, Device
      PROVE  DiskInv'
  BY <1>4, DeviceStep, Zenon DEF Device
<1>5. ASSUME disksched_set_policy(SSTF), UNCHANGED <<blockno, data, wr, vqueue, cache, at, my, latest>>
      PROVE  DiskInv'
  BY <1>5, PolicyStep, Zenon
<1>6. ASSUME UNCHANGED allvars
      PROVE  DiskInv'
  <2>1. /\ UNCHANGED <<vars, vqueue, wr>> /\ UNCHANGED <<pc, mine>> /\ UNCHANGED <<head, rw, image, avail, data>>
        /\ UNCHANGED Above
    BY <1>6, Zenon DEF allvars, vars, vqueue, driver, device, Above
  <2>2. UNCHANGED <<blockno, wr, valid, refcnt, lock, lru, pinned, at, my, latest>> /\ Lru' /\ Counts'
    BY <2>1, AboveKept, Zenon
  <2>3. CacheTypes'
    BY <2>1, <2>2, Zenon DEF DiskInv, CacheTypes
  <2>4. Control'
    BY <2>1, NotBusy, DriverControl, Zenon
  <2>5. Contents'
    <3>1. \A u \in Threads : Answered(u)' => Answered(u)
      BY <2>1, Zenon DEF Answered
    <3> QED
      BY <2>1, <3>1, DriverContents, Zenon
  <2> QED
    BY <2>1, <2>2, <2>3, <2>4, <2>5, QuietStep, Zenon
<1> QED
  BY <1>1, <1>2, <1>3, <1>4, <1>5, <1>6, Zenon DEF CacheNext


\* binit builds a list of all the buffers.
LEMMA ListOfAll ==
    ASSUME lru \in Injection(1 .. Cardinality(Buf), Buf)
    PROVE  Lru
<1> DEFINE D == 1 .. Cardinality(Buf)
<1>1. /\ IsFiniteSet(Buf) /\ Cardinality(Buf) \in Nat
  BY CacheAssumption, FS_CardinalityType, Zenon
<1>2. /\ lru \in [D -> Buf] /\ \A i, j \in D : i # j => lru[i] # lru[j]
  BY Zenon DEF Injection, IsInjective
<1>3. lru \in Seq(Buf) /\ Len(lru) = Cardinality(Buf) /\ DOMAIN lru = D
  BY <1>1, <1>2
<1>4. Cardinality(D) = Cardinality(Buf)
  BY <1>1, FS_Interval
<1>5. lru \in Injection(D, Buf)
  BY <1>2, Zenon DEF Injection, IsInjective
<1> HIDE DEF D
<1>6. lru \in Surjection(D, Buf)
  BY <1>1, <1>4, <1>5, FS_Injection, Zenon
<1>7. \A b \in Buf : \E i \in D : lru[i] = b
  BY <1>6, Zenon DEF Surjection
<1> QED
  BY <1>3, <1>7, Zenon DEF Lru

\* The invariant holds at boot.
LEMMA DiskInit ==
    ASSUME CacheInit
    PROVE  DiskInv
<1>1. /\ DrainInv /\ pc = [t \in Threads |-> "idle"] /\ mine = [t \in Threads |-> None]
  BY DiskAssumption DEF CacheInit, Init, DrainInv, TypeOK, EmptyQueue, NoReq, Req, FCFS
<1>2. /\ image = [n \in Block |-> 0] /\ blockno = [b \in Buf |-> 0] /\ data = [b \in Buf |-> 0]
      /\ valid = [b \in Buf |-> FALSE] /\ refcnt = [b \in Buf |-> 0] /\ lock = [b \in Buf |-> None]
      /\ at = [t \in Threads |-> "out"] /\ my = [t \in Threads |-> None] /\ pinned = {} /\ latest = image
      /\ wr = [b \in Buf |-> 0]
  BY Zenon DEF CacheInit, VirtioInit
<1>3. /\ NUM \in NUMS /\ owned = [b \in Buf |-> FALSE] /\ free = Desc /\ next = [d \in Desc |-> None]
      /\ ops = [d \in Desc |-> NoOp] /\ info = [d \in Desc |-> [b |-> None, status |-> 0]]
      /\ avail = <<>> /\ used = <<>> /\ head = [t \in Threads |-> None] /\ rw = [t \in Threads |-> "ready"]
      /\ intr = FALSE /\ pending = FALSE
  BY Zenon DEF CacheInit, VirtioInit
<1>4. CacheTypes
  BY <1>2, Zenon DEF CacheTypes, Stage, Content
<1>5. RingTypes
  <2>1. NoOp \in OpType /\ [b |-> None, status |-> 0] \in InfoType
    BY Zenon DEF NoOp, OpType, InfoType
  <2>2. ops \in [Desc -> OpType] /\ info \in [Desc -> InfoType] /\ next \in [Desc -> Desc \cup {None}]
    BY <1>3, <2>1, Zenon
  <2>3. avail \in Seq(Desc) /\ used \in Seq(Desc)
    BY <1>3
  <2>4. /\ owned \in [Buf -> BOOLEAN] /\ intr \in BOOLEAN /\ pending \in BOOLEAN
        /\ head \in [Threads -> Desc \cup {None}] /\ rw \in [Threads -> {"ready", "free", "buf"}]
    BY <1>3, Zenon
  <2> QED
    BY <1>3, <2>2, <2>3, <2>4, Zenon DEF RingTypes
<1>6. Control
  BY <1>1, <1>2, <1>3, Zenon DEF Control, ControlOK, Holding, Filled
<1>7. Lru
  BY ListOfAll, Zenon DEF CacheInit
<1>8. Counts
  <2>1. \A b \in Buf : Users(b) = {}
    BY <1>2, DiskAssumption, Zenon DEF Users
  <2>2. \A b \in Buf : Cardinality(Users(b)) = 0
    BY <2>1, FS_EmptySet, Zenon
  <2> QED
    BY <1>2, <2>2 DEF Counts
<1>9. Contents
  BY <1>2, Zenon DEF Contents, DataOK, Filled
<1>10. Busy = {} /\ Range(avail) = {} /\ Range(used) = {}
  BY <1>3 DEF Busy, Range
<1>11. Chains /\ Rings /\ Wakes
  BY <1>3, <1>10 DEF Chains, Rings, Wakes, InRings, Distinct
<1> QED
  BY <1>1, <1>4, <1>5, <1>6, <1>7, <1>8, <1>9, <1>11, Zenon DEF DiskInv

\* The invariant of the disk stack, in every state.
THEOREM DiskInvariant ==
    MAX_OPS < UINT => (CacheSpec => []DiskInv)
<1> SUFFICES ASSUME MAX_OPS < UINT
             PROVE  CacheSpec => []DiskInv
  BY Zenon
<1>1. CacheInit => DiskInv
  BY DiskInit, Zenon
<1>2. DiskInv /\ [CacheNext]_allvars => DiskInv'
  BY DiskStep, Zenon
<1> QED
  BY <1>1, <1>2, PTL DEF CacheSpec

\* disksched_submit under bread and bwrite, with the driver below: the queue is empty whenever
\* dq_lock is free, each thread performs its own request, and bread returns a buffer that was read.
THEOREM StackServesCaller ==
    MAX_OPS < UINT => (CacheSpec => []ServesCaller)
<1> SUFFICES ASSUME MAX_OPS < UINT
             PROVE  CacheSpec => []ServesCaller
  BY Zenon
<1>1. DiskInv => ServesCaller
  BY DrainServes, Zenon DEF DiskInv
<1> QED
  BY <1>1, DiskInvariant, PTL

\* "Return a locked buf with the contents of the indicated block": whatever is recycled,
\* pinned and transferred in between, the holder of a block (bread to brelse) sees what the
\* last one left there.
THEOREM CacheIsCoherent ==
    MAX_OPS < UINT => (CacheSpec => []Coherent)
<1> SUFFICES ASSUME MAX_OPS < UINT
             PROVE  CacheSpec => []Coherent
  BY Zenon
<1>1. DiskInv => Coherent
  <2> SUFFICES ASSUME DiskInv, NEW t \in Threads, at[t] \in {"holds", "changed", "writing", "written", "done"}
               PROVE  valid[my[t]] /\ lock[my[t]] = t /\ data[my[t]] = latest[blockno[my[t]]]
    BY Zenon DEF Coherent
  <2>1. at[t] \in Filled /\ at[t] \in Holding
    BY Zenon DEF Filled, Holding
  <2>2. my[t] \in Buf /\ lock[my[t]] = t
    BY <2>1, OneHolder, Zenon
  <2>3. valid[my[t]]
    BY <2>1, Zenon DEF DiskInv, Contents, DataOK
  <2> QED
    BY <2>2, <2>3, Zenon DEF DiskInv, Contents
<1> QED
  BY <1>1, DiskInvariant, PTL

\* A block has at most one buffer, refcnt counts the threads between bget and the end of
\* brelse and the pin, and bget never panics: whatever is admitted finds a buffer.
THEOREM RefsAreExact ==
    MAX_OPS < UINT => (CacheSpec => []RefsExact)
<1> SUFFICES ASSUME MAX_OPS < UINT
             PROVE  CacheSpec => []RefsExact
  BY Zenon
<1>1. DiskInv => RefsExact
  <2> SUFFICES ASSUME DiskInv
               PROVE  RefsExact
    BY Zenon
  <2>1. TypeOK /\ CacheTypes /\ RingTypes /\ Lru /\ Counts
    BY Zenon DEF DiskInv, DrainInv
  <2>2. Range(lru) = Buf
    BY <2>1 DEF Lru, Range
  <2>3. CacheTypeOK
    BY <2>1, <2>2, Zenon DEF CacheTypeOK, CacheTypes, RingTypes, Lru
  <2>4. \A t \in Threads : at[t] # "panic"
    BY <2>1, Zenon DEF CacheTypes, Stage
  <2>5. /\ \A b, c \in Buf : blockno[b] = blockno[c] /\ blockno[b] # 0 => b = c
        /\ \A b \in Buf : refcnt[b] = Cardinality({t \in Threads : my[t] = b}) + (IF b \in pinned THEN 1 ELSE 0)
    BY <2>1, Zenon DEF Counts, Users
  <2> QED
    BY <2>3, <2>4, <2>5, Zenon DEF RefsExact
<1> QED
  BY <1>1, DiskInvariant, PTL

\* What bget recycles can be read back: only a pinned buffer, or one in the hands of a holder,
\* is newer than the disk.
THEOREM RecycledIsClean ==
    MAX_OPS < UINT => (CacheSpec => []CleanOnDisk)
<1> SUFFICES ASSUME MAX_OPS < UINT
             PROVE  CacheSpec => []CleanOnDisk
  BY Zenon
<1>1. DiskInv => CleanOnDisk
  <2> SUFFICES ASSUME DiskInv, NEW n \in Block, image[n] # latest[n]
               PROVE  \E b \in Buf : blockno[b] = n /\ (b \in pinned \/ lock[b] # None) /\ data[b] = latest[n]
    BY Zenon DEF CleanOnDisk
  <2>1. PICK b \in Buf : blockno[b] = n /\ valid[b] /\ Dirty(b)
    BY Zenon DEF DiskInv, Contents
  <2>2. data[b] = latest[n]
    BY <2>1, Zenon DEF DiskInv, Contents
  <2>3. b \in pinned \/ lock[b] # None
    <3>1. CASE b \in pinned
      BY <3>1, Zenon
    <3>2. CASE \E t \in Threads : my[t] = b /\ at[t] \in {"changed", "writing"}
      BY <3>2, OneHolder, CacheAssumption, Zenon DEF Holding, Filled
    <3> QED
      BY <2>1, <3>1, <3>2, Zenon DEF Dirty
  <2> QED
    BY <2>1, <2>2, <2>3, Zenon
<1> QED
  BY <1>1, DiskInvariant, PTL

\* Driver and device agree: no descriptor is lost, free twice or in two chains, and what the
\* device works on is the request of a thread that waits for it.
THEOREM RingsAreExact ==
    MAX_OPS < UINT => (CacheSpec => []RingsExact)
<1> SUFFICES ASSUME MAX_OPS < UINT
             PROVE  CacheSpec => []RingsExact
  BY Zenon
<1>1. DiskInv => ChainsExact
  <2> SUFFICES ASSUME DiskInv
               PROVE  ChainsExact
    BY Zenon
  <2>1. Chains /\ free \subseteq Desc
    BY Zenon DEF DiskInv, RingTypes
  <2>2. free = Desc \ UNION {Chain(head[t]) : t \in Busy}
    BY <2>1, ZenonT(40) DEF Chains
  <2> QED
    BY <2>1, <2>2, Zenon DEF ChainsExact, Chains, Busy
<1>2. DiskInv => DeviceOwns
  <2> SUFFICES ASSUME DiskInv
               PROVE  DeviceOwns
    BY Zenon
  <2>1. Rings /\ InRings = Range(avail) \cup Range(used)
    BY Zenon DEF DiskInv, InRings
  <2>2. ASSUME NEW b \in Buf, owned[b]
        PROVE  \E t \in Threads : /\ chosen[t] = b /\ info[head[t]].b = b /\ ops[head[t]].blockno = blockno[b]
                                  /\ head[t] \in InRings
    <3>1. PICK t \in Busy : my[t] = b /\ RequestOK(t)
      BY <2>1, <2>2, Zenon DEF Rings
    <3>2. t \in Threads /\ chosen[t] = b
      BY <3>1, BusyThread, IoThread, Zenon
    <3> QED
      BY <2>2, <3>1, <3>2 DEF RequestOK
  <2>3. ASSUME NEW d \in InRings
        PROVE  owned[info[d].b]
    <3>1. PICK t \in Busy : head[t] = d /\ RequestOK(t)
      BY <2>1, Zenon DEF Rings
    <3> QED
      BY <3>1, Zenon DEF RequestOK
  <2>4. \A b \in Buf : owned[b] <=> \E d \in InRings : info[d].b = b
    BY <2>2, <2>3, Zenon
  <2> QED
    BY <2>1, <2>2, <2>4, ZenonT(40) DEF DeviceOwns, Rings
<1> QED
  BY <1>1, <1>2, DiskInvariant, PTL DEF RingsExact

\* No wakeup is lost between virtio_disk_rw and virtio_disk_intr, kills included.
THEOREM IoWakeupsReach ==
    MAX_OPS < UINT => (CacheSpec => []IoWakes)
<1> SUFFICES ASSUME MAX_OPS < UINT
             PROVE  CacheSpec => []IoWakes
  BY Zenon
<1>1. DiskInv => IoWakes
  <2> SUFFICES ASSUME DiskInv, NEW t \in Threads
               PROVE  /\ rw[t] = "buf" => owned[chosen[t]] /\ (used = <<>> \/ pending \/ intr)
                      /\ rw[t] = "free" => Cardinality(free) < 3
    BY Zenon DEF IoWakes
  <2>1. /\ rw[t] = "buf" => head[t] # None /\ owned[my[t]]
        /\ rw[t] = "free" => Cardinality(free) < 3
        /\ used = <<>> \/ pending \/ intr
    BY Zenon DEF DiskInv, Wakes
  <2>2. rw[t] = "buf" => chosen[t] = my[t]
    BY <2>1, BusyThread, IoThread, Zenon DEF Busy
  <2> QED
    BY <2>1, <2>2, Zenon
<1> QED
  BY <1>1, DiskInvariant, PTL
=============================================================================
