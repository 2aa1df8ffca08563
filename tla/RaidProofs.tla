----------------------------- MODULE RaidProofs -----------------------------
(***************************************************************************)
(* raid.c for any number of swap slots and any disk size that satisfy      *)
(* SwapFits: no address leaves a disk; and, with Env = "quiet", the place  *)
(* and parity of every block and the refinement of PageStore.              *)
(***************************************************************************)
EXTENDS Raid, TLAPS

-----------------------------------------------------------------------------
(* Layout arithmetic. *)

\* The loop of raid_read/raid_write/raid_copy stays inside the swap area.
LEMMA BlockOfSlot ==
    ASSUME NEW s \in Slot, NEW i \in 0 .. BLOCKS_PER_PAGE - 1
    PROVE  s * BLOCKS_PER_PAGE + i \in LBlock
BY SwapFits DEF Slot, LBlock, BLOCKS_PER_PAGE

\* Different (slot, block) pairs are different logical blocks.
LEMMA BlockInjective ==
    ASSUME NEW s \in Slot, NEW i \in 0 .. BLOCKS_PER_PAGE - 1,
           NEW t \in Slot, NEW j \in 0 .. BLOCKS_PER_PAGE - 1,
           s * BLOCKS_PER_PAGE + i = t * BLOCKS_PER_PAGE + j
    PROVE  s = t /\ i = j
BY SwapFits DEF Slot, BLOCKS_PER_PAGE

\* raid0: the row of a logical block is a row of the disk.
LEMMA Raid0Layout ==
    ASSUME NEW lb \in LBlock
    PROVE  Raid0Disk(lb) \in Disk /\ Raid0Row(lb) \in Row
BY SwapFits DEF LBlock, Raid0Disk, Raid0Row, Disk, Row, NUM_DISKS, BLOCKS_PER_PAGE

\* raid0: two logical blocks never share a physical block.
LEMMA Raid0Injective ==
    ASSUME NEW lb \in LBlock, NEW mb \in LBlock,
           Raid0Disk(lb) = Raid0Disk(mb), Raid0Row(lb) = Raid0Row(mb)
    PROVE  lb = mb
BY SwapFits DEF LBlock, Raid0Disk, Raid0Row, NUM_DISKS, BLOCKS_PER_PAGE

\* raid1: the logical block itself is the row.
LEMMA Raid1Layout ==
    ASSUME NEW lb \in LBlock
    PROVE  lb \in Row
BY SwapFits DEF LBlock, Row, BLOCKS_PER_PAGE

\* raid5: stripe and data disk of a logical block.
LEMMA Raid5Layout ==
    ASSUME NEW lb \in LBlock
    PROVE  /\ Stripe(lb) \in Row
           /\ DataIdx(lb) \in 0 .. 2
           /\ lb = 3 * Stripe(lb) + DataIdx(lb)
BY SwapFits DEF LBlock, Row, Stripe, DataIdx, DATA_DISKS, BLOCKS_PER_PAGE

\* raid5: within a stripe the three data disks and the parity disk are the four
\* disks, each once.
LEMMA Raid5Disks ==
    ASSUME NEW stripe \in Row
    PROVE  /\ raid5_parity_disk(stripe) \in Disk
           /\ \A d \in 0 .. 2 : /\ raid5_data_disk(stripe, d) \in Disk
                                /\ raid5_data_disk(stripe, d) # raid5_parity_disk(stripe)
           /\ \A d, e \in 0 .. 2 :
                raid5_data_disk(stripe, d) = raid5_data_disk(stripe, e) => d = e
           /\ \A x \in Disk : \/ x = raid5_parity_disk(stripe)
                              \/ \E d \in 0 .. 2 : x = raid5_data_disk(stripe, d)
<1> DEFINE q == stripe % 4
<1>1. q \in 0 .. 3 /\ stripe \in Int
  BY SwapFits DEF Row
<1>2. raid5_parity_disk(stripe) = q
  BY DEF raid5_parity_disk, NUM_DISKS
<1>3. \A d : raid5_data_disk(stripe, d) = (q + 1 + d) % 4
  BY <1>2 DEF raid5_data_disk, NUM_DISKS
<1>4. Disk = 0 .. 3
  BY DEF Disk, NUM_DISKS
<1> HIDE DEF q
<1>5. CASE q = 0
  BY <1>2, <1>3, <1>4, <1>5
<1>6. CASE q = 1
  BY <1>2, <1>3, <1>4, <1>6
<1>7. CASE q = 2
  BY <1>2, <1>3, <1>4, <1>7
<1>8. CASE q = 3
  BY <1>2, <1>3, <1>4, <1>8
<1> QED
  BY <1>1, <1>5, <1>6, <1>7, <1>8

\* raid5: two logical blocks never share a physical block.
LEMMA Raid5Injective ==
    ASSUME NEW lb \in LBlock, NEW mb \in LBlock, Stripe(lb) = Stripe(mb),
           raid5_data_disk(Stripe(lb), DataIdx(lb)) = raid5_data_disk(Stripe(mb), DataIdx(mb))
    PROVE  lb = mb
<1>1. DataIdx(lb) = DataIdx(mb)
  BY Raid5Layout, Raid5Disks
<1> QED
  BY <1>1, Raid5Layout

\* Whatever the mode, the row accessed for a block of a slot is in range.
LEMMA RowInRange ==
    ASSUME raid_mode \in Mode, NEW lb \in LBlock
    PROVE  InRange(DataRow(lb))
<1>1. Raid0Row(lb) < DISK_BLOCKS /\ lb < DISK_BLOCKS /\ Stripe(lb) < DISK_BLOCKS
  BY SwapFits, Raid0Layout, Raid1Layout, Raid5Layout DEF Row
<1> QED
  BY <1>1 DEF InRange, DataRow, Mode

-----------------------------------------------------------------------------
(* Type correctness. *)

\* xor_block of two blocks is a block.
LEMMA BitOps ==
    ASSUME NEW a \in Bit, NEW b \in Bit
    PROVE  Xor(a, b) \in Bit
BY DEF Bit, Xor

\* raid0_read, raid1_read and raid5_read return a block.
LEMMA ReadBlockType ==
    ASSUME TypeOK, NEW lb \in LBlock
    PROVE  ReadBlock(lb) \in Bit
<1> USE DEF TypeOK
<1>1. CASE raid_mode = 0
  BY <1>1, Raid0Layout DEF ReadBlock, raid0_read
<1>2. CASE raid_mode = 1
  BY <1>2, Raid1Layout DEF ReadBlock, raid1_read, Disk, NUM_DISKS
<1>3. CASE raid_mode = 5
  <2> DEFINE stripe == Stripe(lb)
             d == raid5_data_disk(stripe, DataIdx(lb))
             C(k) == Contribution(sim_disk, raid5_data_disk(stripe, k), stripe)
  <2>1. stripe \in Row /\ d \in Disk /\ raid5_parity_disk(stripe) \in Disk
    BY Raid5Layout, Raid5Disks
  <2>2. \A k \in 0 .. 2 : C(k) \in Bit
    BY <2>1, Raid5Disks DEF Contribution, Bit
  <2>3. DataXor(sim_disk, stripe) \in Bit
    <3> HIDE DEF C, stripe
    <3>1. Xor(Xor(C(0), C(1)), C(2)) \in Bit
      BY <2>2, BitOps
    <3> QED BY <3>1 DEF DataXor, C
  <2>4. DataDisk(lb) = d
    BY <1>3 DEF DataDisk
  <2>5. raid5_read(lb) \in Bit
    BY <2>1, <2>3, <2>4, BitOps DEF raid5_read
  <2> QED
    BY <1>3, <2>5 DEF ReadBlock
<1> QED
  BY <1>1, <1>2, <1>3 DEF Mode

\* phys_write_block on any array of the right shape.
LEMMA PhysWriteType ==
    ASSUME NEW D \in [Disk -> [Row -> Bit]], NEW d \in Disk, NEW row \in Row, NEW b \in Bit
    PROVE  phys_write_block(D, d, row, b) \in [Disk -> [Row -> Bit]]
BY DEF phys_write_block

\* raid0_write, raid1_write and raid5_write keep the shape of the array.
LEMMA WriteBlockType ==
    ASSUME TypeOK, NEW lb \in LBlock, NEW b \in Bit
    PROVE  WriteBlock(lb, b) \in [Disk -> [Row -> Bit]]
<1> USE DEF TypeOK
<1>1. CASE raid_mode = 0
  BY <1>1, Raid0Layout, PhysWriteType DEF WriteBlock, raid0_write
<1>2. CASE raid_mode = 1
  <2>1. 0 \in Disk /\ 1 \in Disk /\ lb \in Row
    BY Raid1Layout DEF Disk, NUM_DISKS
  <2>2. phys_write_block(sim_disk, 0, lb, b) \in [Disk -> [Row -> Bit]]
    BY <2>1, PhysWriteType, Zenon
  <2> QED
    BY <1>2, <2>1, <2>2, PhysWriteType DEF WriteBlock, raid1_write
<1>3. CASE raid_mode = 5
  <2> DEFINE stripe == Stripe(lb)
             d == raid5_data_disk(stripe, DataIdx(lb))
             D == phys_write_block(sim_disk, d, stripe, b)
             C(k) == Contribution(D, raid5_data_disk(stripe, k), stripe)
  <2>1. stripe \in Row /\ d \in Disk /\ raid5_parity_disk(stripe) \in Disk
    BY Raid5Layout, Raid5Disks
  <2>2. D \in [Disk -> [Row -> Bit]]
    BY <2>1, PhysWriteType
  <2>3. \A k \in 0 .. 2 : C(k) \in Bit
    <3> HIDE DEF D
    <3> QED BY <2>1, <2>2, Raid5Disks DEF Contribution, Bit
  <2>4. DataXor(D, stripe) \in Bit
    <3>1. Xor(Xor(C(0), C(1)), C(2)) \in Bit
      <4> HIDE DEF C
      <4> QED BY <2>3, BitOps
    <3> QED BY <3>1 DEF DataXor
  <2>5. raid5_write(lb, b) = phys_write_block(D, raid5_parity_disk(stripe), stripe, DataXor(D, stripe))
    BY DEF raid5_write
  <2>6. raid5_write(lb, b) \in [Disk -> [Row -> Bit]]
    <3>1. phys_write_block(D, raid5_parity_disk(stripe), stripe, DataXor(D, stripe))
            \in [Disk -> [Row -> Bit]]
      <4> DEFINE par == raid5_parity_disk(stripe)
                 x   == DataXor(D, stripe)
      <4>1. par \in Disk /\ x \in Bit
        BY <2>1, <2>4
      <4>2. phys_write_block(D, par, stripe, x) \in [Disk -> [Row -> Bit]]
        <5> HIDE DEF D, stripe, par, x
        <5> QED BY <2>1, <2>2, <4>1, PhysWriteType
      <4> QED BY <4>2
    <3> QED BY <2>5, <3>1, Zenon
  <2> QED
    BY <1>3, <2>6 DEF WriteBlock
<1> QED
  BY <1>1, <1>2, <1>3 DEF Mode

\* The loop body works on a block of the swap area.
LEMMA LoopBlock ==
    ASSUME TypeOK
    PROVE  /\ op.s * BLOCKS_PER_PAGE + op.i \in LBlock
           /\ op.t * BLOCKS_PER_PAGE + op.i \in LBlock
           /\ op.i \in 0 .. BLOCKS_PER_PAGE - 1
           /\ op.buf[op.i] \in Bit
<1>1. op.s \in Slot /\ op.t \in Slot /\ op.i \in 0 .. BLOCKS_PER_PAGE - 1 /\ op.buf \in Page
  BY DEF TypeOK, Op
<1> QED
  BY <1>1, BlockOfSlot, Zenon DEF Page

\* The initial operation record and the blank page are well typed.
LEMMA IdleType == Idle \in Op /\ ZeroPage \in Page
BY SwapFits DEF Idle, Op, ZeroPage, Page, Bit, Slot, BLOCKS_PER_PAGE

\* Every step of the array, of whatever operation, keeps the state well typed.
LEMMA TypeStep == TypeOK /\ [Next]_vars => TypeOK'
<1> SUFFICES ASSUME TypeOK, [Next]_vars
             PROVE  TypeOK'
  OBVIOUS
<1>1. ASSUME NEW m \in Mode, raid_setmode(m)
      PROVE  TypeOK'
  BY <1>1 DEF raid_setmode, TypeOK
<1>2. ASSUME NEW d \in Disk, raid_fail_disk(d)
      PROVE  TypeOK'
  BY <1>2 DEF raid_fail_disk, TypeOK
<1>3. ASSUME NEW d \in Disk, raid_restore_disk(d)
      PROVE  TypeOK'
  BY <1>3 DEF raid_restore_disk, TypeOK
<1>4. ASSUME NEW s \in Slot, raid_read(s)
      PROVE  TypeOK'
  BY <1>4, IdleType, Zenon DEF raid_read, Start, TypeOK, Op
<1>5. ASSUME NEW s \in Slot, NEW p \in Pages, raid_write(s, p)
      PROVE  TypeOK'
  BY <1>5, IdleType, SwapFits, Zenon DEF raid_write, Start, TypeOK, Op
<1>6. ASSUME NEW s \in Slot, NEW t \in Slot, raid_copy(s, t)
      PROVE  TypeOK'
  BY <1>6, IdleType, Zenon DEF raid_copy, Start, TypeOK, Op
<1>7. CASE WriteStep
  <2>1. sim_disk' \in [Disk -> [Row -> Bit]]
    BY <1>7, LoopBlock, WriteBlockType DEF WriteStep
  <2>2. op' \in Op
    BY <1>7, IdleType, LoopBlock DEF WriteStep, TypeOK, Op, Last, BLOCKS_PER_PAGE
  <2>3. shadow' \in [Slot -> Page]
    BY <1>7 DEF WriteStep, TypeOK, Op
  <2> QED
    BY <1>7, <2>1, <2>2, <2>3, Zenon DEF WriteStep, TypeOK
<1>8. CASE ReadStep
  <2> DEFINE buf == [op.buf EXCEPT ![op.i] = ReadBlock(op.s * BLOCKS_PER_PAGE + op.i)]
  <2>1. ReadBlock(op.s * BLOCKS_PER_PAGE + op.i) \in Bit
    BY LoopBlock, ReadBlockType
  <2>2. buf \in Page
    BY <2>1 DEF TypeOK, Op, Page
  <2>3. op' \in Op
    <3>1. op' = IF ~Last THEN [op EXCEPT !.i = op.i + 1, !.buf = buf]
                ELSE IF op.kind = "read" THEN Idle
                ELSE [op EXCEPT !.kind = "copyw", !.i = 0, !.buf = buf]
      BY <1>8 DEF ReadStep
    <3>2. op \in Op /\ (~Last => op.i + 1 \in 0 .. BLOCKS_PER_PAGE - 1)
      BY LoopBlock DEF TypeOK, Last, BLOCKS_PER_PAGE
    <3> HIDE DEF buf
    <3>3. ~Last => [op EXCEPT !.i = op.i + 1, !.buf = buf] \in Op
      BY <2>2, <3>2, Zenon DEF Op
    <3>4. [op EXCEPT !.kind = "copyw", !.i = 0, !.buf = buf] \in Op
      <4>1. 0 \in 0 .. BLOCKS_PER_PAGE - 1
        BY DEF BLOCKS_PER_PAGE
      <4> QED BY <2>2, <3>2, <4>1, Zenon DEF Op
    <3> QED
      BY <3>1, <3>3, <3>4, IdleType
  <2>4. dst' \in Page
    BY <1>8, <2>2 DEF ReadStep, TypeOK
  <2> QED
    BY <1>8, <2>3, <2>4 DEF ReadStep, TypeOK
<1>9. CASE Panic
  BY <1>9 DEF Panic, TypeOK
<1>10. CASE Halted
  BY <1>10 DEF Halted, vars, TypeOK
<1>11. CASE UNCHANGED vars
  BY <1>11 DEF vars, TypeOK
<1> QED
  BY <1>1, <1>2, <1>3, <1>4, <1>5, <1>6, <1>7, <1>8, <1>9, <1>10, <1>11 DEF Next

\* Every state of every history of raid.h calls is well typed.
THEOREM TypeCorrect == Spec => []TypeOK
<1>1. Init => TypeOK
  BY IdleType, SwapFits DEF Init, TypeOK, Disk, Row, Bit, Mode
<1> QED
  BY <1>1, TypeStep, PTL DEF Spec

\* No history of raid.h calls on swap slots runs into the "block out of range"
\* panics of phys_read_block and phys_write_block.
THEOREM RangeSafe == Spec => []NoRangePanic
<1>1. Init => NoRangePanic
  BY DEF Init, NoRangePanic
<1>2. TypeOK /\ NoRangePanic /\ [Next]_vars => NoRangePanic'
  <2> SUFFICES ASSUME TypeOK, NoRangePanic, [Next]_vars
               PROVE  NoRangePanic'
    OBVIOUS
  <2>1. CASE Panic
    <3>1. raid_mode \in Mode
      BY DEF TypeOK
    <3>2. \A lb \in LBlock : InRange(DataRow(lb))
      BY <3>1, RowInRange
    <3> QED
      BY <2>1, <3>2, LoopBlock DEF Panic, NoRangePanic
  <2>2. CASE panicked' = panicked
    BY <2>2, SMTT(30) DEF NoRangePanic
  <2>3. Panic \/ panicked' = panicked
    BY Zenon DEF Next, vars, raid_setmode, raid_fail_disk, raid_restore_disk, raid_read, raid_write,
           raid_copy, Start, WriteStep, ReadStep, Halted
  <2> QED
    BY <2>1, <2>2, <2>3
<1> QED
  BY <1>1, <1>2, TypeCorrect, PTL DEF Spec

-----------------------------------------------------------------------------
(* What one iteration of a write loop does to the array. *)

\* The physical block of a logical block exists, in every mode.
LEMMA CellInArray ==
    ASSUME TypeOK, NEW lb \in LBlock
    PROVE  DataDisk(lb) \in Disk /\ DataRow(lb) \in Row /\ lb \in Row
BY Raid0Layout, Raid1Layout, Raid5Layout, Raid5Disks
   DEF DataDisk, DataRow, TypeOK, Mode, Disk, NUM_DISKS

\* Two logical blocks never share a physical block, in any mode.
LEMMA CellInjective ==
    ASSUME TypeOK, NEW lb \in LBlock, NEW mb \in LBlock,
           DataDisk(lb) = DataDisk(mb), DataRow(lb) = DataRow(mb)
    PROVE  lb = mb
<1>1. CASE raid_mode = 0
  BY <1>1, Raid0Injective DEF DataDisk, DataRow
<1>2. CASE raid_mode = 1
  BY <1>2 DEF DataRow
<1>3. CASE raid_mode = 5
  BY <1>3, Raid5Injective DEF DataDisk, DataRow
<1> QED
  BY <1>1, <1>2, <1>3 DEF TypeOK, Mode

\* With all disks up, phys_write_block changes the one block it is given.
LEMMA PhysWriteCell ==
    ASSUME Healthy, NEW D \in [Disk -> [Row -> Bit]], NEW d \in Disk, NEW row \in Row, NEW b \in Bit
    PROVE  /\ phys_write_block(D, d, row, b)[d][row] = b
           /\ \A e \in Disk, r \in Row :
                e # d \/ r # row => phys_write_block(D, d, row, b)[e][r] = D[e][r]
<1>1. phys_write_block(D, d, row, b) = [D EXCEPT ![d][row] = b]
  BY DEF Healthy, phys_write_block
<1> QED
  BY <1>1

\* XOR of three bits.
LEMMA XorOfThree ==
    ASSUME NEW a \in Bit, NEW b \in Bit, NEW c \in Bit
    PROVE  Xor(Xor(a, b), c) = (a + b + c) % 2
BY DEF Xor, Bit

\* With all disks up, raid5_write changes the data block and the parity block of
\* its stripe, and leaves the parity right.
LEMMA Raid5WriteCells ==
    ASSUME TypeOK, Healthy, NEW lb \in LBlock, NEW b \in Bit
    PROVE  LET E      == raid5_write(lb, b)
               stripe == Stripe(lb)
               d      == raid5_data_disk(stripe, DataIdx(lb))
               par    == raid5_parity_disk(stripe)
           IN  /\ E[d][stripe] = b
               /\ \A e \in Disk, r \in Row :
                    (r # stripe \/ (e # d /\ e # par)) => E[e][r] = sim_disk[e][r]
               /\ StripeParity(E, stripe)
<1> DEFINE E      == raid5_write(lb, b)
           stripe == Stripe(lb)
           d      == raid5_data_disk(stripe, DataIdx(lb))
           par    == raid5_parity_disk(stripe)
           D      == phys_write_block(sim_disk, d, stripe, b)
           x      == DataXor(D, stripe)
           C(k)   == raid5_data_disk(stripe, k)
<1>1. stripe \in Row /\ d \in Disk /\ par \in Disk /\ d # par
  BY Raid5Layout, Raid5Disks
<1>2. D \in [Disk -> [Row -> Bit]]
  BY <1>1, PhysWriteType DEF TypeOK
<1>3. /\ D[d][stripe] = b
      /\ \A e \in Disk, r \in Row : e # d \/ r # stripe => D[e][r] = sim_disk[e][r]
  <2> HIDE DEF d, stripe
  <2> QED BY <1>1, PhysWriteCell DEF TypeOK
<1>4. \A k \in 0 .. 2 : C(k) \in Disk /\ C(k) # par
  BY <1>1, Raid5Disks
<1>5. x = (D[C(0)][stripe] + D[C(1)][stripe] + D[C(2)][stripe]) % 2 /\ x \in Bit
  <2> HIDE DEF D, stripe
  <2>1. \A k \in 0 .. 2 : /\ Contribution(D, C(k), stripe) = D[C(k)][stripe]
                          /\ D[C(k)][stripe] \in Bit
    BY <1>1, <1>2, <1>4 DEF Contribution, Healthy
  <2> DEFINE c0 == D[C(0)][stripe]  c1 == D[C(1)][stripe]  c2 == D[C(2)][stripe]
  <2>2. x = Xor(Xor(c0, c1), c2)
    BY <2>1 DEF DataXor
  <2>3. c0 \in Bit /\ c1 \in Bit /\ c2 \in Bit
    BY <2>1
  <2> HIDE DEF c0, c1, c2, x, C
  <2>4. x = (c0 + c1 + c2) % 2 /\ x \in Bit
    BY <2>2, <2>3, XorOfThree, BitOps
  <2> QED BY <2>4 DEF c0, c1, c2
<1>6. E = phys_write_block(D, par, stripe, x)
  BY DEF raid5_write
<1>7. /\ E[par][stripe] = x
      /\ \A e \in Disk, r \in Row : e # par \/ r # stripe => E[e][r] = D[e][r]
  <2>1. x \in Bit /\ par \in Disk /\ stripe \in Row
    BY <1>1, <1>5
  <2> HIDE DEF D, stripe, par, x, E
  <2>2. /\ phys_write_block(D, par, stripe, x)[par][stripe] = x
        /\ \A e \in Disk, r \in Row :
             e # par \/ r # stripe => phys_write_block(D, par, stripe, x)[e][r] = D[e][r]
    BY <1>2, <2>1, PhysWriteCell
  <2> QED BY <1>6, <2>2
<1>8. StripeParity(E, stripe)
  <2>1. \A k \in 0 .. 2 : E[C(k)][stripe] = D[C(k)][stripe]
    <3> HIDE DEF D, stripe, par, E, C
    <3> QED BY <1>1, <1>4, <1>7
  <2>2. E[par][stripe] = (E[C(0)][stripe] + E[C(1)][stripe] + E[C(2)][stripe]) % 2
    <3> HIDE DEF D, stripe, par, E, C, x
    <3> QED BY <2>1, <1>5, <1>7
  <2> QED BY <2>2 DEF StripeParity
<1>9. E[d][stripe] = b
  <2> HIDE DEF D, stripe, par, E, C, x, d
  <2> QED BY <1>1, <1>3, <1>7
<1>10. \A e \in Disk, r \in Row :
          (r # stripe \/ (e # d /\ e # par)) => E[e][r] = sim_disk[e][r]
  <2> HIDE DEF D, stripe, par, E, C, x, d
  <2> QED BY <1>3, <1>7
<1> QED
  BY <1>8, <1>9, <1>10

\* With all disks up, one iteration of a write loop stores its block, and leaves
\* every other block of the swap area and the parity of every stripe in order.
LEMMA WriteBlockCells ==
    ASSUME TypeOK, Healthy, ParityConsistent, NEW lb \in LBlock, NEW b \in Bit,
           sim_disk' = WriteBlock(lb, b), raid_mode' = raid_mode
    PROVE  /\ Holds(lb, b)'
           /\ \A mb \in LBlock, v \in Bit : mb # lb /\ Holds(mb, v) => Holds(mb, v)'
           /\ ParityConsistent'
<1>0. \A mb \in LBlock : DataDisk(mb)' = DataDisk(mb) /\ DataRow(mb)' = DataRow(mb)
  BY DEF DataDisk, DataRow
<1>1. CASE raid_mode = 0
  <2>1. sim_disk' = phys_write_block(sim_disk, DataDisk(lb), DataRow(lb), b)
    BY <1>1 DEF WriteBlock, raid0_write, DataDisk, DataRow
  <2>2. /\ sim_disk'[DataDisk(lb)][DataRow(lb)] = b
        /\ \A e \in Disk, r \in Row :
             e # DataDisk(lb) \/ r # DataRow(lb) => sim_disk'[e][r] = sim_disk[e][r]
    BY <2>1, CellInArray, PhysWriteCell DEF TypeOK
  <2>3. Holds(lb, b)'
    BY <1>0, <1>1, <2>2 DEF Holds
  <2>4. \A mb \in LBlock, v \in Bit : mb # lb /\ Holds(mb, v) => Holds(mb, v)'
    BY <1>0, <1>1, <2>2, CellInArray, CellInjective DEF Holds
  <2> QED
    BY <1>1, <2>3, <2>4 DEF ParityConsistent
<1>2. CASE raid_mode = 1
  <2> DEFINE D == phys_write_block(sim_disk, 0, lb, b)
  <2>1. 0 \in Disk /\ 1 \in Disk /\ lb \in Row
    BY Raid1Layout DEF Disk, NUM_DISKS
  <2>2. D \in [Disk -> [Row -> Bit]]
    BY <2>1, PhysWriteType, Zenon DEF TypeOK
  <2>3. /\ D[0][lb] = b
        /\ \A e \in Disk, r \in Row : e # 0 \/ r # lb => D[e][r] = sim_disk[e][r]
    <3>1. D = [sim_disk EXCEPT ![0][lb] = b]
      BY <2>1 DEF Healthy, phys_write_block
    <3> HIDE DEF D
    <3> QED BY <2>1, <3>1 DEF TypeOK
  <2>4. sim_disk' = phys_write_block(D, 1, lb, b)
    BY <1>2 DEF WriteBlock, raid1_write
  <2> HIDE DEF D
  <2>5. /\ sim_disk'[1][lb] = b
        /\ \A e \in Disk, r \in Row : e # 1 \/ r # lb => sim_disk'[e][r] = D[e][r]
    <3>1. sim_disk' = [D EXCEPT ![1][lb] = b]
      BY <2>1, <2>4 DEF Healthy, phys_write_block
    <3> QED BY <2>1, <2>2, <3>1
  <2>6. \A mb \in LBlock : DataDisk(mb) = 0 /\ DataRow(mb) = mb /\ mb \in Row
    BY <1>2, Raid1Layout DEF DataDisk, DataRow
  <2>7. Holds(lb, b)'
    BY <1>0, <2>1, <2>3, <2>5, <2>6 DEF Holds
  <2>8. \A mb \in LBlock, v \in Bit : mb # lb /\ Holds(mb, v) => Holds(mb, v)'
    BY <1>0, <1>2, <2>1, <2>3, <2>5, <2>6 DEF Holds
  <2> QED
    BY <1>2, <2>7, <2>8 DEF ParityConsistent
<1>3. CASE raid_mode = 5
  <2> DEFINE stripe == Stripe(lb)
             d      == raid5_data_disk(stripe, DataIdx(lb))
             par    == raid5_parity_disk(stripe)
  <2>1. sim_disk' = raid5_write(lb, b)
    BY <1>3 DEF WriteBlock
  <2>2. /\ sim_disk'[d][stripe] = b
        /\ \A e \in Disk, r \in Row :
             (r # stripe \/ (e # d /\ e # par)) => sim_disk'[e][r] = sim_disk[e][r]
        /\ StripeParity(sim_disk', stripe)
    BY <2>1, Raid5WriteCells
  <2>3. \A mb \in LBlock : DataDisk(mb) = raid5_data_disk(Stripe(mb), DataIdx(mb))
                            /\ DataRow(mb) = Stripe(mb)
    BY <1>3 DEF DataDisk, DataRow
  <2>4. Holds(lb, b)'
    BY <1>0, <1>3, <2>2, <2>3 DEF Holds
  <2>5. ASSUME NEW mb \in LBlock, NEW v \in Bit, mb # lb, Holds(mb, v)
        PROVE  Holds(mb, v)'
    <3>1. DataDisk(mb) \in Disk /\ DataRow(mb) \in Row
      BY CellInArray
    <3>2. DataRow(mb) # stripe \/ DataDisk(mb) # d
      BY <2>3, <2>5, CellInjective
    <3>3. DataRow(mb) = stripe => DataDisk(mb) # par
      BY <2>3, <3>1, Raid5Disks, Raid5Layout
    <3>4. sim_disk'[DataDisk(mb)][DataRow(mb)] = sim_disk[DataDisk(mb)][DataRow(mb)]
      <4> HIDE DEF stripe, d, par
      <4> QED BY <2>2, <3>1, <3>2, <3>3
    <3> QED
      BY <1>0, <1>3, <2>5, <3>4 DEF Holds
  <2>6. ASSUME NEW mb \in LBlock
        PROVE  StripeParity(sim_disk', Stripe(mb))
    <3>1. CASE Stripe(mb) = stripe
      BY <2>2, <3>1
    <3>2. CASE Stripe(mb) # stripe
      <4> DEFINE st == Stripe(mb)
      <4>1. st \in Row /\ StripeParity(sim_disk, st)
        BY <1>3, Raid5Layout DEF ParityConsistent
      <4>2. \A e \in Disk : sim_disk'[e][st] = sim_disk[e][st]
        <5> HIDE DEF stripe, d, par, st
        <5> QED BY <2>2, <3>2, <4>1 DEF st
      <4>3. /\ raid5_parity_disk(st) \in Disk
            /\ \A k \in 0 .. 2 : raid5_data_disk(st, k) \in Disk
        BY <4>1, Raid5Disks
      <4> HIDE DEF st
      <4>4. StripeParity(sim_disk', st)
        BY <4>1, <4>2, <4>3 DEF StripeParity
      <4> QED BY <4>4 DEF st
    <3> QED
      BY <3>1, <3>2
  <2>7. ParityConsistent'
    BY <2>6 DEF ParityConsistent
  <2> QED
    BY <2>4, <2>5, <2>7
<1> QED
  BY <1>1, <1>2, <1>3 DEF TypeOK, Mode

-----------------------------------------------------------------------------
(* What one iteration of a read loop returns. *)

\* A read that does not panic returns the block, rebuilt from the other disks of
\* the stripe when its own disk is down.
LEMMA ReadsBack ==
    ASSUME TypeOK, ArrayInv, ParityConsistent, NEW lb \in LBlock, NEW v \in Bit,
           Holds(lb, v), Readable(lb)
    PROVE  ReadBlock(lb) = v
<1>1. CASE raid_mode = 0
  BY <1>1 DEF ReadBlock, raid0_read, Holds, DataDisk, DataRow
<1>2. CASE raid_mode = 1
  BY <1>2 DEF ReadBlock, raid1_read, Holds, DataDisk, DataRow, Readable
<1>3. CASE raid_mode = 5
  <2> DEFINE stripe == Stripe(lb)
             C(k)   == raid5_data_disk(stripe, k)
             d      == DataDisk(lb)
             par    == raid5_parity_disk(stripe)
             x(k)   == sim_disk[C(k)][stripe]
             y(k)   == Contribution(sim_disk, C(k), stripe)
  <2>1. stripe \in Row /\ DataIdx(lb) \in 0 .. 2 /\ d = C(DataIdx(lb)) /\ DataRow(lb) = stripe
    BY <1>3, Raid5Layout DEF DataDisk, DataRow
  <2>2. /\ par \in Disk
        /\ \A k \in 0 .. 2 : C(k) \in Disk /\ C(k) # par
        /\ \A j, k \in 0 .. 2 : C(j) = C(k) => j = k
    BY <2>1, Raid5Disks
  <2>3. x(DataIdx(lb)) = v
    BY <2>1 DEF Holds
  <2>4. CASE ~disk_failed[d]
    BY <1>3, <2>1, <2>3, <2>4 DEF ReadBlock, raid5_read
  <2>5. CASE disk_failed[d]
    <3>1. \A k \in 0 .. 2 : x(k) \in Bit
      BY <2>1, <2>2 DEF TypeOK
    <3>2. \A k \in 0 .. 2 : y(k) = IF k = DataIdx(lb) THEN 0 ELSE x(k)
      BY <2>1, <2>2, <2>5 DEF ArrayInv, Contribution
    <3>3. ReadBlock(lb) = Xor(DataXor(sim_disk, stripe), sim_disk[par][stripe])
      BY <1>3, <2>5 DEF ReadBlock, raid5_read
    <3>4. DataXor(sim_disk, stripe) = Xor(Xor(y(0), y(1)), y(2))
      BY DEF DataXor
    <3>5. sim_disk[par][stripe] = (x(0) + x(1) + x(2)) % 2
      BY <1>3 DEF ParityConsistent, StripeParity
    <3>6. ReadBlock(lb) = Xor(Xor(Xor(y(0), y(1)), y(2)), (x(0) + x(1) + x(2)) % 2)
      BY <3>3, <3>4, <3>5
    <3> HIDE DEF x, y
    <3>7. DataIdx(lb) \in {0, 1, 2}
      BY <2>1
    <3>8. CASE DataIdx(lb) = 0
      BY <2>3, <3>1, <3>2, <3>6, <3>8 DEF Xor, Bit
    <3>9. CASE DataIdx(lb) = 1
      BY <2>3, <3>1, <3>2, <3>6, <3>9 DEF Xor, Bit
    <3>10. CASE DataIdx(lb) = 2
      BY <2>3, <3>1, <3>2, <3>6, <3>10 DEF Xor, Bit
    <3> QED
      BY <3>7, <3>8, <3>9, <3>10
  <2> QED
    BY <2>4, <2>5
<1> QED
  BY <1>1, <1>2, <1>3 DEF TypeOK, Mode

\* With at most one disk down the redundant modes can read every block.
LEMMA OneFailureReadable ==
    ASSUME TypeOK, ArrayInv, raid_mode \in {1, 5}, NEW lb \in LBlock
    PROVE  Readable(lb)
<1>1. DataDisk(lb) \in Disk /\ 0 \in Disk /\ 1 \in Disk
  BY CellInArray DEF Disk, NUM_DISKS
<1>2. CASE raid_mode = 1
  BY <1>1, <1>2 DEF Readable, ArrayInv, DataDisk
<1>3. CASE raid_mode = 5
  BY <1>1, <1>3 DEF Readable, ArrayInv
<1> QED
  BY <1>2, <1>3

-----------------------------------------------------------------------------
(* QuietInv is inductive. *)

\* A freshly initialised array satisfies the invariant.
LEMMA QuietInit == Init => QuietInv
<1> SUFFICES ASSUME Init
             PROVE  QuietInv
  OBVIOUS
<1>1. TypeOK
  BY IdleType, SwapFits DEF Init, TypeOK, Disk, Row, Bit, Mode
<1>2. \A d \in Disk, r \in Row : sim_disk[d][r] = 0
  BY DEF Init
<1>3. raid_mode = 0 /\ op.kind = "idle" /\ \A d \in Disk : ~disk_failed[d]
  BY DEF Init, Idle
<1>4. \A s \in Slot, i \in 0 .. BLOCKS_PER_PAGE - 1 : Expected(s, i) = 0
  BY <1>3 DEF Expected, Init, ZeroPage
<1>5. \A s \in Slot, i \in 0 .. BLOCKS_PER_PAGE - 1 :
         Holds(s * BLOCKS_PER_PAGE + i, Expected(s, i))
  BY <1>1, <1>2, <1>3, <1>4, CellInArray, BlockOfSlot DEF Holds
<1> QED
  BY <1>1, <1>3, <1>5 DEF QuietInv, ArrayInv, ParityConsistent, SurvivesOneFailure, Init

\* Each operation of raid.h, and each iteration of its loop, keeps the invariant.
LEMMA QuietStep ==
    ASSUME Env = "quiet", QuietInv, [Next]_vars
    PROVE  QuietInv'
<1> USE DEF QuietInv
<1> DEFINE I == 0 .. BLOCKS_PER_PAGE - 1
           lbOf(s, i) == s * BLOCKS_PER_PAGE + i
<1>0. TypeOK'
  BY TypeStep
<1>1. ASSUME NEW m \in Mode, MaySetMode, raid_setmode(m)
      PROVE  QuietInv'
  <2>1. \A d \in Disk, r \in Row : sim_disk[d][r] = 0
    BY <1>1 DEF MaySetMode, Blank
  <2>2. UNCHANGED <<sim_disk, disk_failed, op, panicked, shadow>> /\ op.kind = "idle"
        /\ panicked = "no"
    BY <1>1 DEF raid_setmode, Free
  <2>3. \A s \in Slot, i \in I : Expected(s, i)' = Expected(s, i)
    BY <2>2 DEF Expected
  <2>4. 1 \in Disk
    BY DEF Disk, NUM_DISKS
  <2>5. \A s \in Slot, i \in I : Expected(s, i) = 0
    BY <2>1, CellInArray, BlockOfSlot DEF ArrayInv, Holds
  <2>6. \A lb \in LBlock : DataDisk(lb)' \in Disk /\ DataRow(lb)' \in Row /\ lb \in Row
    BY <1>0, <1>1, Raid0Layout, Raid1Layout, Raid5Layout, Raid5Disks
       DEF DataDisk, DataRow, TypeOK, Mode, Disk, NUM_DISKS
  <2>7. \A s \in Slot, i \in I : Holds(lbOf(s, i), Expected(s, i))'
    BY <2>1, <2>2, <2>3, <2>4, <2>5, <2>6, BlockOfSlot DEF Holds
  <2>8. ParityConsistent'
    <3> SUFFICES ASSUME NEW lb \in LBlock
                 PROVE  StripeParity(sim_disk', Stripe(lb))
      BY DEF ParityConsistent
    <3> DEFINE st == Stripe(lb)
    <3>1. st \in Row
      BY Raid5Layout
    <3>2. raid5_parity_disk(st) \in Disk /\ \A k \in 0 .. 2 : raid5_data_disk(st, k) \in Disk
      BY <3>1, Raid5Disks
    <3> HIDE DEF st
    <3>3. StripeParity(sim_disk', st)
      BY <2>1, <2>2, <3>1, <3>2 DEF StripeParity
    <3> QED BY <3>3 DEF st
  <2> QED
    BY <1>0, <2>2, <2>7, <2>8, Zenon DEF ArrayInv, SurvivesOneFailure
<1>2. ASSUME UNCHANGED <<sim_disk, raid_mode, op, panicked, shadow>>,
             \A d, e \in Disk : disk_failed'[d] /\ disk_failed'[e] => d = e,
             op.kind # "idle" => disk_failed' = disk_failed
      PROVE  QuietInv'
  <2>1. \A s \in Slot, i \in I : Holds(lbOf(s, i), Expected(s, i))'
    BY <1>2 DEF ArrayInv, Holds, Expected, DataDisk, DataRow
  <2>2. ParityConsistent' /\ SurvivesOneFailure'
    BY <1>2 DEF ParityConsistent, SurvivesOneFailure
  <2> QED
    BY <1>0, <1>2, <2>1, <2>2 DEF ArrayInv, Healthy
<1>3. ASSUME NEW d \in Disk, MayFail, raid_fail_disk(d)
      PROVE  QuietInv'
  <2>1. \A e \in Disk : disk_failed'[e] => e = d
    BY <1>3 DEF MayFail, Healthy, raid_fail_disk, TypeOK
  <2> QED
    BY <1>2, <1>3, <2>1 DEF raid_fail_disk, Free
<1>4. ASSUME NEW d \in Disk, raid_restore_disk(d)
      PROVE  QuietInv'
  <2>1. \A e \in Disk : disk_failed'[e] => disk_failed[e]
    BY <1>4 DEF raid_restore_disk, TypeOK
  <2>2. \A e, f \in Disk : disk_failed'[e] /\ disk_failed'[f] => e = f
    BY <2>1 DEF ArrayInv
  <2> QED
    BY <1>2, <1>4, <2>2 DEF raid_restore_disk, Free
<1>5. ASSUME NEW o, Start(o), o.i = 0, o.kind \in {"write", "read", "copyr"},
             o.kind # "read" => Healthy
      PROVE  QuietInv'
  <2>1. UNCHANGED <<sim_disk, disk_failed, raid_mode, panicked, shadow>>
        /\ op' = o /\ op.kind = "idle"
    BY <1>5 DEF Start, Free
  <2>2. \A s \in Slot, i \in I : Expected(s, i)' = Expected(s, i)
    BY <1>5, <2>1 DEF Expected
  <2>3. \A s \in Slot, i \in I : Holds(lbOf(s, i), Expected(s, i))'
    BY <2>1, <2>2 DEF ArrayInv, Holds, DataDisk, DataRow
  <2>4. ParityConsistent' /\ SurvivesOneFailure'
    BY <2>1 DEF ParityConsistent, SurvivesOneFailure
  <2> QED
    BY <1>0, <1>5, <2>1, <2>3, <2>4 DEF ArrayInv, Healthy
<1>6. ASSUME NEW s \in Slot, raid_read(s)
      PROVE  QuietInv'
  BY <1>5, <1>6, Zenon DEF raid_read, Idle
<1>7. ASSUME NEW s \in Slot, NEW p \in Pages, MayWrite, raid_write(s, p)
      PROVE  QuietInv'
  BY <1>5, <1>7, Zenon DEF raid_write, Idle, MayWrite
<1>8. ASSUME NEW s \in Slot, NEW t \in Slot, MayWrite, raid_copy(s, t)
      PROVE  QuietInv'
  BY <1>5, <1>8, Zenon DEF raid_copy, Idle, MayWrite
<1>9. CASE WriteStep
  <2>0. op.t \in Slot /\ op.i \in I /\ op.buf[op.i] \in Bit
    BY LoopBlock DEF TypeOK, Op
  <2>10. PICK t \in Slot, n \in I, b \in Bit : t = op.t /\ n = op.i /\ b = op.buf[op.i]
    BY <2>0
  <2> DEFINE lb == lbOf(t, n)
  <2>1. lb \in LBlock /\ op.s \in Slot
    BY <2>10, LoopBlock DEF TypeOK, Op
  <2>2. /\ op.kind \in {"write", "copyw"}
        /\ sim_disk' = WriteBlock(lb, b)
        /\ op' = IF Last THEN Idle ELSE [op EXCEPT !.i = @ + 1]
        /\ shadow' = IF ~Last THEN shadow
                     ELSE IF op.kind = "write" THEN [shadow EXCEPT ![op.t] = op.buf]
                     ELSE [shadow EXCEPT ![op.t] = shadow[op.s]]
        /\ UNCHANGED <<disk_failed, raid_mode, panicked>>
    BY <1>9, <2>10 DEF WriteStep
  <2>3. Healthy
    BY <2>2 DEF ArrayInv
  <2>4. /\ Holds(lb, b)'
        /\ \A mb \in LBlock, v \in Bit : mb # lb /\ Holds(mb, v) => Holds(mb, v)'
        /\ ParityConsistent'
    <3> HIDE DEF lb
    <3> QED BY <2>1, <2>2, <2>3, WriteBlockCells
  <2>11. /\ op.buf \in [I -> Bit] /\ shadow \in [Slot -> [I -> Bit]] /\ op.i \in I
         /\ op.kind = "copyw" => op.buf = shadow[op.s]
    BY DEF TypeOK, Op, Page, ArrayInv
  <2>5. ASSUME NEW s \in Slot, NEW i \in I
        PROVE  Expected(s, i)' = IF s = t /\ i = n THEN b ELSE Expected(s, i)
    <3>1. n \in 0 .. 3 /\ i \in 0 .. 3
      BY DEF BLOCKS_PER_PAGE
    <3>2. Expected(s, i) = IF s = t /\ i < n THEN op.buf[i] ELSE shadow[s][i]
      BY <2>2, <2>10 DEF Expected
    <3>3. CASE Last
      <4>0. n = 3
        BY <2>10, <3>3 DEF Last, BLOCKS_PER_PAGE
      <4>1. shadow' = [shadow EXCEPT ![t] = op.buf]
        <5>1. CASE op.kind = "write"
          BY <2>2, <2>10, <3>3, <5>1
        <5>2. CASE op.kind = "copyw"
          BY <2>2, <2>10, <2>11, <3>3, <5>2, Zenon
        <5> QED BY <2>2, <5>1, <5>2
      <4>2. Expected(s, i)' = shadow'[s][i]
        BY <2>2, <3>3 DEF Expected, Idle
      <4>3. Expected(s, i)' = IF s = t THEN op.buf[i] ELSE shadow[s][i]
        <5>1. shadow'[s] = IF s = t THEN op.buf ELSE shadow[s]
          BY <2>11, <4>1, Zenon
        <5> QED BY <4>2, <5>1
      <4> QED BY <2>10, <3>1, <3>2, <4>0, <4>3
    <3>4. CASE ~Last
      <4>1. op'.kind = op.kind /\ op'.t = t /\ op'.buf = op.buf /\ op'.i = n + 1
            /\ shadow' = shadow
        BY <2>2, <2>10, <3>4 DEF TypeOK, Op
      <4>2. Expected(s, i)' = IF s = t /\ i < n + 1 THEN op.buf[i] ELSE shadow[s][i]
        BY <2>2, <4>1 DEF Expected
      <4> QED BY <2>10, <3>1, <3>2, <4>2
    <3> QED
      BY <3>3, <3>4
  <2>6. ASSUME NEW s \in Slot, NEW i \in I
        PROVE  Expected(s, i) \in Bit
    <3>1. op.buf[i] \in Bit /\ shadow[s][i] \in Bit
      BY <2>11, Zenon
    <3> QED BY <3>1 DEF Expected
  <2>7. ASSUME NEW s \in Slot, NEW i \in I
        PROVE  Holds(lbOf(s, i), Expected(s, i))'
    <3>1. CASE s = t /\ i = n
      <4>1. Expected(s, i)' = b
        BY <2>5, <3>1
      <4> QED BY <2>4, <3>1, <4>1 DEF Holds
    <3>2. CASE ~(s = t /\ i = n)
      <4>1. lbOf(s, i) \in LBlock /\ Holds(lbOf(s, i), Expected(s, i)) /\ lbOf(s, i) # lb
        BY <3>2, BlockOfSlot, BlockInjective DEF ArrayInv
      <4>2. Expected(s, i)' = Expected(s, i) /\ Expected(s, i) \in Bit
        BY <2>5, <2>6, <3>2
      <4>3. \A v \in Bit : Holds(lbOf(s, i), v) => Holds(lbOf(s, i), v)'
        BY <2>4, <4>1
      <4> QED BY <4>1, <4>2, <4>3 DEF Holds
    <3> QED
      BY <3>1, <3>2
  <2>8. Healthy'
    BY <2>2, <2>3 DEF Healthy
  <2>9. /\ op'.kind \in {"idle", op.kind}
        /\ op'.kind = "copyw" => op'.buf = op.buf /\ op'.s = op.s /\ shadow' = shadow
    BY <2>2 DEF Idle, TypeOK, Op
  <2> QED
    BY <1>0, <2>2, <2>4, <2>7, <2>8, <2>9, Zenon DEF ArrayInv, Healthy, SurvivesOneFailure
<1>10. CASE ReadStep
  <2> DEFINE lb  == lbOf(op.s, op.i)
             x   == ReadBlock(lb)
             buf == [op.buf EXCEPT ![op.i] = x]
  <2>1. lb \in LBlock /\ op.i \in I /\ op.t \in Slot /\ op.s \in Slot
        /\ op.buf \in [I -> Bit] /\ shadow \in [Slot -> [I -> Bit]]
    BY LoopBlock DEF TypeOK, Op, Page
  <2>2. /\ op.kind \in {"read", "copyr"}
        /\ Readable(lb)
        /\ op' = IF ~Last THEN [op EXCEPT !.i = @ + 1, !.buf = buf]
                 ELSE IF op.kind = "read" THEN Idle
                 ELSE [op EXCEPT !.kind = "copyw", !.i = 0, !.buf = buf]
        /\ UNCHANGED <<sim_disk, disk_failed, raid_mode, panicked, shadow>>
    BY <1>10 DEF ReadStep
  <2>3. x = shadow[op.s][op.i]
    <3>1. Expected(op.s, op.i) = shadow[op.s][op.i] /\ shadow[op.s][op.i] \in Bit
      BY <2>1, <2>2, Zenon DEF Expected
    <3>2. Holds(lb, shadow[op.s][op.i])
      BY <2>1, <3>1, Zenon DEF ArrayInv
    <3> HIDE DEF lb
    <3> QED BY <2>1, <2>2, <3>1, <3>2, ReadsBack
  <2>4. \A j \in I : j < op.i + 1 => buf[j] = shadow[op.s][j]
    <3> HIDE DEF x
    <3>1. \A j \in I : j < op.i => op.buf[j] = shadow[op.s][j]
      BY <2>2 DEF ArrayInv
    <3> QED BY <2>1, <2>3, <3>1 DEF BLOCKS_PER_PAGE
  <2>5. Last => buf = shadow[op.s]
    <3> HIDE DEF x
    <3>1. buf \in [I -> Bit] /\ shadow[op.s] \in [I -> Bit]
      BY <2>1, <2>3, Zenon
    <3>2. Last => \A j \in I : buf[j] = shadow[op.s][j]
      BY <2>4 DEF Last, BLOCKS_PER_PAGE
    <3> DEFINE stored == shadow[op.s]
    <3> HIDE DEF buf, stored, I
    <3>3. ASSUME buf \in [I -> Bit], stored \in [I -> Bit], \A j \in I : buf[j] = stored[j]
          PROVE  buf = stored
      BY <3>3
    <3> QED BY <3>1, <3>2, <3>3 DEF stored
  <2> HIDE DEF buf
  <2>6. \/ op'.kind = op.kind /\ op'.i = op.i + 1 /\ op'.buf = buf /\ op'.s = op.s
        \/ op' = Idle
        \/ Last /\ op'.kind = "copyw" /\ op'.i = 0 /\ op'.buf = buf /\ op'.s = op.s
           /\ op.kind = "copyr"
    BY <2>2 DEF TypeOK, Op
  <2>7. \A s \in Slot, i \in I : Expected(s, i)' = shadow[s][i] /\ Expected(s, i) = shadow[s][i]
    BY <2>2, <2>6 DEF Expected, Idle
  <2>8. \A s \in Slot, i \in I : Holds(lbOf(s, i), Expected(s, i))'
    BY <2>2, <2>7 DEF ArrayInv, Holds, DataDisk, DataRow
  <2>9. ParityConsistent' /\ SurvivesOneFailure'
    BY <2>2 DEF ParityConsistent, SurvivesOneFailure
  <2>10. op'.kind \in {"write", "copyr", "copyw"} => Healthy'
    BY <2>2, <2>6 DEF ArrayInv, Healthy, Idle
  <2>11. op'.kind \in {"read", "copyr"} => \A j \in I : j < op'.i => op'.buf[j] = shadow'[op'.s][j]
    BY <2>2, <2>4, <2>6 DEF Idle
  <2>12. op'.kind = "copyw" => op'.buf = shadow'[op'.s]
    BY <2>2, <2>5, <2>6 DEF Idle
  <2>13. \A d, e \in Disk : disk_failed'[d] /\ disk_failed'[e] => d = e
    BY <2>2 DEF ArrayInv
  <2> QED
    BY <1>0, <2>8, <2>9, <2>10, <2>11, <2>12, <2>13, Zenon DEF ArrayInv
<1>11. CASE Panic
  <2>1. UNCHANGED <<sim_disk, disk_failed, raid_mode, op, shadow>>
    BY <1>11 DEF Panic
  <2>2. raid_mode \in {1, 5} => panicked' # "failed"
    <3>1. \A lb \in LBlock : InRange(DataRow(lb))
      BY RowInRange DEF TypeOK
    <3> QED BY <1>11, <3>1, LoopBlock, OneFailureReadable DEF Panic
  <2>3. ArrayInv'
    <3>1. \A s \in Slot, i \in I : Expected(s, i)' = Expected(s, i)
      BY <2>1 DEF Expected
    <3>2. \A s \in Slot, i \in I : Holds(lbOf(s, i), Expected(s, i))'
      BY <2>1, <3>1, Zenon DEF ArrayInv, Holds, DataDisk, DataRow
    <3>3. Healthy' = Healthy
      BY <2>1 DEF Healthy
    <3> QED BY <2>1, <3>2, <3>3 DEF ArrayInv
  <2> QED
    BY <1>0, <2>1, <2>2, <2>3 DEF ParityConsistent, SurvivesOneFailure
<1>12. CASE UNCHANGED vars
  BY <1>2, <1>12 DEF vars, ArrayInv
<1>13. CASE Halted
  BY <1>12, <1>13 DEF Halted
<1> QED
  BY <1>1, <1>3, <1>4, <1>6, <1>7, <1>8, <1>9, <1>10, <1>11, <1>12, <1>13 DEF Next

-----------------------------------------------------------------------------
(* The theorems. *)

\* Used as the kernel may use it without losing data (Env = "quiet"), the array
\* always satisfies the inductive invariant.
THEOREM QuietCorrect == Env = "quiet" => (Spec => []QuietInv)
<1> SUFFICES ASSUME Env = "quiet"
             PROVE  Spec => []QuietInv
  OBVIOUS
<1>1. QuietInv /\ [Next]_vars => QuietInv'
  BY QuietStep
<1> QED
  BY <1>1, QuietInit, PTL DEF Spec

\* Every iteration of raid_write, raid_read and raid_copy finds each block in its place.
THEOREM ArrayCorrect == Env = "quiet" => (Spec => []ArrayInv)
<1>1. QuietInv => ArrayInv
  BY DEF QuietInv
<1> QED
  BY <1>1, QuietCorrect, PTL

\* raid5_write keeps the parity of every stripe.
THEOREM ParityCorrect == Env = "quiet" => (Spec => []ParityConsistent)
<1>1. QuietInv => ParityConsistent
  BY DEF QuietInv
<1> QED
  BY <1>1, QuietCorrect, PTL

\* RAID-1 and RAID-5 never panic on a read while at most one disk is down.
THEOREM FailureTolerant == Env = "quiet" => (Spec => []SurvivesOneFailure)
<1>1. QuietInv => SurvivesOneFailure
  BY SMTT(30) DEF QuietInv
<1> QED
  BY <1>1, QuietCorrect, PTL

\* Each step of the array is a step of the page store or invisible to it: the last
\* iteration of raid_write, raid_copy and raid_read is the atomic Write, Copy and Read.
LEMMA StepRefines ==
    ASSUME QuietInv, [Next]_vars
    PROVE  [Store!Next]_(Store!vars)
<1> USE DEF QuietInv
<1>1. CASE UNCHANGED <<shadow, dst>>
  BY <1>1 DEF Store!vars
<1>2. CASE WriteStep
  <2>1. op.t \in Slot /\ op.s \in Slot /\ op.buf \in Page
    BY DEF TypeOK, Op
  <2>2. CASE ~Last
    BY <1>1, <1>2, <2>2 DEF WriteStep
  <2>3. CASE Last /\ op.kind = "write"
    <3>1. Store!Write(op.t, op.buf)
      BY <1>2, <2>3 DEF WriteStep, Store!Write
    <3> QED BY <2>1, <3>1 DEF Store!Next
  <2>4. CASE Last /\ op.kind = "copyw"
    <3>1. Store!Copy(op.s, op.t)
      BY <1>2, <2>4 DEF WriteStep, Store!Copy
    <3> QED BY <2>1, <3>1 DEF Store!Next
  <2> QED
    BY <1>2, <2>2, <2>3, <2>4 DEF WriteStep
<1>3. CASE ReadStep
  <2> DEFINE lb  == op.s * BLOCKS_PER_PAGE + op.i
             x   == ReadBlock(lb)
             buf == [op.buf EXCEPT ![op.i] = x]
  <2>1. CASE ~(Last /\ op.kind = "read")
    BY <1>1, <1>3, <2>1 DEF ReadStep
  <2>2. CASE Last /\ op.kind = "read"
    <3>1. dst' = buf /\ UNCHANGED shadow /\ Readable(lb)
      BY <1>3, <2>2 DEF ReadStep
    <3>2. lb \in LBlock /\ op.s \in Slot /\ op.i = 3
      BY <2>2, LoopBlock DEF TypeOK, Op, Last, BLOCKS_PER_PAGE
    <3>3. op.buf \in [0 .. 3 -> Bit] /\ shadow[op.s] \in [0 .. 3 -> Bit]
      BY <3>2 DEF TypeOK, Op, Page, BLOCKS_PER_PAGE
    <3>4. Holds(lb, shadow[op.s][3])
      BY <2>2, <3>2 DEF ArrayInv, Expected, BLOCKS_PER_PAGE
    <3>5. x = shadow[op.s][3]
      <4> HIDE DEF lb
      <4> QED BY <3>1, <3>2, <3>3, <3>4, ReadsBack
    <3>6. \A j \in 0 .. 3 : j < 3 => op.buf[j] = shadow[op.s][j]
      BY <2>2, <3>2 DEF ArrayInv, BLOCKS_PER_PAGE
    <3>7. dst' = shadow[op.s]
      <4> DEFINE stored == shadow[op.s]
      <4> HIDE DEF x, stored
      <4>1. buf \in [0 .. 3 -> Bit] /\ \A j \in 0 .. 3 : buf[j] = stored[j]
        BY <3>2, <3>3, <3>5, <3>6 DEF stored
      <4> HIDE DEF buf
      <4>2. buf = stored
        BY <3>3, <4>1 DEF stored
      <4> QED BY <3>1, <4>2 DEF stored
    <3>8. Store!Read(op.s)
      BY <3>1, <3>7 DEF Store!Read
    <3> QED BY <3>2, <3>8 DEF Store!Next
  <2> QED
    BY <2>1, <2>2
<1> QED
  BY <1>1, <1>2, <1>3, Zenon DEF Next, vars, raid_setmode, raid_fail_disk, raid_restore_disk,
     raid_read, raid_write, raid_copy, Start, Panic, Halted

\* The array implements the page store: what raid_read returns, also with a disk
\* down, is the page last stored in the slot by raid_write or raid_copy.
THEOREM StoreCorrect == Env = "quiet" => (Spec => ImplementsPageStore)
<1>1. Init => Store!Init
  BY DEF Init, Store!Init
<1>2. QuietInv /\ [Next]_vars => [Store!Next]_(Store!vars)
  BY StepRefines
<1> QED
  BY <1>1, <1>2, QuietCorrect, PTL DEF Spec, ImplementsPageStore, Store!Spec
=============================================================================
