-------------------------------- MODULE Raid --------------------------------
(***************************************************************************)
(* kernel/raid.c: the simulated RAID array behind the swap slots, in modes *)
(* 0 (striping), 1 (mirroring on disks 0 and 1) and 5 (rotating parity).   *)
(*                                                                         *)
(* A block is one bit: memmove and xor_block treat every bit of the 1024   *)
(* bytes alike, so a block is correct iff each of its bits is.  raid_read, *)
(* raid_write and raid_copy hold raid_lock over their whole loop; one step *)
(* here is one iteration of the loop, op is the operation holding the lock.*)
(***************************************************************************)
EXTENDS Integers

CONSTANTS MAX_SWAP,      \* swap slots (128 in swap.h)
          DISK_BLOCKS,   \* blocks per simulated disk (512 in raid.h)
          Pages,         \* page contents that clients write
          Env            \* how the kernel uses the array:
                         \*  "any": any sequence of raid.h calls;
                         \*  "degraded": the mode is chosen before anything is
                         \*     stored and at most one disk is down at a time;
                         \*  "quiet": moreover nothing is written while one is

NUM_DISKS       == 4
DATA_DISKS      == 3
BLOCKS_PER_PAGE == 4

Disk   == 0 .. NUM_DISKS - 1
Row    == 0 .. DISK_BLOCKS - 1
Slot   == 0 .. MAX_SWAP - 1
LBlock == 0 .. MAX_SWAP * BLOCKS_PER_PAGE - 1
Bit    == {0, 1}
Page   == [0 .. BLOCKS_PER_PAGE - 1 -> Bit]
Mode   == {0, 1, 5}

ZeroPage == [i \in 0 .. BLOCKS_PER_PAGE - 1 |-> 0]

ASSUME SwapFits == /\ MAX_SWAP \in Nat \ {0}
                   /\ DISK_BLOCKS \in Nat
                   /\ MAX_SWAP * BLOCKS_PER_PAGE <= DISK_BLOCKS
                   /\ Pages \subseteq Page
                   /\ Env \in {"any", "degraded", "quiet"}

VARIABLES sim_disk,      \* sim_disk[d][row], the blocks of each disk
          disk_failed,   \* disk_failed[d]
          raid_mode,
          op,            \* the operation that holds raid_lock, and its loop index
          panicked,      \* what panic() was called with, "no" while running
          shadow,        \* history: the page each slot should hold
          dst            \* page handed back by the latest raid_read

vars == <<sim_disk, disk_failed, raid_mode, op, panicked, shadow, dst>>

Idle == [kind |-> "idle", s |-> 0, t |-> 0, i |-> 0, buf |-> ZeroPage]
Op   == [kind : {"idle", "write", "read", "copyr", "copyw"},
         s : Slot, t : Slot, i : 0 .. BLOCKS_PER_PAGE - 1, buf : Page]

TypeOK == /\ sim_disk \in [Disk -> [Row -> Bit]]
          /\ disk_failed \in [Disk -> BOOLEAN]
          /\ raid_mode \in Mode
          /\ op \in Op
          /\ panicked \in {"no", "range", "failed"}
          /\ shadow \in [Slot -> Page]
          /\ dst \in Page

-----------------------------------------------------------------------------
(* Where a logical block lives. *)

Raid0Disk(lb) == lb % NUM_DISKS
Raid0Row(lb)  == lb \div NUM_DISKS

Stripe(lb)  == lb \div DATA_DISKS
DataIdx(lb) == lb % DATA_DISKS

raid5_parity_disk(stripe)  == stripe % NUM_DISKS
raid5_data_disk(stripe, d) == (raid5_parity_disk(stripe) + 1 + d) % NUM_DISKS

\* The disk and, in DataRow, the row that hold lb's data, disk 0 standing for the mirror pair.
DataDisk(lb) == IF raid_mode = 0 THEN Raid0Disk(lb)
                ELSE IF raid_mode = 1 THEN 0
                ELSE raid5_data_disk(Stripe(lb), DataIdx(lb))
\* Mutant: the mirrors start after a header row.
DataRow_Shifted(lb) == IF raid_mode = 0 THEN Raid0Row(lb)
                       ELSE IF raid_mode = 1 THEN lb + 1
                       ELSE Stripe(lb)
DataRow(lb)  == IF raid_mode = 0 THEN Raid0Row(lb)
                ELSE IF raid_mode = 1 THEN lb
                ELSE Stripe(lb)

\* phys_write_block and phys_read_block panic on a row that is out of range.
InRange(row) == row < DISK_BLOCKS

-----------------------------------------------------------------------------
(* phys_write_block: a write to a failed disk is dropped. *)
phys_write_block(D, d, row, b) ==
    IF disk_failed[d] THEN D ELSE [D EXCEPT ![d][row] = b]

Xor(a, b) == (a + b) % 2

\* The block as the parity loop sees it: an unreadable disk contributes nothing.
Contribution(D, d, row) == IF disk_failed[d] THEN 0 ELSE D[d][row]

\* XOR of the data disks of a stripe that can be read.
DataXor(D, stripe) ==
    Xor(Xor(Contribution(D, raid5_data_disk(stripe, 0), stripe),
            Contribution(D, raid5_data_disk(stripe, 1), stripe)),
        Contribution(D, raid5_data_disk(stripe, 2), stripe))

raid0_write(lb, b) == phys_write_block(sim_disk, Raid0Disk(lb), Raid0Row(lb), b)

raid1_write(lb, b) ==
    phys_write_block(phys_write_block(sim_disk, 0, lb, b), 1, lb, b)

\* Mutant: forgets the parity block.
raid5_write_NoParity(lb, b) ==
    phys_write_block(sim_disk, raid5_data_disk(Stripe(lb), DataIdx(lb)), Stripe(lb), b)

raid5_write(lb, b) ==
    LET stripe == Stripe(lb)
        D      == phys_write_block(sim_disk, raid5_data_disk(stripe, DataIdx(lb)), stripe, b)
    IN  phys_write_block(D, raid5_parity_disk(stripe), stripe, DataXor(D, stripe))

WriteBlock(lb, b) == IF raid_mode = 0 THEN raid0_write(lb, b)
                     ELSE IF raid_mode = 1 THEN raid1_write(lb, b)
                     ELSE raid5_write(lb, b)

-----------------------------------------------------------------------------
(* Reading: which reads panic, and what the others return. *)

\* The block's own disk, the other mirror, or all the disks raid5_read rebuilds from.
Readable(lb) ==
    LET d == DataDisk(lb)
    IN  \/ ~disk_failed[d]
        \/ raid_mode = 1 /\ ~disk_failed[1]
        \/ raid_mode = 5 /\ \A e \in Disk \ {d} : ~disk_failed[e]

\* Mutant: rebuilds from the data disks and leaves the parity out.
raid5_read_NoParity(lb) ==
    IF ~disk_failed[DataDisk(lb)] THEN sim_disk[DataDisk(lb)][Stripe(lb)]
    ELSE DataXor(sim_disk, Stripe(lb))

raid5_read(lb) ==
    LET stripe == Stripe(lb)
        d      == DataDisk(lb)
        par    == raid5_parity_disk(stripe)
    IN  IF ~disk_failed[d] THEN sim_disk[d][stripe]
        ELSE Xor(DataXor(sim_disk, stripe), sim_disk[par][stripe])

raid1_read(lb) == IF ~disk_failed[0] THEN sim_disk[0][lb] ELSE sim_disk[1][lb]

raid0_read(lb) == sim_disk[Raid0Disk(lb)][Raid0Row(lb)]

ReadBlock(lb) == IF raid_mode = 0 THEN raid0_read(lb)
                 ELSE IF raid_mode = 1 THEN raid1_read(lb)
                 ELSE raid5_read(lb)

-----------------------------------------------------------------------------
(* raid_init, then the public operations of raid.h. *)

Init == /\ sim_disk = [d \in Disk |-> [r \in Row |-> 0]]
        /\ disk_failed = [d \in Disk |-> FALSE]
        /\ raid_mode = 0
        /\ op = Idle
        /\ panicked = "no"
        /\ shadow = [s \in Slot |-> ZeroPage]
        /\ dst = ZeroPage

\* raid_lock is free and the kernel has not stopped in panic().
Free == op.kind = "idle" /\ panicked = "no"

raid_setmode(m) == /\ Free
                   /\ raid_mode' = m
                   /\ UNCHANGED <<sim_disk, disk_failed, op, panicked, shadow, dst>>

raid_fail_disk(d) == /\ Free
                     /\ disk_failed' = [disk_failed EXCEPT ![d] = TRUE]
                     /\ UNCHANGED <<sim_disk, raid_mode, op, panicked, shadow, dst>>

raid_restore_disk(d) == /\ Free
                        /\ disk_failed' = [disk_failed EXCEPT ![d] = FALSE]
                        /\ UNCHANGED <<sim_disk, raid_mode, op, panicked, shadow, dst>>

\* Acquire raid_lock and enter the loop of raid_write, raid_read or raid_copy.
Start(o) == /\ Free
            /\ op' = o
            /\ UNCHANGED <<sim_disk, disk_failed, raid_mode, panicked, shadow, dst>>

raid_write(s, p) == Start([Idle EXCEPT !.kind = "write", !.s = s, !.t = s, !.buf = p])
raid_read(s)     == Start([Idle EXCEPT !.kind = "read", !.s = s, !.t = s])
raid_copy(s, t)  == Start([Idle EXCEPT !.kind = "copyr", !.s = s, !.t = t])

Last == op.i = BLOCKS_PER_PAGE - 1

\* One iteration of a write loop; the last one releases the lock.
WriteStep ==
    LET lb == op.t * BLOCKS_PER_PAGE + op.i
    IN  /\ panicked = "no"
        /\ op.kind \in {"write", "copyw"}
        /\ InRange(DataRow(lb))
        /\ sim_disk' = WriteBlock(lb, op.buf[op.i])
        /\ op' = IF Last THEN Idle ELSE [op EXCEPT !.i = @ + 1]
        /\ shadow' = IF ~Last THEN shadow
                     ELSE IF op.kind = "write" THEN [shadow EXCEPT ![op.t] = op.buf]
                     ELSE [shadow EXCEPT ![op.t] = shadow[op.s]]
        /\ UNCHANGED <<disk_failed, raid_mode, panicked, dst>>

\* One iteration of a read loop; after the last one raid_read hands the page
\* back and releases the lock, raid_copy enters its write loop.
ReadStep ==
    LET lb  == op.s * BLOCKS_PER_PAGE + op.i
        buf == [op.buf EXCEPT ![op.i] = ReadBlock(lb)]
    IN  /\ panicked = "no"
        /\ op.kind \in {"read", "copyr"}
        /\ InRange(DataRow(lb))
        /\ Readable(lb)
        /\ op' = IF ~Last THEN [op EXCEPT !.i = @ + 1, !.buf = buf]
                 ELSE IF op.kind = "read" THEN Idle
                 ELSE [op EXCEPT !.kind = "copyw", !.i = 0, !.buf = buf]
        /\ dst' = IF Last /\ op.kind = "read" THEN buf ELSE dst
        /\ UNCHANGED <<sim_disk, disk_failed, raid_mode, panicked, shadow>>

\* The panics of the loop bodies.  raid_lock stays held, nothing runs after.
Panic ==
    LET writing == op.kind \in {"write", "copyw"}
        lb == (IF writing THEN op.t ELSE op.s) * BLOCKS_PER_PAGE + op.i
    IN  /\ panicked = "no"
        /\ op.kind # "idle"
        /\ ~InRange(DataRow(lb)) \/ (~writing /\ ~Readable(lb))
        /\ panicked' = IF InRange(DataRow(lb)) THEN "failed" ELSE "range"
        /\ UNCHANGED <<sim_disk, disk_failed, raid_mode, op, shadow, dst>>

\* panic() loops for ever.
Halted == panicked # "no" /\ UNCHANGED vars

-----------------------------------------------------------------------------
Healthy == \A d \in Disk : ~disk_failed[d]
Blank   == sim_disk = [d \in Disk |-> [r \in Row |-> 0]]

\* When the kernel may call the operations, by Env.
MaySetMode == Env = "any" \/ (Blank /\ Healthy)
MayFail    == Env = "any" \/ Healthy
MayWrite   == Env # "quiet" \/ Healthy

Next == \/ \E m \in Mode : MaySetMode /\ raid_setmode(m)
        \/ \E d \in Disk : MayFail /\ raid_fail_disk(d)
        \/ \E d \in Disk : raid_restore_disk(d)
        \/ \E s \in Slot : raid_read(s)
        \/ \E s \in Slot, p \in Pages : MayWrite /\ raid_write(s, p)
        \/ \E s, t \in Slot : s # t /\ MayWrite /\ raid_copy(s, t)
        \/ WriteStep
        \/ ReadStep
        \/ Panic
        \/ Halted

Spec == Init /\ [][Next]_vars

-----------------------------------------------------------------------------
(* Properties. *)

\* No sequence of raid.h calls on swap slots makes phys_read_block or
\* phys_write_block panic with "block out of range", in any mode: RAID-1, which
\* uses the logical block as the row, ends exactly at DISK_BLOCKS.
NoRangePanic == panicked # "range"

StripeParity(D, stripe) ==
    D[raid5_parity_disk(stripe)][stripe] = (D[raid5_data_disk(stripe, 0)][stripe]
                                            + D[raid5_data_disk(stripe, 1)][stripe]
                                            + D[raid5_data_disk(stripe, 2)][stripe]) % 2

\* raid5_write leaves every stripe with parity equal to the XOR of its data
\* blocks, as long as it runs with all disks up.
ParityConsistent == raid_mode = 5 => \A lb \in LBlock : StripeParity(sim_disk, Stripe(lb))

\* In the redundant modes no read panics while at most one disk is down.
SurvivesOneFailure == raid_mode \in {1, 5} => panicked # "failed"

\* The content block i of slot s must have: of the new page up to where a write
\* loop has come, of the stored page from there on.
Expected(s, i) ==
    IF op.kind \in {"write", "copyw"} /\ op.t = s /\ i < op.i THEN op.buf[i] ELSE shadow[s][i]

\* lb holds v, on both mirrors in mode 1.
Holds(lb, v) == /\ sim_disk[DataDisk(lb)][DataRow(lb)] = v
                /\ raid_mode = 1 => sim_disk[1][lb] = v

\* At every iteration of the loops of raid_write, raid_read and raid_copy, in every
\* mode, each block of the array is the one that must be there, at most one disk
\* is down and none during a write, and the page being read or copied agrees with
\* the stored one up to the loop index (Env = "quiet").
ArrayInv ==
    /\ \A s \in Slot, i \in 0 .. BLOCKS_PER_PAGE - 1 :
         Holds(s * BLOCKS_PER_PAGE + i, Expected(s, i))
    /\ \A d, e \in Disk : disk_failed[d] /\ disk_failed[e] => d = e
    /\ op.kind \in {"write", "copyr", "copyw"} => Healthy
    /\ op.kind \in {"read", "copyr"} =>
         \A j \in 0 .. BLOCKS_PER_PAGE - 1 : j < op.i => op.buf[j] = shadow[op.s][j]
    /\ op.kind = "copyw" => op.buf = shadow[op.s]

\* Types, contents, parity and tolerance of one failed disk are inductive together: no
\* step of raid.h breaks one of them when all held before it (Env = "quiet").
QuietInv == TypeOK /\ ArrayInv /\ ParityConsistent /\ SurvivesOneFailure

\* A page that raid_read returns, or that raid_copy duplicates, is the page last
\* written to the slot: the array implements the store of PageStore.
Store == INSTANCE PageStore WITH store <- shadow, Zero <- ZeroPage
ImplementsPageStore == Store!Spec

\* In mode 5 the page written to a slot can be read back while a single disk is
\* down and after it is restored ("RAID-5: reconstruction - data still correct
\* after simulated single-disk failure", user/raidtest.c:13).
Raid5DataCorrect ==
    raid_mode = 5 /\ op.kind = "idle" =>
        \A s \in Slot, i \in 0 .. BLOCKS_PER_PAGE - 1 :
            LET lb == s * BLOCKS_PER_PAGE + i
            IN  Readable(lb) => ReadBlock(lb) = shadow[s][i]
=============================================================================
