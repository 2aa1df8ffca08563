------------------------------- MODULE Paging -------------------------------
(***************************************************************************)
(* Demand paging: kalloc.c (free list, frame table, clock, kalloc_user),    *)
(* swap.c (swap slots) and the part of vm.c, proc.c, exec.c, sysproc.c and  *)
(* trap.c that maps, copies and frees user pages.                           *)
(*                                                                          *)
(* A step is a critical section of the code or the run of instructions      *)
(* between two of them: kalloc_user drops frame_lock between claiming an    *)
(* entry and filling it in, and other CPUs run meanwhile.  NCPU bounds the  *)
(* number of kernel operations under way; NCPU = 1 makes them run one at a  *)
(* time.  Addresses are page numbers and a page holds one value.  The pages *)
(* of the page tables themselves are not counted: where walk() has to       *)
(* allocate one it may find no memory, if WalkFails says so.                *)
(***************************************************************************)
EXTENDS Integers, Sequences, FiniteSets, FiniteSetsExt, SequencesExt

CONSTANTS
    Proc,        \* process slots, small positive integers; process 1 is init
    NCPU,        \* operations that may be under way at once
    NPAGE,       \* pages of a user address space
    NPHYS,       \* physical pages that kalloc() hands out
    MAX_FRAMES,
    MAX_SWAP,
    Val,         \* what a user program may store in a page, positive integers
    IMAGE,       \* pages of the program that exec loads; one page of stack follows
    ReadOnly,    \* pages of that program mapped without PTE_W
    Calls,       \* the operations of this instance
    Room,        \* TRUE: fork and exec only while the table has an entry for each page they map,
                 \* and none is taken while exec waits for the disk
    WalkFails    \* TRUE: kalloc() may have no page left for a page table

Frame == 0 .. MAX_FRAMES - 1
Slot  == 0 .. MAX_SWAP - 1
Page  == 0 .. NPAGE - 1
Phys  == 1 .. NPHYS
Loaded == Max(Val) + 1     \* contents of a page that loadseg filled in
Junk   == -1               \* kfree() and kalloc() fill a page with 1s and 5s

ASSUME PagingAssumption ==
    /\ Proc \subseteq Nat \ {0} /\ 1 \in Proc /\ IsFiniteSet(Proc)
    /\ {NCPU, NPAGE, NPHYS, MAX_FRAMES, MAX_SWAP} \subseteq Nat \ {0}
    /\ Val \subseteq Nat \ {0} /\ IsFiniteSet(Val) /\ Val # {}
    /\ IMAGE \in 1 .. NPAGE - 1 /\ ReadOnly \subseteq Nat
    /\ Room \in BOOLEAN /\ WalkFails \in BOOLEAN

VARIABLES
    frame_table, clock_hand,
    freelist,        \* physical pages, last freed first
    mem,             \* contents of each physical page
    swap_space,      \* used and proc of each slot
    swapped,         \* the page the swap device holds for each slot (raid.c)
    pagetable,       \* of each process
    newtable,        \* the table kexec builds, then the one it throws away
    sz, state,
    loc,             \* where each process is in the kernel, and its locals
    content,         \* ghost: what the program last stored in each page
    panicked

memory == <<freelist, mem>>
frames == <<frame_table, clock_hand>>
swap   == <<swap_space, swapped>>
procs  == <<pagetable, newtable, sz, state>>
vars   == <<frames, memory, swap, procs, loc, content, panicked>>

\* A page table entry: k tells PTE_V from PTE_SWAPPED, n is the physical page or the swap
\* slot, w the permission to write.
NoPte         == [k |-> "none", n |-> 0, w |-> FALSE]
Valid(pa, w)  == [k |-> "V", n |-> pa, w |-> w]
Swapped(s, w) == [k |-> "swapped", n |-> s, w |-> w]
NoTable    == [a \in Page |-> NoPte]
NoFrame    == [used |-> FALSE, proc |-> 0, va |-> 0, pa |-> 0, ref_bit |-> FALSE]
NoSlot     == [used |-> FALSE, proc |-> 0]

\* op: the system call or trap; pc: its next step; va, end: page reached and end of the
\* loop; tab: whose table it works on; idx, vp, vva, vpa, slot, pa: locals of kalloc_user,
\* vmfault and uvmcopy; page: the page kalloc_user returned, 0 for failure.
Idle == [op |-> "none", pc |-> "user", va |-> 0, end |-> 0, tab |-> <<"pt", 0>>, idx |-> 0,
         vp |-> 0, vva |-> 0, vpa |-> 0, slot |-> 0, pa |-> 0, page |-> 0]

Op == {"none", "fault", "store_ro", "sbrk", "sbrkfail", "shrink", "fork", "forkfail", "exec", "execfree",
       "free"}
Pc == {"user", "claim", "alloc", "setpa", "swap_alloc", "swap_write", "evict_pte", "evict_free",
       "back", "map", "copy", "load", "stack", "unmap", "unmap_free"}

Pte == {NoPte} \cup [k : {"V"}, n : Phys, w : BOOLEAN] \cup [k : {"swapped"}, n : Slot, w : BOOLEAN]

TypeOK ==
    /\ frame_table \in [Frame -> [used : BOOLEAN, proc : Proc \cup {0}, va : Page,
                                  pa : Phys \cup {0}, ref_bit : BOOLEAN]]
    /\ clock_hand \in Frame
    /\ freelist \in Seq(Phys)
    /\ mem \in [Phys -> Val \cup {0, Loaded, Junk}]
    /\ swap_space \in [Slot -> [used : BOOLEAN, proc : Proc \cup {0}]]
    /\ swapped \in [Slot -> Val \cup {0, Loaded, Junk}]
    /\ pagetable \in [Proc -> [Page -> Pte]] /\ newtable \in [Proc -> [Page -> Pte]]
    /\ sz \in [Proc -> 0 .. NPAGE]
    /\ state \in [Proc -> {"UNUSED", "USED", "RUN", "ZOMBIE"}]
    /\ loc \in [Proc -> [op : Op, pc : Pc, va : 0 .. NPAGE, end : 0 .. NPAGE,
                         tab : {"pt", "new"} \X (Proc \cup {0}), idx : Frame,
                         vp : Proc \cup {0}, vva : Page, vpa : Phys \cup {0}, slot : Slot,
                         pa : Phys \cup {0}, page : Phys \cup {0}]]
    /\ content \in [Proc -> [Page -> Val \cup {0, Loaded}]]
    /\ panicked \in BOOLEAN

\* kinit, swap_init, userinit: init runs with an empty address space.
Init ==
    /\ frame_table = [i \in Frame |-> NoFrame] /\ clock_hand = 0
    /\ freelist = [i \in 1 .. NPHYS |-> NPHYS + 1 - i]
    /\ mem = [a \in Phys |-> Junk]
    /\ swap_space = [s \in Slot |-> NoSlot] /\ swapped = [s \in Slot |-> Junk]
    /\ pagetable = [p \in Proc |-> NoTable] /\ newtable = [p \in Proc |-> NoTable]
    /\ sz = [p \in Proc |-> 0]
    /\ state = [p \in Proc |-> IF p = 1 THEN "RUN" ELSE "UNUSED"]
    /\ loc = [p \in Proc |-> Idle]
    /\ content = [p \in Proc |-> [a \in Page |-> 0]]
    /\ panicked = FALSE

\* The processes that hold a CPU in the kernel.  loadseg waits for the disk and holds none: with
\* Room the others wait too.
Busy == {p \in Proc : loc[p].pc # "user" /\ (loc[p].pc = "load" => Room)}

\* The bound on what a page freed twice leads to: no call is made any more.
Overfreed == Len(freelist) > NPHYS

\* Process p, running user code, may enter the kernel for operation op.
Enter(p, op) == /\ ~panicked /\ ~Overfreed /\ op \in Calls
                /\ state[p] = "RUN" /\ loc[p] = Idle
                /\ Cardinality(Busy) < NCPU

At(p, pc)   == ~panicked /\ loc[p].pc = pc
Goto(p, pc) == loc' = [loc EXCEPT ![p].pc = pc]

-----------------------------------------------------------------------------
(* kalloc.c                                                                  *)

\* One turn of a loop of clock_pick_victim on c, a table, a hand and a victim, -1 while there is
\* none: the entry under the hand, if its process is in whose, loses its ref_bit or is the victim.
Look(c, whose) ==
    LET f  == c.table[c.hand]
        on == [c EXCEPT !.hand = (c.hand + 1) % MAX_FRAMES]
    IN  IF c.victim # -1 THEN c
        ELSE IF ~f.used \/ f.proc \notin whose THEN on
        ELSE IF f.ref_bit THEN [on EXCEPT !.table[c.hand].ref_bit = FALSE]
        ELSE [on EXCEPT !.victim = c.hand]

\* A loop: 2 * MAX_FRAMES turns.
Sweep(c, whose) ==
    LET after[n \in 0 .. 2 * MAX_FRAMES] ==
            IF n = 0 THEN c ELSE CHOOSE d \in {Look(b, whose) : b \in {after[n - 1]}} : TRUE
    IN  after[2 * MAX_FRAMES]

Clock == [table |-> frame_table, hand |-> clock_hand, victim |-> -1]

\* The table, the hand and the victim after the three loops; victim -1 is the panic.
clock_pick_victim(curr) ==
    LET own  == Sweep(Clock, {curr})
        any  == IF own.victim = -1 THEN Sweep(own, Proc) ELSE own
        left == {i \in Frame : any.table[i].used /\ any.table[i].proc # 0}
    IN  IF any.victim # -1 \/ left = {} THEN any ELSE [any EXCEPT !.victim = Min(left)]

\* The process kalloc_user allocates for: the child in uvmcopy, else the caller.
ForWhom(p) == IF loc[p].op = "fork" THEN loc[p].tab[2] ELSE p

\* kalloc_user up to its first release of frame_lock: take the first unused entry, whose pa
\* keeps its old value, or take over the victim's.
kalloc_user(p) ==
    /\ At(p, "claim")
    /\ LET unused == {i \in Frame : ~frame_table[i].used}
           claim(f, pa) == [used |-> TRUE, proc |-> ForWhom(p), va |-> loc[p].va, pa |-> pa,
                            ref_bit |-> TRUE]
       IN  IF unused # {}
           THEN LET i == Min(unused)
                IN  /\ frame_table' = [frame_table EXCEPT ![i] = claim(@, @.pa)]
                    /\ loc' = [loc EXCEPT ![p].pc = "alloc", ![p].idx = i]
                    /\ UNCHANGED <<clock_hand, panicked>>
           ELSE LET c == clock_pick_victim(ForWhom(p))
                    v == c.victim
                IN  IF v = -1
                    THEN panicked' = TRUE /\ UNCHANGED <<frames, loc>>
                    ELSE /\ frame_table' = [c.table EXCEPT ![v] = claim(@, 0)]
                         /\ clock_hand' = c.hand
                         /\ loc' = [loc EXCEPT ![p].pc = "swap_alloc", ![p].idx = v,
                                       ![p].vp = frame_table[v].proc, ![p].vva = frame_table[v].va,
                                       ![p].vpa = frame_table[v].pa]
                         /\ UNCHANGED panicked
    /\ UNCHANGED <<memory, swap, procs, content>>

\* A failure in kalloc_user gives the entry up, its pa and va as they are, and returns 0.
GiveUp(p) ==
    /\ frame_table' = [frame_table EXCEPT ![loc[p].idx].used = FALSE, ![loc[p].idx].proc = 0]
    /\ loc' = [loc EXCEPT ![p].pc = "back", ![p].page = 0]

\* kalloc(), its result filled with junk.
kalloc(p) ==
    /\ At(p, "alloc")
    /\ IF freelist = <<>>
       THEN GiveUp(p) /\ UNCHANGED memory
       ELSE /\ freelist' = Tail(freelist)
            /\ mem' = [mem EXCEPT ![Head(freelist)] = Junk]
            /\ loc' = [loc EXCEPT ![p].pc = "setpa", ![p].page = Head(freelist)]
            /\ UNCHANGED frame_table
    /\ UNCHANGED <<clock_hand, swap, procs, content, panicked>>

\* Mutant: the entry is never filled in.
set_pa_Missing(p) ==
    /\ At(p, "setpa")
    /\ Goto(p, "back")
    /\ UNCHANGED <<frames, memory, swap, procs, content, panicked>>

\* The last critical section of kalloc_user.
set_pa(p) ==
    /\ At(p, "setpa")
    /\ frame_table' = [frame_table EXCEPT ![loc[p].idx].pa = loc[p].page]
    /\ Goto(p, "back")
    /\ UNCHANGED <<clock_hand, memory, swap, procs, content, panicked>>

FreeSlots == {s \in Slot : ~swap_space[s].used}

swap_alloc(p) ==
    /\ At(p, "swap_alloc")
    /\ IF FreeSlots = {}
       THEN GiveUp(p) /\ UNCHANGED swap_space
       ELSE LET s == Min(FreeSlots)
            IN  /\ swap_space' = [swap_space EXCEPT ![s].used = TRUE]
                /\ loc' = [loc EXCEPT ![p].pc = "swap_write", ![p].slot = s]
                /\ UNCHANGED frame_table
    /\ UNCHANGED <<clock_hand, memory, swapped, procs, content, panicked>>

\* swap_write: record the victim and write its page.  Physical address 0, the pa of an entry
\* that another CPU has not filled in yet, is not mapped: the kernel traps and panics.
swap_write(p) ==
    /\ At(p, "swap_write")
    /\ IF loc[p].vpa = 0
       THEN panicked' = TRUE /\ UNCHANGED <<swap, loc>>
       ELSE /\ swap_space' = [swap_space EXCEPT ![loc[p].slot].proc = loc[p].vp]
            /\ swapped' = [swapped EXCEPT ![loc[p].slot] = mem[loc[p].vpa]]
            /\ Goto(p, "evict_pte")
            /\ UNCHANGED panicked
    /\ UNCHANGED <<frames, memory, procs, content>>

\* Mutant: the page table keeps the evicted page mapped.
evict_pte_Unmarked(p) ==
    /\ At(p, "evict_pte")
    /\ Goto(p, "evict_free")
    /\ UNCHANGED <<frames, memory, swap, pagetable, newtable, sz, state, content, panicked>>

\* Mark the page swapped out in the table the victim uses now, if it is mapped there.
evict_pte(p) ==
    /\ At(p, "evict_pte")
    /\ LET vp == loc[p].vp  va == loc[p].vva
       IN  pagetable' = IF pagetable[vp][va].k = "V"
                        THEN [pagetable EXCEPT ![vp][va] = Swapped(loc[p].slot, @.w)]
                        ELSE pagetable
    /\ Goto(p, "evict_free")
    /\ UNCHANGED <<frames, memory, swap, newtable, sz, state, content, panicked>>

kfree(pa) == /\ freelist' = <<pa>> \o freelist
             /\ mem' = [mem EXCEPT ![pa] = Junk]

evict_free(p) ==
    /\ At(p, "evict_free")
    /\ kfree(loc[p].vpa)
    /\ Goto(p, "alloc")
    /\ UNCHANGED <<frames, swap, procs, content, panicked>>

-----------------------------------------------------------------------------
(* Page faults: usertrap and vmfault                                         *)

\* A store by the user program to a page it may write.
store(p, a, v) ==
    /\ Enter(p, "store")
    /\ pagetable[p][a].k = "V" /\ pagetable[p][a].w
    /\ mem' = [mem EXCEPT ![pagetable[p][a].n] = v]
    /\ content' = [content EXCEPT ![p][a] = v]
    /\ UNCHANGED <<frames, freelist, swap, procs, loc, panicked>>

\* usertrap kills a process whose fault vmfault did not serve: it exits on the way out, and
\* kexit panics for init.
Kill(p) == /\ state' = [state EXCEPT ![p] = IF p = 1 THEN @ ELSE "ZOMBIE"]
           /\ panicked' = (p = 1)
           /\ loc' = [loc EXCEPT ![p] = Idle]

\* walk(), told to allocate, may fail on the way to an entry that was never set.
NoWalk(pte) == WalkFails /\ pte.k = "none"

\* A page fault on a page that is swapped out or was never touched, up to vmfault's call of
\* kalloc_user.  init does not leave its memory.
page_fault(p, a) ==
    /\ Enter(p, "fault") /\ pagetable[p][a].k # "V"
    /\ \/ /\ (a >= sz[p] /\ p # 1) \/ (a < sz[p] /\ NoWalk(pagetable[p][a]))
          /\ Kill(p)
       \/ /\ a < sz[p]
          /\ loc' = [loc EXCEPT ![p].op = "fault", ![p].pc = "claim", ![p].va = a]
          /\ UNCHANGED <<state, panicked>>
    /\ UNCHANGED <<frames, memory, swap, pagetable, newtable, sz, content>>

\* A store the page's permissions forbid, not by init.  The program retries it after every trap.
store_ro(p, a) ==
    /\ Enter(p, "store_ro") /\ p # 1
    /\ a < sz[p] /\ pagetable[p][a].k # "none" /\ ~pagetable[p][a].w
    /\ loc' = [loc EXCEPT ![p].op = "store_ro", ![p].va = a]
    /\ UNCHANGED <<frames, memory, swap, procs, content, panicked>>

\* Its trap: vmfault brings the page in when it is absent; when the page is mapped it sets
\* ref_bit and returns its address, whatever the permissions, and usertrap goes back to the store.
trap_ro(p) ==
    /\ ~panicked /\ loc[p].op = "store_ro" /\ loc[p].pc = "user"
    /\ Cardinality(Busy) < NCPU
    /\ LET a == loc[p].va
           F == {i \in Frame : frame_table[i].used /\ frame_table[i].proc = p /\ frame_table[i].va = a}
       IN  IF pagetable[p][a].k = "V"
           THEN /\ frame_table' = IF F = {} THEN frame_table
                                  ELSE [frame_table EXCEPT ![Min(F)].ref_bit = TRUE]
                /\ UNCHANGED loc
           ELSE Goto(p, "claim") /\ UNCHANGED frame_table
    /\ UNCHANGED <<clock_hand, memory, swap, procs, content, panicked>>

\* vmfault after kalloc_user: no page kills the process; a swapped page is read back; a new
\* page is zeroed and mapped.
UserFault(p) == loc[p].op \in {"fault", "store_ro"}

Resume(p) == loc' = [loc EXCEPT ![p] = IF @.op = "fault" THEN Idle
                                       ELSE [Idle EXCEPT !.op = "store_ro", !.va = loc[p].va]]

vmfault_page(p) ==
    /\ At(p, "back") /\ UserFault(p)
    /\ LET a == loc[p].va  pa == loc[p].page  pte == pagetable[p][a]
       IN  IF pa = 0
           THEN Kill(p) /\ UNCHANGED <<mem, pagetable>>
           ELSE IF pte.k = "swapped"
           THEN /\ mem' = [mem EXCEPT ![pa] = swapped[pte.n]]
                /\ Goto(p, "map")
                /\ UNCHANGED <<pagetable, state, panicked>>
           ELSE /\ mem' = [mem EXCEPT ![pa] = 0]
                /\ pagetable' = [pagetable EXCEPT ![p][a] = Valid(pa, TRUE)]
                /\ Resume(p)
                /\ UNCHANGED <<state, panicked>>
    /\ UNCHANGED <<frames, freelist, swap, newtable, sz, content>>

\* A free slot is never read again: its contents are forgotten.
swap_free(s) == /\ swap_space' = [swap_space EXCEPT ![s] = NoSlot]
                /\ swapped' = [swapped EXCEPT ![s] = Junk]

\* The end of a swap-in: swap_free, then the entry of the page table.
vmfault_map(p) ==
    /\ At(p, "map")
    /\ LET a == loc[p].va
       IN  /\ swap_free(pagetable[p][a].n)
           /\ pagetable' = [pagetable EXCEPT ![p][a] = Valid(loc[p].page, @.w)]
    /\ Resume(p)
    /\ UNCHANGED <<frames, memory, newtable, sz, state, content, panicked>>

-----------------------------------------------------------------------------
(* Growing and shrinking: sys_sbrk, growproc, uvmalloc, uvmdealloc           *)

sbrk_lazy(p) ==
    /\ Enter(p, "sbrk_lazy") /\ sz[p] < NPAGE
    /\ sz' = [sz EXCEPT ![p] = @ + 1]
    /\ UNCHANGED <<frames, memory, swap, pagetable, newtable, state, loc, content,
                   panicked>>

\* growproc by one page or more.
sbrk(p, newsz) ==
    /\ Enter(p, "sbrk") /\ newsz > sz[p]
    /\ loc' = [loc EXCEPT ![p].op = "sbrk", ![p].pc = "claim", ![p].va = sz[p], ![p].end = newsz]
    /\ UNCHANGED <<frames, memory, swap, procs, content, panicked>>

\* uvmalloc after kalloc_user: zero the page and map it.  When there is no page, or none for the
\* page table, uvmdealloc takes the pages before it back; the entry of a page freed because it
\* could not be mapped stays in the frame table.
uvmalloc(p) ==
    /\ At(p, "back") /\ loc[p].op = "sbrk"
    /\ LET a == loc[p].va  pa == loc[p].page
           failed == loc' = [loc EXCEPT ![p] = [Idle EXCEPT !.op = "sbrkfail", !.pc = "unmap", !.va = sz[p],
                                                            !.end = a, !.tab = <<"pt", p>>]]
       IN  \/ /\ pa = 0
              /\ failed /\ UNCHANGED <<memory, pagetable, sz, panicked>>
           \/ /\ pa # 0 /\ NoWalk(pagetable[p][a])
              /\ kfree(pa) /\ failed /\ UNCHANGED <<pagetable, sz, panicked>>
           \/ /\ pa # 0 /\ pagetable[p][a].k = "V"
              /\ panicked' = TRUE /\ UNCHANGED <<loc, memory, pagetable, sz>>     \* mappages: remap
           \/ /\ pa # 0 /\ pagetable[p][a].k # "V"
              /\ mem' = [mem EXCEPT ![pa] = 0]
              /\ pagetable' = [pagetable EXCEPT ![p][a] = Valid(pa, TRUE)]
              /\ IF a + 1 < loc[p].end
                 THEN /\ loc' = [loc EXCEPT ![p] = [Idle EXCEPT !.op = "sbrk", !.pc = "claim", !.va = a + 1,
                                                                !.end = loc[p].end]]
                      /\ UNCHANGED sz
                 ELSE /\ loc' = [loc EXCEPT ![p] = Idle]
                      /\ sz' = [sz EXCEPT ![p] = a + 1]
              /\ UNCHANGED <<freelist, panicked>>
    /\ UNCHANGED <<frames, swap, newtable, state, content>>

\* uvmdealloc of the last page, up to its call of uvmunmap.
sbrk_shrink(p) ==
    /\ Enter(p, "shrink") /\ sz[p] > 0
    /\ loc' = [loc EXCEPT ![p].op = "shrink", ![p].pc = "unmap", ![p].va = sz[p] - 1,
                          ![p].end = sz[p], ![p].tab = <<"pt", p>>]
    /\ UNCHANGED <<frames, memory, swap, pagetable, newtable, sz, state, content, panicked>>

-----------------------------------------------------------------------------
(* uvmunmap and what follows it                                              *)

PteAt(p) == IF loc[p].tab[1] = "pt" THEN pagetable[loc[p].tab[2]][loc[p].va]
            ELSE newtable[loc[p].tab[2]][loc[p].va]

SetPte(p, e) ==
    IF loc[p].tab[1] = "pt"
    THEN pagetable' = [pagetable EXCEPT ![loc[p].tab[2]][loc[p].va] = e] /\ UNCHANGED newtable
    ELSE newtable' = [newtable EXCEPT ![loc[p].tab[2]][loc[p].va] = e] /\ UNCHANGED pagetable

\* Mutant: continue without going to the next page.
uvmunmap_Stuck(p) ==
    /\ At(p, "unmap") /\ loc[p].va < loc[p].end
    /\ IF PteAt(p).k = "V"
       THEN /\ loc' = [loc EXCEPT ![p].pc = "unmap_free", ![p].pa = PteAt(p).n]
            /\ UNCHANGED <<swap, pagetable, newtable>>
       ELSE /\ IF PteAt(p).k = "swapped" THEN swap_free(PteAt(p).n) ELSE UNCHANGED swap
            /\ SetPte(p, NoPte)
            /\ UNCHANGED loc
    /\ UNCHANGED <<frames, memory, sz, state, content, panicked>>

\* One turn of uvmunmap's loop, up to the read of the entry when the page is mapped.
uvmunmap(p) ==
    /\ At(p, "unmap") /\ loc[p].va < loc[p].end
    /\ IF PteAt(p).k = "V"
       THEN /\ loc' = [loc EXCEPT ![p].pc = "unmap_free", ![p].pa = PteAt(p).n]
            /\ UNCHANGED <<swap, pagetable, newtable>>
       ELSE /\ IF PteAt(p).k = "swapped" THEN swap_free(PteAt(p).n) ELSE UNCHANGED swap
            /\ SetPte(p, NoPte)
            /\ loc' = [loc EXCEPT ![p].va = @ + 1]
    /\ UNCHANGED <<frames, memory, sz, state, content, panicked>>

\* The rest of that turn: drop the first entry of the frame table with this pa, free the page
\* and clear the entry of the page table.
uvmunmap_free(p) ==
    /\ At(p, "unmap_free")
    /\ LET F == {i \in Frame : frame_table[i].used /\ frame_table[i].pa = loc[p].pa}
       IN  frame_table' = IF F = {} THEN frame_table
                          ELSE [frame_table EXCEPT ![Min(F)] = [@ EXCEPT !.used = FALSE, !.proc = 0, !.va = 0, !.pa = 0]]
    /\ kfree(loc[p].pa)
    /\ SetPte(p, NoPte)
    /\ loc' = [loc EXCEPT ![p].pc = "unmap", ![p].va = @ + 1, ![p].pa = 0]
    /\ UNCHANGED <<clock_hand, swap, sz, state, content, panicked>>

\* freeproc after proc_freepagetable: drop whatever the two tables still hold for c.
freeproc(c) ==
    /\ frame_table' = [i \in Frame |-> IF frame_table[i].proc = c
                         THEN [frame_table[i] EXCEPT !.used = FALSE, !.proc = 0]
                         ELSE frame_table[i]]
    /\ swap_space' = [s \in Slot |-> IF swap_space[s].proc = c THEN NoSlot ELSE swap_space[s]]
    /\ pagetable' = [pagetable EXCEPT ![c] = NoTable]
    /\ sz' = [sz EXCEPT ![c] = 0]
    /\ state' = [state EXCEPT ![c] = "UNUSED"]
    /\ content' = [content EXCEPT ![c] = [a \in Page |-> 0]]
    /\ UNCHANGED newtable

\* freewalk panics on a leaf that is still mapped; sbrk does not call it.
uvmunmap_done(p) ==
    /\ At(p, "unmap") /\ loc[p].va = loc[p].end
    /\ LET q == loc[p].tab[2]
           tab == IF loc[p].tab[1] = "pt" THEN pagetable[q] ELSE newtable[q]
       IN  IF loc[p].op = "sbrkfail"
           THEN UNCHANGED <<frame_table, swap_space, pagetable, newtable, sz, state, content, panicked>>
           ELSE IF loc[p].op = "shrink"
           THEN /\ sz' = [sz EXCEPT ![p] = @ - 1]
                /\ content' = [content EXCEPT ![p][sz[p] - 1] = 0]
                /\ UNCHANGED <<frame_table, swap_space, pagetable, newtable, state, panicked>>
           ELSE IF \E a \in Page : tab[a].k = "V"
           THEN /\ panicked' = TRUE
                /\ UNCHANGED <<frame_table, swap_space, pagetable, newtable, sz, state, content>>
           ELSE IF loc[p].op = "execfree"
           THEN /\ newtable' = [newtable EXCEPT ![q] = NoTable]
                /\ UNCHANGED <<frame_table, swap_space, pagetable, sz, state, content, panicked>>
           ELSE freeproc(q) /\ UNCHANGED panicked
    /\ loc' = [loc EXCEPT ![p] = Idle]
    /\ UNCHANGED <<clock_hand, memory, swapped>>

-----------------------------------------------------------------------------
(* kfork and uvmcopy                                                         *)

Unused   == Cardinality({i \in Frame : ~frame_table[i].used})
Mapped(p) == {a \in Page : pagetable[p][a].k = "V"}

kfork(p, c) ==
    /\ Enter(p, "fork") /\ state[c] = "UNUSED"
    /\ Room => Cardinality(Mapped(p)) <= Unused
    /\ state' = [state EXCEPT ![c] = "USED"]
    /\ loc' = [loc EXCEPT ![p].op = "fork", ![p].pc = "copy", ![p].end = sz[p], ![p].tab = <<"pt", c>>]
    /\ UNCHANGED <<frames, memory, swap, pagetable, newtable, sz, content, panicked>>

\* uvmcopy's error path unmaps the pages below the one that failed; kfork then frees the child.
CopyFailed(p) ==
    loc' = [loc EXCEPT ![p] = [Idle EXCEPT !.op = "forkfail", !.pc = "unmap", !.end = loc[p].va,
                                           !.tab = loc[p].tab]]

\* Mutant: the child gets the parent's swap slot.
uvmcopy_Shared(p) ==
    /\ At(p, "copy") /\ loc[p].va < loc[p].end
    /\ LET a == loc[p].va  c == loc[p].tab[2]  pte == pagetable[p][a]
       IN  IF pte.k = "V"
           THEN /\ loc' = [loc EXCEPT ![p].pc = "claim", ![p].pa = pte.n]
                /\ UNCHANGED pagetable
           ELSE /\ loc' = [loc EXCEPT ![p].va = a + 1]
                /\ pagetable' = [pagetable EXCEPT ![c][a] = pte]
    /\ UNCHANGED <<frames, memory, swap, newtable, sz, state, content, panicked>>

\* One turn of uvmcopy's loop, up to its call of kalloc_user when the page is mapped: the
\* physical page to copy from is read now.
uvmcopy(p) ==
    /\ At(p, "copy") /\ loc[p].va < loc[p].end
    /\ LET a == loc[p].va  c == loc[p].tab[2]  pte == pagetable[p][a]
       IN  IF pte.k = "V"
           THEN /\ loc' = [loc EXCEPT ![p].pc = "claim", ![p].pa = pte.n]
                /\ UNCHANGED <<swap, pagetable>>
           ELSE IF pte.k = "none"
           THEN loc' = [loc EXCEPT ![p].va = a + 1] /\ UNCHANGED <<swap, pagetable>>
           ELSE IF FreeSlots = {}
           THEN CopyFailed(p) /\ UNCHANGED <<swap, pagetable>>
           ELSE LET s == Min(FreeSlots)
                IN  /\ swap_space' = [swap_space EXCEPT ![s] = [used |-> TRUE, proc |-> 0]]
                    /\ swapped' = [swapped EXCEPT ![s] = swapped[pte.n]]      \* raid_copy
                    /\ \/ /\ NoWalk(pagetable[c][a])
                          /\ CopyFailed(p) /\ UNCHANGED pagetable
                       \/ /\ pagetable' = [pagetable EXCEPT ![c][a] = Swapped(s, pte.w)]
                          /\ loc' = [loc EXCEPT ![p].va = a + 1]
    /\ UNCHANGED <<frames, memory, newtable, sz, state, content, panicked>>

\* The rest of that turn: memmove from the address read before, mappages.  The child may have
\* been given that very page.
uvmcopy_page(p) ==
    /\ At(p, "back") /\ loc[p].op = "fork"
    /\ LET a == loc[p].va  c == loc[p].tab[2]  pa == loc[p].page
       IN  \/ pa = 0 /\ CopyFailed(p) /\ UNCHANGED <<memory, pagetable>>
           \/ /\ pa # 0 /\ NoWalk(pagetable[c][a])
              /\ kfree(pa) /\ CopyFailed(p) /\ UNCHANGED pagetable
           \/ /\ pa # 0
              /\ mem' = [mem EXCEPT ![pa] = mem[loc[p].pa]]
              /\ pagetable' = [pagetable EXCEPT ![c][a] = Valid(pa, pagetable[p][a].w)]
              /\ loc' = [loc EXCEPT ![p] = [Idle EXCEPT !.op = "fork", !.pc = "copy", !.va = a + 1,
                                               !.end = loc[p].end, !.tab = loc[p].tab]]
              /\ UNCHANGED freelist
    /\ UNCHANGED <<frames, swap, newtable, sz, state, content, panicked>>

kfork_done(p) ==
    /\ At(p, "copy") /\ loc[p].va = loc[p].end
    /\ LET c == loc[p].tab[2]
       IN  /\ sz' = [sz EXCEPT ![c] = sz[p]]
           /\ state' = [state EXCEPT ![c] = "RUN"]
           /\ content' = [content EXCEPT ![c] = content[p]]
    /\ loc' = [loc EXCEPT ![p] = Idle]
    /\ UNCHANGED <<frames, memory, swap, pagetable, newtable, panicked>>

-----------------------------------------------------------------------------
(* kexec: one segment of IMAGE pages, then one page of stack                 *)

kexec(p) ==
    /\ Enter(p, "exec")
    /\ Room => IMAGE + 1 <= Unused
    /\ loc' = [loc EXCEPT ![p].op = "exec", ![p].pc = "claim", ![p].tab = <<"new", p>>]
    /\ UNCHANGED <<frames, memory, swap, procs, content, panicked>>

\* uvmalloc on the new table: zero and map the page; on failure uvmdealloc and kexec free
\* the new table.
kexec_alloc(p) ==
    /\ At(p, "back") /\ loc[p].op = "exec"
    /\ LET a == loc[p].va  pa == loc[p].page
           failed == loc' = [loc EXCEPT ![p] = [Idle EXCEPT !.op = "execfree", !.pc = "unmap",
                                                            !.end = a, !.tab = <<"new", p>>]]
       IN  \/ pa = 0 /\ failed /\ UNCHANGED <<memory, newtable>>
           \/ /\ pa # 0 /\ NoWalk(newtable[p][a])
              /\ kfree(pa) /\ failed /\ UNCHANGED newtable
           \/ /\ pa # 0
              /\ mem' = [mem EXCEPT ![pa] = 0]
              /\ newtable' = [newtable EXCEPT ![p][a] = Valid(pa, a \notin ReadOnly)]
              /\ loc' = [loc EXCEPT ![p] =
                            [Idle EXCEPT !.op = "exec", !.tab = <<"new", p>>,
                                 !.va = IF a = IMAGE - 1 THEN 0 ELSE IF a = IMAGE THEN a ELSE a + 1,
                                 !.pc = IF a = IMAGE - 1 THEN "load"
                                        ELSE IF a = IMAGE THEN "stack" ELSE "claim"]]
              /\ UNCHANGED freelist
    /\ UNCHANGED <<frames, swap, pagetable, sz, state, content, panicked>>

\* loadseg reads a page of the program from the file system.
loadseg(p) ==
    /\ At(p, "load") /\ Cardinality(Busy \ {p}) < NCPU
    /\ LET a == loc[p].va
       IN  /\ mem' = [mem EXCEPT ![newtable[p][a].n] = Loaded]
           /\ loc' = [loc EXCEPT ![p].va = a + 1, ![p].pc = IF a + 1 = IMAGE THEN "claim" ELSE "load"]
    /\ UNCHANGED <<frames, freelist, swap, procs, content, panicked>>

\* The arguments go to the stack page, the new table takes the place of the old one, which is
\* then freed.
kexec_commit(p) ==
    /\ At(p, "stack")
    /\ mem' = [mem EXCEPT ![newtable[p][IMAGE].n] = Loaded]
    /\ pagetable' = [pagetable EXCEPT ![p] = newtable[p]]
    /\ newtable' = [newtable EXCEPT ![p] = pagetable[p]]
    /\ sz' = [sz EXCEPT ![p] = IMAGE + 1]
    /\ content' = [content EXCEPT ![p] = [a \in Page |-> IF a <= IMAGE THEN Loaded ELSE 0]]
    /\ loc' = [loc EXCEPT ![p] = [Idle EXCEPT !.op = "execfree", !.pc = "unmap", !.end = sz[p],
                                              !.tab = <<"new", p>>]]
    /\ UNCHANGED <<frames, freelist, swap, state, panicked>>

-----------------------------------------------------------------------------
(* kexit and kwait                                                           *)

kexit(p) ==
    /\ Enter(p, "exit") /\ p # 1
    /\ state' = [state EXCEPT ![p] = "ZOMBIE"]
    /\ UNCHANGED <<frames, memory, swap, pagetable, newtable, sz, loc, content,
                   panicked>>

\* The parent, here any live process, finds a zombie and frees it.
kwait(p, c) ==
    /\ Enter(p, "exit") /\ state[c] = "ZOMBIE"
    /\ \A q \in Proc : loc[q].op = "free" => loc[q].tab # <<"pt", c>>
    /\ loc' = [loc EXCEPT ![p].op = "free", ![p].pc = "unmap", ![p].end = sz[c], ![p].tab = <<"pt", c>>]
    /\ UNCHANGED <<frames, memory, swap, procs, content, panicked>>

-----------------------------------------------------------------------------

\* What process p does in the kernel once it has entered it.
kernel(p) ==
    \/ kalloc_user(p) \/ kalloc(p) \/ set_pa(p)
    \/ swap_alloc(p) \/ swap_write(p) \/ evict_pte(p) \/ evict_free(p)
    \/ vmfault_page(p) \/ vmfault_map(p) \/ trap_ro(p)
    \/ uvmalloc(p) \/ uvmunmap(p) \/ uvmunmap_free(p) \/ uvmunmap_done(p)
    \/ uvmcopy(p) \/ uvmcopy_page(p) \/ kfork_done(p)
    \/ kexec_alloc(p) \/ loadseg(p) \/ kexec_commit(p)

Halted == (panicked \/ Overfreed) /\ UNCHANGED vars

Next ==
    \/ \E p \in Proc :
          \/ kernel(p)
          \/ \E a \in Page : page_fault(p, a) \/ store_ro(p, a) \/ \E v \in Val : store(p, a, v)
          \/ sbrk_lazy(p) \/ sbrk_shrink(p) \/ \E n \in 1 .. NPAGE : sbrk(p, n)
          \/ kexec(p) \/ kexit(p)
          \/ \E c \in Proc : kfork(p, c) \/ kwait(p, c)
    \/ Halted

\* A process that is in the kernel, or at a trap, goes on, and one that slept in loadseg gets a
\* CPU again: nothing here waits for another process.
Fairness == \A p \in Proc : WF_vars(kernel(p)) /\ SF_vars(loadseg(p))

Spec == Init /\ [][Next]_vars /\ Fairness

-----------------------------------------------------------------------------
(* Properties                                                                *)

\* No paging operation is under way.
Quiet == \A p \in Proc : loc[p].op \in {"none", "store_ro"} /\ loc[p].pc = "user"

\* Whatever was evicted, swapped, copied by fork or loaded by exec meanwhile, each page of a
\* running process holds what the program last put there: in its physical page, in its swap slot,
\* or zero if it was never mapped.  (A page that sbrk is removing is not counted.)
PageIntact ==
    \A p \in Proc : state[p] = "RUN" =>
        \A a \in Page : a < sz[p] /\ ~(loc[p].op = "shrink" /\ a = sz[p] - 1) =>
            LET pte == pagetable[p][a]
            IN  content[p][a] = IF pte.k = "V" THEN mem[pte.n]
                                ELSE IF pte.k = "swapped" THEN swapped[pte.n] ELSE 0

\* Between operations the frame table and the page tables describe each other: a mapped page has
\* exactly one entry, with its owner and its address, and an entry in use describes a mapped page.
\* kalloc_user fills entries in, uvmunmap finds them by physical address.
FrameTableExact ==
    Quiet =>
        /\ \A p \in Proc : \A a \in Mapped(p) :
              \E i \in Frame : /\ frame_table[i].used /\ frame_table[i].pa = pagetable[p][a].n
                               /\ \A j \in Frame \ {i} : frame_table[j].used =>
                                                          frame_table[j].pa # pagetable[p][a].n
        /\ \A i \in Frame : frame_table[i].used =>
              pagetable[frame_table[i].proc][frame_table[i].va].k = "V"
              /\ pagetable[frame_table[i].proc][frame_table[i].va].n = frame_table[i].pa

\* Between operations no physical page is lost, freed twice or shared: each one is on kalloc's
\* list once or mapped once, never both.
MemoryAccounted ==
    Quiet => \A x \in Phys :
        Cardinality({i \in DOMAIN freelist : freelist[i] = x})
        + Cardinality({u \in Proc \X Page : pagetable[u[1]][u[2]].k = "V" /\ pagetable[u[1]][u[2]].n = x})
        = 1

\* Between operations a swap slot is in use exactly when one page of one process is kept in it:
\* swap_alloc in eviction and fork and swap_free in swap-in, unmap and freeproc balance.
SwapAccounted ==
    Quiet => \A s \in Slot :
        Cardinality({u \in Proc \X Page : pagetable[u[1]][u[2]].k = "swapped"
                                          /\ pagetable[u[1]][u[2]].n = s})
        = IF swap_space[s].used THEN 1 ELSE 0

\* Between operations neither a physical page nor a swap slot is lost or has two users, also
\* after the failures of fork, exec, sbrk and eviction on the way.
Accounted == MemoryAccounted /\ SwapAccounted

\* Page tables, frame table, free list and swap map tell one story between operations.
MemoryExact == TypeOK /\ FrameTableExact /\ Accounted

\* The kernel never panics: no page 0 is swapped out, nothing is mapped twice, freewalk finds no
\* leaf and the clock always finds a victim.
NoPanic == ~panicked

\* Every system call and every fault returns to the program: no loop of fork, exec, unmap or
\* eviction goes on for ever, and no failure leaves a process inside.
OpReturns == \A p \in Proc : loc[p].pc # "user" ~> loc[p].pc = "user" \/ panicked

\* A program that stores to a page it may not write is killed.
BadStoreKilled == \A p \in Proc : loc[p].op = "store_ro" ~> state[p] = "ZOMBIE" \/ panicked
=============================================================================
