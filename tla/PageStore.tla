----------------------------- MODULE PageStore -----------------------------
(***************************************************************************)
(* What the swap device promises its clients (vm.c, kalloc.c through       *)
(* swap.c): an array of pages, one per swap slot, with an atomic write, an *)
(* atomic read and an atomic slot-to-slot copy.  The RAID layer (Raid) is  *)
(* shown to implement it.                                                  *)
(***************************************************************************)
CONSTANTS Slot,      \* swap slots
          Page,      \* page contents
          Zero       \* the content of a slot that was never written

VARIABLES store,     \* content of each slot
          dst        \* page handed back by the latest read

vars == <<store, dst>>

Init == /\ store = [s \in Slot |-> Zero]
        /\ dst = Zero

Write(s, p) == /\ store' = [store EXCEPT ![s] = p]
               /\ UNCHANGED dst

Read(s) == /\ dst' = store[s]
           /\ UNCHANGED store

Copy(s, t) == /\ store' = [store EXCEPT ![t] = store[s]]
              /\ UNCHANGED dst

Next == \E s \in Slot : \/ Read(s)
                        \/ \E p \in Page : Write(s, p)
                        \/ \E t \in Slot : Copy(s, t)

Spec == Init /\ [][Next]_vars
=============================================================================
