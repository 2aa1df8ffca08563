----------------------------- MODULE AtomicDisk -----------------------------
(***************************************************************************)
(* What kernel/log.c promises to the file system: the updates of a group   *)
(* of FS system calls reach the disk together, when none of the calls is   *)
(* in progress, and a crash falls back to the last such group.             *)
(***************************************************************************)
CONSTANTS Proc, Block, Val,
          Zero            \* content of the blocks mkfs wrote

VARIABLES mem,            \* the blocks as FS code sees them
          stable,         \* the blocks as a crash would leave them
          open            \* processes inside begin_op()/end_op()

vars == <<mem, stable, open>>

Init == /\ mem = [b \in Block |-> Zero]
        /\ stable = mem
        /\ open = {}

Begin(p) == open' = open \cup {p} /\ UNCHANGED <<mem, stable>>

Update(p, b, v) == /\ p \in open
                   /\ mem' = [mem EXCEPT ![b] = v]
                   /\ UNCHANGED <<stable, open>>

End(p) == open' = open \ {p} /\ UNCHANGED <<mem, stable>>

Commit == /\ open = {}
          /\ stable' = mem
          /\ UNCHANGED <<mem, open>>

Crash == /\ mem' = stable
         /\ open' = {}
         /\ UNCHANGED stable

Next == \/ \E p \in Proc : Begin(p) \/ End(p) \/ \E b \in Block, v \in Val : Update(p, b, v)
        \/ Commit
        \/ Crash

Spec == Init /\ [][Next]_vars
=============================================================================
