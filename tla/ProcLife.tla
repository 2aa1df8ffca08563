------------------------------ MODULE ProcLife ------------------------------
(***************************************************************************)
(* What fork, exit and wait promise: each is one step.  A dead process      *)
(* stays until its parent collects it, and the children of a process that   *)
(* exits belong to init from that moment.                                   *)
(***************************************************************************)
CONSTANT Procs
VARIABLES status, par       \* of each slot: free, live or dead; the parent, 0 if none

vars == <<status, par>>

Init ==
    /\ status = [p \in Procs |-> IF p = 1 THEN "live" ELSE "free"]
    /\ par = [p \in Procs |-> 0]

fork(p, q) ==
    /\ status[p] = "live" /\ status[q] = "free"
    /\ status' = [status EXCEPT ![q] = "live"]
    /\ par' = [par EXCEPT ![q] = p]

exit(p) ==
    /\ p # 1 /\ status[p] = "live"
    /\ status' = [status EXCEPT ![p] = "dead"]
    /\ par' = [q \in Procs |-> IF par[q] = p THEN 1 ELSE par[q]]

wait(p, q) ==
    /\ status[p] = "live" /\ status[q] = "dead" /\ par[q] = p
    /\ status' = [status EXCEPT ![q] = "free"]
    /\ par' = [par EXCEPT ![q] = 0]

\* Every step changes a status.
Next == status' # status /\ \E p, q \in Procs : fork(p, q) \/ exit(p) \/ wait(p, q)

Spec == Init /\ [][Next]_vars
=============================================================================
