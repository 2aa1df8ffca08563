------------------------------- MODULE MCMlfq -------------------------------
(* Instances of Mlfq with slices of one tick, two at the lowest level. *)
EXTENDS Mlfq

Quanta == [l \in Level |-> IF l = 3 THEN 2 ELSE 1]
=============================================================================
