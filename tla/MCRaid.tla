------------------------------- MODULE MCRaid -------------------------------
EXTENDS Raid

\* Contents that differ from each other and from a blank page within a stripe.
MCPages == {[i \in 0 .. 3 |-> 1], [i \in 0 .. 3 |-> IF i \in {0, 3} THEN 1 ELSE 0]}
=============================================================================
