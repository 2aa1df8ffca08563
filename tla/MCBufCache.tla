----------------------------- MODULE MCBufCache -----------------------------
EXTENDS BufCache, TLC

\* A running process at two MLFQ levels, and no process.
MCPrio  == {0, 3, 99}
MCBlock == {1, 2, 3}
Symmetry == Permutations(Threads) \cup Permutations(Buf)
=============================================================================
