---------------------------- MODULE MCTtyDevices ----------------------------
EXTENDS TtyDevices, TLC

CONSTANTS t1, t2, t3, a, b, c

Symmetry == Permutations(Threads) \cup Permutations(Cells)
=============================================================================
