---------------------------- MODULE MCWaitQueues ----------------------------
EXTENDS WaitQueues

Symmetry == Permutations(Tasks)
=============================================================================
