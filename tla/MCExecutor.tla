----------------------------- MODULE MCExecutor -----------------------------
EXTENDS Executor, TLC

\* The executors are interchangeable: their event loops are chosen in Init.
Symmetry == Permutations(Executors)
=============================================================================
