--------------------------- MODULE MCWorkerDispatch ---------------------------
EXTENDS WorkerDispatch, TLC

Symmetry == Permutations(Tool)
=============================================================================
