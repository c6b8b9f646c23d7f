--------------------------- MODULE MCProjectExec ---------------------------
EXTENDS ProjectExec, TLC

Symmetry == Permutations(Tool) \cup Permutations(Worker)
=============================================================================
