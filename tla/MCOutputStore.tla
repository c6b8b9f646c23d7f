----------------------------- MODULE MCOutputStore -----------------------------
EXTENDS OutputStore, TLC

Symmetry == Permutations(Server) \cup Permutations(Project)
=============================================================================
