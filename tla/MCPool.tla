------------------------------- MODULE MCPool -------------------------------
EXTENDS Pool, TLC

Symmetry == Permutations(Object) \cup Permutations(Id)
=============================================================================
