------------------------------ MODULE MCDatabase ------------------------------
EXTENDS Database, TLC

Symmetry == Permutations(Db)
=============================================================================
