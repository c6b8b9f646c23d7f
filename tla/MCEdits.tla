------------------------------- MODULE MCEdits --------------------------------
\* One function and one datum; the definitions of types stand for one another.
EXTENDS Edits, TLC
CONSTANTS func, datum
MCFuncOf   == func :> func @@ datum :> None
MCSymmetry == Permutations(Def)
=============================================================================
