CONSTANTS
  Server = {s1, s2}
  Project = {p1, p2}
  MaxOutputs = 2
  Local = FALSE
  MaxMade = 5
SPECIFICATION Spec
SYMMETRY Symmetry
INVARIANT NewestKept
INVARIANT NoOrphans
CHECK_DEADLOCK FALSE
