CONSTANTS
  Id = {i1, i2}
  Object = {p1, p2}
  None = None
  HardLimit = 1
  Env = {"crash", "cancel", "leave", "force", "save"}
SPECIFICATION Spec
SYMMETRY Symmetry
INVARIANT LimitUnlessRaced
INVARIANT WorkersCounted
INVARIANT CountsAreReal
PROPERTY OnlyForceEndsSaves
CHECK_DEADLOCK FALSE
