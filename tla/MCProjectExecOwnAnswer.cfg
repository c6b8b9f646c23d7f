CONSTANTS
  Tool = {t1, t2}
  Save = {}
  Close = {c1}
  Worker = {w1, w2, w3}
  None = None
  Env = {"abort"}
SPECIFICATION Spec
INVARIANT OwnAnswer
CHECK_DEADLOCK FALSE
