CONSTANTS
  Tool = {t1}
  Save = {s1}
  Close = {c1}
  Worker = {w1, w2}
  None = None
  Env = {"cancel","expire","crash"}
SPECIFICATION FairSpec
PROPERTY CancelTakesEffect
PROPERTY CallersAnswered
PROPERTY TasksEnd
CHECK_DEADLOCK FALSE
