CONSTANTS
  Session = {k1, k2, k3}
  MaxStates = 4
SPECIFICATION LifespanSpec
INVARIANT OneStateUnlessCollided
INVARIANT WebKeepsItsState
PROPERTY StopClosesStates
CHECK_DEADLOCK FALSE
