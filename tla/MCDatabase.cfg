CONSTANTS
  Db = {d1, d2}
  None = None
  MaxEdits = 2
  MaxQueue = 2
SPECIFICATION Spec
SYMMETRY Symmetry
INVARIANT SavedIsPacked
INVARIANT NothingSavedIsLost
INVARIANT OpensWhatWasAsked
