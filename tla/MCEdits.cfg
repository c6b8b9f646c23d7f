SPECIFICATION Spec
CONSTANTS
  func = func
  datum = datum
  Addr = {func, datum}
  FuncOf <- MCFuncOf
  Symbol = {s}
  Text = {t}
  BuiltIn = {int}
  Named = {S, H}
  Hidden = {H}
  Def = {d, e}
  None = None
  Unsure = Unsure
  MaxCalls = 3
  MaxUndo = 2
INVARIANT UndoGoesBack
INVARIANT AnswersTellTheDatabase
SYMMETRY MCSymmetry
CHECK_DEADLOCK FALSE
