CONSTANTS
  c1 = c1
  c2 = c2
  c3 = c3
  Call = {c1, c2, c3}
  RpcId = {1, 2, 3}
  ToolCalls <- Batch
  Writes = {c1}
  Socket = {w1}
  MaxEvents = 3
  HistoryLimit = 2
  KeepLast = 3
  None = None
SPECIFICATION Spec
INVARIANT EventEndsWithItsCall
INVARIANT BrowserUpToDate
CHECK_DEADLOCK FALSE
