CONSTANTS
  Images <- SomeImages
  MaxAddr = 27
  Row = 4
  Run = 3
  Entered = {0, 6, 14, 18, 27}
  Chunk = 2
  MaxLines = 4
  MaxCalls = 4
SPECIFICATION Spec
INVARIANT PanelIsAStretch
INVARIANT NoHeadIsLost
INVARIANT ForwardCovers
INVARIANT OverviewTiles
CHECK_DEADLOCK FALSE
