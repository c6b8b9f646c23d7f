CONSTANTS
  Python = {p, q}
  Tool = {t}
  Unknown = {u}
  Ping = {g}
  Shutdown = {z}
  Stubborn = {q}
  None = None
  MaxSent = 3
SPECIFICATION Spec
INVARIANT OnlyWantedCancelled
INVARIANT CleanBetweenCommands
INVARIANT DeathsHaveACause
PROPERTY PortSpec
PROPERTY CancelStopsCommand
CHECK_DEADLOCK FALSE
