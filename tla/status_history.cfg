SPECIFICATION HistorySpec
CONSTANTS
  Components = {node}
  Crons = {c1}
  Loads = {l1}
  HistoryMinutes = 1
  Depth = 2
  Delayed = 1
  Lost = 1
  MaxFailures = 1
  Nothing = Nothing
INVARIANT
  HistoryIsBounded
PROPERTIES
  WindowIsKept
  DownIsShown
