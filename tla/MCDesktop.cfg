CONSTANTS
  MaxWindows = 3
  MaxQueued = 2
  MaxRequests = 1
  Bypass = TRUE
  Width = 3
  MaxRects = 3
  FifoWords = 8
  UpdateWords = 2
  CursorWords = 3
  MaxOps = 3
SPECIFICATION MCSpec
INVARIANTS PointersLive TaskbarExact RepliesToAsker ScreenExact
PROPERTIES DestroyedIsFreed CaughtUp
CHECK_DEADLOCK FALSE
