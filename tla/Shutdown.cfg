\* Shutdown rounds with subsystems that come and go.
SPECIFICATION Spec
CONSTANTS
  MaxHandles = 4
  MaxRequests = 3
  Capacity = 2
INVARIANT AskedOnce
PROPERTIES MissedAtMostRemoved Answered
CHECK_DEADLOCK FALSE
