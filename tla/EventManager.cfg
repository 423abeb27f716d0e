CONSTANTS
  MaxListeners = 2
  MaxReceivers = 1
  MainCapacity = 1
  ImmCapacity = 1
  key = key
  Types = {key}
  Filters <- MCFilters
  Priorities <- MCPriorities
  MaxPosts = 2
  MaxChanges = 4
  MaxCalls = 1
  MaxDepth = 2
SPECIFICATION Spec
INVARIANTS Accounting OneCallEach
PROPERTY QueuesDrain
CHECK_DEADLOCK FALSE
