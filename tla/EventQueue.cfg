CONSTANTS
  MaxEvents = 3
  MaxPosts = 5
  Types = {key, window}
SPECIFICATION Spec
PROPERTY ImplementsOrder
CHECK_DEADLOCK FALSE
