SPECIFICATION MCSpec
CONSTANTS
  Header = 2
  Align = 2
  Requests = {0, 1, 4, 7}
  Arenas = {2, 21, 26}
  Levels = 3
  Fan = 2
  Pools = {1, 4}
  PageSize = 4
  Devices <- MCDevices
  Firmwares <- MCFirmwares
  Buffers <- MCBuffers
INVARIANTS ShapeOK RefusedOnlyWhenFull MappingsHold
PROPERTY ImplementsArena
\* The boot ends.
CHECK_DEADLOCK FALSE
