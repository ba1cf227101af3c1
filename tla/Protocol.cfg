SPECIFICATION Spec
CONSTANTS
  SDS_MAX_PREALLOC = 8
  StackSize = 2
  MaxElements = 12
  MaxBuf = 6
  CompactAt = 5
  IntMax = 127
  LLMax = 99
  Wires <- mcWires
  Doubles <- mcDoubles
  Formats <- mcFormats
  Argvs <- mcArgvs
INVARIANTS
  RepliesAsSent
  ErrorsWhereTheyAre
  StackSound
  RoomSuffices
CHECK_DEADLOCK FALSE
