SPECIFICATION FairSpec
CONSTANTS
  Setups <- mcSetups
  MaxCommands = 3
  MaxRecords = 2
INVARIANTS
  MemorySafe
  WatchesAsNeeded
PROPERTIES
  Flushed
  QuietWhenIdle
\* The context is freed.
CHECK_DEADLOCK FALSE
