SPECIFICATION FairSpec
CONSTANTS
  Options <- mcOptions
  Addrs = 2
  Retries = 3
  MaxCommands = 2
  MaxPushes = 1
INVARIANTS
  SocketSound
  BytesOnce
  RepliesInOrder
  WaitsOnlyForServer
  ConnectedAsAsked
PROPERTIES
  CallsReturn
\* The context is freed.
CHECK_DEADLOCK FALSE
