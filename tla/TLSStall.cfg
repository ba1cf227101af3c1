SPECIFICATION FairSpec
CONSTANTS
  Setups <- TLSOnly
  MaxCommands = 1
  MaxRecords = 1
PROPERTY
  TLSFlushed
\* The context is freed.
CHECK_DEADLOCK FALSE
