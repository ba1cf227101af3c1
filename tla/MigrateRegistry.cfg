\* Every command, directly and in transactions.
SPECIFICATION Spec
CONSTANTS
  Clients = {c1, c2}
  Transactions = {c1, c2}
  Keys <- MCKeys
  Values = {v1, v2}
  EmptyHost = ""
  Commands <- MCCommands
  MinArgc <- MCMinArgc
  Writes <- MCWrites
  Doubled <- MCDoubled
  IntLimit = 8
  SizeLimit = 32
  MAX_MIGRATEING_NUM = 2
INVARIANTS
  TypeOK
  RegistryBounded
  GuardReady
PROPERTIES
  FirstRequestWins
  ChangesOnlyUnseen
