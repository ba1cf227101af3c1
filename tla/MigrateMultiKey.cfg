\* A command with two keys, the guarded one second.
SPECIFICATION Spec
CONSTANTS
  Clients = {c1}
  Transactions = {}
  Keys <- MCKeys
  Values = {v1, v2}
  EmptyHost = ""
  Commands <- MCMultiKey
  MinArgc <- MCMinArgc
  Writes <- MCWrites
  Doubled <- MCDoubled
  IntLimit = 8
  SizeLimit = 32
  MAX_MIGRATEING_NUM = 2
PROPERTY NoChangeWhileMigrating
