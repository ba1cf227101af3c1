\* Every command of one to five words over three, every set of guarded keys.
SPECIFICATION FairLoopSpec
CONSTANTS
  Words = {w1, w2, w3}
  MaxArgc = 5
INVARIANTS
  FilterResult
PROPERTY FilterReturns
\* The call ends.
CHECK_DEADLOCK FALSE
