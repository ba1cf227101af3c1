SPECIFICATION Spec
CONSTANTS
  Keys = {"a", "b", "c", "d", "e"}
  Vals = {v}
  NoVal = NoVal
  NoKey = NoKey
  Hash <- mcHash
  InitialSize = 2
INVARIANTS
  TableSound
  IterationSound
PROPERTY
  ImplementsMap
CHECK_DEADLOCK FALSE
