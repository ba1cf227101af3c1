\* Two plain commands, one without a callback, and SUBSCRIBE twice.
SPECIFICATION Spec
CONSTANTS
  Plain = {g1, g2}
  Subscribes = {s1, s2}
  Unsubscribes = {u1}
  NullFn = {g2}
  Channels <- MCChannels
  Args <- MCArgs
  None = None
  MaxNotices = 1
  Patient = TRUE
INVARIANTS
  RightReply
  
  CleanDisconnect
  ModeAgrees
  FreeIsPickedUp
  
\* The context may be freed.
CHECK_DEADLOCK FALSE
