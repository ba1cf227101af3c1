\* A command of each kind, impatient users; the disconnection comes to its end.
SPECIFICATION FairSpec
CONSTANTS
  Plain = {g1}
  Subscribes = {s1}
  Unsubscribes = {u1}
  NullFn = {}
  Channels <- MCChannels
  Args <- MCArgs
  None = None
  MaxNotices = 1
  Patient = FALSE
PROPERTY DisconnectCompletes
\* The context may be freed.
CHECK_DEADLOCK FALSE
