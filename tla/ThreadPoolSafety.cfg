\* Three workers, two clients, three submissions one of which is null.
SPECIFICATION FairSpec
CONSTANTS
  num = 3
  max = 3
  MAX_THREADS = 3
  Clients = {c1, c2}
  Tasks = {t1, t2, t3}
  NullTasks = {t3}
  NoTask = NoTask
INVARIANTS
  MutexOwnership
  NoLostWakeup
  FirstInFirstOut
  NoThreadAfterThrow
PROPERTIES
  ParkedForEver
  ImplementsExecutor
  EverySubmissionTaken
\* The pool may be left idle for good, and ~ThreadPool may block for good.
CHECK_DEADLOCK FALSE
