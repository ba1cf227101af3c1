--------------------------- MODULE SerialExecutor ---------------------------
(***************************************************************************)
(* What thread_pool.h promises its callers, with no thread, mutex or       *)
(* condition in sight: an executor with a first-in first-out backlog that  *)
(* carries out one submission at a time.  A null submission is dropped     *)
(* when its turn comes.                                                    *)
(***************************************************************************)
EXTENDS Naturals, Sequences

CONSTANTS Tasks, NullTasks

VARIABLES
  pending,   \* accepted, not begun
  running,   \* being carried out: at most one
  begun      \* history: every submission whose turn has come, in order

execVars == << pending, running, begun >>

Init ==
  /\ pending = << >>
  /\ running = {}
  /\ begun   = << >>

\* Not accepted before: neither waiting nor begun.
Fresh(t) == \A i \in 1 .. Len(begun \o pending) : (begun \o pending)[i] # t

Accept(t) ==
  /\ Fresh(t)
  /\ pending' = Append(pending, t)
  /\ UNCHANGED << running, begun >>

Begin ==
  /\ running = {}
  /\ pending # << >>
  /\ pending' = Tail(pending)
  /\ begun' = Append(begun, Head(pending))
  /\ running' = {Head(pending)} \ NullTasks

Finish ==
  /\ running # {}
  /\ running' = {}
  /\ UNCHANGED << pending, begun >>

Next == (\E t \in Tasks : Accept(t)) \/ Begin \/ Finish

Spec == Init /\ [][Next]_execVars
=============================================================================
