-------------------------- MODULE ThreadPoolProofs --------------------------
(***************************************************************************)
(* Proofs about ThreadPool, for any number of workers and clients and any  *)
(* set of submissions.  IInv is the inductive invariant: the invariants    *)
(* the runs check, plus what start-up establishes about the threads.       *)
(***************************************************************************)
EXTENDS ThreadPool, SequenceTheorems, TLAPS

\* How far construction has come: threads exist exactly up to work_threads,
\* nobody has submitted before the constructor returned, and from then on all
\* num threads exist.
Startup ==
  /\ owner \in Constructing \cup Unwinding =>
       /\ tasks_queue = << >>
       /\ \A c \in Clients : client[c] = "idle"
  /\ owner \in {"construct", "failed"} => work_threads = 0
  /\ owner = "spawn" => num > 0
  /\ owner \in {"ready", "destroyed"} \cup InDestructor =>
       num > 0 /\ work_threads = num
  /\ \A w \in Workers : worker[w] = "none" <=> w > work_threads

\* Only the destructor sets stop, and a thread returns only after it saw stop.
Shutdown ==
  /\ stop => owner \in {"dtor_notify", "dtor_join", "destroyed"}
  /\ \A w \in Workers : worker[w] = "exited" => stop

\* A worker in process() holds a submission that is not null.
RequestHeld ==
  \A w \in Workers : worker[w] = "process" => request[w] \in Tasks \ NullTasks

IInv ==
  /\ TypeOK
  /\ Startup
  /\ Shutdown
  /\ RequestHeld
  /\ MutexOwnership
  /\ NoLostWakeup
  /\ FirstInFirstOut

-----------------------------------------------------------------------------
USE DEF Workers, Constructing, Unwinding, InDestructor, OwnerPc, WorkerPc,
        ownerVars, clientVars, historyVars, Alive

\* Every step of the pool keeps the types.
LEMMA TypeInductive == TypeOK /\ [Next]_vars => TypeOK'
<1> SUFFICES ASSUME TypeOK, [Next]_vars PROVE TypeOK'
  OBVIOUS
<1> USE PoolAssumption DEF TypeOK
<1>1. CASE Constructor
  BY <1>1 DEF Constructor, CheckArguments, SpawnWorker, SpawnFails,
              ConstructorReturns
<1>2. CASE UnwindTerminates
  BY <1>2 DEF UnwindTerminates
<1>3. ASSUME NEW c \in Clients, NotifyOne(c) PROVE TypeOK'
  BY <1>3 DEF NotifyOne
<1>4. ASSUME NEW c \in Clients, NEW t \in Tasks, Submit(c, t) PROVE TypeOK'
  BY <1>4 DEF Submit
<1>5. ASSUME NEW w \in Workers, CheckStop(w) PROVE TypeOK'
  BY <1>5 DEF CheckStop
<1>6. ASSUME NEW w \in Workers, Acquire(w) PROVE TypeOK'
  BY <1>6 DEF Acquire
<1>7. ASSUME NEW w \in Workers, Wait(w) PROVE TypeOK'
  BY <1>7 DEF Wait
<1>8. ASSUME NEW w \in Workers, Take(w) PROVE TypeOK'
  <2>1. /\ tasks_queue \in Seq(Tasks) /\ tasks_queue # << >>
        /\ popped \in Seq(Tasks)
    BY <1>8 DEF Take
  <2>2. /\ Head(tasks_queue) \in Tasks
        /\ Tail(tasks_queue) \in Seq(Tasks)
        /\ Append(popped, Head(tasks_queue)) \in Seq(Tasks)
    BY <2>1
  <2>3. /\ worker' \in [Workers -> WorkerPc]
        /\ request' \in [Workers -> Tasks \cup {NoTask}]
        /\ queue_mutex' \in BOOLEAN
    BY <1>8, <2>2 DEF Take
  <2> QED
    BY <1>8, <2>2, <2>3 DEF Take
<1>9. ASSUME NEW w \in Workers, ProcessReturns(w) PROVE TypeOK'
  BY <1>9 DEF ProcessReturns
<1>10. ASSUME NEW w \in Workers, SpuriousWakeup(w) PROVE TypeOK'
  BY <1>10 DEF SpuriousWakeup
<1>11. CASE Destroy
  BY <1>11 DEF Destroy
<1>12. CASE Destructor
  BY <1>12 DEF Destructor, DestructorLocks, DestructorStops,
               DestructorNotifiesAll, DestructorJoins
<1>13. CASE UNCHANGED vars
  BY <1>13 DEF vars
<1> QED
  BY <1>1, <1>2, <1>3, <1>4, <1>5, <1>6, <1>7, <1>8, <1>9, <1>10, <1>11,
     <1>12, <1>13 DEF Next, RunStep

LEMMA StartupInductive == TypeOK /\ Startup /\ [Next]_vars => Startup'
<1> SUFFICES ASSUME TypeOK, Startup, [Next]_vars PROVE Startup'
  OBVIOUS
<1> USE PoolAssumption DEF TypeOK, Startup
<1>1. CASE Constructor
  <2>1. CASE CheckArguments
    BY <2>1 DEF CheckArguments
  <2>2. CASE SpawnWorker
    BY <2>2 DEF SpawnWorker
  <2>3. CASE SpawnFails
    BY <2>3 DEF SpawnFails
  <2>4. CASE ConstructorReturns
    BY <2>4 DEF ConstructorReturns
  <2> QED
    BY <1>1, <2>1, <2>2, <2>3, <2>4 DEF Constructor
<1>2. CASE UnwindTerminates
  BY <1>2 DEF UnwindTerminates
<1>3. ASSUME NEW c \in Clients, NotifyOne(c) PROVE Startup'
  BY <1>3 DEF NotifyOne
<1>4. ASSUME NEW c \in Clients, NEW t \in Tasks, Submit(c, t) PROVE Startup'
  BY <1>4 DEF Submit
<1>5. ASSUME NEW w \in Workers, CheckStop(w) PROVE Startup'
  BY <1>5 DEF CheckStop
<1>6. ASSUME NEW w \in Workers, Acquire(w) PROVE Startup'
  BY <1>6 DEF Acquire
<1>7. ASSUME NEW w \in Workers, Wait(w) PROVE Startup'
  BY <1>7 DEF Wait
<1>8. ASSUME NEW w \in Workers, Take(w) PROVE Startup'
  BY <1>8 DEF Take
<1>9. ASSUME NEW w \in Workers, ProcessReturns(w) PROVE Startup'
  BY <1>9 DEF ProcessReturns
<1>10. ASSUME NEW w \in Workers, SpuriousWakeup(w) PROVE Startup'
  BY <1>10 DEF SpuriousWakeup
<1>11. CASE Destroy
  BY <1>11 DEF Destroy
<1>12. CASE Destructor
  BY <1>12 DEF Destructor, DestructorLocks, DestructorStops,
               DestructorNotifiesAll, DestructorJoins
<1>13. CASE UNCHANGED vars
  BY <1>13 DEF vars
<1> QED
  BY <1>1, <1>2, <1>3, <1>4, <1>5, <1>6, <1>7, <1>8, <1>9, <1>10, <1>11,
     <1>12, <1>13 DEF Next, RunStep

LEMMA ShutdownInductive ==
  TypeOK /\ Shutdown /\ [Next]_vars => Shutdown'
<1> SUFFICES ASSUME TypeOK, Shutdown, [Next]_vars PROVE Shutdown'
  OBVIOUS
<1> USE PoolAssumption DEF TypeOK, Shutdown
<1>1. CASE Constructor
  BY <1>1 DEF Constructor, CheckArguments, SpawnWorker, SpawnFails,
              ConstructorReturns
<1>2. CASE UnwindTerminates
  BY <1>2 DEF UnwindTerminates
<1>3. ASSUME NEW c \in Clients, NotifyOne(c) PROVE Shutdown'
  BY <1>3 DEF NotifyOne
<1>4. ASSUME NEW c \in Clients, NEW t \in Tasks, Submit(c, t) PROVE Shutdown'
  BY <1>4 DEF Submit
<1>5. ASSUME NEW w \in Workers, CheckStop(w) PROVE Shutdown'
  BY <1>5 DEF CheckStop
<1>6. ASSUME NEW w \in Workers, Acquire(w) PROVE Shutdown'
  BY <1>6 DEF Acquire
<1>7. ASSUME NEW w \in Workers, Wait(w) PROVE Shutdown'
  BY <1>7 DEF Wait
<1>8. ASSUME NEW w \in Workers, Take(w) PROVE Shutdown'
  BY <1>8 DEF Take
<1>9. ASSUME NEW w \in Workers, ProcessReturns(w) PROVE Shutdown'
  BY <1>9 DEF ProcessReturns
<1>10. ASSUME NEW w \in Workers, SpuriousWakeup(w) PROVE Shutdown'
  BY <1>10 DEF SpuriousWakeup
<1>11. CASE Destroy
  BY <1>11 DEF Destroy
<1>12. CASE Destructor
  BY <1>12 DEF Destructor, DestructorLocks, DestructorStops,
               DestructorNotifiesAll, DestructorJoins
<1>13. CASE UNCHANGED vars
  BY <1>13 DEF vars
<1> QED
  BY <1>1, <1>2, <1>3, <1>4, <1>5, <1>6, <1>7, <1>8, <1>9, <1>10, <1>11,
     <1>12, <1>13 DEF Next, RunStep

LEMMA RequestHeldInductive ==
  TypeOK /\ RequestHeld /\ [Next]_vars => RequestHeld'
<1> SUFFICES ASSUME TypeOK, RequestHeld, [Next]_vars PROVE RequestHeld'
  OBVIOUS
<1> USE DEF TypeOK, RequestHeld
<1>1. CASE Constructor
  BY <1>1 DEF Constructor, CheckArguments, SpawnWorker, SpawnFails,
              ConstructorReturns
<1>2. CASE UnwindTerminates
  BY <1>2 DEF UnwindTerminates
<1>3. ASSUME NEW c \in Clients, NotifyOne(c) PROVE RequestHeld'
  BY <1>3 DEF NotifyOne
<1>4. ASSUME NEW c \in Clients, NEW t \in Tasks, Submit(c, t) PROVE RequestHeld'
  BY <1>4 DEF Submit
<1>5. ASSUME NEW w \in Workers, CheckStop(w) PROVE RequestHeld'
  BY <1>5 DEF CheckStop
<1>6. ASSUME NEW w \in Workers, Acquire(w) PROVE RequestHeld'
  BY <1>6 DEF Acquire
<1>7. ASSUME NEW w \in Workers, Wait(w) PROVE RequestHeld'
  BY <1>7 DEF Wait
<1>8. ASSUME NEW w \in Workers, Take(w) PROVE RequestHeld'
  <2>1. tasks_queue \in Seq(Tasks) /\ tasks_queue # << >>
    BY <1>8 DEF Take
  <2>2. Head(tasks_queue) \in Tasks
    BY <2>1
  <2> QED
    BY <1>8, <2>2 DEF Take
<1>9. ASSUME NEW w \in Workers, ProcessReturns(w) PROVE RequestHeld'
  BY <1>9 DEF ProcessReturns
<1>10. ASSUME NEW w \in Workers, SpuriousWakeup(w) PROVE RequestHeld'
  BY <1>10 DEF SpuriousWakeup
<1>11. CASE Destroy
  BY <1>11 DEF Destroy
<1>12. CASE Destructor
  BY <1>12 DEF Destructor, DestructorLocks, DestructorStops,
               DestructorNotifiesAll, DestructorJoins
<1>13. CASE UNCHANGED vars
  BY <1>13 DEF vars
<1> QED
  BY <1>1, <1>2, <1>3, <1>4, <1>5, <1>6, <1>7, <1>8, <1>9, <1>10, <1>11,
     <1>12, <1>13 DEF Next, RunStep

LEMMA MutexInductive ==
  TypeOK /\ Startup /\ MutexOwnership /\ [Next]_vars => MutexOwnership'
<1> SUFFICES ASSUME TypeOK, Startup, MutexOwnership, [Next]_vars PROVE MutexOwnership'
  OBVIOUS
<1> USE PoolAssumption DEF TypeOK, MutexOwnership, Holds, OwnerHolds
<1>1. CASE Constructor
  <2>1. CASE CheckArguments
    BY <2>1 DEF CheckArguments
  <2>2. CASE SpawnWorker
    <3>1. worker[work_threads + 1] = "none"
      BY <2>2 DEF SpawnWorker, Startup
    <3>2. \A w \in Workers : Holds(w)' <=> Holds(w)
      BY <2>2, <3>1 DEF SpawnWorker
    <3> QED
      BY <2>2, <3>2 DEF SpawnWorker
  <2>3. CASE SpawnFails
    BY <2>3 DEF SpawnFails
  <2>4. CASE ConstructorReturns
    BY <2>4 DEF ConstructorReturns
  <2> QED
    BY <1>1, <2>1, <2>2, <2>3, <2>4 DEF Constructor
<1>2. CASE UnwindTerminates
  BY <1>2 DEF UnwindTerminates
<1>3. ASSUME NEW c \in Clients, NotifyOne(c) PROVE MutexOwnership'
  BY <1>3 DEF NotifyOne
<1>4. ASSUME NEW c \in Clients, NEW t \in Tasks, Submit(c, t) PROVE MutexOwnership'
  BY <1>4 DEF Submit
<1>5. ASSUME NEW w \in Workers, CheckStop(w) PROVE MutexOwnership'
  BY <1>5 DEF CheckStop
<1>6. ASSUME NEW w \in Workers, Acquire(w) PROVE MutexOwnership'
  BY <1>6 DEF Acquire
<1>7. ASSUME NEW w \in Workers, Wait(w) PROVE MutexOwnership'
  BY <1>7 DEF Wait
<1>8. ASSUME NEW w \in Workers, Take(w) PROVE MutexOwnership'
  <2>1. /\ owner' = owner /\ worker[w] = "locked"
        /\ \/ worker' = [worker EXCEPT ![w] = "loop"] /\ queue_mutex' = FALSE
           \/ worker' = [worker EXCEPT ![w] = "process"] /\ queue_mutex' = queue_mutex
    BY <1>8 DEF Take
  <2>2. Holds(w) /\ ~OwnerHolds /\ queue_mutex /\ \A v \in Workers : Holds(v) => v = w
    BY <2>1
  <2>3. \A v \in Workers : v # w => worker'[v] = worker[v]
    BY <2>1
  <2>4. CASE worker' = [worker EXCEPT ![w] = "loop"] /\ queue_mutex' = FALSE
    BY <2>1, <2>2, <2>3, <2>4
  <2>5. CASE worker' = [worker EXCEPT ![w] = "process"] /\ queue_mutex' = queue_mutex
    BY <2>1, <2>2, <2>3, <2>5
  <2> QED
    BY <2>1, <2>4, <2>5
<1>9. ASSUME NEW w \in Workers, ProcessReturns(w) PROVE MutexOwnership'
  BY <1>9 DEF ProcessReturns
<1>10. ASSUME NEW w \in Workers, SpuriousWakeup(w) PROVE MutexOwnership'
  BY <1>10 DEF SpuriousWakeup
<1>11. CASE Destroy
  BY <1>11 DEF Destroy
<1>12. CASE Destructor
  BY <1>12 DEF Destructor, DestructorLocks, DestructorStops,
               DestructorNotifiesAll, DestructorJoins
<1>13. CASE UNCHANGED vars
  BY <1>13 DEF vars
<1> QED
  BY <1>1, <1>2, <1>3, <1>4, <1>5, <1>6, <1>7, <1>8, <1>9, <1>10, <1>11,
     <1>12, <1>13 DEF Next, RunStep

LEMMA WakeupInductive ==
  TypeOK /\ Startup /\ Shutdown /\ NoLostWakeup /\ [Next]_vars => NoLostWakeup'
<1> SUFFICES ASSUME TypeOK, Startup, Shutdown, NoLostWakeup, [Next]_vars PROVE NoLostWakeup'
  OBVIOUS
<1> USE DEF TypeOK, Startup, Shutdown, NoLostWakeup, WillLook
<1>1. CASE Constructor
  BY <1>1 DEF Constructor, CheckArguments, SpawnWorker, SpawnFails,
              ConstructorReturns
<1>2. CASE UnwindTerminates
  BY <1>2 DEF UnwindTerminates
<1>3. ASSUME NEW c \in Clients, NotifyOne(c) PROVE NoLostWakeup'
  BY <1>3 DEF NotifyOne
<1>4. ASSUME NEW c \in Clients, NEW t \in Tasks, Submit(c, t) PROVE NoLostWakeup'
  BY <1>4 DEF Submit
<1>5. ASSUME NEW w \in Workers, CheckStop(w) PROVE NoLostWakeup'
  BY <1>5 DEF CheckStop
<1>6. ASSUME NEW w \in Workers, Acquire(w) PROVE NoLostWakeup'
  BY <1>6 DEF Acquire
<1>7. ASSUME NEW w \in Workers, Wait(w) PROVE NoLostWakeup'
  BY <1>7 DEF Wait
<1>8. ASSUME NEW w \in Workers, Take(w) PROVE NoLostWakeup'
  BY <1>8 DEF Take
<1>9. ASSUME NEW w \in Workers, ProcessReturns(w) PROVE NoLostWakeup'
  BY <1>9 DEF ProcessReturns
<1>10. ASSUME NEW w \in Workers, SpuriousWakeup(w) PROVE NoLostWakeup'
  BY <1>10 DEF SpuriousWakeup
<1>11. CASE Destroy
  BY <1>11 DEF Destroy
<1>12. CASE Destructor
  BY <1>12 DEF Destructor, DestructorLocks, DestructorStops,
               DestructorNotifiesAll, DestructorJoins
<1>13. CASE UNCHANGED vars
  BY <1>13 DEF vars
<1> QED
  BY <1>1, <1>2, <1>3, <1>4, <1>5, <1>6, <1>7, <1>8, <1>9, <1>10, <1>11,
     <1>12, <1>13 DEF Next, RunStep

LEMMA FifoInductive ==
  TypeOK /\ FirstInFirstOut /\ [Next]_vars => FirstInFirstOut'
<1> SUFFICES ASSUME TypeOK, FirstInFirstOut, [Next]_vars PROVE FirstInFirstOut'
  OBVIOUS
<1> USE DEF TypeOK, FirstInFirstOut
<1>1. CASE Constructor
  BY <1>1 DEF Constructor, CheckArguments, SpawnWorker, SpawnFails,
              ConstructorReturns
<1>2. CASE UnwindTerminates
  BY <1>2 DEF UnwindTerminates
<1>3. ASSUME NEW c \in Clients, NotifyOne(c) PROVE FirstInFirstOut'
  BY <1>3 DEF NotifyOne
<1>4. ASSUME NEW c \in Clients, NEW t \in Tasks, Submit(c, t) PROVE FirstInFirstOut'
  <2>1. /\ tasks_queue \in Seq(Tasks) /\ popped \in Seq(Tasks)
    OBVIOUS
  <2>2. Append(popped \o tasks_queue, t) = popped \o Append(tasks_queue, t)
    <3> HIDE DEF TypeOK, FirstInFirstOut
    <3>1. popped \o tasks_queue \in Seq(Tasks)
      BY <2>1, ConcatProperties
    <3>2. Append(popped \o tasks_queue, t) = (popped \o tasks_queue) \o <<t>>
      BY <3>1, AppendIsConcat
    <3>3. Append(tasks_queue, t) = tasks_queue \o <<t>>
      BY <2>1, AppendIsConcat
    <3>4. <<t>> \in Seq(Tasks)
      OBVIOUS
    <3>5. (popped \o tasks_queue) \o <<t>> = popped \o (tasks_queue \o <<t>>)
      BY <2>1, <3>4, ConcatAssociative
    <3> QED
      BY <3>2, <3>3, <3>5
  <2> QED
    BY <1>4, <2>2 DEF Submit
<1>5. ASSUME NEW w \in Workers, CheckStop(w) PROVE FirstInFirstOut'
  BY <1>5 DEF CheckStop
<1>6. ASSUME NEW w \in Workers, Acquire(w) PROVE FirstInFirstOut'
  BY <1>6 DEF Acquire
<1>7. ASSUME NEW w \in Workers, Wait(w) PROVE FirstInFirstOut'
  BY <1>7 DEF Wait
<1>8. ASSUME NEW w \in Workers, Take(w) PROVE FirstInFirstOut'
  <2>1. /\ tasks_queue \in Seq(Tasks) /\ tasks_queue # << >>
        /\ popped \in Seq(Tasks)
    BY <1>8 DEF Take
  <2>2. Append(popped, Head(tasks_queue)) \o Tail(tasks_queue)
          = popped \o tasks_queue
    BY <2>1
  <2> QED
    BY <1>8, <2>2 DEF Take
<1>9. ASSUME NEW w \in Workers, ProcessReturns(w) PROVE FirstInFirstOut'
  BY <1>9 DEF ProcessReturns
<1>10. ASSUME NEW w \in Workers, SpuriousWakeup(w) PROVE FirstInFirstOut'
  BY <1>10 DEF SpuriousWakeup
<1>11. CASE Destroy
  BY <1>11 DEF Destroy
<1>12. CASE Destructor
  BY <1>12 DEF Destructor, DestructorLocks, DestructorStops,
               DestructorNotifiesAll, DestructorJoins
<1>13. CASE UNCHANGED vars
  BY <1>13 DEF vars
<1> QED
  BY <1>1, <1>2, <1>3, <1>4, <1>5, <1>6, <1>7, <1>8, <1>9, <1>10, <1>11,
     <1>12, <1>13 DEF Next, RunStep

LEMMA InitTypeOK == Init => TypeOK
<1> SUFFICES ASSUME Init PROVE TypeOK
  OBVIOUS
<1>1. << >> \in Seq(Tasks)
  OBVIOUS
<1>2. worker \in [Workers -> WorkerPc]
  BY DEF Init
<1>3. request \in [Workers -> Tasks \cup {NoTask}]
  BY DEF Init
<1>4. client \in [Clients -> {"idle", "notify"}]
  BY DEF Init
<1> QED
  BY <1>1, <1>2, <1>3, <1>4 DEF Init, TypeOK

LEMMA InitIInv == Init => IInv
<1> SUFFICES ASSUME Init PROVE IInv
  OBVIOUS
<1>1. TypeOK
  BY InitTypeOK
<1>2. Startup /\ Shutdown /\ RequestHeld
  BY PoolAssumption DEF Init, Startup, Shutdown, RequestHeld
<1>3. MutexOwnership /\ NoLostWakeup
  BY DEF Init, MutexOwnership, Holds, OwnerHolds, NoLostWakeup
<1>4. FirstInFirstOut
  BY DEF Init, FirstInFirstOut
<1> QED
  BY <1>1, <1>2, <1>3, <1>4 DEF IInv

\* The pool keeps its inductive invariant.
THEOREM Inductive == Spec => []IInv
<1>1. IInv /\ [Next]_vars => IInv'
  BY TypeInductive, StartupInductive, ShutdownInductive, RequestHeldInductive,
     MutexInductive, WakeupInductive, FifoInductive DEF IInv
<1> QED
  BY InitIInv, <1>1, PTL DEF Spec

\* Every variable keeps its type, whatever the threads do.
THEOREM TypeCorrect == Spec => []TypeOK
<1>1. IInv => TypeOK
  BY DEF IInv
<1> QED
  BY Inductive, <1>1, PTL

\* queue_mutex is never held by two threads, nor free while one is inside.
THEOREM MutualExclusion == Spec => []MutexOwnership
<1>1. IInv => MutexOwnership
  BY DEF IInv
<1> QED
  BY Inductive, <1>1, PTL

\* Notifying after the unlock loses no submission, for any number of threads.
THEOREM WakeupNotLost == Spec => []NoLostWakeup
<1>1. IInv => NoLostWakeup
  BY DEF IInv
<1> QED
  BY Inductive, <1>1, PTL

\* Workers take the submissions in order, each exactly once.
THEOREM Fifo == Spec => []FirstInFirstOut
<1>1. IInv => FirstInFirstOut
  BY DEF IInv
<1> QED
  BY Inductive, <1>1, PTL

\* A constructor that throws has started no thread.
THEOREM ThrowLeavesNoThread == Spec => []NoThreadAfterThrow
<1>1. IInv => NoThreadAfterThrow
  BY PoolAssumption DEF IInv, Startup, TypeOK, NoThreadAfterThrow
<1> QED
  BY Inductive, <1>1, PTL

-----------------------------------------------------------------------------
(* ~ThreadPool holds the mutex in join(): who needs it is stuck.           *)

LEMMA ParkedStep ==
  ASSUME IInv, [Next]_vars, owner = "dtor_join", NEW v \in Workers, Parked(v)
  PROVE  Parked(v)'
<1> USE DEF Parked
<1>1. TypeOK /\ queue_mutex
  BY DEF IInv, MutexOwnership, OwnerHolds
<1>2. ASSUME NEW c \in Clients, NotifyOne(c) PROVE Parked(v)'
  BY <1>1, <1>2 DEF NotifyOne, TypeOK
<1>3. ASSUME NEW w \in Workers, RunStep(w) PROVE Parked(v)'
  BY <1>1, <1>3 DEF RunStep, CheckStop, Acquire, Wait, Take, ProcessReturns,
                    TypeOK
<1>4. ASSUME NEW w \in Workers, SpuriousWakeup(w) PROVE Parked(v)'
  BY <1>1, <1>4 DEF SpuriousWakeup, TypeOK
<1>5. CASE Destructor
  BY <1>1, <1>5 DEF Destructor, DestructorLocks, DestructorStops,
                    DestructorNotifiesAll, DestructorJoins
<1>6. CASE UNCHANGED vars
  BY <1>6 DEF vars
<1>7. ASSUME NEW c \in Clients, NEW t \in Tasks, Submit(c, t) PROVE Parked(v)'
  BY <1>7 DEF Submit
<1> QED
  BY <1>2, <1>3, <1>4, <1>5, <1>6, <1>7
     DEF Next, Constructor, CheckArguments, SpawnWorker, SpawnFails,
         ConstructorReturns, UnwindTerminates, Destroy

\* No schedule, notification or spurious wakeup frees a worker that waits for
\* the mutex or for a notification while ~ThreadPool joins.
THEOREM DestructorBlocks == Spec => ParkedForEver
<1>1. IInv /\ [Next]_vars =>
        [ \A w \in Workers :
            (owner = "dtor_join" /\ Parked(w)) => (Parked(w))' ]_vars
  BY ParkedStep
<1> QED
  BY Inductive, <1>1, PTL DEF Spec, ParkedForEver

-----------------------------------------------------------------------------
(* The pool implements SerialExecutor.                                     *)

\* A step that moves no worker into or out of process() leaves Running alone.
LEMMA RunningUnchanged ==
  ASSUME \A w \in Workers :
           /\ worker[w] = "process" <=> worker'[w] = "process"
           /\ request'[w] = request[w]
  PROVE  Running' = Running
BY DEF Running

\* A worker inside its critical section is the only one that can process.
LEMMA ProcessAlone ==
  ASSUME IInv, NEW w \in Workers, Holds(w)
  PROVE  Running = IF worker[w] = "process" THEN {request[w]} ELSE {}
BY DEF IInv, MutexOwnership, Holds, Running

LEMMA SubmitAccepts ==
  ASSUME IInv, NEW c \in Clients, NEW t \in Tasks, Submit(c, t)
  PROVE  Executor!Accept(t)
<1>1. popped \o tasks_queue = submitted /\ t \notin SeqSet(submitted)
  BY DEF IInv, FirstInFirstOut, Submit
<1>2. Executor!Fresh(t)
  BY <1>1 DEF Executor!Fresh, SeqSet
<1>3. Running' = Running
  BY RunningUnchanged DEF Submit
<1> QED
  BY <1>2, <1>3 DEF Executor!Accept, Submit

LEMMA TakeBegins ==
  ASSUME IInv, NEW w \in Workers, Take(w)
  PROVE  Executor!Begin
<1>1. Holds(w) /\ worker[w] = "locked"
  BY DEF Take, Holds
<1>2. Running = {}
  BY <1>1, ProcessAlone
<1>3. \A v \in Workers : worker[v] # "process"
  BY <1>1 DEF IInv, MutexOwnership, Holds
<1>4. Running' = {Head(tasks_queue)} \ NullTasks
  <2>1. worker \in [Workers -> WorkerPc]
        /\ request \in [Workers -> Tasks \cup {NoTask}]
    BY DEF IInv, TypeOK
  <2>2. CASE Head(tasks_queue) \in NullTasks
    BY <1>3, <2>1, <2>2 DEF Take, Running
  <2>3. CASE Head(tasks_queue) \notin NullTasks
    BY <1>3, <2>1, <2>3 DEF Take, Running
  <2> QED
    BY <2>2, <2>3
<1> QED
  BY <1>2, <1>4 DEF Executor!Begin, Take

LEMMA ReturnFinishes ==
  ASSUME IInv, NEW w \in Workers, ProcessReturns(w)
  PROVE  Executor!Finish
<1>1. Holds(w) /\ worker[w] = "process"
  BY DEF ProcessReturns, Holds
<1>2. Running # {}
  BY <1>1, ProcessAlone
<1>3. \A v \in Workers : worker'[v] # "process"
  BY <1>1 DEF IInv, TypeOK, MutexOwnership, Holds, ProcessReturns
<1>4. Running' = {}
  BY <1>3 DEF Running
<1> QED
  BY <1>2, <1>4 DEF Executor!Finish, ProcessReturns

\* Every other step is invisible to the abstract executor.
LEMMA OthersStutter ==
  ASSUME IInv, [Next]_vars,
         ~ \E c \in Clients, t \in Tasks : Submit(c, t),
         ~ \E w \in Workers : Take(w) \/ ProcessReturns(w)
  PROVE  UNCHANGED Executor!execVars
<1> SUFFICES /\ UNCHANGED << tasks_queue, popped >>
             /\ \A v \in Workers : /\ worker[v] = "process"
                                         <=> worker'[v] = "process"
                                   /\ request'[v] = request[v]
  BY RunningUnchanged DEF Executor!execVars
<1> USE DEF IInv, TypeOK
<1>1. CASE Constructor
  <2>1. CASE SpawnWorker
    <3>1. worker[work_threads + 1] = "none"
      BY <2>1, PoolAssumption DEF SpawnWorker, Startup
    <3> QED
      BY <2>1, <3>1 DEF SpawnWorker
  <2> QED
    BY <1>1, <2>1 DEF Constructor, CheckArguments, SpawnFails,
                      ConstructorReturns
<1>2. ASSUME NEW c \in Clients, NotifyOne(c)
      PROVE  UNCHANGED << tasks_queue, popped, request >>
             /\ \A v \in Workers : worker[v] = "process"
                                     <=> worker'[v] = "process"
  BY <1>2 DEF NotifyOne
<1>3. ASSUME NEW w \in Workers,
             CheckStop(w) \/ Acquire(w) \/ Wait(w) \/ SpuriousWakeup(w)
      PROVE  UNCHANGED << tasks_queue, popped, request >>
             /\ \A v \in Workers : worker[v] = "process"
                                     <=> worker'[v] = "process"
  BY <1>3 DEF CheckStop, Acquire, Wait, SpuriousWakeup
<1>4. CASE Destructor
  BY <1>4 DEF Destructor, DestructorLocks, DestructorStops,
              DestructorNotifiesAll, DestructorJoins
<1>5. CASE UnwindTerminates \/ Destroy \/ UNCHANGED vars
  BY <1>5 DEF UnwindTerminates, Destroy, vars
<1> QED
  BY <1>1, <1>2, <1>3, <1>4, <1>5 DEF Next, RunStep

\* Whatever the number of threads, callers see an executor that begins the
\* submissions in order, each once, and one at a time: process() runs with
\* queue_mutex held, so the pool never runs two requests side by side.
THEOREM PoolImplementsExecutor == Spec => ImplementsExecutor
<1>1. Init => Executor!Init
  BY DEF Init, Executor!Init, Running
<1>2. IInv /\ [Next]_vars => [Executor!Next]_(Executor!execVars)
  BY SubmitAccepts, TakeBegins, ReturnFinishes, OthersStutter
     DEF Executor!Next
<1> QED
  BY Inductive, <1>1, <1>2, PTL DEF Spec, ImplementsExecutor, Executor!Spec
=============================================================================
