----------------------------- MODULE ThreadPool -----------------------------
(***************************************************************************)
(* The worker pool of thread_pool.h / thread_pool.cpp.                     *)
(*                                                                         *)
(* One owner thread constructs the pool, may later destroy it; client      *)
(* threads call submit(); the pool's own threads run run().  Every thread  *)
(* is a little program counter; one action is what a thread does between   *)
(* two points where another thread can be scheduled: an acquisition or a   *)
(* release of queue_mutex, a wait or a notification of condition, a read   *)
(* of stop outside the mutex.                                              *)
(*                                                                         *)
(* queue_mutex is only a bit: who is inside the critical section is read   *)
(* off the program counters, so that mutual exclusion is something the     *)
(* actions must achieve and not the shape of a variable.                   *)
(***************************************************************************)
EXTENDS Integers, Sequences, FiniteSets

CONSTANTS
  num, max,      \* the two constructor arguments
  MAX_THREADS,   \* the constant of thread_pool.h
  Clients,       \* threads that call submit()
  Tasks,         \* the submissions; each is made once, which bounds a run
  NullTasks,     \* the submissions that pass a null pointer
  NoTask         \* "this worker holds no request"

ASSUME PoolAssumption ==
  /\ num \in Int /\ max \in Int
  /\ MAX_THREADS \in Nat
  /\ NullTasks \subseteq Tasks
  /\ NoTask \notin Tasks

Workers == 1 .. num

VARIABLES
  owner,         \* where the owner thread is, in the constructor or ~ThreadPool
  work_threads,  \* size of the vector of threads
  queue_mutex,   \* TRUE while some thread holds the mutex
  stop,          \* the flag the workers poll
  tasks_queue,   \* the queue of submissions
  worker,        \* program counter of each pool thread
  request,       \* the local variable of run()
  client,        \* program counter of each client
  submitted,     \* history: the submissions in the order they were queued
  popped         \* history: the submissions in the order workers took them

vars == << owner, work_threads, queue_mutex, stop, tasks_queue, worker,
           request, client, submitted, popped >>

ownerVars   == << owner, work_threads, stop >>
clientVars  == << client, submitted >>
historyVars == << submitted, popped >>

-----------------------------------------------------------------------------
(* Thread positions.                                                       *)

Constructing == {"construct", "spawn"}
InDestructor == {"dtor_lock", "dtor_stop", "dtor_notify", "dtor_join"}
Unwinding    == {"failed", "unwinding", "terminated"}

OwnerPc  == Constructing \cup Unwinding \cup {"ready", "destroyed"}
              \cup InDestructor
WorkerPc == {"none", "loop", "lock", "locked", "waiting", "woken",
             "process", "exited"}

\* A worker that owns queue_mutex, and the owner's share of it.
Holds(w)   == worker[w] \in {"locked", "process"}
OwnerHolds == owner \in {"dtor_stop", "dtor_notify", "dtor_join"}

\* A worker that needs the mutex, or a notification and then the mutex.
Parked(w) == worker[w] \in {"lock", "waiting", "woken"}

\* A worker that comes to test the queue without anybody's help.
WillLook(w) == worker[w] \in {"loop", "lock", "woken", "locked", "process"}

\* std::terminate() has not ended the process.
Alive == owner # "terminated"

SeqSet(s) == {s[i] : i \in 1 .. Len(s)}

-----------------------------------------------------------------------------
Init ==
  /\ owner        = "construct"
  /\ work_threads = 0
  /\ queue_mutex  = FALSE
  /\ stop         = FALSE
  /\ tasks_queue  = << >>
  /\ worker       = [w \in Workers |-> "none"]
  /\ request      = [w \in Workers |-> NoTask]
  /\ client       = [c \in Clients |-> "idle"]
  /\ submitted    = << >>
  /\ popped       = << >>

-----------------------------------------------------------------------------
(* The constructor.                                                        *)

\* The bound num is compared with: a max below num is replaced, not refused.
EffectiveMax == IF max < num THEN MAX_THREADS ELSE max

CheckArguments ==
  /\ owner = "construct"
  /\ owner' = IF num <= 0 \/ num > EffectiveMax THEN "failed" ELSE "spawn"
  /\ UNCHANGED << work_threads, queue_mutex, stop, tasks_queue, worker,
                  request, clientVars, popped >>

\* emplace_back(worker, this): the new thread runs at once, while the
\* constructor is still creating its siblings.
SpawnWorker ==
  /\ owner = "spawn"
  /\ work_threads < num
  /\ work_threads' = work_threads + 1
  /\ worker' = [worker EXCEPT ![work_threads + 1] = "loop"]
  /\ UNCHANGED << owner, queue_mutex, stop, tasks_queue, request,
                  clientVars, popped >>

\* Mutation: the exception reaches the caller with threads left running.
SpawnFailsDetached ==
  /\ owner = "spawn"
  /\ work_threads < num
  /\ owner' = "failed"
  /\ UNCHANGED << work_threads, queue_mutex, stop, tasks_queue, worker,
                  request, clientVars, popped >>

\* The system refuses a thread and emplace_back throws.  With no thread yet the
\* exception reaches the caller; with some, the members are destroyed first.
SpawnFails ==
  /\ owner = "spawn"
  /\ work_threads < num
  /\ owner' = IF work_threads = 0 THEN "failed" ELSE "unwinding"
  /\ UNCHANGED << work_threads, queue_mutex, stop, tasks_queue, worker,
                  request, clientVars, popped >>

\* Unwinding destroys the members, last declared first, under the feet of the
\* threads.  It may block in ~condition_variable while a worker waits; if it
\* gets to work_threads, ~thread of a joinable thread calls std::terminate().
UnwindTerminates ==
  /\ owner = "unwinding"
  /\ owner' = "terminated"
  /\ UNCHANGED << work_threads, queue_mutex, stop, tasks_queue, worker,
                  request, clientVars, popped >>

ConstructorReturns ==
  /\ owner = "spawn"
  /\ work_threads = num
  /\ owner' = "ready"
  /\ UNCHANGED << work_threads, queue_mutex, stop, tasks_queue, worker,
                  request, clientVars, popped >>

-----------------------------------------------------------------------------
(* submit().  The three statements under the mutex are one action; the     *)
(* notification comes after the unlock, so other threads run in between.   *)
(* As C++ asks of every object, nobody calls submit() on a pool that is    *)
(* not constructed or whose destructor has begun.                          *)

\* Mutation: no notification.
SubmitSilently(c, t) ==
  /\ owner = "ready"
  /\ client[c] = "idle"
  /\ t \notin SeqSet(submitted)
  /\ ~queue_mutex
  /\ tasks_queue' = Append(tasks_queue, t)
  /\ submitted'   = Append(submitted, t)
  /\ UNCHANGED << ownerVars, queue_mutex, worker, request, client, popped >>

Submit(c, t) ==
  /\ owner = "ready"
  /\ client[c] = "idle"
  /\ t \notin SeqSet(submitted)
  /\ ~queue_mutex
  /\ tasks_queue' = Append(tasks_queue, t)
  /\ submitted'   = Append(submitted, t)
  /\ client'      = [client EXCEPT ![c] = "notify"]
  /\ UNCHANGED << ownerVars, queue_mutex, worker, request, popped >>

NotifyOne(c) ==
  /\ client[c] = "notify"
  /\ client' = [client EXCEPT ![c] = "idle"]
  /\ \/ /\ \A w \in Workers : worker[w] # "waiting"
        /\ UNCHANGED worker
     \/ \E w \in Workers :
          /\ worker[w] = "waiting"
          /\ worker' = [worker EXCEPT ![w] = "woken"]
  /\ UNCHANGED << ownerVars, queue_mutex, tasks_queue, request, historyVars >>

-----------------------------------------------------------------------------
(* run(), the body of a pool thread.                                       *)

\* while (!stop): stop is read outside the mutex and ~ThreadPool writes it, a
\* data race.  The loop makes opaque calls, so the build does read memory each
\* time round; what it reads is the value written or, for a while, the old one.
CheckStop(w) ==
  /\ Alive
  /\ worker[w] = "loop"
  /\ \/ worker' = [worker EXCEPT ![w] = "lock"]
     \/ stop /\ worker' = [worker EXCEPT ![w] = "exited"]
  /\ UNCHANGED << ownerVars, queue_mutex, tasks_queue, request, clientVars,
                  popped >>

\* Mutation: the mutex is not waited for.
AcquireAnyway(w) ==
  /\ Alive
  /\ worker[w] \in {"lock", "woken"}
  /\ queue_mutex' = TRUE
  /\ worker' = [worker EXCEPT ![w] = "locked"]
  /\ UNCHANGED << ownerVars, tasks_queue, request, clientVars, popped >>

\* unique_lock lk(queue_mutex), and the re-acquisition that ends a wait.
Acquire(w) ==
  /\ Alive
  /\ worker[w] \in {"lock", "woken"}
  /\ ~queue_mutex
  /\ queue_mutex' = TRUE
  /\ worker' = [worker EXCEPT ![w] = "locked"]
  /\ UNCHANGED << ownerVars, tasks_queue, request, clientVars, popped >>

\* Mutation: condition.wait(lk) without a predicate.
WaitUnconditionally(w) ==
  /\ Alive
  /\ worker[w] = "locked"
  /\ queue_mutex' = FALSE
  /\ worker' = [worker EXCEPT ![w] = "waiting"]
  /\ UNCHANGED << ownerVars, tasks_queue, request, clientVars, popped >>

\* The predicate of condition.wait is false: release and sleep, atomically.
Wait(w) ==
  /\ Alive
  /\ worker[w] = "locked"
  /\ tasks_queue = << >>
  /\ queue_mutex' = FALSE
  /\ worker' = [worker EXCEPT ![w] = "waiting"]
  /\ UNCHANGED << ownerVars, tasks_queue, request, clientVars, popped >>

\* A condition variable may wake a waiter nobody notified.
SpuriousWakeup(w) ==
  /\ Alive
  /\ worker[w] = "waiting"
  /\ worker' = [worker EXCEPT ![w] = "woken"]
  /\ UNCHANGED << ownerVars, queue_mutex, tasks_queue, request, clientVars,
                  popped >>

\* Mutation: front() without pop().
TakeWithoutPop(w) ==
  /\ Alive
  /\ worker[w] = "locked"
  /\ tasks_queue # << >>
  /\ Len(popped) < Cardinality(Tasks)
  /\ popped' = Append(popped, Head(tasks_queue))
  /\ worker' = [worker EXCEPT ![w] = "loop"]
  /\ queue_mutex' = FALSE
  /\ UNCHANGED << ownerVars, tasks_queue, request, clientVars >>

\* Mutation: the mutex is released before process().
TakeAndUnlock(w) ==
  /\ Alive
  /\ worker[w] = "locked"
  /\ tasks_queue # << >>
  /\ tasks_queue' = Tail(tasks_queue)
  /\ popped' = Append(popped, Head(tasks_queue))
  /\ worker' = [worker EXCEPT ![w] = "process"]
  /\ request' = [request EXCEPT ![w] = Head(tasks_queue)]
  /\ queue_mutex' = FALSE
  /\ UNCHANGED << ownerVars, clientVars >>

\* The predicate is true: front(), pop(), and the test of the pointer.  A null
\* request ends the iteration, whose closing brace releases lk.
Take(w) ==
  /\ Alive
  /\ worker[w] = "locked"
  /\ tasks_queue # << >>
  /\ tasks_queue' = Tail(tasks_queue)
  /\ popped' = Append(popped, Head(tasks_queue))
  /\ IF Head(tasks_queue) \in NullTasks
       THEN /\ worker' = [worker EXCEPT ![w] = "loop"]
            /\ queue_mutex' = FALSE
            /\ UNCHANGED request
       ELSE /\ worker' = [worker EXCEPT ![w] = "process"]
            /\ request' = [request EXCEPT ![w] = Head(tasks_queue)]
            /\ UNCHANGED queue_mutex
  /\ UNCHANGED << ownerVars, clientVars >>

\* process() returns, still under the mutex; the iteration ends and frees it.
ProcessReturns(w) ==
  /\ Alive
  /\ worker[w] = "process"
  /\ worker' = [worker EXCEPT ![w] = "loop"]
  /\ request' = [request EXCEPT ![w] = NoTask]
  /\ queue_mutex' = FALSE
  /\ UNCHANGED << ownerVars, tasks_queue, clientVars, popped >>

-----------------------------------------------------------------------------
(* ~ThreadPool().                                                          *)

Destroy ==
  /\ owner = "ready"
  /\ \A c \in Clients : client[c] = "idle"
  /\ owner' = "dtor_lock"
  /\ UNCHANGED << work_threads, queue_mutex, stop, tasks_queue, worker,
                  request, clientVars, popped >>

\* Mutation: stop is set and the threads are joined without the mutex.
DestructorLocksNothing ==
  /\ owner = "dtor_lock"
  /\ owner' = "dtor_stop"
  /\ UNCHANGED << work_threads, queue_mutex, stop, tasks_queue, worker,
                  request, clientVars, popped >>

DestructorLocks ==
  /\ owner = "dtor_lock"
  /\ ~queue_mutex
  /\ queue_mutex' = TRUE
  /\ owner' = "dtor_stop"
  /\ UNCHANGED << work_threads, stop, tasks_queue, worker, request,
                  clientVars, popped >>

DestructorStops ==
  /\ owner = "dtor_stop"
  /\ stop' = TRUE
  /\ owner' = "dtor_notify"
  /\ UNCHANGED << work_threads, queue_mutex, tasks_queue, worker, request,
                  clientVars, popped >>

DestructorNotifiesAll ==
  /\ owner = "dtor_notify"
  /\ worker' = [w \in Workers |->
                  IF worker[w] = "waiting" THEN "woken" ELSE worker[w]]
  /\ owner' = "dtor_join"
  /\ UNCHANGED << work_threads, queue_mutex, stop, tasks_queue, request,
                  clientVars, popped >>

\* The loop of join() calls ends when every thread has returned; only then is
\* the unique_lock of the destructor released.
DestructorJoins ==
  /\ owner = "dtor_join"
  /\ \A w \in Workers : worker[w] = "exited"
  /\ owner' = "destroyed"
  /\ queue_mutex' = FALSE
  /\ UNCHANGED << work_threads, stop, tasks_queue, worker, request,
                  clientVars, popped >>

-----------------------------------------------------------------------------
Constructor == CheckArguments \/ SpawnWorker \/ SpawnFails \/ ConstructorReturns

Destructor == DestructorLocks \/ DestructorStops \/ DestructorNotifiesAll
                \/ DestructorJoins

\* One iteration of run(), by its own thread.
RunStep(w) == CheckStop(w) \/ Acquire(w) \/ Wait(w) \/ Take(w)
                \/ ProcessReturns(w)

Next ==
  \/ Constructor
  \/ UnwindTerminates
  \/ \E c \in Clients : NotifyOne(c) \/ \E t \in Tasks : Submit(c, t)
  \/ \E w \in Workers : RunStep(w) \/ SpuriousWakeup(w)
  \/ Destroy
  \/ Destructor

Spec == Init /\ [][Next]_vars

\* The scheduler runs every thread that can run, and process() returns.
\* Nobody is obliged to submit, to destroy the pool or to wake spuriously, the
\* unwinding may block, and the mutex promises its waiters no order.
Fairness ==
  /\ WF_vars(Constructor)
  /\ WF_vars(Destructor)
  /\ \A c \in Clients : WF_vars(NotifyOne(c))
  /\ \A w \in Workers : WF_vars(RunStep(w))

FairSpec == Spec /\ Fairness

-----------------------------------------------------------------------------
(* The pool is an executor that runs one submission at a time.             *)

Running == {request[w] : w \in {v \in Workers : worker[v] = "process"}}

Executor == INSTANCE SerialExecutor WITH pending <- tasks_queue,
                                         running <- Running,
                                         begun   <- popped

\* The pool implements SerialExecutor: submissions start in the order they
\* were accepted, each at most once, and never two at the same time, however
\* many threads the pool has.
ImplementsExecutor == Executor!Spec

-----------------------------------------------------------------------------
(* Properties.                                                             *)

\* Every variable has the type of the field it models.
TypeOK ==
  /\ owner \in OwnerPc
  /\ work_threads \in {0} \cup Workers
  /\ queue_mutex \in BOOLEAN
  /\ stop \in BOOLEAN
  /\ tasks_queue \in Seq(Tasks)
  /\ worker \in [Workers -> WorkerPc]
  /\ request \in [Workers -> Tasks \cup {NoTask}]
  /\ client \in [Clients -> {"idle", "notify"}]
  /\ submitted \in Seq(Tasks)
  /\ popped \in Seq(Tasks)

\* queue_mutex really excludes: it is held exactly while one thread, a worker
\* in the body of run() or the destructor, is inside, and never by two.
MutexOwnership ==
  /\ queue_mutex <=> (OwnerHolds \/ \E w \in Workers : Holds(w))
  /\ \A w \in Workers : Holds(w) =>
       /\ ~OwnerHolds
       /\ \A v \in Workers : Holds(v) => v = w

\* No lost wakeup: while a submission is queued and the pool is not being
\* destroyed, either some submit() still has to notify, or some worker is up
\* and will look at the queue.  submit() notifies after it has unlocked, and a
\* notification nobody waits for is gone, so this is not obvious.
NoLostWakeup ==
  owner = "ready" /\ tasks_queue # << >> =>
    \/ \E c \in Clients : client[c] = "notify"
    \/ \E w \in Workers : WillLook(w)

\* Submissions leave the queue in the order they entered it, none is lost
\* and none is handed to two workers.
FirstInFirstOut == submitted = popped \o tasks_queue

\* A constructor that threw leaves no thread of the pool behind it.
NoThreadAfterThrow ==
  owner = "failed" => \A w \in Workers : worker[w] = "none"

\* Once ~ThreadPool waits in join() with the mutex held, a worker that needs
\* the mutex never gets any further: the destructor cannot return.
ParkedForEver ==
  [][ \A w \in Workers :
        (owner = "dtor_join" /\ Parked(w)) => (Parked(w))' ]_vars

\* A pool that is not being destroyed gets to every submission.
EverySubmissionTaken ==
  \A t \in Tasks :
    (t \in SeqSet(submitted)) ~> (t \in SeqSet(popped) \/ owner # "ready")
=============================================================================
