# redis-migrate: a verification development

redis-migrate is a Redis module. `rm.migrate host port slot key` registers a key
as migrating; from then on a command filter strips the commands that address the
key. A worker pool that is meant to carry out the migrations, a small logger and
the hiredis client library are compiled into the same shared object.

This directory models that program in TLA+, checks the models with TLC and
proves the main safety properties with TLAPS. Paths below are relative to the
directory `src/` of the repository.

Contents: [inventory](#inventory) · [modules](#modules) · [runs](#runs) ·
[fairness](#fairness) · [proofs](#proofs) · [disagreements](#disagreements) ·
[limits](#limits) · [plan](#plan)

## Inventory

| part | source | state | operations |
|---|---|---|---|
| worker pool | `thread_pool.{h,cpp}` | vector of threads, `tasks_queue`, `queue_mutex`, `condition`, `stop` | constructor, `submit`, `run` (each thread), destructor |
| registry and `rm.migrate` | `redis_migrate.{h,cpp}` | `migrating` (key to object), `isMigrating`, `mLog`, `filter` | `RedisModule_OnLoad`, `rm_migrateCommand`, `initLogObj`, `findMigrating` |
| command filter | `redis_migrate.cpp` | the argument list of one command, `pos`, `isMigratingKey` | `rm_migrateFilter` |
| log | `log.{h,cpp}` | none | `migrateLogRaw`, `nolocks_localtime` |
| asynchronous client | `hiredis/async.c` | flags, error, lists `replies` and `sub.invalid`, dictionaries of subscriptions, the two buffers | the `redisAsyncHandle...` event handlers, `redisAsyncCommand`, `redisAsyncDisconnect`, `redisAsyncFree` |
| reply reader | `hiredis/read.c`, object constructors in `hiredis.c` | byte buffer and position, stack of tasks, the reply being built | `redisReaderFeed`, `redisReaderGetReply` |
| command formatting | `hiredis/hiredis.c` | the words so far, the length of the result | `redisvFormatCommand`, `redisFormatCommandArgv`, `redisFormatSdsCommandArgv` |
| connection and buffers | `hiredis/hiredis.c`, `net.c` | descriptor, copies of the parameters, output buffer, reader, error | connect, reconnect, free, append, `redisBufferRead`, `redisBufferWrite`, `redisGetReply` |
| dictionary | `hiredis/dict.c` | table of chains, its size and number of entries, an iterator | `dictReplace`, `dictDelete`, `dictFind`, `dictExpand`, `dictNext`, `dictRelease` |
| dynamic strings | `hiredis/sds.c` | bytes, length and room | grow, catenate, cut, print numbers |
| event library adapters | `hiredis/adapters/*.h`, `async_private.h` | the events an adapter watches for, its timer, who frees it | attach, `addRead` and its sisters, `scheduleTimer`, `cleanup`, the library's calls back |
| TLS transport | `hiredis/ssl.c` | `wantRead`, `pendingWrite`, `lastLen` | `redisSSLConnect`, `redisSSLAsyncRead`, `redisSSLAsyncWrite`, `redisSSLWrite` |
| allocators, socket compatibility | `hiredis/alloc.c`, `sockcompat.c` | none | wrappers |

How they interact today. The server calls the module: it loads it, runs its
command and passes every command through its filter. The module calls the
server back (`RM_Call` for the name of the log file), and that call passes the
module's own filter. Nothing instantiates the pool yet, and hiredis is linked but
not called. The pool and the client are therefore modelled with arbitrary callers,
within what their headers and documentation allow, so that the results are there
when the module starts to use them.

Inside hiredis, an event library calls an adapter, the adapter calls
`redisAsyncHandle...`, which reads or writes through the connection or through
`ssl.c`; the reader makes replies of the bytes; `redisProcessCallbacks` finds for
each reply its callback, in a list or in a dictionary, and calls it; the callback
may call back into all of this. A synchronous program calls `redisGetReply`
instead, which drives the same buffers itself.

What is hard in each part, and what makes it correct:

* **Pool.** Threads that sleep and are woken, a notification sent after the
  mutex is released, a flag read outside the mutex, a constructor that fails
  half-way, a destructor that waits for threads. Correct if: the mutex excludes,
  no submission is forgotten, lost, duplicated or reordered, a failed
  construction leaves no thread, destruction ends.
* **Registry.** Requests arrive one at a time, but a command in a transaction is
  filtered when it is queued and executed later. Loading can fail between two
  registrations. Numbers pass through double, int and size_t. Correct if: the
  registry is bounded, nothing is accepted without the guard being up, the first
  request of a key stands, and a migrating key does not change.
* **Filter.** It deletes from the list it walks over. Correct if the loop
  computes its closed form for every command, and ends.
* **Log.** Two loops over years and months, an array of twelve. Correct if the
  date is the calendar's and the index stays inside the array.
* **Asynchronous client.** One thread, but user code runs in the middle of each
  loop and may send, disconnect or free; replies carry no name and are matched by
  position; subscriptions, timeouts and errors cut across. Correct if every
  callback gets its own reply, once, in whatever order things end, and a
  disconnection is clean and complete.
* **Reader and formatting.** A reply arrives in any pieces and nests to any
  depth; lengths come from the wire. Correct if the replies do not depend on the
  cutting, errors are reported where they are, everything built can be freed, and
  no byte is written beyond what was allocated.
* **Connection.** A dozen system calls, each with its own way out of a loop over
  addresses; reconnects that use what an earlier attempt has left; writes that
  stop half-way. Correct if there is one socket and none leaks, every byte goes out
  once, replies come back in order, and calls return.
* **Dictionary.** Rehashing, failing allocations, deletion under an iterator.
  Correct if it is a map, and an iterator meets all of it.
* **Adapters and TLS.** Three parties remember what is awaited: the client, the
  adapter, the library; with TLS a write can wait for a read and a read for a
  write. Objects are freed while the library still has events for them. Correct if
  nothing is used after it is freed, what is needed is watched, and commands get
  written.

`PROJECT.json` lists the hazards one by one, with the line where each bites and
the properties about it.

## Modules

| module | what it is |
|---|---|
| `ThreadPool` | the pool: owner, clients and workers as program counters |
| `SerialExecutor` | abstract: what the pool promises, with no thread in sight |
| `ThreadPoolProofs` | theorems about `ThreadPool`, and that it implements `SerialExecutor` |
| `FilterRule` | the closed form of the filter |
| `CommandFilter` | the loop of the filter, one turn per action |
| `RedisMigrate` | the module inside a server; it uses `FilterRule` |
| `RedisMigrateProofs` | theorems about `RedisMigrate`, and that `CommandFilter` computes `FilterRule` |
| `LocalTime`, `LocalTimeProofs` | `nolocks_localtime`, and that it is the Gregorian calendar |
| `AsyncClient`, `AsyncClientProofs` | the asynchronous client, its event loop, user and server, and theorems |
| `Sds` | the operations on dynamic strings that the next two stand on |
| `ReplyReader` | the reader: buffer, stack of tasks, the objects it makes |
| `CommandFormat` | the three functions that write a command |
| `ProtocolProofs` | theorems about `ReplyReader` and `CommandFormat` |
| `Connection`, `ConnectionProofs` | a `redisContext` from connecting to freeing, and theorems |
| `Dictionary`, `DictionaryProofs` | the hash table, and theorems |
| `CallbackMap` | abstract: a map from channels to callbacks |
| `EventLoop`, `EventLoopProofs` | the eight adapters and TLS under an event library, and theorems |
| `MCProtocol` | composes `ReplyReader` and `CommandFormat`: what is formatted is read; byte streams, and what they mean |
| `MCRedisMigrate`, `MCLocalTime`, `MCAsyncClient`, `MCConnection`, `MCDictionary`, `MCEventLoop` | instances for TLC |

Operators named `...` plus a fault (`TakeWithoutPop`, `FreeEndsEarly`) under a
comment `Mutation:` are variants of the operator that follows them. No
specification uses them; they show that each property can be broken by a
plausible slip in the code.

### ThreadPool

An action is what one thread does between two points at which another can be
scheduled: acquiring or releasing `queue_mutex`, waiting on or notifying
`condition`, reading `stop`.

| code | actions |
|---|---|
| `ThreadPool::ThreadPool` | `CheckArguments`, `SpawnWorker`, `SpawnFails`, `UnwindTerminates`, `ConstructorReturns` |
| `submit` | `Submit` (the locked block), `NotifyOne` (after it) |
| `run` | `CheckStop`, `Acquire`, `Wait`, `SpuriousWakeup`, `Take`, `ProcessReturns` |
| `~ThreadPool` | `Destroy` (the call), `DestructorLocks`, `DestructorStops`, `DestructorNotifiesAll`, `DestructorJoins` |

`queue_mutex` is only a bit; who is inside is read off the program counters, so
that exclusion is a theorem and not the shape of a variable. `stop` is read and
written without synchronisation; a worker may see the old value. As C++ asks of
any object, clients call `submit` between construction and destruction. A
submission is made once; `Tasks` therefore bounds a behaviour.

### RedisMigrate, FilterRule, CommandFilter

The server runs commands one at a time, so a command is one action: filter, look
up, check the arity, execute. `Command` is a command outside a transaction;
`Multi`, `Queue` and `Exec` are a transaction of one command, filtered in `Queue`
and executed in `Exec`. `rm_migrateCommand` follows the handler's early returns
in their order (`Outcome`), then `Accept` or `Refuse`. Note in it that
`initLogObj` runs after the test of the registry's size and before that of the
key, and that its own `RM_Call` is filtered. The answer has two items or another
number of them (`AskLogfile`); in the latter case the request goes on without a log
file, and is accepted. `withheld` remembers that the server has seen the whole question
and not answered it so.

`RedisModule_OnLoad` is a sequence of steps, `Initialise`, `CreateCommand` and
`RegisterFilter`, and each can fail; whatever has been created by then stays until the
server takes it back (`TakeBack`), and the module can be loaded again. The server
is single-threaded and serves no client meanwhile (`Serving`).

Commands are sequences of words. The registry maps keys to host, port and slot;
`Guarded` is the set of keys for which `findMigrating(...).hostLen > 0`. Numbers
are kept in halves so that a fraction can be cut off; `IntLimit` and `SizeLimit`
stand for 2^31 and 2^64.

`CommandFilter` is the loop itself, on one command, with `args` shrinking under
`pos`. Its result is `FilterRule`'s `Filtered`, and `RedisMigrate` uses that
instead of the loop.

### LocalTime

`Clock` is the arithmetic before the loops, `NextYear`/`YearFound` and
`NextMonth`/`MonthFound` are their turns and exits. An instant is a day and a
second of the day, which keeps dates after 2038 within TLC's integers.

### AsyncClient

`pc` says which loop of which handler is running; `reply_cb`, `push_cb`,
`timeout_cb` and `free_cb` are user code called from the middle of one. User code
can send a command (`__redisAsyncCommand`), disconnect or free, any number of
times, before `CallbackReturns`.

| code | actions |
|---|---|
| `redisAsyncHandleRead`, `...Write`, `__redisAsyncHandleConnect` | `HandleConnect`, `ConnectReturns`, `HandleRead`, `HandleWrite`, `NothingToWrite`, `SocketFails` |
| `redisProcessCallbacks` | `NoMoreReplies`, `PushReply`, `RegularReply`, `SpontaneousError`, `AssertionFails`, `ChannelReply`, `InvalidReply`, `ReaderFails` |
| `redisAsyncHandleTimeout` | `HandleTimeout`, `TimeoutCallsBack`, `TimeoutEnds` |
| `__redisAsyncFree` | `FreeCallsBack`, `FreeEnds` |
| the user's calls | `__redisAsyncCommand`, `redisAsyncDisconnect`, `redisAsyncFree` |
| the server (external) | its answers in `HandleWrite`; `Notice`, `Reject`, `Close` |

`__redisRunCallback` and `__redisAsyncDisconnect` are operators, used wherever
the code calls the functions. `pc = "aborted"` is a failed assertion.

Simplifications, and why they lose nothing the properties see: the server's
answer is on the wire as soon as the command is written, but is read later, in
any portion; what the server does of its own happens when no handler runs, since
no handler could see it before the next event; a write of several commands is
several writes; `redisFree` empties the buffers at the beginning of the freeing,
after which nothing reads them; channels and patterns, which the code treats
alike, are one dictionary. The constant `Patient` restricts the *user* (`InTurn`):
behind an UNSUBSCRIBE that is unanswered no plain command and no second
UNSUBSCRIBE is sent, and one unsubscribes only from what one has subscribed to.
With `Patient = FALSE` disagreements with the documentation show (below).

### ReplyReader, CommandFormat, MCProtocol

Bytes are bytes: a stream is a sequence of characters, fed in pieces of any
length. `ReadType`, `processLineItem`, `processBulkItem` and
`processAggregateItem` are `processItem`; each is taken only when the buffer holds
enough, and `NeedMore` when it does not. `redisReaderFeed` and the compaction in `Return`
are the other half. `Grown` and `GrowFails` are
`redisReaderGrow`. Objects are positions in `heap`, in the order of their creation,
with the parent and the slot they hang in. `MaxBuf`, `CompactAt`, `StackSize` and
`MaxElements` are the library's constants (16384, 1024, 9 and the default of
`maxelements`), small here so that each is met; `IntMax` and `LLMax` are the widths
of int and long long, in which counts wrap and are refused.

A format is a sequence of tokens, one for each conversion; the loops of the three
functions are one action per token or word (`CountArgument` and `WriteArgument` are the
two loops over the words), and `totlen` is compared with what is written. A caller
passes an argument for every conversion, since `va_arg` behind the last one is undefined
(`FormatAssumption`). `ReaderSpec` and `FormatSpec` are the two parts by themselves:
a reader under any bytes whatever, and one formatting call. `MCProtocol` has the definition of the protocol as a recursive encoding
of replies, against which the reader's output is compared, and lets a server read
the commands the formatting has written.

### Connection

| code | actions |
|---|---|
| `redisConnectWithOptions`, `redisContextInit` | `redisConnectWithOptions`, `SetCommandTimeout` |
| `_redisContextConnectTcp` | `CopyParameters`, `Resolve`, `TryAddress`, `Bind`, `Connect`, `WaitReady`, `ConnectEndsWell` |
| `redisContextConnectUnix` | `redisCreateSocket`, then the same |
| `redisReconnect`, `redisFree`, `redisFreeKeepFd`, `redisSetTimeout`, `redisEnableKeepAlive` | by name |
| `redisAppendCommand` and its sisters, `redisBufferWrite` | by name |
| `redisBufferRead` | `BufferReads`, `BufferReadsNothing` |
| `redisGetReply` | `redisGetReply`, `PendingReply`, the buffer calls, `ReplyRead`, `ReaderFails` |
| the server, the process | `Push`, `OtherOpens`, and the answers in `Written` |

Every failure of every system call is a disjunct, with the error the code sets or
forgets to set. `open` is the set of descriptors of the process, so that a
descriptor closed twice, when somebody else may have got its number, is visible.
Commands and replies are two bytes: enough to be cut. The reader is taken as
`ReplyReader` has it: a reply is there as soon as its last byte has been fed.

### Dictionary, CallbackMap

A chain is a sequence of keys. `dictReplace` is begun in one action and then goes
through `ExpandMove` (one turn of the loop in `dictExpand`), `ExpandEnd`, `Insert`
and `Update`; `dictNext` is one action with the saved pointer in `iter.next`. Any
allocation may fail. `ImplementsMap`: to its user the table, in the middle of an
expansion too, is the union of both tables, and a map.

### EventLoop

An adapter is a record of what distinguishes it (`Each` and its eight variants):
whether it saves calls to the library, whether it has a timer and how setting it
touches the other events, who frees it and when, what a failed attachment leaves,
and whether one call of the library brings several events. A hook is about one event
and leaves the other as the library has it (`Watch`, `Unwatch`): ivykis and macosx start
with both watched, and an `addRead` does not end the watch for writing. A
read can also be reported with nothing to read, which is the end of file of a server
that has closed an idle connection.

| code | actions and operators |
|---|---|
| `redisXxxAttach` | `Attach` |
| the adapters' `addRead`, `addWrite`, `delWrite`, timers, with `_EL_ADD_READ`... | `Add`, `Del`, `Refresh`, `SetTimer` |
| `cleanup`, `on_close`, `~RedisQtAdapter` | `Cleanup`, `on_close`, `QtAdapterDeleted` |
| the library's calls, `redisLibeventHandler`, `redis_source_check`/`dispatch` of glib | `Poll`, `Skip`, `Leave` |
| `redisAsyncHandleRead`, `...Write`, `...Timeout`, `__redisAsyncHandleConnect` | `redisAsyncRead`, `redisAsyncWrite`, `HandleTimeout`, `HandleConnect`, `ConnectDone` |
| `__redisAsyncDisconnect`, `redisAsyncFree`, `redisAsyncCommand` | `Disconnect`, `Gone`, `redisAsyncFree`, `redisAsyncCommand`, `Callbacks` |
| `redisSSLConnect`, `redisSSLAsyncRead`, `redisSSLAsyncWrite` | by name, with `SSLWritten` for `redisSSLWrite` |
| OpenSSL, the socket, the server (external) | `WriteOutcomes`, `TakeRecords`, `Drains`, `Handshake`, `Record` |

`AsyncClient` looks at lists and callbacks and leaves events aside; `EventLoop`
looks at events and counts commands. They meet in the handlers: each of
`EventLoop`'s stands for a complete run of one of `AsyncClient`'s, with a callback
that may send or free.

## Runs

All counts are distinct states. Deadlock is checked in the registry's runs, where
a server always has a next command, and not in the others, in which a pool may be
idle or hung, a function has returned, a stream has been read or a context is gone.

| run | what it shows |
|---|---|
| `pool_safety` | three workers, two clients, three submissions (one null): all safety properties of the pool, refinement of `SerialExecutor`, `ParkedForEver` (a destructor that has reached `join` with a worker asleep never returns), and `EverySubmissionTaken` under fairness |
| `migrate_registry` | 265,240 states: two clients, both with transactions, three keys, requests good and bad, a load that fails at each step and is tried again, a server that names its log file or does not: types, bound, guard and log file, first request wins, and the two ways in which a guarded key can change |
| `migrate_multikey` | *violation* of "do not allow change" by a command that names the key behind another word |
| `filter_loop` | every command of one to five words over three, every set of guarded keys: result, one log line per cut, termination |
| `time_dates` | 71,418 states: first and last days of years and of February in common, leap and century years between 1970 and 2101: date and day of the week, the index inside the array |
| `async_replies` | 5,979,004 states: two plain commands, two SUBSCRIBEs and an UNSUBSCRIBE of one channel, RESP2 and RESP3, with and without `NO_AUTO_FREE`: six invariants |
| `async_live` | 50,936 states: `DisconnectCompletes` under fairness, with impatient users, so that the assertion of `async.c:566` can fail too |
| `protocol` | 393,000 states: 28 byte streams in every cutting, every failing allocation of the stack and the buffer; 13 commands formatted in three ways and read back: replies as sent, errors where they are, nothing lost, room for every byte |
| `dictionary` | 478,000 states: five keys, expansions from two to eight chains, failing allocations, deletion under an iterator: the table is sound, iteration complete, and it implements `CallbackMap` |
| `connection` | 161,177 states: contexts over TCP, a Unix socket and a given descriptor, blocking or not, every failure of every call, two commands, a push, reconnects without bound: five invariants, and calls return |
| `events` | 171,398 states: eight adapters, plain and TLS, kept or freed, with timers where there are any, three commands, two unasked TLS records: memory, interests, and under fairness commands are written and an idle loop is quiet |
| `tls_stall` | *violation* of "Need to read-before-write" (`ssl.c:502`): a command stays unwritten although TLS has nothing to read |

Why the bounds are enough to be interesting. Three workers are the least with
which one can be inside, one woken and one asleep; two clients can both have
unlocked and not yet notified; three submissions give a queue of two behind one
that runs. In the registry, `MAX_MIGRATEING_NUM = 2` with three keys fills it
with one key to spare; one key is named `get`, so that the module's own
`config get logfile` would be filtered if the order were wrong; a host equal to a
key, an empty host, a fraction, a negative number, a number beyond int and a word
that is no number are among the requests. In the filter the behaviour is decided
by the second word, and five words make the tail longer than the head. In the
client, two SUBSCRIBEs around an UNSUBSCRIBE of the same channel are the case
that `pending_subs` is for; one plain command has a callback and one has not;
one message or push of the server's own (`MaxNotices`) can be anywhere between
the answers.

In the reader, the stack starts with two tasks, so that arrays nested five deep
grow it twice; compaction happens at five bytes and the buffer is given up at six
free ones, both in the middle of replies; the streams have every type, empty and
nil aggregates last in their parents, numbers at both ends of `LLMax` and beyond,
and each way to be wrong. In the connection, two addresses and three retries make
each exit of the loop reachable with a socket of an earlier round behind it, and
two commands of two bytes let a write stop inside either. In the dictionary, the
hashes put two keys together at every size, three until there are eight chains. In
the event loop, three commands allow one written, one being retried and one
appended behind it; a second unasked record can meet the write that the first has
set free.

`PROJECT.json` names for every property of every passing run a mutation of a
modelled definition that violates it.

## Fairness

* **Pool**: weak fairness of each thread, the constructor and the destructor. A
  scheduler runs a thread that can run; `process()` belongs to the request
  and is assumed to return. No fairness of clients (nobody must submit), of destruction, of
  spurious wakeups, of unwinding (`~condition_variable` may block). Fairness of
  the mutex is not assumed: a worker that finds it taken whenever it is
  scheduled may wait for ever, while others serve the queue.
* **Filter**: one function call that runs on.
* **Client**: weak fairness of `Handler` (a handler or callback once begun goes
  on, and user callbacks return); strong fairness of the events an event loop
  reports as long as the socket is ready, which other events may briefly
  interrupt: connect, write, read, failure of the socket. None of timers, users
  or of a server's closing.
* **Connection**: weak fairness of the code inside a call, and strong fairness of a
  read that gets at least a byte when bytes are on their way: a blocking read on a
  server that answers, interrupted (EINTR) now and then but not for ever. None of
  the user's calls. `CallsReturn` therefore holds for `redisGetReply` only as
  long as a command is unanswered; without one it waits for the server, as it must.
* **Events**: weak fairness of handlers once called, of the socket's emptying and of
  the record TLS waits for; strong fairness of the library's reporting what is ready
  and watched (reading, when there is something to read, and writing
  separately), of the connection's being made, and of a writable socket's taking bytes. None of timers, of records the
  server sends of its own accord, or of the user.

## Proofs

All proofs are checked by tlapm to the last leaf. Assumptions are the named
`ASSUME`s of the modules, which TLC evaluates in each run: shapes of the
constants only (`num` and `max` any integers; any finite set of keys; any commands
with known names; any number of addresses, retries and commands; any set of
setups of the eight adapters).

* **`ThreadPoolProofs`**: `Spec => []IInv`, where `IInv` joins the type invariant
  with: how far construction has got and which workers exist (`Startup`), `stop`
  set only from the destructor's notification on (`Shutdown`), a worker holds a
  request exactly while it processes (`RequestHeld`), and the three properties
  `MutexOwnership`, `NoLostWakeup`, `FirstInFirstOut`, each inductive relative to
  the others. Without `Startup` a constructor could finish with fewer threads than
  `num` and a submission would have nobody to look at it; without `Shutdown` all
  workers could have left while the pool is in use. From `IInv` follow
  `MutualExclusion`, `WakeupNotLost`, `Fifo`, `ThrowLeavesNoThread`, the action
  property `DestructorBlocks` and the refinement `PoolImplementsExecutor`, in which
  `Submit`, `Take` and `ProcessReturns` map to `Accept`, `Begin` and `Finish`
  and everything else to a stutter.
* **`RedisMigrateProofs`**: `IInv` adds to the properties which of the command and
  the filter there are after each step of a load, failed ones included (`LoadInv`),
  and that a request waits in a transaction only when the module is loaded: that is why
  `Exec` cannot fill a registry nobody guards. Then `RegistryLimit`, `Guarding` (before
  a key is guarded, the log file is known, or was asked for unfiltered and
  withheld), `FirstWins`, and
  `GuardedKeysChange`: the exact extent to which "do not allow change" is true.
  Of the filter's loop (`LoopTypeCorrect`, `LoopComputesFilter`): its invariant
  `LoopIInv` says that before the key is found nothing was deleted and the words passed
  were not it, and that afterwards `pos` stays at 1. `LoopComputesFilter`, which counts
  the log lines too, holds for commands of any length.
* **`LocalTimeProofs`**: the days accounted for by the loops, in closed form, plus
  the days left are the day to be converted (`CalendarInv`). `YearAdvances` and
  `MonthAdvances` are the calendar facts it rests on; `GaussRule` and `WeekInv`
  carry the day of the week. `DatesAreRight` and `MonthInArray` hold for every
  instant from 1970 on.
* **`ConnectionProofs`**: `IInv` adds to the type invariant what each place of the
  connect code knows of the descriptor (`Descriptors`): below `Connect` there is one
  and it is new, in the loop before it there is none, which is why no exit leaks. 
  `Counters` bounds the retries and links the commands issued to those appended;
  `AsAsked` says which options the socket already has at which place; `Buffers`
  that the bytes sent and kept are those appended. `Replies` puts what has been
  returned and what is still in the reader or on its way in one `Line` of numbers: a
  reply is never before an earlier command's, and while the reader has not failed
  all that is answered is there. Four things happen to a line: answers or a push
  are put behind it (`OrderedGrows`, `OrderedPush`), a push is taken out of its middle
  (`OrderedDrops`), the rest is lost with the reader (`OrderedPart`). Delivering only
  moves the border between its two halves. Then `DescriptorsAreSound`,
  `EveryByteOnce`, `RepliesAreInOrder`, `NeverWaitsInVain` and `AlwaysAsAsked`.
* **`EventLoopProofs`**: `IInv` follows the adapter: before it is attached and after
  that has failed (`Detached`), while its context lives (`InUse`), and after
  (`CleanedUp`), with what only some adapters do (`Apart`); `Interests` links the
  three memories of what is awaited to the output buffer and to `pendingWrite`;
  `Counts` follows commands through buffer, server and replies, and gives
  `RetryWithinBuffer`. Most actions are of two kinds (`WorkingSteps`): they change
  only what is watched (`GoesOn`) or end the context (`Ends`), and `GoingOn` and
  `Ending` say once what each kind keeps. `MemoryIsSafe` rests on this argument:
  after `cleanup` the library watches nothing, so what it still has to report is
  void, except for adapters that get several events at once; of these libevent and
  libuv look at their own `deleted` mark first, and glib does not (`GlibTurn`: all it
  can still do to a context that is gone is the read of the same turn).
  `AlwaysWatched` is the safety half of "commands get written".

* **`DictionaryProofs`**: `IInv` says where every key is: in the chain its hash
  names (`Placed`), in one of the two tables while an expansion moves it
  (`MovedOnce`), counted once (`UsedIsCount`). `Calls` is what `dictReplace` knows
  at each place: a key is inserted only where there is room. `Iterating` says
  that all in front of the saved pointer has been seen, and is kept by a deletion
  because `dictNext` saves the pointer before it hands out the entry. Then
  `TableStaysSound`, `IterationMeetsAll`, and `TableIsMap`: a turn of the loop in
  `dictExpand` is a stutter of `CallbackMap`, `Insert` and `Update` are a `Put`.
* **`ProtocolProofs`**: `NothingIsLost` is `StackSound` for any bytes, cut anywhere. Its
  invariant `ReaderInv` has three parts. `Buffers`: the position is in the buffer, whatever
  line or bulk is consumed, and compaction subtracts what it cuts off. `Building`: the
  objects made so far are a `Tree`, and the levels of the stack a `Chain` of aggregates
  that are open, each at an element within the bounds of the one below; no open aggregate
  has an element behind the one its level is at (`AtMost`), and at the top that one is
  still to come (`Below`). Without these a new object could hang in a slot that is in
  use, and freeing the reply would miss one. `moveToNextTask` keeps the last of them although it
  closes any number of full levels in one go: the level where it stops is the first
  that is not full. `Phases` says in which errors and phases nothing is being built.

  `LengthsAgree` is `RoomSuffices` for any format, arguments and words, and wherever
  memory runs out. Two recursive functions meet in it: `sdsull2str` divides by ten and
  `countDigits` by ten thousand. Neither the functions nor the induction come for free:
  `Recursion` shows that a function defined from its own values at smaller
  arguments exists (by approximations on `0..n`, and a least counterexample), which is
  what makes the definitions usable (`sdsull2strIs`, `FourDigitsIs`); `DigitsCounted`
  then is by a least number whose digits are miscounted. The invariant `FormatInv` keeps
  a function `f` of sums, `f[i]` bytes for the first `i` words (`Sums`): while parsing
  `totlen` is the last of them, while counting and writing what is computed and what is
  written are both the header and one of them, and they grow (`SumsGrow`), which is why
  the room suffices on the way too. `ArgumentsTaken` links the arguments consumed to the
  conversions read, without which `va` could run past the arguments.
* **`AsyncClientProofs`**: `AnyUser` holds whatever users do. It adds to the types
  the phases a context goes through (`Phases`: an error is followed by a
  disconnection at once, except in the loop of a timeout; the replies are empty
  when an orderly disconnection begins), that a command sent before any
  subscription stays in `replies` until it is answered (`EarlyWait`: only
  `RegularReply` takes from there while there is no error), and where a context can
  be that the user has asked to free, by the callback in which that was first
  asked (`Freeing`; `AskedOnce`). `SubscribedIsLastTurn` unfolds the
  recursive function of a SUBSCRIBE of several channels, by a least counterexample.
  From it `DisconnectsCleanly` and `FreesArePickedUp`.

  The rest is proved of patient users (`Patient`) whose SUBSCRIBE and UNSUBSCRIBE
  name one channel each (`OneChannel`). Neither is a convenience: both restrict
  what an application does, and the code breaks the properties without them (items
  on UNSUBSCRIBE and on several channels [below](#disagreements)). The invariant,
  `PatientUser`, is about *everything on its way*: `Flight` is the input buffer, the
  wire and the output buffer in one sequence, in the order in which it will be
  read, so that writing a command only moves the border `Written`. Each
  operation is first described by what it does to `Flight` and to `Pending`
  (`replies` and behind them `sub.invalid`): grows, is written, is taken, is cut.
  * `Matched`: an answer belongs to a callback that waits (`Owned`), each waiting one
    has its answer while the server is there (`Owed`), in the order of the
    callbacks (`InOrder`); those of `replies` come before anything about channels
    (`RepliesFirst`), and all of them before an answer to UNSUBSCRIBE
    (`UnsubscribeLast`). The last two are why a reply is looked for in the right one
    of the two lists.
  * `Subscription`: without the flag nothing of a subscription is left; what is read
    about a channel finds its entry; why an entry is there, and what became of a
    subscription; `Counted`, that `pending_subs` is the number of answers to
    SUBSCRIBE still to come (at least that, when the server has gone).
  * `Handled`: the loop does not run with a whole reply unhandled; `Calls`: a callback
    waits or has been called, never both; `Emptied`: nothing waits once all is freed.

  These hold only until the context fails or is being freed (`Alive`); `Calls` goes on
  to the end. `PatientInvariance` joins one lemma per action, and `RepliesAreRight`,
  `CallbacksAreCalledOnce`, `AssertionsHold` and `ModesAgree` follow. Before the proof
  TLC checked the invariant on the instance of `async_replies`, with two channels
  (5.3 million states) and with two plain commands that have callbacks (5.7 million).

Only model-checked: `RepliesAsSent` and `ErrorsWhereTheyAre`, which compare what is
read with a recursive encoding of replies (`Encode`, `Objects` in `MCProtocol`), and
recursive operators are beyond the prover; and all liveness
(`EverySubmissionTaken`, `FilterReturns`, `DisconnectCompletes`, `CallsReturn`,
`Flushed`, `QuietWhenIdle`), which is out of the prover's reach.

## Disagreements

Where the program does not do what a comment, message or document of the
repository says. Two have a run; `PROJECT.json` quotes the lines.

1. `migrate_multikey`: a command with the migrating key behind another word
   changes it, against `redis_migrate.cpp:123`.
2. `tls_stall`: a TLS write that stops because the socket is full, when an earlier
   read has left `wantRead` set, is taken for one that must read first
   (`ssl.c:501`); writability is no longer watched, and the command stays until
   the server happens to send something.

The others are in the models and visible there:

* `~ThreadPool` joins with `queue_mutex` held, and a worker cannot leave
  `condition.wait` without it (`thread_pool.cpp:26`; `ParkedForEver`, proved as
  `DestructorBlocks`).
* A command queued in a transaction before its key was registered changes the key
  at EXEC (`ChangesOnlyUnseen`).
* An entry with an empty host does not count as one, and is replaced
  (`redis_migrate.cpp:90`; `FirstRequestWins` is stated for guarded keys).
* The logger passes 1 for daylight saving whatever the time of the year.
* A plain command behind an unanswered UNSUBSCRIBE is filed under `sub.invalid`,
  and its reply is looked for under `replies`. Two UNSUBSCRIBEs of one channel,
  with another channel subscribed, leave the local `cb` of
  `redisProcessCallbacks` as the turn before has set it, and a plain command's
  callback can be called a second time: with impatient users TLC finds `CalledOnce`
  violated. The constant `Patient` keeps users from both in `async_replies`, so no
  property of that run speaks of these two.
* A free asked for in the push callback is not carried out when the callback returns
  (`async.c:534`), although `async.c:359` says that `redisProcessCallbacks` picks
  the flag up; the context stays, refusing commands, until the next reply to a
  command or an error ends it. In the callback of a command that timed out
  it is left to the disconnection at the end of the loop (`async.c:715`), which leaves a
  `NO_AUTO_FREE` context to the user. `FreeIsPickedUp` names these two cases.
* When `config get logfile` is not answered with two items, the request is accepted all
  the same (`redis_migrate.cpp:50`), and the filter logs through a null name of the log file
  (`redis_migrate.cpp:123`). If a key is registered meanwhile that is a word of the
  question, `get`, the filter cuts the question itself and the name is never learnt.
* A SUBSCRIBE that names several channels carries the count of a channel over to
  the next (`async.c:787`), and a channel's entry can outlive its subscription.
* In RESP2 an error reply to a command sent while subscribed closes the
  connection, although a comment says that it is passed to the callback
  (`async.c:558`, `:805`); in RESP3 the answers to UNSUBSCRIBE go to the push
  handler, and the client stays subscribed in its own eyes (`async.c:534`). This
  is why `ModeAgrees` is stated for RESP2.
* A push that was read together with an earlier reply is returned by the next
  `redisGetReply` as a reply, although `hiredis/README.md:565` says that pushes are
  intercepted.
* `redisBufferWrite` and `redisBufferRead` can return `REDIS_ERR` without
  `c->err`: a write that would block (`hiredis.c:960` promises an error string),
  and several failures while connecting (`FailOpen("none")` in `Connection`).

## Limits

Not modelled, and why:

* in the module: `RM_Call` returning NULL (`redis_migrate.cpp:49` uses the reply
  untested), `MODULE UNLOAD`, pointers into strings that outlive their command
  (`redis_migrate.cpp:91`; nothing dereferences them), expiry, eviction, `FLUSHALL`
  and a restart of the server (they change keys without a command of a client, and
  the registry is not persistent), transactions of several commands (the second
  behaves as the first);
* in the log: formatting, level and file, one write without state;
* in the client: MONITOR (`async.c:521`); allocation failures; a connect callback
  that frees or disconnects, after which the code uses freed memory
  (`async.c:619`); `onConnect` with an error; `redisAsyncDisconnect` after an error
  in a `NO_AUTO_FREE` context with replies pending (`async.c:411`); array replies of plain commands while
  subscribed; shared and nested event loops;
* in the reader: `maxelements` of zero, and arrays so long that their size
  overflows on a 32-bit machine; the position of a line end is an int
  (`seekNewline`), which no stream here outgrows;
* in the formatting: lengths whose sum outgrows the int `totlen` of
  `redisvFormatCommand` and `redisFormatCommandArgv`; argument types of `printf`, and a format that ends inside a
  conversion; the header of a command is written with `%u` formats for sizes;
* in the connection: which addresses `getaddrinfo` returns; memory that runs out in
  `redisContextInit`, before there is a context; reconnecting a context made from
  a descriptor, which has no host (`Endpoint` shows where it leads); a Unix
  context whose path could not be copied, whose reconnect reads NULL (the guard
  of `redisReconnect`); Windows;
* in the dictionary: operations nothing calls (`dictAdd` by itself is inside
  `dictReplace`), and integer overflow of the size;
* in the event loop: an event library's own failures after attaching; that
  CFSocket, unless told otherwise, calls back for writing once and must be asked again; one loop with
  several contexts, which share nothing; OpenSSL's sessions, certificates and
  locks; blocking TLS (`redisSSLRead`'s loop on EINTR); a failure of
  `__redisAppendCommand`, which `__redisAsyncCommand` ignores;
* in the strings: everything but growth, catenation, ranges and numbers; the header
  types, which are a matter of memory layout; the parser of quoted arguments and
  the joiners, which nothing calls;
* allocators, socket compatibility, `redismodule.h`, build files, and hiredis'
  tests, which are read for what they promise.

Observations made in the code while modelling, each kept in a model as it is:
glib's dispatch calls the read handler after a write handler that may have freed
the context (exception in `NoUseAfterFree`, which allows that one read and nothing else); libuv and macosx leave the hooks set
after an attachment that failed; `~RedisQtAdapter` writes to a context that may be
gone; `redisReconnect` keeps the TLS functions of the old connection and does not
clear `REDIS_CONNECTED`; a copy of the source address or of the path that cannot
be allocated is forgotten without an error (`starved`); a nil, double or boolean
directly in a push fails an assertion; `dictReplace` stores NULL for a value that
could not be copied, and returns 0 for a key it could not add.

## Plan

1. *Done*: all parts modelled and checked; proofs of the pool, registry, filter, log,
   connection, event loop, dictionary, asynchronous client, reader and formatting.
2. What is left to prove: that what is formatted is read back (`RepliesAsSent`,
   `ErrorsWhereTheyAre`), with the encoding of replies as a recursive function on a
   bounded depth instead of a recursive operator.
3. Client, continued: MONITOR, several contexts on one dictionary type; a
   composition of `ReplyReader` and `Connection` under `AsyncClient`'s `HandleRead` and
   `HandleWrite`.
