----------------------------- MODULE Connection -----------------------------
(***************************************************************************)
(* A redisContext: connecting over every failure of the system calls       *)
(* (net.c), reconnecting, the output buffer, and the blocking              *)
(* redisGetReply (hiredis.c), on a server that answers every command.      *)
(* The reader is taken as ReplyReader has it: an item is there as soon as  *)
(* its last byte has been fed.  Every command and every reply is 2 bytes.  *)
(***************************************************************************)
EXTENDS Integers, Sequences, FiniteSets

CONSTANTS
  Options,      \* the redisOptions tried, see opt
  Addrs,        \* how many addresses a name has
  Retries,      \* REDIS_CONNECT_RETRIES
  MaxCommands, MaxPushes

ASSUME ConnectionAssumption ==
  /\ \A o \in Options :
       /\ {o.block, o.reuse, o.source, o.timed, o.push} \subseteq BOOLEAN
       /\ o.deadline \in {"none", "valid", "invalid"}
  /\ Addrs \in Nat \ {0} /\ Retries \in Nat \ {0} /\ MaxCommands \in Nat /\ MaxPushes \in Nat

VARIABLES
  opt,       \* [type, block, reuse, source, deadline, timed, push]
  ctype,     \* c->connection_type
  own,       \* the copies c owns: of host or path ("asked" for, or NULL; "lost": NULL,
             \* but the port is known), of the source address and both timeouts
  starved,   \* history: a copy of a parameter could not be allocated
  pc, p, reuses,   \* where the code is, with two variables of the connect loop
  fd, open, others,\* c->fd; the descriptors of the process; those not of c
  sock,      \* the socket behind fd: [blocking, bound, timed, to]
  err, ret,  \* c->err; history: how the last call ended
  obuf, inbuf, broken,      \* c->obuf; bytes fed to the reader; it has failed
  received, incoming, pushes, \* the server: bytes it got, bytes on the way from it
  issued, appended, results   \* history: commands; those of this connection; replies

paramVars == <<opt, ctype, own, starved>>
loopVars == <<p, reuses>>
serverVars == <<received, incoming>>
socketVars == <<fd, open, sock, serverVars>>
bufferVars == <<obuf, inbuf, broken>>
historyVars == <<pushes, issued, appended, results>>
vars == <<paramVars, pc, loopVars, socketVars, others, err, ret, bufferVars, historyVars>>

NoFd == 0
NoSock == [blocking |-> TRUE, bound |-> FALSE, timed |-> FALSE, to |-> "none"]
NewFd == CHOOSE f \in 1..Cardinality(open) + 1 : f \notin open

\* redisContextInit.  The memory comes from calloc: connection_type is
\* REDIS_CONN_TCP until it is set.
Init ==
  /\ opt \in Options /\ ctype = "tcp" /\ starved = FALSE
  /\ own = [host |-> "NULL", source |-> FALSE, deadline |-> "none", timed |-> FALSE]
  /\ pc = "start" /\ p = 1 /\ reuses = 0
  /\ fd = NoFd /\ open = {} /\ others = {} /\ sock = NoSock
  /\ err = "none" /\ ret = "ok"
  /\ obuf = <<>> /\ inbuf = <<>> /\ broken = FALSE
  /\ received = <<>> /\ incoming = <<>> /\ pushes = MaxPushes
  /\ issued = 0 /\ appended = <<>> /\ results = <<>>

\* Mutation: c->fd is not reset.
CloseStale == /\ UNCHANGED fd /\ open' = open \ {fd} /\ sock' = NoSock
              /\ received' = <<>> /\ incoming' = <<>>
\* redisNetClose, with what the system does about it.
Close == /\ fd' = NoFd /\ open' = open \ {fd} /\ sock' = NoSock
         /\ received' = <<>> /\ incoming' = <<>>
\* Mutation: one of the two buffers survives.
FreshOutputKept == UNCHANGED obuf /\ inbuf' = <<>> /\ broken' = FALSE
FreshInputKept == obuf' = <<>> /\ UNCHANGED inbuf /\ broken' = FALSE
\* The empty buffer and the new reader of redisReconnect.
Fresh == obuf' = <<>> /\ inbuf' = <<>> /\ broken' = FALSE

(* --- connecting ---------------------------------------------------------- *)

GoTo(next) == pc' = next /\ UNCHANGED <<err, ret>>
\* goto error, with the error set by then: none where the code sets none.
Fail(e) == err' = e /\ ret' = "error" /\ pc' = "tail"
FailOpen(e) == Fail(e) /\ UNCHANGED socketVars
FailClosed(e) == Fail(e) /\ Close

\* redisConnectWithOptions up to the connect function.
redisConnectWithOptions ==
  /\ pc = "start"
  /\ \/ /\ \/ opt.deadline # "none" /\ UNCHANGED own
           \/ opt.timed /\ own' = [own EXCEPT !.deadline = opt.deadline]
        /\ starved' = TRUE /\ err' = "oom" /\ ret' = "error" /\ pc' = "idle"
        /\ UNCHANGED socketVars
     \/ /\ own' = [own EXCEPT !.deadline = opt.deadline, !.timed = opt.timed]
        /\ UNCHANGED starved
        /\ \/ opt.type = "tcp" /\ GoTo("params") /\ UNCHANGED socketVars
           \/ opt.type = "unix" /\ GoTo("create") /\ UNCHANGED socketVars
           \/ /\ opt.type = "fd" /\ GoTo("tail")
              /\ fd' = NewFd /\ open' = open \cup {NewFd}
              /\ sock' = [NoSock EXCEPT !.to = "asked", !.blocking = opt.block]
              /\ UNCHANGED serverVars
  /\ UNCHANGED <<opt, ctype, loopVars, others, bufferVars, historyVars>>

\* A new socket, set not to block.  When that fails it is closed again, which
\* leaves what there was: FailOpen.
NewSocket == /\ fd' = NewFd /\ open' = open \cup {NewFd}
             /\ sock' = [NoSock EXCEPT !.blocking = FALSE]
             /\ UNCHANGED serverVars

\* redisContextConnectUnix: the socket comes first, and connection_type behind it.
redisCreateSocket ==
  /\ pc = "create"
  /\ \/ FailOpen("io") /\ UNCHANGED ctype
     \/ NewSocket /\ GoTo("params") /\ ctype' = "unix"
  /\ UNCHANGED <<opt, own, starved, loopVars, others, bufferVars, historyVars>>

\* Host or path, timeouts and source address are copied, unless they are the
\* context's own: then this is a reconnect.
Reconnecting == ret = "reconnect"
CopyHost == ~Reconnecting
CopyParameters ==
  /\ pc = "params"
  /\ \/ CopyHost /\ FailOpen("oom") /\ starved' = TRUE
        /\ own' = [own EXCEPT !.host = "lost"]
     \/ /\ own.deadline = "invalid" /\ FailOpen(IF ctype = "unix" THEN "none" ELSE "io")
        /\ own' = [own EXCEPT !.host = IF CopyHost THEN "asked" ELSE @]
        /\ UNCHANGED starved
     \/ /\ own.deadline # "invalid"
        /\ \E failed \in BOOLEAN :
             /\ failed => CopyHost /\ opt.source
             /\ starved' = (starved \/ failed)
             /\ own' = IF CopyHost
                       THEN [own EXCEPT !.host = "asked", !.source = opt.source /\ ~failed]
                       ELSE own
        /\ GoTo(IF ctype = "unix" THEN "connect" ELSE "resolve") /\ UNCHANGED socketVars
  /\ UNCHANGED <<opt, ctype, loopVars, others, bufferVars, historyVars>>

\* getaddrinfo, for IPv4 and then for IPv6.
Resolve ==
  /\ pc = "resolve"
  /\ \/ FailOpen("other") /\ UNCHANGED loopVars
     \/ p' = 1 /\ reuses' = 0 /\ GoTo("socket") /\ UNCHANGED socketVars
  /\ UNCHANGED <<paramVars, others, bufferVars, historyVars>>

\* The head of the loop over the addresses, down to redisSetBlocking(c,0).
TryAddress ==
  /\ pc = "socket"
  /\ IF p > Addrs THEN FailOpen("other") /\ UNCHANGED p
     ELSE \/ p' = p + 1 /\ GoTo("socket") /\ UNCHANGED socketVars
          \/ FailOpen("io") /\ UNCHANGED p
          \/ NewSocket /\ GoTo(IF own.source THEN "bind" ELSE "connect") /\ UNCHANGED p
  /\ UNCHANGED <<paramVars, reuses, others, bufferVars, historyVars>>

\* The source address: its look-up, SO_REUSEADDR, bind.
Bind ==
  /\ pc = "bind"
  /\ \/ FailOpen("other")
     \/ opt.reuse /\ FailOpen("none")
     \/ /\ sock' = [sock EXCEPT !.bound = TRUE] /\ GoTo("connect")
        /\ UNCHANGED <<fd, open, serverVars>>
  /\ UNCHANGED <<paramVars, loopVars, others, bufferVars, historyVars>>

\* Where connect(2) leads: no host is the loopback, a port never set is 0.
Endpoint == IF own.host = "asked" THEN "asked" ELSE IF own.host = "lost" THEN "loopback" ELSE "nowhere"
Connected(next) == /\ Endpoint # "nowhere" /\ sock' = [sock EXCEPT !.to = Endpoint]
                   /\ GoTo(next) /\ UNCHANGED <<fd, open, serverVars, loopVars>>

\* EADDRNOTAVAIL, with the counter that limits the retries.
Retry == /\ reuses' = reuses + 1
         /\ IF reuses' >= Retries THEN FailOpen("none") ELSE Close /\ GoTo("socket")

Connect ==
  /\ pc = "connect"
  /\ \/ FailOpen("oom") /\ UNCHANGED loopVars
     \/ Connected("finish")       \* now, or EINPROGRESS and not blocking
     \/ opt.block /\ GoTo("poll") /\ UNCHANGED <<socketVars, loopVars>> \* EINPROGRESS
     \/ ctype = "tcp" /\ Close /\ p' = p + 1 /\ GoTo("socket") /\ UNCHANGED reuses \* EHOSTUNREACH
     \/ ctype = "tcp" /\ opt.reuse /\ Retry /\ UNCHANGED p
     \/ FailClosed("io") /\ UNCHANGED loopVars   \* redisContextWaitReady, any other errno
  /\ UNCHANGED <<paramVars, others, bufferVars, historyVars>>

\* redisContextWaitReady after EINPROGRESS, with redisCheckConnectDone and
\* redisCheckSocketError; then TCP_NODELAY.
WaitReady ==
  /\ pc = "poll"
  /\ \/ FailClosed("io") /\ UNCHANGED loopVars   \* poll, the time-out, or TCP_NODELAY
     \/ FailOpen("io") /\ UNCHANGED loopVars     \* the connection is not done
     \/ Connected("finish")
  /\ UNCHANGED <<paramVars, others, bufferVars, historyVars>>

\* Mutation: the socket is left as it was for connect(2).
ConnectEndsNonblocking ==
  /\ pc = "finish"
  /\ pc' = "tail" /\ ret' = "ok" /\ UNCHANGED <<err, socketVars>>
  /\ UNCHANGED <<paramVars, loopVars, others, bufferVars, historyVars>>
ConnectEndsWell ==
  /\ pc = "finish"
  /\ \/ opt.block /\ FailClosed("io")
     \/ /\ sock' = [sock EXCEPT !.blocking = opt.block]
        /\ pc' = "tail" /\ ret' = "ok" /\ UNCHANGED <<err, fd, open, serverVars>>
  /\ UNCHANGED <<paramVars, loopVars, others, bufferVars, historyVars>>

\* After the connect function: the command timeout is put on the socket.
SetCommandTimeout ==
  /\ pc = "tail" /\ pc' = "idle" /\ p' = 1 /\ reuses' = 0
  /\ IF own.timed /\ opt.block /\ fd # NoFd
     THEN \/ sock' = [sock EXCEPT !.timed = TRUE] /\ UNCHANGED err
          \/ err' = "io" /\ UNCHANGED sock
     ELSE UNCHANGED <<err, sock>>
  /\ UNCHANGED <<paramVars, ret, fd, open, serverVars, others, bufferVars, historyVars>>

ConnectStep == redisConnectWithOptions \/ redisCreateSocket \/ CopyParameters \/ Resolve
               \/ TryAddress \/ Bind \/ Connect \/ WaitReady \/ ConnectEndsWell
               \/ SetCommandTimeout

(* --- the calls on a context ---------------------------------------------- *)

\* A path that is NULL is copied by strncpy: no caller may get there.
redisReconnect ==
  /\ pc = "idle" /\ (ctype = "unix" => own.host = "asked")
  /\ Close /\ Fresh
  /\ appended' = <<>> /\ results' = <<>>
  /\ \/ err' = "oom" /\ ret' = "error" /\ UNCHANGED pc
     \/ /\ err' = "none" /\ ret' = "reconnect"
        /\ pc' = IF ctype = "unix" THEN "create" ELSE "params"
  /\ UNCHANGED <<paramVars, loopVars, others, pushes, issued>>

Freed == /\ pc' = "freed" /\ Fresh /\ err' = "none" /\ ret' = "ok"
         /\ appended' = <<>> /\ results' = <<>>
         /\ UNCHANGED <<paramVars, loopVars, pushes, issued>>
redisFree == pc = "idle" /\ Close /\ Freed /\ UNCHANGED others
redisFreeKeepFd ==
  /\ pc = "idle" /\ Freed
  /\ others' = others \cup ({fd} \ {NoFd})
  /\ fd' = NoFd /\ sock' = NoSock /\ received' = <<>> /\ incoming' = <<>> /\ UNCHANGED open

\* After REDIS_ERR_OOM a buffer may be NULL, and nobody may call.
Callable == err # "oom"

\* redisSetTimeout, which a context that does not block refuses, and
\* redisEnableKeepAlive.
redisSetTimeout ==
  /\ pc = "idle" /\ Callable
  /\ \/ /\ opt.block /\ fd # NoFd
        /\ sock' = [sock EXCEPT !.timed = TRUE] /\ ret' = "ok" /\ UNCHANGED err
     \/ opt.block /\ ret' = "error" /\ err' = "io" /\ UNCHANGED sock
     \/ ~opt.block /\ ret' = "error" /\ UNCHANGED <<err, sock>>
  /\ UNCHANGED <<paramVars, pc, loopVars, fd, open, serverVars, others, bufferVars, historyVars>>
redisEnableKeepAlive ==
  /\ pc = "idle" /\ Callable
  /\ \/ fd # NoFd /\ ret' = "ok" /\ UNCHANGED err
     \/ ret' = "error" /\ err' = "other"
  /\ UNCHANGED <<paramVars, pc, loopVars, socketVars, others, bufferVars, historyVars>>

\* redisAppendCommand and its sisters; after an error the README forbids it.
\* Formatting can fail too.
redisAppendCommand ==
  /\ pc = "idle" /\ err = "none" /\ issued < MaxCommands
  /\ issued' = issued + 1
  /\ \/ /\ obuf' = obuf \o <<<<issued + 1, 1>>, <<issued + 1, 2>>>>
        /\ appended' = Append(appended, issued + 1)
        /\ ret' = "ok" /\ UNCHANGED err
     \/ ret' = "error" /\ err' \in {"oom", "other"} /\ UNCHANGED <<obuf, appended>>
  /\ UNCHANGED <<paramVars, pc, loopVars, socketVars, others, inbuf, broken, pushes, results>>

Return(r, e) == pc' = "idle" /\ ret' = r /\ err' = e
Online == sock.to # "none"

\* What the loop of redisGetReply makes of the end of a write.
\* Mutation: done is set only behind a write.
AfterWriteUnlessEmpty(done) ==
  /\ pc' = IF pc = "idle" THEN "idle" ELSE IF done /\ obuf # <<>> THEN "read" ELSE "write"
  /\ ret' = "ok" /\ UNCHANGED err
AfterWrite(done) == /\ pc' = IF pc = "idle" THEN "idle" ELSE IF done THEN "read" ELSE "write"
                    /\ ret' = "ok" /\ UNCHANGED err

\* redisBufferWrite with redisNetWrite: in the loop of redisGetReply, or called by
\* the user of a context that does not block.  The server answers whole commands; a
\* reply has the number of its command in both its bytes, as the command has.
Whole(bytes) == 2 * (Len(bytes) \div 2)
Written(n) ==
  /\ received' = received \o SubSeq(obuf, 1, n)
  /\ incoming' = incoming \o SubSeq(received', Whole(received) + 1, Whole(received'))
  /\ obuf' = SubSeq(obuf, n + 1, Len(obuf))
redisBufferWrite ==
  /\ pc = "write" \/ (pc = "idle" /\ ~opt.block /\ Callable)
  /\ \/ err # "none" /\ Return("error", err) /\ UNCHANGED <<obuf, serverVars>>
     \/ err = "none" /\ obuf = <<>> /\ AfterWrite(TRUE) /\ UNCHANGED <<obuf, serverVars>>
     \/ /\ err = "none" /\ Online
        /\ \E n \in 1..Len(obuf) :
             /\ Written(n)
             /\ \/ AfterWrite(n = Len(obuf))
                \/ Return("error", "oom")
     \/ /\ err = "none" /\ obuf # <<>>      \* EINTR, EWOULDBLOCK; anything else
        /\ \E e \in {"none", "io"} : (e = "none" => Online) /\ Return("error", e)
        /\ UNCHANGED <<obuf, serverVars>>
  /\ UNCHANGED <<paramVars, loopVars, fd, open, sock, others, inbuf, broken, historyVars>>

\* redisBufferRead with redisNetRead, likewise.
AfterRead == pc' = (IF pc = "idle" THEN "idle" ELSE "reader") /\ ret' = "ok" /\ UNCHANGED err
Feed(n) == /\ incoming' = SubSeq(incoming, n + 1, Len(incoming))
           /\ inbuf' = inbuf \o SubSeq(incoming, 1, n)
BufferReads(n) ==
  /\ pc = "read" \/ (pc = "idle" /\ ~opt.block /\ Callable)
  /\ err = "none" /\ n <= Len(incoming)
  /\ Feed(n) /\ AfterRead
  /\ UNCHANGED <<paramVars, loopVars, fd, open, sock, received, others, obuf, broken, historyVars>>
BufferReadsNothing ==
  /\ pc = "read" \/ (pc = "idle" /\ ~opt.block /\ Callable)
  /\ \/ err # "none" /\ Return("error", err) /\ UNCHANGED <<inbuf, broken, incoming>>
     \/ err = "none" /\ Online /\ AfterRead /\ UNCHANGED <<inbuf, broken, incoming>>
     \/ /\ err = "none" /\ incoming # <<>>    \* redisReaderFeed fails
        /\ incoming' = <<>> /\ inbuf' = <<>> /\ broken' = TRUE /\ Return("error", "reader")
     \/ /\ err = "none"
        /\ \/ Return("error", "io")
           \/ Online /\ incoming = <<>> /\ Return("error", "eof")
           \/ Online /\ opt.block /\ Return("error", "timeout")
        /\ UNCHANGED <<inbuf, broken, incoming>>
  /\ UNCHANGED <<paramVars, loopVars, fd, open, sock, received, others, obuf, historyVars>>
redisBufferRead == (\E n \in 1..Len(incoming) : BufferReads(n)) \/ BufferReadsNothing

HasItem == Len(inbuf) >= 2
Item == inbuf[1][1]            \* a command's reply; 0, a push
TakeItem == inbuf' = SubSeq(inbuf, 3, Len(inbuf)) /\ UNCHANGED broken
Deliver == TakeItem /\ results' = Append(results, Item) /\ Return("ok", err)

\* redisGetReplyFromReader when the reader has failed, or does so now.
ReaderFails ==
  /\ pc \in {"first", "reader"} /\ (broken \/ inbuf # <<>>)
  /\ broken' = TRUE /\ inbuf' = <<>> /\ Return("error", "reader")
  /\ UNCHANGED <<paramVars, loopVars, socketVars, others, obuf, historyVars>>

\* Mutation: replies that are there already are not looked for.
redisGetReplyUnread ==
  /\ pc = "idle" /\ Callable
  /\ GoTo(IF opt.block THEN "write" ELSE "first")
  /\ UNCHANGED <<paramVars, loopVars, socketVars, others, bufferVars, historyVars>>
redisGetReply ==
  /\ pc = "idle" /\ Callable
  /\ GoTo("first")
  /\ UNCHANGED <<paramVars, loopVars, socketVars, others, bufferVars, historyVars>>

\* "Try to read pending replies"
PendingReply ==
  /\ pc = "first" /\ ~broken
  /\ \/ HasItem /\ Deliver
     \/ ~HasItem /\ opt.block /\ GoTo("write") /\ UNCHANGED <<inbuf, broken, results>>
     \/ ~HasItem /\ ~opt.block /\ Return("ok", err) /\ UNCHANGED <<inbuf, broken, results>>
  /\ UNCHANGED <<paramVars, loopVars, socketVars, others, obuf, pushes, issued, appended>>

\* redisGetReplyFromReader and redisHandledPushReply, after a read.
ReplyRead ==
  /\ pc = "reader" /\ ~broken
  /\ \/ HasItem /\ Item = 0 /\ opt.push /\ TakeItem /\ GoTo("reader") /\ UNCHANGED results
     \/ HasItem /\ ~(Item = 0 /\ opt.push) /\ Deliver
     \/ ~HasItem /\ GoTo("read") /\ UNCHANGED <<inbuf, broken, results>>
  /\ UNCHANGED <<paramVars, loopVars, socketVars, others, obuf, pushes, issued, appended>>

(* --- the world ------------------------------------------------------------ *)

\* The server pushes; the process opens a file.
Push == /\ Online /\ pushes > 0 /\ pushes' = pushes - 1
        /\ incoming' = incoming \o <<<<0, 1>>, <<0, 2>>>>
        /\ UNCHANGED <<paramVars, pc, loopVars, fd, open, sock, received, others, err, ret,
                       bufferVars, issued, appended, results>>
OtherOpens == /\ others = {} /\ pc # "freed"
              /\ others' = {NewFd} /\ open' = open \cup {NewFd}
              /\ UNCHANGED <<paramVars, pc, loopVars, fd, sock, serverVars, err, ret,
                             bufferVars, historyVars>>

CallStep == redisBufferWrite \/ redisBufferRead \/ ReaderFails \/ PendingReply \/ ReplyRead
Next == \/ ConnectStep \/ redisReconnect \/ redisFree \/ redisFreeKeepFd \/ redisSetTimeout \/ redisEnableKeepAlive
        \/ redisAppendCommand \/ redisGetReply \/ CallStep \/ Push \/ OtherOpens
Spec == Init /\ [][Next]_vars

\* The code runs on; a blocking read gets its bytes some day.
InCall == pc \notin {"idle", "freed"}
ReadSome == pc = "read" /\ \E n \in 1..Len(incoming) : BufferReads(n)
FairSpec == Spec /\ WF_vars(InCall /\ (ConnectStep \/ CallStep)) /\ SF_vars(ReadSome)

(* --- properties ----------------------------------------------------------- *)

Copies == [host : {"asked", "NULL", "lost"}, source : BOOLEAN,
           deadline : {"none", "valid", "invalid"}, timed : BOOLEAN]
Sockets == [blocking : BOOLEAN, bound : BOOLEAN, timed : BOOLEAN,
            to : {"none", "asked", "loopback"}]
TypeOK ==
  /\ opt \in Options /\ ctype \in {"tcp", "unix"} /\ starved \in BOOLEAN
  /\ own \in Copies
  /\ pc \in {"start", "create", "params", "resolve", "socket", "bind", "connect", "poll",
              "finish", "tail", "idle", "first", "write", "read", "reader", "freed"}
  /\ p \in 1..Addrs + 1 /\ reuses \in 0..Retries
  /\ fd \in Nat /\ open \subseteq Nat /\ others \subseteq Nat
  /\ sock \in Sockets
  /\ err \in {"none", "io", "eof", "timeout", "oom", "reader", "other"}
  /\ ret \in {"ok", "error", "reconnect"}
  /\ pushes \in 0..MaxPushes /\ issued \in 0..MaxCommands

\* However connecting, reconnecting and freeing fail, the context has one socket or
\* none, leaks none, and never closes a descriptor a second time, when it may be
\* somebody else's.
OwnSocketOnly == open = ({fd} \ {NoFd}) \cup others /\ fd \notin others

\* The descriptors and the state of connecting are sound between any two steps.
SocketSound == TypeOK /\ OwnSocketOnly

\* Over partial writes and interrupted ones, the server has got the beginning of the
\* commands of this connection, the buffer holds the rest, and no byte is skipped,
\* sent twice, or left from the connection before.
Bytes(commands) ==
  [i \in 1..2 * Len(commands) |-> <<commands[(i + 1) \div 2], IF i % 2 = 1 THEN 1 ELSE 2>>]
BytesOnce == Online /\ err # "oom" => received \o obuf = Bytes(appended)

\* redisGetReply returns, besides pushes, the replies to the commands of this
\* connection in their order, none twice, and none from the connection before.
RepliesInOrder ==
  \A i \in DOMAIN results :
    results[i] # 0 =>
      /\ \A j \in 1..i - 1 : results[j] # results[i]
      /\ \E k \in DOMAIN appended :
           /\ results[i] = appended[k]
           /\ \A l \in 1..k - 1 : \E j \in 1..i - 1 : results[j] = appended[l]

\* redisGetReply never waits for the server with a reply in its hands or with a command
\* that is still to be sent.
WaitsOnlyForServer == pc = "read" => obuf = <<>> /\ ~HasItem

\* A context that got its socket connected without an error blocks as asked, has the
\* command timeout and the source address asked for, and is connected to the host asked
\* for: after a reconnect too, unless a parameter could not be copied.
ConnectedAsAsked ==
  pc = "idle" /\ Online /\ err = "none" =>
    /\ sock.blocking = opt.block
    /\ opt.type # "fd" /\ ~starved => sock.to = "asked" /\ sock.bound = (opt.source /\ ctype = "tcp")
    /\ ~starved /\ opt.timed /\ opt.block => sock.timed

Connecting == pc \in {"start", "create", "params", "resolve", "socket", "bind", "connect",
                      "poll", "finish", "tail"}
Unanswered == Cardinality({i \in DOMAIN results : results[i] # 0}) < Len(appended)
Replying == pc \in {"first", "write", "read", "reader"}

\* Connecting comes to an end whatever the system answers, for the retries are bounded;
\* and redisGetReply returns when a command of this connection is unanswered: its loops
\* do not spin, or wait for ever on a server that answers.
CallsReturn == (Connecting \/ (Replying /\ Unanswered)) ~> pc = "idle"
=============================================================================
