------------------------------ MODULE EventLoop ------------------------------
(***************************************************************************)
(* An asynchronous context between an event library and a socket: the      *)
(* eight adapters (adapters/), the hooks through which async.c asks for    *)
(* events (async_private.h), the event handlers, and their TLS variants    *)
(* (ssl.c).  Replies and callbacks are AsyncClient's matter: here a        *)
(* handler moves commands and says which events it still needs.            *)
(***************************************************************************)
EXTENDS Integers, Sequences, FiniteSets, SequencesExt

CONSTANTS
  Setups,        \* [adapter, tls, timed, keep]; keep: REDIS_NO_AUTO_FREE
  MaxCommands,   \* commands a user sends
  MaxRecords     \* records a TLS server sends of its own accord

IO == {"read", "write"}

\* What the functions of an adapter do that others do not.
\*   order: one call of the library brings all events, handled in this order;
\*   caching: no call to the library for what is watched already;
\*   timer: what scheduleTimer does with the events, or "none": there is no such hook;
\*   end: who frees the adapter: cleanup ("now", "closed" when the library has closed
\*     its handle, "left" when the handler has been left), or the user;
\*   watch: the events the library watches from the start;
\*   failure: what ev is like when attaching fails.
Each == [order |-> <<>>, caching |-> FALSE, timer |-> "none", end |-> "now",
         watch |-> {}, failure |-> "untouched"]
Ae == [Each EXCEPT !.caching = TRUE]
Glib == [Each EXCEPT !.order = <<"write", "read">>, !.end = "user"]
Ivykis == [Each EXCEPT !.watch = IO]
Libev == [Each EXCEPT !.caching = TRUE, !.timer = "apart"]
Libevent == [Each EXCEPT !.order = <<"timeout", "read", "write">>, !.caching = TRUE,
                         !.timer = "together", !.end = "left"]
Libuv == [Each EXCEPT !.order = <<"read", "write">>, !.end = "closed", !.failure = "hooks"]
MacOS == [Each EXCEPT !.watch = IO, !.failure = "dangling"]
Qt == [Each EXCEPT !.caching = TRUE, !.end = "user", !.failure = "none"]
Adapters == [ae |-> Ae, glib |-> Glib, ivykis |-> Ivykis, libev |-> Libev, libevent |-> Libevent,
             libuv |-> Libuv, macosx |-> MacOS, qt |-> Qt]

ASSUME EventLoopAssumption ==
  /\ Setups \subseteq [adapter : DOMAIN Adapters, tls : BOOLEAN, timed : BOOLEAN, keep : BOOLEAN]
  /\ MaxCommands \in Nat /\ MaxRecords \in Nat

VARIABLES
  setup,
  phase,    \* "tls", "attach", "up"; "failed": attaching has failed
  ctx,      \* "alive", "dead" (kept after an error), "freed", "aborted"
  ev,       \* the adapter and what the library knows, see NoEvents
  todo,     \* events of this turn of the loop not handled yet
  bad,      \* history: freed memory or a null pointer has been used
  connected,               \* REDIS_CONNECTED
  obuf, waiting, issued,   \* commands: to be written, unanswered, sent so far
  wantRead, pendingWrite, lastLen,   \* redisSSL
  full, hs,          \* what was written fills the socket; TLS has to read before it can write
  replies, extra,    \* what has arrived: replies; TLS records that are no replies
  records            \* those that may still come unasked

clientVars == <<connected, obuf, waiting, issued>>
tlsVars == <<wantRead, pendingWrite, lastLen>>
netVars == <<full, hs, replies, extra, records>>
vars == <<setup, phase, ctx, ev, todo, bad, clientVars, tlsVars, netVars>>

adapter == Adapters[setup.adapter]

\* flags: reading and writing, or the mask, that the adapter keeps; watch, timer:
\* what the library has; data: ev.data; hooks: ev.addRead and so on are set;
\* frees: how often the adapter has been freed; wish: history, what was asked for.
NoEvents == [flags |-> {}, watch |-> {}, timer |-> FALSE, data |-> "NULL", hooks |-> FALSE,
             cleaned |-> FALSE, entered |-> FALSE, deleted |-> FALSE, frees |-> 0, wish |-> {}]

Init ==
  /\ setup \in Setups /\ phase = (IF setup.tls THEN "tls" ELSE "attach")
  /\ ctx = "alive" /\ ev = NoEvents /\ todo = <<>> /\ bad = FALSE
  /\ connected = FALSE /\ obuf = 0 /\ waiting = 0 /\ issued = 0
  /\ wantRead = FALSE /\ pendingWrite = FALSE /\ lastLen = 0
  /\ full = FALSE /\ hs = FALSE /\ replies = 0 /\ extra = 0 /\ records = MaxRecords

(* --- the hooks ------------------------------------------------------------ *)

\* A hook that is called with ev.data that is no adapter.
Crashes(e) == e.hooks /\ e.data # "valid"

Watch(e, x) == [e EXCEPT !.flags = @ \cup {x}, !.watch = @ \cup {x}]
Unwatch(e, x) == [e EXCEPT !.flags = @ \ {x}, !.watch = @ \ {x}]
\* addRead, addWrite, and their counterparts, of every adapter.  Each is about its own
\* event: what else the library watches, from the start or since, it goes on watching.
AddTo(e, x) == IF adapter.caching /\ x \in e.flags THEN e ELSE Watch(e, x)
\* Mutation: takes out what is not there only.
DelFromInverted(e, x) ==
  IF adapter.caching /\ x \in e.flags THEN e ELSE Unwatch(e, x)
DelFrom(e, x) == IF adapter.caching /\ x \notin e.flags THEN e ELSE Unwatch(e, x)
\* redisLibeventSetTimeout and redisLibevSetTimeout: the former puts its event
\* together again, with the flags it had.
SetTimer(e) ==
  IF adapter.timer = "together" THEN [e EXCEPT !.watch = e.flags, !.timer = TRUE]
  ELSE [e EXCEPT !.timer = TRUE]

\* _EL_ADD_READ and _EL_ADD_WRITE with refreshTimeout; _EL_DEL_WRITE.
Refresh(e) == IF adapter.timer # "none" /\ setup.timed THEN SetTimer(e) ELSE e
Add(e, x) == IF e.hooks /\ ~Crashes(e)
             THEN [AddTo(Refresh(e), x) EXCEPT !.wish = @ \cup {x}] ELSE e
Del(e, x) == IF e.hooks /\ ~Crashes(e)
             THEN [DelFrom(e, x) EXCEPT !.wish = @ \ {x}] ELSE e

Deferred == adapter.end \in {"left", "closed"}
\* _EL_CLEANUP, with the adapters' functions.  libevent's event may be the one
\* being handled, libuv calls back when it has closed its handle.
Cleanup(e) ==
  IF e.cleaned \/ ~e.hooks \/ Crashes(e) THEN [e EXCEPT !.cleaned = TRUE]
  ELSE [e EXCEPT !.cleaned = TRUE, !.flags = {}, !.watch = {}, !.wish = {}, !.timer = FALSE,
                 !.data = IF adapter.end = "user" THEN @ ELSE "freed",
                 !.deleted = Deferred,
                 !.frees = IF adapter.end \in {"user", "closed"}
                              \/ (adapter.end = "left" /\ e.entered) THEN @ ELSE @ + 1]

(* --- attaching, and the adapter's end --------------------------------------- *)

\* redisSSLConnect: SSL_connect is done, or wants more in a non-blocking context;
\* when it fails the context has an error and its user frees it.
redisSSLConnect ==
  /\ phase = "tls" /\ ctx = "alive"
  /\ \/ hs' \in BOOLEAN /\ phase' = "attach" /\ UNCHANGED <<ctx, ev>>
     \/ ctx' = "freed" /\ ev' = Cleanup(ev) /\ UNCHANGED <<hs, phase>>
  /\ UNCHANGED <<setup, todo, bad, clientVars, tlsVars, full, replies, extra, records>>

Attached == [NoEvents EXCEPT !.hooks = TRUE, !.data = "valid",
                             !.watch = adapter.watch]
\* redisXxxAttach.  Most set the hooks when nothing can fail any more; libuv sets
\* them before it allocates, macosx frees what ev.data keeps pointing to.
Attach ==
  /\ phase = "attach" /\ ctx = "alive"
  /\ \/ phase' = "up" /\ ev' = Attached
     \/ /\ adapter.failure # "none" /\ phase' = "failed"
        /\ ev' = CASE adapter.failure = "hooks" -> [NoEvents EXCEPT !.hooks = TRUE]
                   [] adapter.failure = "dangling" -> [NoEvents EXCEPT !.hooks = TRUE, !.data = "freed", !.frees = 1]
                   [] OTHER -> NoEvents
  /\ UNCHANGED <<setup, ctx, todo, bad, clientVars, tlsVars, netVars>>

\* on_close of libuv.
on_close ==
  /\ adapter.end = "closed" /\ ev.deleted /\ todo = <<>>
  /\ ev' = [ev EXCEPT !.deleted = FALSE, !.frees = @ + 1]
  /\ UNCHANGED <<setup, phase, ctx, todo, bad, clientVars, tlsVars, netVars>>

\* ~RedisQtAdapter takes its address out of a context that may be gone.
QtAdapterDeleted ==
  /\ setup.adapter = "qt" /\ ev.data = "valid" /\ todo = <<>>
  /\ bad' = (ctx # "alive")
  /\ ev' = [ev EXCEPT !.data = "NULL", !.watch = {}, !.wish = {}, !.frees = @ + 1]
  /\ UNCHANGED <<setup, phase, ctx, todo, clientVars, tlsVars, netVars>>

(* --- the end of a context --------------------------------------------------- *)

\* __redisAsyncDisconnect, from a state e of the adapter.  Without an error and
\* with callbacks left the assertion fails.
Gone(e, how) == /\ ctx' = how /\ ev' = Cleanup(e) /\ bad' = (bad \/ (Crashes(e) /\ ~e.cleaned))
                /\ obuf' = 0 /\ waiting' = 0
                /\ UNCHANGED issued
Disconnect(e, err) ==
  IF err \/ waiting = 0 THEN Gone(e, IF setup.keep THEN "dead" ELSE "freed")
  ELSE Gone(e, "aborted")

redisAsyncFree ==
  /\ ctx \in {"alive", "dead"} /\ todo = <<>> /\ phase # "tls"
  /\ Gone(ev, "freed")
  /\ UNCHANGED <<setup, phase, todo, connected, tlsVars, netVars>>

\* redisAsyncCommand, which a user sends after attaching.
Send(o, w, e) == /\ issued < MaxCommands /\ issued' = issued + 1
                 /\ obuf' = o + 1 /\ waiting' = w + 1
                 /\ ev' = Add(e, "write") /\ bad' = (bad \/ Crashes(e))
                 /\ UNCHANGED ctx
redisAsyncCommand ==
  /\ ctx = "alive" /\ phase \in {"up", "failed"} /\ todo = <<>>
  /\ Send(obuf, waiting, ev)
  /\ UNCHANGED <<setup, phase, todo, connected, tlsVars, netVars>>

(* --- one turn of the event loop --------------------------------------------- *)

\* The library calls for the events S, in an order of its own or of the adapter's.  A
\* read is also reported when there is nothing to read: at the end of the file.
Ready(x) == CASE x = "read" -> replies + extra > 0 \/ ~connected
              [] x = "write" -> ~full
Before(x, y) ==
  \E i, j \in DOMAIN adapter.order : i < j /\ adapter.order[i] = x /\ adapter.order[j] = y
Orders(S) ==
  { o \in SetToSeqs(S) :
      adapter.order # <<>> => \A i, j \in DOMAIN o : i < j => Before(o[i], o[j]) }
Poll ==
  /\ todo = <<>> /\ ~ev.entered
  /\ \E S \in SUBSET (IO \cup {"timeout"}) :
       /\ S # {} /\ \A x \in S \cap IO : x \in ev.watch /\ (x = "read" \/ Ready(x))
       /\ "timeout" \in S => ev.timer
       /\ todo' \in Orders(S)
  /\ ev' = [ev EXCEPT !.entered = (adapter.end = "left")]
  /\ UNCHANGED <<setup, phase, ctx, bad, clientVars, tlsVars, netVars>>

\* Mutation: no CHECK_DELETED.
VoidIfUnwatched(x) ==
  adapter.order = <<>> /\ x \notin ev.watch \cup (IF ev.timer THEN {"timeout"} ELSE {})
\* The next event is for nobody: its watcher is off, or the adapter looks before
\* it calls.  CHECK_DELETED ends the handler of libevent, and then the adapter.
Void(x) == \/ adapter.order = <<>> /\ x \notin ev.watch \cup (IF ev.timer THEN {"timeout"} ELSE {})
           \/ Deferred /\ ev.deleted
Skip ==
  /\ todo # <<>> /\ Void(Head(todo))
  /\ todo' = IF adapter.end = "left" THEN <<>> ELSE Tail(todo)
  /\ ev' = IF adapter.end = "left" THEN [ev EXCEPT !.entered = FALSE, !.deleted = FALSE, !.frees = @ + 1]
           ELSE ev
  /\ UNCHANGED <<setup, phase, ctx, bad, clientVars, tlsVars, netVars>>
\* The end of redisLibeventHandler.
Leave ==
  /\ todo = <<>> /\ ev.entered
  /\ ev' = IF ev.deleted THEN [ev EXCEPT !.entered = FALSE, !.deleted = FALSE, !.frees = @ + 1]
           ELSE [ev EXCEPT !.entered = FALSE]
  /\ UNCHANGED <<setup, phase, ctx, todo, bad, clientVars, tlsVars, netVars>>

Handles(x) == todo # <<>> /\ Head(todo) = x /\ ~Void(x) /\ todo' = Tail(todo)

\* A handler is called for a context that has been freed.
HandledTooLate ==
  /\ \E x \in IO \cup {"timeout"} : Handles(x)
  /\ ctx \in {"freed", "aborted"} /\ bad' = TRUE
  /\ UNCHANGED <<setup, phase, ctx, ev, clientVars, tlsVars, netVars>>
Valid == ctx \in {"alive", "dead"}

\* __redisAsyncHandleConnect, before anything is read or written.
HandleConnect ==
  /\ \E x \in IO : Handles(x)
  /\ Valid /\ ~connected
  /\ \/ Disconnect(ev, TRUE) /\ UNCHANGED connected
     \/ UNCHANGED <<ctx, ev, bad, obuf, waiting, issued, connected>>
  /\ UNCHANGED <<setup, phase, tlsVars, netVars>>
\* Mutation: only the read handler completes the connection.
ConnectDoneReading ==
  /\ Valid /\ ~connected /\ todo # <<>> /\ Head(todo) = "read" /\ ~Void(Head(todo))
  /\ connected' = TRUE
  /\ UNCHANGED <<setup, phase, ctx, ev, todo, bad, obuf, waiting, issued, tlsVars, netVars>>
\* It is done; the handler goes on, here at the next event it finds.
ConnectDone ==
  /\ Valid /\ ~connected /\ todo # <<>> /\ Head(todo) \in IO /\ ~Void(Head(todo))
  /\ connected' = TRUE
  /\ UNCHANGED <<setup, phase, ctx, ev, todo, bad, obuf, waiting, issued, tlsVars, netVars>>

\* redisAsyncHandleTimeout.
HandleTimeout ==
  /\ Handles("timeout") /\ Valid
  /\ IF connected /\ waiting = 0 THEN UNCHANGED <<ctx, ev, bad, obuf, waiting, issued>>
     ELSE Disconnect(ev, TRUE)
  /\ UNCHANGED <<setup, phase, connected, tlsVars, netVars>>

\* redisProcessCallbacks, with o commands to write and w unanswered: callbacks may
\* send, or free the context.
Callbacks(o, w, e) ==
  \/ obuf' = o /\ waiting' = w /\ ev' = e /\ UNCHANGED <<ctx, bad, issued>>
  \/ Send(o, w, e)
  \/ /\ ctx' = "freed" /\ ev' = Cleanup(e) /\ obuf' = 0 /\ waiting' = 0 /\ UNCHANGED <<bad, issued>>

\* redisAsyncRead: n replies are read, none if the event was spurious, or there is an
\* error, such as the end of the file.
redisAsyncRead ==
  /\ Handles("read") /\ Valid /\ connected /\ ~setup.tls
  /\ \/ Disconnect(ev, TRUE) /\ UNCHANGED replies
     \/ /\ ctx = "alive"
        /\ \E n \in 0..replies :
             replies' = replies - n /\ Callbacks(obuf, waiting - n, Add(ev, "read"))
  /\ UNCHANGED <<setup, phase, connected, tlsVars, full, hs, extra, records>>

\* redisAsyncWrite: n commands are written and answered, or the write is to be tried
\* again, which redisBufferWrite reports as an error without c->err.
redisAsyncWrite ==
  /\ Handles("write") /\ Valid /\ connected /\ ~setup.tls
  /\ \/ Disconnect(ev, TRUE) /\ UNCHANGED <<replies, full>>
     \/ obuf > 0 /\ ctx = "alive" /\ Disconnect(ev, FALSE) /\ UNCHANGED <<replies, full>>
     \/ /\ ctx = "alive"
        /\ \E n \in (IF obuf = 0 THEN {0} ELSE 1..obuf) :
             /\ obuf' = obuf - n /\ replies' = replies + n
             /\ full' \in (IF n < obuf THEN {TRUE} ELSE {full, n > 0})
             /\ ev' = Add(IF n = obuf THEN Del(ev, "write") ELSE Add(ev, "write"), "read")
             /\ UNCHANGED <<ctx, bad, waiting, issued>>
  /\ UNCHANGED <<setup, phase, connected, tlsVars, hs, extra, records>>

(* --- TLS --------------------------------------------------------------------- *)

\* SSL_write (OpenSSL) writes all it is given or nothing, and SSL_write and SSL_read
\* both take in the records that are no replies.
WriteLen == IF lastLen # 0 THEN lastLen ELSE obuf
WriteOutcomes ==
  IF obuf = 0 THEN {[n |-> 0, want |-> "none"]}
  ELSE IF hs /\ extra = 0 THEN {[n |-> 0, want |-> "read"]}
  ELSE {[n |-> 0, want |-> "write"]} \cup (IF full THEN {} ELSE {[n |-> WriteLen, want |-> "none"]})
TakeRecords == extra' = 0 /\ hs' = (hs /\ extra = 0) /\ UNCHANGED records

\* redisBufferWrite through redisSSLWrite, when that is no error.
SSLWritten(out) ==
  /\ lastLen' = (IF obuf = 0 THEN lastLen ELSE IF out.want = "none" THEN 0 ELSE WriteLen)
  /\ full' \in (IF out.want = "write" THEN {TRUE} ELSE {full, out.n > 0})
Done(out) == obuf = out.n

\* Mutation: the write that waits for a read is not noted.
redisSSLAsyncWriteUnnoted ==
  /\ Handles("write") /\ Valid /\ connected /\ setup.tls /\ ctx = "alive"
  /\ \E out \in WriteOutcomes :
       /\ SSLWritten(out) /\ obuf' = obuf - out.n /\ replies' = replies + out.n
       /\ wantRead' = (wantRead \/ out.want = "read") /\ pendingWrite' = FALSE
       /\ ev' = Add(IF Done(out) \/ wantRead' THEN Del(ev, "write") ELSE Add(ev, "write"), "read")
  /\ IF obuf = 0 THEN UNCHANGED <<extra, hs, records>> ELSE TakeRecords
  /\ UNCHANGED <<setup, phase, connected, ctx, bad, waiting, issued>>
\* redisSSLAsyncWrite.
redisSSLAsyncWrite ==
  /\ Handles("write") /\ Valid /\ connected /\ setup.tls
  /\ \/ Disconnect(ev, TRUE) /\ UNCHANGED <<tlsVars, netVars>>
     \/ /\ ctx = "alive"
        /\ \E out \in WriteOutcomes :
             LET want == wantRead \/ out.want = "read"
             IN /\ SSLWritten(out) /\ obuf' = obuf - out.n /\ replies' = replies + out.n
                /\ wantRead' = want
                /\ pendingWrite' = (out.want = "write" \/ (~Done(out) /\ want))
                /\ ev' = Add(IF Done(out) \/ want THEN Del(ev, "write") ELSE Add(ev, "write"), "read")
        /\ IF obuf = 0 THEN UNCHANGED <<extra, hs, records>> ELSE TakeRecords
        /\ UNCHANGED <<ctx, bad, waiting, issued>>
  /\ UNCHANGED <<setup, phase, connected>>

\* redisSSLAsyncRead: a write that waited for this event, then redisBufferRead
\* through redisSSLRead: n replies, or SSL_read wants more.
redisSSLAsyncRead ==
  /\ Handles("read") /\ Valid /\ connected /\ setup.tls
  /\ \/ Disconnect(ev, TRUE) /\ UNCHANGED <<tlsVars, netVars>>
     \/ /\ ctx = "alive"
        /\ \E out \in (IF pendingWrite THEN WriteOutcomes ELSE {[n |-> 0, want |-> "none"]}),
              n \in 0..replies, want \in {"read", "write"} :
             LET e == IF pendingWrite /\ ~Done(out) THEN Add(ev, "write") ELSE ev
             IN /\ n = 0 => replies = 0
                /\ want = "write" => n = 0 /\ hs /\ full
                /\ IF pendingWrite THEN SSLWritten(out) ELSE UNCHANGED <<lastLen, full>>
                /\ replies' = replies - n + out.n
                /\ wantRead' = (out.want = "read" \/ (n = 0 /\ want = "read"))
                /\ pendingWrite' = (out.want = "write" \/ (n = 0 /\ want = "write"))
                /\ Callbacks(obuf - out.n, waiting - n, Add(e, "read"))
        /\ TakeRecords
  /\ UNCHANGED <<setup, phase, connected>>

(* --- the other side ------------------------------------------------------------ *)

world == <<setup, phase, ctx, ev, todo, bad, clientVars, tlsVars, replies>>
Drains == full /\ full' = FALSE /\ UNCHANGED <<world, hs, extra, records>>
\* A record TLS waits for; one nobody waits for, such as a session ticket.
Handshake == hs /\ extra = 0 /\ extra' = 1 /\ UNCHANGED <<world, full, hs, records>>
Record == /\ setup.tls /\ phase # "tls" /\ records > 0
          /\ records' = records - 1 /\ extra' = extra + 1 /\ UNCHANGED <<world, full, hs>>

Handler == Skip \/ Leave \/ HandledTooLate \/ HandleConnect \/ ConnectDone \/ HandleTimeout
           \/ redisAsyncRead \/ redisAsyncWrite \/ redisSSLAsyncRead \/ redisSSLAsyncWrite
Next == \/ redisSSLConnect \/ Attach \/ on_close \/ QtAdapterDeleted
        \/ redisAsyncFree \/ redisAsyncCommand \/ Poll \/ Handler
        \/ Drains \/ Handshake \/ Record
Spec == Init /\ [][Next]_vars

\* A handler goes on; the library reports what stays ready, the connection is made
\* or fails, and a socket that takes bytes again and again gets some written.
Connects == HandleConnect \/ ConnectDone
Writes == (redisAsyncWrite \/ redisSSLAsyncWrite) /\ (obuf' < obuf \/ obuf = 0)
FairSpec ==
  /\ Spec /\ WF_vars(Handler) /\ WF_vars(Drains) /\ WF_vars(Handshake)
  /\ SF_vars(Poll /\ "write" \in Range(todo')) /\ SF_vars(Poll /\ "read" \in Range(todo') /\ Ready("read"))
  /\ SF_vars(ConnectDone) /\ SF_vars(Writes)

(* --- properties ------------------------------------------------------------------ *)

Events == [flags : SUBSET IO, watch : SUBSET IO, wish : SUBSET IO, timer : BOOLEAN,
           data : {"NULL", "valid", "freed"}, hooks : BOOLEAN, cleaned : BOOLEAN,
           entered : BOOLEAN, deleted : BOOLEAN, frees : Nat]
TypeOK ==
  /\ setup \in Setups /\ phase \in {"tls", "attach", "up", "failed"}
  /\ ctx \in {"alive", "dead", "freed", "aborted"}
  /\ ev \in Events /\ todo \in Seq(IO \cup {"timeout"})
  /\ {bad, connected, wantRead, pendingWrite, full, hs} \subseteq BOOLEAN
  /\ obuf \in 0..MaxCommands /\ issued \in 0..MaxCommands /\ waiting \in 0..MaxCommands /\ replies \in 0..MaxCommands
  /\ lastLen \in 0..MaxCommands /\ extra \in Nat /\ records \in 0..MaxRecords

\* No handler runs on a context that is gone, and no hook on an adapter that is gone,
\* however events that are reported together, time-outs, errors and callbacks that free
\* meet, except: glib's dispatch reads after the write that freed the context, and does
\* nothing else then; the hooks of libuv and macosx after an attachment that failed; and
\* those of Qt's adapter, and its destructor, when the user deletes it.
Exempt == \/ setup.adapter = "glib" /\ ctx \in {"freed", "aborted"}
          \/ setup.adapter \in {"libuv", "macosx"} /\ phase = "failed"
          \/ setup.adapter = "qt" /\ ev.frees > 0
GlibOnlyReads ==
  setup.adapter = "glib" /\ ctx \in {"freed", "aborted"} => todo \in {<<>>, <<"read">>}
NoUseAfterFree == (bad => Exempt) /\ GlibOnlyReads

\* An adapter is freed once, and not while a handler of its own is still to use it:
\* when a context is gone and all handlers have returned, nothing is left.
FreedOnce ==
  /\ phase = "up" => ev.frees <= 1
  /\ phase = "up" /\ ctx # "alive" /\ adapter.end # "user" /\ todo = <<>> /\ ~ev.entered =>
       ev.frees = 1 \/ (adapter.end = "closed" /\ ev.deleted)
  /\ ev.frees = 1 => ~ev.entered

\* Contexts and adapters are freed once and not used afterwards.
MemorySafe == NoUseAfterFree /\ FreedOnce

\* What the client asked for is what the library watches: the adapter's own flags, with
\* which it saves calls and puts its event together again, have not gone astray.
InterestKept == ev.data = "valid" /\ ~ev.cleaned => ev.wish \subseteq ev.watch

\* Commands in the output buffer are never forgotten: an event is awaited that will have
\* them written, the socket's writability, or in TLS a read that must come first.
UnsentIsWatched ==
  ctx = "alive" /\ phase = "up" /\ ev.data = "valid" /\ obuf > 0 =>
    \/ "write" \in ev.watch
    \/ setup.tls /\ pendingWrite /\ "read" \in ev.watch

\* A TLS write that is tried again is tried with bytes that are still in the buffer.
RetryWithinBuffer == ctx = "alive" => lastLen <= obuf

\* What the client, the adapter, TLS and the library each remember of what is awaited
\* agrees, and covers what is still to be sent.
WatchesAsNeeded == TypeOK /\ InterestKept /\ UnsentIsWatched /\ RetryWithinBuffer

\* Commands in the output buffer are written, unless the context or its adapter goes.
Written == obuf = 0 \/ ctx # "alive" \/ ev.data # "valid"
Flushed == (~setup.tls /\ phase = "up" /\ obuf > 0) ~> Written

\* An event loop with nothing to write does not spin on a socket that can be written to.
WriteWatched == ctx = "alive" /\ ev.data = "valid" /\ "write" \in ev.watch /\ obuf = 0
QuietWhenIdle == WriteWatched ~> ~WriteWatched

\* "Need to read-before-write" (ssl.c): a write is put off only as long as TLS has
\* something to read first, so commands are written in TLS too.
TLSFlushed == (setup.tls /\ phase = "up" /\ obuf > 0) ~> Written
=============================================================================
