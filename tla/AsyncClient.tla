---------------------------- MODULE AsyncClient ----------------------------
(***************************************************************************)
(* The asynchronous client of hiredis/async.c: one context, the event loop *)
(* that drives it, the user code it calls back and the server it talks to. *)
(*                                                                         *)
(* Everything runs on one thread.  What interleaves is the order of events *)
(* (readable, writable, timeout, server closing) and what user code does   *)
(* while a handler is in the middle of its loop: a callback can send       *)
(* commands, disconnect or free the context that is calling it.  pc says   *)
(* which loop of which handler is running; "..._cb" is user code.          *)
(*                                                                         *)
(* Not modelled: MONITOR, allocation failures, the text of replies.  The   *)
(* reply of a plain command is one that is not an array.                   *)
(***************************************************************************)
EXTENDS Integers, Sequences, FiniteSets, SequencesExt

CONSTANTS
  Plain, Subscribes, Unsubscribes, \* the commands; each is sent at most once
  NullFn,      \* the commands sent without a callback
  Channels,    \* channels and patterns, which the code treats alike
  Args,        \* the channels a (un)subscribe names, in order
  None,
  MaxNotices,  \* messages and pushes the server sends of its own
  Patient      \* TRUE: users wait for the answers to UNSUBSCRIBE (InTurn)

Commands == Plain \cup Subscribes \cup Unsubscribes

ASSUME ClientAssumption ==
  /\ Plain \cap Subscribes = {} /\ Plain \cap Unsubscribes = {}
  /\ Subscribes \cap Unsubscribes = {}
  /\ NullFn \subseteq Commands
  /\ None \notin Commands \cup Channels
  /\ Args \in [Subscribes \cup Unsubscribes -> Seq(Channels)]
  /\ IsFiniteSet(Channels)
  /\ MaxNotices \in Nat
  /\ Patient \in BOOLEAN

VARIABLES
  pc,            \* the loop, handler or callback that is running
  flags,         \* c.flags
  err,           \* c.err # 0
  detached,      \* ev.cleanup has been called: no more events
  replies,       \* callbacks of commands that wait for a reply
  invalid,       \* sub.invalid: those of commands sent while subscribed
  channels,      \* sub.channels and sub.patterns: callback and pending_subs
  obuf,          \* commands in the output buffer
  inbuf,         \* replies in the reader
  cb, reply,     \* the locals of redisProcessCallbacks
  onDisconnect,  \* the status the disconnect callback was called with
  resp3,         \* the protocol in use
  server,        \* "new", "open" or "closed"
  subs,          \* the channels the server has the client subscribed to
  wire,          \* replies on their way
  notices,       \* how many messages and pushes there were
  issued,        \* history: the accepted commands, in order
  called,        \* history: how often a plain command's callback was called
  answered,      \* history: the plain commands whose callback got a reply
  asked          \* history: where the user first asked to free the context

clientVars  == << replies, invalid, channels >>
serverVars  == << resp3, server, subs, notices >>
localVars   == << cb, reply >>
historyVars == << issued, called, answered, asked >>
closeVars   == << err, detached, onDisconnect >>

vars == << pc, flags, closeVars, clientVars, obuf, inbuf, localVars,
           serverVars, wire, historyVars >>

-----------------------------------------------------------------------------
Flags == {"CONNECTED", "DISCONNECTING", "FREEING", "IN_CALLBACK", "SUBSCRIBED",
          "NO_AUTO_FREE"}

Callbacks == {"reply_cb", "push_cb", "timeout_cb", "free_cb"}

\* Where user code runs: on the event loop or in a callback of the context.
UserCode == {"loop"} \cup Callbacks

Gone == {"freed", "aborted"}

Reply(kind, of, left) == [kind |-> kind, of |-> of, left |-> left]

NoReply == Reply("none", None, 0)

Init ==
  /\ pc = "loop"
  /\ flags \in {{}, {"NO_AUTO_FREE"}}
  /\ err = FALSE /\ detached = FALSE /\ onDisconnect = "none"
  /\ replies = << >> /\ invalid = << >>
  /\ channels = [c \in {} |-> None]
  /\ obuf = << >> /\ inbuf = << >> /\ wire = << >>
  /\ cb = None /\ reply = NoReply
  /\ resp3 \in BOOLEAN
  /\ server = "new" /\ subs = {} /\ notices = 0
  /\ issued = << >>
  /\ called = [c \in Plain |-> 0] /\ answered = {}
  /\ asked = "nowhere"

-----------------------------------------------------------------------------
(* Calling back.                                                           *)

\* The callback of a command is about to be called with a reply, or with NULL.
Count(cmd, got) ==
  IF cmd \in Plain
    THEN /\ called' = [called EXCEPT ![cmd] = @ + 1]
         /\ answered' = IF got THEN answered \cup {cmd} ELSE answered
         /\ UNCHANGED << issued, asked >>
    ELSE UNCHANGED historyVars

\* __redisRunCallback: fl are the flags before the call, "at" the loop it is in.
__redisRunCallback(cmd, fl, at, got) ==
  IF cmd \in NullFn \cup {None}
    THEN /\ pc' = at
         /\ flags' = fl
         /\ UNCHANGED historyVars
    ELSE /\ pc' = (CASE at = "process" -> "reply_cb"
                     [] at = "timeout" -> "timeout_cb"
                     [] at = "free"    -> "free_cb")
         /\ flags' = fl \cup {"IN_CALLBACK"}
         /\ Count(cmd, got)

\* Mutation: REDIS_FREEING is not looked at.
CallbackReturnsUnfreed ==
  /\ pc \in Callbacks
  /\ flags' = flags \ {"IN_CALLBACK"}
  /\ pc' = (CASE pc \in {"reply_cb", "push_cb"} -> "process"
              [] pc = "timeout_cb" -> "timeout"
              [] pc = "free_cb"    -> "free")
  /\ reply' = NoReply
  /\ cb' = IF pc' = "process" THEN cb ELSE None
  /\ UNCHANGED << closeVars, clientVars, obuf, inbuf, serverVars, wire,
                  historyVars >>

\* User code returns; the flag is cleared.  Only redisProcessCallbacks looks at
\* REDIS_FREEING, and only after a reply callback.
CallbackReturns ==
  /\ pc \in Callbacks
  /\ flags' = flags \ {"IN_CALLBACK"}
  /\ pc' = (CASE pc = "reply_cb"   -> IF "FREEING" \in flags THEN "free"
                                                            ELSE "process"
              [] pc = "push_cb"    -> "process"
              [] pc = "timeout_cb" -> "timeout"
              [] pc = "free_cb"    -> "free")
  /\ reply' = NoReply
  /\ cb' = IF pc' = "process" THEN cb ELSE None
  /\ UNCHANGED << closeVars, clientVars, obuf, inbuf, serverVars, wire,
                  historyVars >>

-----------------------------------------------------------------------------
(* Disconnecting and freeing.                                              *)

\* __redisAsyncDisconnect, with the flags and the error it finds.
__redisAsyncDisconnect(fl, e) ==
  LET fl2 == IF e THEN fl \cup {"DISCONNECTING"} ELSE fl IN
  /\ err' = e
  /\ flags' = fl2
  /\ detached' = TRUE
  /\ pc' = IF ~e /\ replies # << >> THEN "aborted"
           ELSE IF "NO_AUTO_FREE" \in fl2 THEN "loop"
           ELSE "free"
  /\ UNCHANGED onDisconnect

\* redisFree releases the buffers and the socket last.  Nothing looks at them
\* once __redisAsyncFree has begun, and the model lets go of them at once.
redisFree ==
  /\ obuf' = << >> /\ inbuf' = << >> /\ wire' = << >>
  /\ server' = "closed" /\ subs' = {}

\* One turn of the loops of __redisAsyncFree that call what is pending.
FreeCallsBack ==
  /\ pc = "free"
  /\ \/ /\ replies # << >>
        /\ replies' = Tail(replies)
        /\ __redisRunCallback(Head(replies), flags, "free", FALSE)
        /\ UNCHANGED << invalid, channels >>
     \/ /\ replies = << >> /\ invalid # << >>
        /\ invalid' = Tail(invalid)
        /\ __redisRunCallback(Head(invalid), flags, "free", FALSE)
        /\ UNCHANGED << replies, channels >>
     \/ /\ replies = << >> /\ invalid = << >>
        /\ \E ch \in DOMAIN channels :
             /\ channels' = [c \in DOMAIN channels \ {ch} |-> channels[c]]
             /\ __redisRunCallback(channels[ch].fn, flags, "free", FALSE)
        /\ UNCHANGED << replies, invalid >>
  /\ redisFree
  /\ UNCHANGED << closeVars, localVars, resp3, notices >>

\* Mutation: only the callbacks in replies are called.
FreeEndsEarly ==
  /\ pc = "free"
  /\ replies = << >>
  /\ detached' = TRUE
  /\ onDisconnect' = IF "CONNECTED" \notin flags THEN "none"
                     ELSE IF "FREEING" \in flags \/ ~err THEN "OK"
                     ELSE "ERR"
  /\ pc' = "freed"
  /\ redisFree
  /\ UNCHANGED << flags, err, clientVars, localVars, resp3, notices,
                  historyVars >>

\* Mutation: ac->err is not copied from c->err.
FreeEndsOK ==
  /\ pc = "free"
  /\ replies = << >> /\ invalid = << >> /\ DOMAIN channels = {}
  /\ detached' = TRUE
  /\ onDisconnect' = IF "CONNECTED" \in flags THEN "OK" ELSE "none"
  /\ pc' = "freed"
  /\ redisFree
  /\ UNCHANGED << flags, err, clientVars, localVars, resp3, notices,
                  historyVars >>

\* The status the disconnect callback is called with.
FreeEnds ==
  /\ pc = "free"
  /\ replies = << >> /\ invalid = << >> /\ DOMAIN channels = {}
  /\ detached' = TRUE
  /\ onDisconnect' = IF "CONNECTED" \notin flags THEN "none"
                     ELSE IF "FREEING" \in flags \/ ~err THEN "OK"
                     ELSE "ERR"
  /\ pc' = "freed"
  /\ redisFree
  /\ UNCHANGED << flags, err, clientVars, localVars, resp3, notices,
                  historyVars >>

-----------------------------------------------------------------------------
(* The user's calls.                                                       *)

redisAsyncDisconnect ==
  LET fl == (flags \cup {"DISCONNECTING"}) \ {"NO_AUTO_FREE"} IN
  /\ pc \in UserCode
  /\ IF "IN_CALLBACK" \notin flags /\ replies = << >>
       THEN __redisAsyncDisconnect(fl, err)
       ELSE flags' = fl /\ UNCHANGED << pc, closeVars >>
  /\ UNCHANGED << clientVars, obuf, inbuf, localVars, serverVars, wire,
                  historyVars >>

redisAsyncFree ==
  /\ pc \in UserCode
  /\ flags' = flags \cup {"FREEING"}
  /\ pc' = IF "IN_CALLBACK" \in flags THEN pc ELSE "free"
  /\ asked' = IF "FREEING" \in flags THEN asked ELSE pc
  /\ UNCHANGED << closeVars, clientVars, obuf, inbuf, localVars, serverVars,
                  wire, issued, called, answered >>

\* One turn of the loop of SUBSCRIBE: pending_subs is the count of the channel's
\* entry and one, or else what the turn before has left in cb.
AddSubscription(acc, ch, cmd) ==
  LET pending == IF ch \in DOMAIN acc.dict THEN acc.dict[ch].pending_subs + 1
                                           ELSE acc.pending_subs
  IN  [dict |-> [c \in DOMAIN acc.dict \cup {ch} |->
                   IF c = ch THEN [fn |-> cmd, pending_subs |-> pending]
                             ELSE acc.dict[c]],
       pending_subs |-> pending]

Subscribed(cmd) ==
  LET turn[i \in 0 .. Len(Args[cmd])] ==
        IF i = 0 THEN [dict |-> channels, pending_subs |-> 1]
                 ELSE AddSubscription(turn[i - 1], Args[cmd][i], cmd)
  IN  turn[Len(Args[cmd])].dict

\* The command is accepted; when it is not, nothing happens.
Accepting(cmd) ==
  /\ flags \cap {"DISCONNECTING", "FREEING"} = {}
  /\ cmd \in Unsubscribes => "SUBSCRIBED" \in flags

\* An UNSUBSCRIBE that is still to be written, or whose answer is to be read.
Unsubscribing ==
  \/ \E cmd \in Unsubscribes : Contains(obuf, cmd)
  \/ \E r \in Range(wire \o inbuf) : r.kind = "unsubscribe"

\* What patient users do not send behind it: plain commands and another UNSUBSCRIBE.
\* They unsubscribe from what they have subscribed to.
InTurn(cmd) ==
  \/ cmd \in Subscribes
  \/ cmd \in Plain /\ ~Unsubscribing
  \/ /\ cmd \in Unsubscribes /\ ~Unsubscribing
     /\ Range(Args[cmd]) \subseteq DOMAIN channels

\* Mutation: a command without a callback is not put in the list.
EnlistUnlessNull(cmd) ==
  \/ /\ cmd \in Subscribes
     /\ channels' = Subscribed(cmd)
     /\ flags' = flags \cup {"SUBSCRIBED"}
     /\ UNCHANGED << replies, invalid >>
  \/ /\ cmd \in Unsubscribes \cup NullFn
     /\ UNCHANGED << flags, clientVars >>
  \/ /\ cmd \in Plain \ NullFn
     /\ IF "SUBSCRIBED" \in flags
          THEN invalid' = Append(invalid, cmd) /\ UNCHANGED replies
          ELSE replies' = Append(replies, cmd) /\ UNCHANGED invalid
     /\ UNCHANGED << flags, channels >>

\* Where the callback goes.
Enlist(cmd) ==
  \/ /\ cmd \in Subscribes
     /\ channels' = Subscribed(cmd)
     /\ flags' = flags \cup {"SUBSCRIBED"}
     /\ UNCHANGED << replies, invalid >>
  \/ /\ cmd \in Unsubscribes
     /\ UNCHANGED << flags, clientVars >>
  \/ /\ cmd \in Plain
     /\ IF "SUBSCRIBED" \in flags
          THEN invalid' = Append(invalid, cmd) /\ UNCHANGED replies
          ELSE replies' = Append(replies, cmd) /\ UNCHANGED invalid
     /\ UNCHANGED << flags, channels >>

__redisAsyncCommand(cmd) ==
  /\ pc \in UserCode \cup {"connect_cb"}
  /\ ~Contains(issued, cmd)
  /\ Patient => InTurn(cmd)
  /\ Accepting(cmd)
  /\ Enlist(cmd)
  /\ obuf' = Append(obuf, cmd)
  /\ issued' = Append(issued, cmd)
  /\ UNCHANGED << pc, closeVars, inbuf, localVars, serverVars, wire, called,
                  answered, asked >>

-----------------------------------------------------------------------------
(* Events.  A handler that finds the context not connected looks at the    *)
(* socket first, and goes on to read or write when it is.                  *)

Dispatched == pc = "loop" /\ ~detached

Connected == "CONNECTED" \in flags

HandleConnect ==
  /\ Dispatched /\ ~Connected
  /\ \/ /\ pc' = "connect_cb"
        /\ UNCHANGED << flags, closeVars >>
     \/ __redisAsyncDisconnect(flags, TRUE)
  /\ UNCHANGED << clientVars, obuf, inbuf, localVars, serverVars, wire,
                  historyVars >>

\* onConnect(ac, REDIS_OK) returns.
ConnectReturns ==
  /\ pc = "connect_cb"
  /\ flags' = flags \cup {"CONNECTED"}
  /\ pc' \in {"read", "write"}
  /\ UNCHANGED << closeVars, clientVars, obuf, inbuf, localVars, serverVars,
                  wire, historyVars >>

\* redisBufferRead gets n whole replies; redisProcessCallbacks begins.
HandleRead(n) ==
  /\ (Dispatched /\ Connected) \/ pc = "read"
  /\ n \in 0 .. Len(wire)
  /\ inbuf' = inbuf \o SubSeq(wire, 1, n)
  /\ wire' = SubSeq(wire, n + 1, Len(wire))
  /\ pc' = "process"
  /\ UNCHANGED << flags, closeVars, clientVars, obuf, localVars, serverVars,
                  historyVars >>

\* What the server answers to a command.
Answers(cmd, kind) ==
  IF cmd \in Plain
    THEN << Reply(IF subs # {} /\ ~resp3 THEN "error" ELSE kind, cmd, 0) >>
    ELSE [i \in 1 .. Len(Args[cmd]) |->
            LET named == {Args[cmd][j] : j \in 1 .. i}
            IN  IF cmd \in Subscribes
                  THEN Reply("subscribe", Args[cmd][i],
                             Cardinality(subs \cup named))
                  ELSE Reply("unsubscribe", Args[cmd][i],
                             Cardinality(subs \ named))]

\* redisBufferWrite writes the first command, and the server answers it.  A call
\* that writes more is several of these.
HandleWrite ==
  /\ (Dispatched /\ Connected) \/ pc = "write"
  /\ obuf # << >>
  /\ LET cmd == Head(obuf) IN
       IF server = "closed"
         THEN UNCHANGED << subs, wire, server >>
         ELSE /\ server' = "open"
              /\ \E kind \in {"reply", "error"} :
                   wire' = wire \o Answers(cmd, kind)
              /\ subs' = IF cmd \in Subscribes THEN subs \cup Range(Args[cmd])
                         ELSE IF cmd \in Unsubscribes
                           THEN subs \ Range(Args[cmd])
                         ELSE subs
  /\ obuf' = Tail(obuf)
  /\ pc' = "loop"
  /\ UNCHANGED << flags, closeVars, clientVars, inbuf, localVars, resp3, notices,
                  historyVars >>

NothingToWrite ==
  /\ pc = "write" /\ obuf = << >>
  /\ pc' = "loop"
  /\ UNCHANGED << flags, closeVars, clientVars, obuf, inbuf, localVars,
                  serverVars, wire, historyVars >>

\* The server has gone: end of file or an error, when reading or writing.
SocketFails ==
  /\ (Dispatched /\ Connected) \/ pc \in {"read", "write"}
  /\ server = "closed"
  /\ __redisAsyncDisconnect(flags, TRUE)
  /\ UNCHANGED << clientVars, obuf, inbuf, localVars, serverVars, wire,
                  historyVars >>

\* redisAsyncHandleTimeout, when it is not just an idle timeout.
HandleTimeout ==
  /\ Dispatched
  /\ ~Connected \/ replies # << >>
  /\ err' = TRUE
  /\ pc' = "timeout"
  /\ UNCHANGED << flags, detached, onDisconnect, clientVars, obuf, inbuf,
                  localVars, serverVars, wire, historyVars >>

\* One turn of its loop, and what comes after it.
TimeoutCallsBack ==
  /\ pc = "timeout" /\ replies # << >>
  /\ replies' = Tail(replies)
  /\ __redisRunCallback(Head(replies), flags, "timeout", FALSE)
  /\ UNCHANGED << closeVars, invalid, channels, obuf, inbuf, localVars,
                  serverVars, wire >>

TimeoutEnds ==
  /\ pc = "timeout" /\ replies = << >>
  /\ __redisAsyncDisconnect(flags, err)
  /\ UNCHANGED << clientVars, obuf, inbuf, localVars, serverVars, wire,
                  historyVars >>

-----------------------------------------------------------------------------
(* redisProcessCallbacks, one turn of its loop per action.                 *)

Leave == cb' = None /\ reply' = NoReply

\* Mutation: the disconnection is left to the next call of the user.
NoMoreRepliesWaiting ==
  /\ pc = "process" /\ inbuf = << >>
  /\ pc' = "loop"
  /\ Leave
  /\ UNCHANGED << flags, closeVars, clientVars, obuf, inbuf, serverVars, wire,
                  historyVars >>

\* No more replies: the cue to disconnect, or wait for the next event.
NoMoreReplies ==
  /\ pc = "process" /\ inbuf = << >>
  /\ IF "DISCONNECTING" \in flags /\ obuf = << >> /\ replies = << >>
       THEN __redisAsyncDisconnect(flags, err)
       ELSE pc' = "loop" /\ UNCHANGED << flags, closeVars >>
  /\ Leave
  /\ UNCHANGED << clientVars, obuf, inbuf, serverVars, wire, historyVars >>

\* The reader cannot make sense of the bytes, or has no memory for them.
ReaderFails ==
  /\ pc = "process"
  /\ __redisAsyncDisconnect(flags, TRUE)
  /\ Leave
  /\ UNCHANGED << clientVars, obuf, inbuf, serverVars, wire, historyVars >>

PubSub == {"subscribe", "unsubscribe", "message"}

redisIsPushReply(r) == r.kind = "push" \/ (resp3 /\ r.kind \in PubSub)

redisIsSubscribeReply(r) == r.kind \in {"subscribe", "message"}

redisIsSpontaneousPushReply(r) == redisIsPushReply(r) /\ ~redisIsSubscribeReply(r)

NextReply ==
  /\ pc = "process" /\ inbuf # << >>
  /\ reply' = Head(inbuf)
  /\ inbuf' = Tail(inbuf)

PushReply ==
  /\ NextReply
  /\ redisIsSpontaneousPushReply(reply')
  /\ pc' = "push_cb"
  /\ flags' = flags \cup {"IN_CALLBACK"}
  /\ UNCHANGED << closeVars, clientVars, obuf, cb, serverVars, wire,
                  historyVars >>

\* A regular callback is waiting: the reply is for the first one.
RegularReply ==
  /\ NextReply
  /\ ~redisIsSpontaneousPushReply(reply')
  /\ replies # << >>
  /\ cb' = Head(replies)
  /\ replies' = Tail(replies)
  /\ __redisRunCallback(cb', flags, "process", TRUE)
  /\ UNCHANGED << closeVars, invalid, channels, obuf, serverVars, wire >>

Unexpected ==
  /\ NextReply
  /\ ~redisIsSpontaneousPushReply(reply')
  /\ replies = << >>

\* An error nobody waits for closes the connection.
SpontaneousError ==
  /\ Unexpected
  /\ reply'.kind = "error"
  /\ __redisAsyncDisconnect(flags, TRUE)
  /\ cb' = None
  /\ UNCHANGED << clientVars, obuf, serverVars, wire, historyVars >>

\* assert((c->flags & REDIS_SUBSCRIBED || c->flags & REDIS_MONITORING))
AssertionFails ==
  /\ Unexpected
  /\ reply'.kind # "error"
  /\ "SUBSCRIBED" \notin flags
  /\ pc' = "aborted"
  /\ UNCHANGED << flags, closeVars, clientVars, obuf, cb, serverVars, wire,
                  historyVars >>

\* Mutation: replies to SUBSCRIBE are not counted.
ChannelEntryUncounted(r) ==
  IF r.kind = "unsubscribe" /\ channels[r.of].pending_subs = 0
    THEN [c \in DOMAIN channels \ {r.of} |-> channels[c]]
  ELSE channels

\* Mutation: the entry goes with the first UNSUBSCRIBE.
ChannelEntryDropped(r) ==
  IF r.kind = "subscribe"
    THEN [channels EXCEPT ![r.of].pending_subs = @ - 1]
  ELSE IF r.kind = "unsubscribe"
    THEN [c \in DOMAIN channels \ {r.of} |-> channels[c]]
  ELSE channels

\* __redisGetSubscribeCallback on a message about a channel.  When it does not
\* know the channel it leaves cb, the callback of the turn before, as it was.
ChannelEntry(r) ==
  IF r.kind = "subscribe"
    THEN [channels EXCEPT ![r.of].pending_subs = @ - 1]
  ELSE IF r.kind = "unsubscribe" /\ channels[r.of].pending_subs = 0
    THEN [c \in DOMAIN channels \ {r.of} |-> channels[c]]
  ELSE channels

ChannelReply ==
  /\ Unexpected
  /\ "SUBSCRIBED" \in flags
  /\ reply'.kind \in PubSub
  /\ IF reply'.of \in DOMAIN channels
       THEN /\ cb' = channels[reply'.of].fn
            /\ channels' = ChannelEntry(reply')
       ELSE UNCHANGED << cb, channels >>
  /\ LET last == /\ reply'.of \in DOMAIN channels
                 /\ reply'.kind = "unsubscribe" /\ reply'.left = 0
                 /\ DOMAIN channels' = {}
     IN  __redisRunCallback(cb', IF last THEN flags \ {"SUBSCRIBED"} ELSE flags,
                            "process", TRUE)
  /\ UNCHANGED << closeVars, replies, invalid, obuf, serverVars, wire >>

\* The same on a reply to a command sent while subscribed.
InvalidReply ==
  /\ Unexpected
  /\ "SUBSCRIBED" \in flags
  /\ reply'.kind = "reply"
  /\ IF invalid # << >>
       THEN cb' = Head(invalid) /\ invalid' = Tail(invalid)
       ELSE UNCHANGED << cb, invalid >>
  /\ __redisRunCallback(cb', flags, "process", TRUE)
  /\ UNCHANGED << closeVars, replies, channels, obuf, serverVars, wire >>

-----------------------------------------------------------------------------
(* The server, of its own.  What it does while a handler is running makes  *)
(* no difference before the next event, so it waits for the loop.          *)

\* A message on a channel, or in RESP3 a push about something else.
Notice ==
  /\ pc = "loop" /\ server = "open"
  /\ notices < MaxNotices
  /\ notices' = notices + 1
  /\ \/ \E ch \in subs : wire' = Append(wire, Reply("message", ch, 0))
     \/ resp3 /\ wire' = Append(wire, Reply("push", None, 0))
  /\ UNCHANGED << pc, flags, closeVars, clientVars, obuf, inbuf, localVars,
                  resp3, server, subs, historyVars >>

\* Too many clients, or a server that is loading: an error, then it closes.
Reject ==
  /\ pc = "loop" /\ server = "new" /\ Connected
  /\ server' = "closed"
  /\ wire' = << Reply("error", None, 0) >>
  /\ UNCHANGED << pc, flags, closeVars, clientVars, obuf, inbuf, localVars,
                  resp3, subs, notices, historyVars >>

Close ==
  /\ pc = "loop" /\ server \in {"new", "open"} /\ Connected
  /\ server' = "closed"
  /\ UNCHANGED << pc, flags, closeVars, clientVars, obuf, inbuf, localVars,
                  resp3, subs, notices, wire, historyVars >>

-----------------------------------------------------------------------------
redisProcessCallbacks ==
  \/ NoMoreReplies \/ ReaderFails \/ PushReply \/ RegularReply
  \/ SpontaneousError \/ AssertionFails \/ ChannelReply \/ InvalidReply

\* What runs to its end once it has begun.
Handler ==
  \/ CallbackReturns \/ ConnectReturns \/ NothingToWrite \/ redisProcessCallbacks
  \/ TimeoutCallsBack \/ TimeoutEnds \/ FreeCallsBack \/ FreeEnds
  \/ pc = "read" /\ \E n \in 0 .. Len(wire) : HandleRead(n)
  \/ pc = "write" /\ HandleWrite

Next ==
  \/ Handler
  \/ redisAsyncDisconnect \/ redisAsyncFree
  \/ \E cmd \in Commands : __redisAsyncCommand(cmd)
  \/ HandleConnect \/ HandleWrite \/ SocketFails \/ HandleTimeout
  \/ \E n \in 0 .. Len(wire) : HandleRead(n)
  \/ Notice \/ Reject \/ Close

Spec == Init /\ [][Next]_vars

ReadAll == wire # << >> /\ HandleRead(Len(wire))

\* Handlers and callbacks return.  The event loop tells of a socket that stays
\* readable or writable, or that has been connected or refused.  No user has to
\* send, no timer has to be set, no server has to close.
Fairness ==
  /\ WF_vars(Handler)
  /\ SF_vars(HandleConnect) /\ SF_vars(HandleWrite) /\ SF_vars(ReadAll)
  /\ SF_vars(SocketFails)

FairSpec == Spec /\ Fairness

-----------------------------------------------------------------------------
(* Properties.                                                             *)

\* Every variable has its type, and a callback is running exactly while the
\* flag says so: it is what defers a free or a disconnect from inside one.
TypeOK ==
  /\ pc \in UserCode \cup Gone \cup
            {"connect_cb", "read", "write", "process", "timeout", "free"}
  /\ flags \subseteq Flags
  /\ "IN_CALLBACK" \in flags <=> pc \in Callbacks
  /\ err \in BOOLEAN /\ detached \in BOOLEAN
  /\ onDisconnect \in {"none", "OK", "ERR"}
  /\ replies \in Seq(Plain) /\ invalid \in Seq(Plain)
  /\ \A ch \in DOMAIN channels :
       ch \in Channels /\ channels[ch].fn \in Subscribes
         /\ channels[ch].pending_subs \in Nat
  /\ obuf \in Seq(Commands) /\ issued \in Seq(Commands)
  /\ cb \in Commands \cup {None}
  /\ subs \subseteq Channels
  /\ called \in [Plain -> Nat] /\ answered \subseteq Plain

\* Replies carry no name: the n-th goes to the n-th callback.  Yet no callback
\* is handed the reply of another command, or a message of a channel it did not
\* subscribe to, whatever is unsubscribed, timed out or freed in between.
RightReply ==
  pc = "reply_cb" =>
    \/ reply.of \in {cb, None}
    \/ cb \in Subscribes /\ reply.of \in Range(Args[cb])

\* No callback is called twice, and when the context is gone every accepted
\* command's callback has been called, if only with NULL.
CalledOnce ==
  /\ \A cmd \in Plain : called[cmd] <= 1
  /\ pc = "freed" =>
       \A cmd \in Plain \ NullFn : called[cmd] = 1 <=> Contains(issued, cmd)

\* The plain commands sent before any subscription.
Early ==
  {cmd \in Plain : \E i \in DOMAIN issued :
     issued[i] = cmd /\ \A j \in 1 .. i : issued[j] \notin Subscribes}

\* A disconnection the user asked for, and that nothing disturbed, comes after
\* the replies: the disconnect callback is told OK only when every command sent
\* before a subscription has been answered.
CleanDisconnect ==
  onDisconnect = "OK" /\ "FREEING" \notin flags => Early \ NullFn \subseteq answered

\* When all is quiet, client and server agree on what is subscribed to, so on
\* whether the connection is in the mode where commands are not allowed.  RESP3
\* clients are excepted: their answers to UNSUBSCRIBE go to the push handler.
SameMode ==
  /\ ~resp3 /\ server = "open" /\ pc = "loop" /\ ~detached
  /\ obuf = << >> /\ wire = << >>
  => /\ DOMAIN channels = subs
     /\ "SUBSCRIBED" \in flags <=> subs # {}

\* The client's records of its channels and commands are sound, and agree with the server's.
ModeAgrees == TypeOK /\ SameMode

\* A free asked for from inside a callback is carried out before the event loop
\* runs again, in RESP2 and RESP3, whatever other callbacks run in between.  Two
\* are forgotten: one asked for in the push callback, and one asked for in the
\* callback of a command that timed out, when the context is not to be freed
\* automatically.
FreeIsPickedUp ==
  pc = "loop" /\ "FREEING" \in flags =>
    \/ asked = "push_cb"
    \/ asked = "timeout_cb" /\ "NO_AUTO_FREE" \in flags /\ err /\ detached

\* redisAsyncDisconnect: a context that is being disconnected is gone one day,
\* unless an error leaves it to a user who asked for NO_AUTO_FREE, or a failed
\* assertion ends the process first (impatient users: see RightReply).
DisconnectCompletes ==
  ("DISCONNECTING" \in flags /\ ~detached) ~> (pc \in Gone \/ (err /\ detached))

\* async.c:565 "No more regular callbacks and no errors, the context *must* be
\* subscribed or monitoring": the assertion holds, and so does the one that a
\* clean disconnection leaves no callback behind.
ContextMustBeSubscribed == pc # "aborted"
=============================================================================
