--------------------------- MODULE EventLoopProofs ---------------------------
(***************************************************************************)
(* Proofs about EventLoop, for any set of setups and any number of         *)
(* commands and records.  IInv follows an adapter from before it is        *)
(* attached to after it is freed, and the commands from the buffer to      *)
(* their replies.                                                          *)
(***************************************************************************)
EXTENDS EventLoop, FiniteSetTheorems, SequenceTheorems, TLAPS

\* The commands of a live context are in the buffer or answered, and what TLS has to
\* try again is still in the buffer.
Counts ==
  /\ waiting <= issued /\ obuf <= waiting
  /\ ctx = "alive" => obuf + replies = waiting /\ lastLen <= obuf
  /\ obuf + replies <= issued
  /\ phase \in {"tls", "attach"} => issued = 0

\* Only TLS has anything to try again.
Plain == ~setup.tls => lastLen = 0

\* Before it is attached, and after that has failed, the library knows nothing.
Detached ==
  phase # "up" =>
    /\ ev.watch = {} /\ ~ev.timer /\ ev.data # "valid" /\ ~ev.entered /\ ~ev.deleted
    /\ todo = <<>>
    /\ phase # "failed" => ~ev.hooks /\ ev.frees = 0
    /\ phase = "failed" /\ ev.hooks => setup.adapter \in {"libuv", "macosx"}

\* An attached adapter is there until its context goes.
InUse ==
  phase = "up" =>
    /\ ev.hooks /\ (ev.cleaned <=> ctx # "alive")
    /\ ~ev.cleaned /\ adapter.end # "user" => ev.data = "valid" /\ ev.frees = 0
    /\ ~ev.cleaned => ~ev.deleted

\* Then it is freed, at the time its library allows.
CleanedUp ==
  phase = "up" /\ ev.cleaned =>
    /\ ev.watch = {} /\ ~ev.timer
    /\ adapter.end = "now" => ev.frees = 1
    /\ adapter.end = "closed" => IF ev.deleted THEN ev.frees = 0 ELSE ev.frees = 1 /\ todo = <<>>
    /\ adapter.end = "left" => IF ev.entered THEN ev.deleted /\ ev.frees = 0 ELSE ev.frees = 1

\* What only some adapters do.
Apart ==
  /\ adapter.end # "left" => ~ev.entered
  /\ adapter.end = "left" /\ todo # <<>> => ev.entered
  /\ ~Deferred => ~ev.deleted
  /\ adapter.timer = "none" => ~ev.timer
  /\ setup.adapter = "glib" => ev.frees = 0 /\ (phase = "up" => ev.data = "valid")
  /\ setup.adapter = "qt" => ev.frees <= 1 /\ (phase = "up" => (ev.data = "valid" <=> ev.frees = 0))
  /\ setup.adapter = "qt" /\ ev.data # "valid" => ev.watch = {}

\* Three memories of what is awaited: the client's, the adapter's, the library's.
Agree(e) == e.wish \subseteq e.flags /\ e.flags \subseteq e.watch
Needed(e, o, p) == o > 0 => "write" \in e.wish \/ (p /\ "read" \in e.wish)
Interests ==
  ev.data = "valid" /\ ~ev.cleaned =>
    Agree(ev) /\ (ctx = "alive" => Needed(ev, obuf, setup.tls /\ pendingWrite))

\* glib's dispatch writes before it reads.
GlibTurn ==
  setup.adapter = "glib" =>
    \A i, j \in DOMAIN todo : i < j => todo[i] = "write" /\ todo[j] = "read"

AdapterInv == Detached /\ InUse /\ CleanedUp /\ Apart
Uses == bad => Exempt
IInv == TypeOK /\ Counts /\ Plain /\ AdapterInv /\ Interests /\ Uses /\ GlibTurn /\ GlibOnlyReads
-----------------------------------------------------------------------------
USE DEF clientVars, tlsVars, netVars, IO

\* What the adapters have in common, and which of them are alone in something.
LEMMA AdapterFacts ==
  ASSUME TypeOK
  PROVE  /\ setup.adapter \in DOMAIN Adapters
         /\ {setup.tls, setup.timed, setup.keep} \subseteq BOOLEAN
         /\ adapter.end \in {"now", "closed", "left", "user"}
         /\ adapter.watch \subseteq IO
         /\ adapter.end = "user" <=> setup.adapter \in {"glib", "qt"}
         /\ setup.adapter # "glib" => adapter.order = <<>> \/ Deferred
         /\ adapter.end = "left" => adapter.order # <<>>
         /\ adapter.failure = "hooks" => setup.adapter = "libuv"
         /\ adapter.failure = "dangling" => setup.adapter = "macosx"
         /\ setup.adapter = "qt" => adapter.failure = "none" /\ adapter.timer = "none"
<1>1. /\ setup.adapter \in DOMAIN Adapters
      /\ {setup.tls, setup.timed, setup.keep} \subseteq BOOLEAN
  BY EventLoopAssumption DEF TypeOK
<1>2. DOMAIN Adapters = {"ae", "glib", "ivykis", "libev", "libevent", "libuv", "macosx", "qt"}
  BY DEF Adapters
<1>3. \/ setup.adapter = "ae" /\ adapter = Ae
      \/ setup.adapter = "glib" /\ adapter = Glib
      \/ setup.adapter = "ivykis" /\ adapter = Ivykis
      \/ setup.adapter = "libev" /\ adapter = Libev
      \/ setup.adapter = "libevent" /\ adapter = Libevent
      \/ setup.adapter = "libuv" /\ adapter = Libuv
      \/ setup.adapter = "macosx" /\ adapter = MacOS
      \/ setup.adapter = "qt" /\ adapter = Qt
  BY <1>1, <1>2 DEF adapter, Adapters
<1>4. /\ Ae.end = "now" /\ Ivykis.end = "now" /\ Libev.end = "now" /\ MacOS.end = "now"
      /\ Glib.end = "user" /\ Qt.end = "user" /\ Libevent.end = "left" /\ Libuv.end = "closed"
  BY DEF Ae, Glib, Ivykis, Libev, Libevent, Libuv, MacOS, Qt, Each
<1>5. /\ Ae.order = <<>> /\ Ivykis.order = <<>> /\ Libev.order = <<>> /\ MacOS.order = <<>>
      /\ Qt.order = <<>> /\ Libevent.order = <<"timeout", "read", "write">>
  BY DEF Ae, Ivykis, Libev, Libevent, MacOS, Qt, Each
<1>6. /\ Ae.watch = {} /\ Ivykis.watch = IO /\ Libev.watch = {} /\ MacOS.watch = IO
      /\ Glib.watch = {} /\ Qt.watch = {} /\ Libevent.watch = {} /\ Libuv.watch = {}
  BY DEF Ae, Glib, Ivykis, Libev, Libevent, Libuv, MacOS, Qt, Each
<1>7. /\ Ae.failure = "untouched" /\ Ivykis.failure = "untouched"
      /\ Libev.failure = "untouched" /\ MacOS.failure = "dangling"
      /\ Glib.failure = "untouched" /\ Qt.failure = "none"
      /\ Libevent.failure = "untouched" /\ Libuv.failure = "hooks" /\ Qt.timer = "none"
  BY DEF Ae, Glib, Ivykis, Libev, Libevent, Libuv, MacOS, Qt, Each
<1>8. <<"timeout", "read", "write">> # <<>>
  OBVIOUS
<1>9. adapter.end \in {"now", "closed", "left", "user"} /\ adapter.watch \subseteq IO
  BY <1>3, <1>4, <1>6
<1>10. adapter.end = "user" <=> setup.adapter \in {"glib", "qt"}
  BY <1>3, <1>4
<1>11. setup.adapter # "glib" => adapter.order = <<>> \/ Deferred
  BY <1>3, <1>4, <1>5 DEF Deferred
<1>12. adapter.end = "left" => adapter.order # <<>>
  BY <1>3, <1>4, <1>5, <1>8
<1>13. /\ adapter.failure = "hooks" => setup.adapter = "libuv"
       /\ adapter.failure = "dangling" => setup.adapter = "macosx"
       /\ setup.adapter = "qt" => adapter.failure = "none" /\ adapter.timer = "none"
  BY <1>3, <1>7
<1> QED
  BY <1>1, <1>9, <1>10, <1>11, <1>12, <1>13

\* What watching for one more event changes, and what it leaves alone.
Same(f, e) ==
  /\ f.data = e.data /\ f.hooks = e.hooks /\ f.cleaned = e.cleaned
  /\ f.entered = e.entered /\ f.deleted = e.deleted /\ f.frees = e.frees
LEMMA Adding ==
  ASSUME NEW e \in Events, NEW x \in IO
  PROVE  /\ Add(e, x) \in Events /\ Same(Add(e, x), e)
         /\ ~e.hooks \/ e.data # "valid" => Add(e, x) = e
         /\ e.hooks /\ e.data = "valid" => Add(e, x).wish = e.wish \cup {x}
         /\ Agree(e) => Agree(Add(e, x))
         /\ adapter.timer = "none" /\ ~e.timer => ~Add(e, x).timer
<1> DEFINE r == Refresh(e)
           a == AddTo(r, x)
<1>1. /\ r \in Events /\ Same(r, e) /\ r.wish = e.wish /\ (Agree(e) => Agree(r))
      /\ adapter.timer = "none" /\ ~e.timer => ~r.timer
  BY DEF Refresh, SetTimer, Events, Same, Agree
<1> HIDE DEF r
<1>2. /\ a \in Events /\ Same(a, r) /\ a.wish = r.wish /\ a.timer = r.timer
      /\ Agree(r) => a.flags \subseteq a.watch /\ r.wish \cup {x} \subseteq a.flags
  <2>1. CASE a = r /\ x \in r.flags
    BY <1>1, <2>1 DEF Same, Agree
  <2>2. CASE a = Watch(r, x)
    <3>1. r.flags \cup {x} \in SUBSET IO /\ r.watch \cup {x} \in SUBSET IO
      BY <1>1 DEF Events
    <3>2. a \in Events /\ a.flags = r.flags \cup {x} /\ a.watch = r.watch \cup {x}
      <4>1. \A f, g \in SUBSET IO : /\ [r EXCEPT !.flags = f, !.watch = g] \in Events
                                    /\ [r EXCEPT !.flags = f, !.watch = g].flags = f
                                    /\ [r EXCEPT !.flags = f, !.watch = g].watch = g
        BY <1>1 DEF Events
      <4>2. a = [r EXCEPT !.flags = r.flags \cup {x}, !.watch = r.watch \cup {x}]
        BY <2>2 DEF Watch
      <4> HIDE DEF IO, a
      <4> QED
        BY <3>1, <4>1, <4>2
    <3>3. Same(a, r) /\ a.wish = r.wish /\ a.timer = r.timer
      BY <1>1, <2>2 DEF Watch, Events, Same
    <3> QED
      BY <3>2, <3>3 DEF Agree
  <2> QED
    BY <2>1, <2>2 DEF AddTo
<1>3. CASE e.hooks /\ e.data = "valid"
  <2>1. Add(e, x) = [a EXCEPT !.wish = @ \cup {x}]
    BY <1>3 DEF Add, Crashes, r
  <2> HIDE DEF a
  <2>2. /\ Add(e, x) \in Events /\ Same(Add(e, x), a) /\ Add(e, x).wish = a.wish \cup {x}
        /\ Add(e, x).flags = a.flags /\ Add(e, x).watch = a.watch /\ Add(e, x).timer = a.timer
    BY <1>2, <2>1 DEF Events, Same
  <2> QED
    BY <1>1, <1>2, <1>3, <2>2 DEF Same, Agree
<1>4. CASE ~(e.hooks /\ e.data = "valid")
  <2>1. Add(e, x) = e
    BY <1>4 DEF Add, Crashes
  <2> QED
    BY <1>4, <2>1 DEF Same
<1> QED
  BY <1>3, <1>4

\* Likewise for watching no longer.
LEMMA Deleting ==
  ASSUME NEW e \in Events, NEW x \in IO
  PROVE  /\ Del(e, x) \in Events /\ Same(Del(e, x), e)
         /\ ~e.hooks \/ e.data # "valid" => Del(e, x) = e
         /\ e.hooks /\ e.data = "valid" => Del(e, x).wish = e.wish \ {x}
         /\ Agree(e) => Agree(Del(e, x))
         /\ ~e.timer => ~Del(e, x).timer
<1> DEFINE d == DelFrom(e, x)
<1>1. /\ d \in Events /\ Same(d, e) /\ d.wish = e.wish /\ d.timer = e.timer
      /\ Agree(e) => d.flags \subseteq d.watch /\ e.wish \ {x} \subseteq d.flags
  BY DEF DelFrom, Unwatch, Events, Same, Agree
<1>2. CASE e.hooks /\ e.data = "valid"
  <2>1. Del(e, x) = [d EXCEPT !.wish = @ \ {x}]
    BY <1>2 DEF Del, Crashes
  <2> HIDE DEF d
  <2>2. /\ Del(e, x) \in Events /\ Same(Del(e, x), d) /\ Del(e, x).wish = d.wish \ {x}
        /\ Del(e, x).flags = d.flags /\ Del(e, x).watch = d.watch /\ Del(e, x).timer = d.timer
    BY <1>1, <2>1 DEF Events, Same
  <2> QED
    BY <1>1, <1>2, <2>2 DEF Same, Agree
<1>3. CASE ~(e.hooks /\ e.data = "valid")
  <2>1. Del(e, x) = e
    BY <1>3 DEF Del, Crashes
  <2> QED
    BY <1>3, <2>1 DEF Same
<1> QED
  BY <1>2, <1>3

\* What cleaning up changes: nothing but its mark when it has been done before or
\* there is nobody to do it.
LEMMA CleaningUp ==
  ASSUME NEW e \in Events
  PROVE  /\ Cleanup(e) \in Events /\ Cleanup(e).cleaned
         /\ Cleanup(e).hooks = e.hooks /\ Cleanup(e).entered = e.entered
         /\ e.cleaned \/ ~e.hooks \/ e.data # "valid" =>
              /\ Cleanup(e).watch = e.watch /\ Cleanup(e).timer = e.timer
              /\ Cleanup(e).data = e.data /\ Cleanup(e).deleted = e.deleted
              /\ Cleanup(e).frees = e.frees
         /\ ~e.cleaned /\ e.hooks /\ e.data = "valid" =>
              /\ Cleanup(e).watch = {} /\ ~Cleanup(e).timer
              /\ Cleanup(e).data = (IF adapter.end = "user" THEN "valid" ELSE "freed")
              /\ Cleanup(e).deleted = Deferred
              /\ Cleanup(e).frees = IF adapter.end \in {"user", "closed"}
                                       \/ (adapter.end = "left" /\ e.entered)
                                    THEN e.frees ELSE e.frees + 1
<1>1. CASE e.cleaned \/ ~e.hooks \/ e.data # "valid"
  <2>1. Cleanup(e) = [e EXCEPT !.cleaned = TRUE]
    BY <1>1 DEF Cleanup, Crashes
  <2> QED
    BY <1>1, <2>1 DEF Events
<1>2. CASE ~e.cleaned /\ e.hooks /\ e.data = "valid"
  <2> DEFINE d == IF adapter.end = "user" THEN e.data ELSE "freed"
             n == IF adapter.end \in {"user", "closed"}
                     \/ (adapter.end = "left" /\ e.entered) THEN e.frees ELSE e.frees + 1
  <2>1. Cleanup(e) = [e EXCEPT !.cleaned = TRUE, !.flags = {}, !.watch = {}, !.wish = {},
                               !.timer = FALSE, !.data = d, !.deleted = Deferred,
                               !.frees = n]
    BY <1>2, Zenon DEF Cleanup, Crashes
  <2>2. d \in {"NULL", "valid", "freed"} /\ n \in Nat /\ Deferred \in BOOLEAN
    BY DEF Events, Deferred
  <2>3. d = IF adapter.end = "user" THEN "valid" ELSE "freed"
    BY <1>2
  <2> HIDE DEF d, n
  <2>4. /\ Cleanup(e) \in Events /\ Cleanup(e).cleaned /\ Cleanup(e).hooks = e.hooks
        /\ Cleanup(e).entered = e.entered /\ Cleanup(e).watch = {} /\ ~Cleanup(e).timer
        /\ Cleanup(e).data = d /\ Cleanup(e).deleted = Deferred /\ Cleanup(e).frees = n
    <3>1. Cleanup(e) \in Events
      BY <2>1, <2>2 DEF Events
    <3>2. /\ Cleanup(e).cleaned /\ Cleanup(e).hooks = e.hooks /\ Cleanup(e).entered = e.entered
          /\ Cleanup(e).watch = {} /\ ~Cleanup(e).timer
      BY <2>1 DEF Events
    <3>3. Cleanup(e).data = d /\ Cleanup(e).deleted = Deferred /\ Cleanup(e).frees = n
      BY <2>1 DEF Events
    <3> QED
      BY <3>1, <3>2, <3>3
  <2> QED
    BY <1>2, <2>3, <2>4 DEF n
<1> QED
  BY <1>1, <1>2

\* States of the adapter that a handler makes of the one it finds.
Follows(e) ==
  /\ e \in Events /\ Same(e, ev)
  /\ ~ev.hooks \/ ev.data # "valid" => e = ev
  /\ Agree(ev) => Agree(e)
  /\ adapter.timer = "none" /\ ~ev.timer => ~e.timer

LEMMA Following ==
  ASSUME TypeOK
  PROVE  /\ Follows(ev)
         /\ \A e, x : Follows(e) /\ x \in IO => Follows(Add(e, x)) /\ Follows(Del(e, x))
<1>1. Follows(ev)
  BY DEF TypeOK, Follows, Same
<1>2. ASSUME NEW e, NEW x \in IO, Follows(e)
      PROVE  Follows(Add(e, x)) /\ Follows(Del(e, x))
  BY <1>2, Adding, Deleting DEF Follows, Same
<1> QED
  BY <1>1, <1>2

\* A handler that goes on keeps what is known of the adapter.
LEMMA GoingOn ==
  ASSUME TypeOK, AdapterInv, NEW e, Follows(e), ctx = "alive" \/ e = ev, ev' = e,
         UNCHANGED <<setup, phase, ctx>>, todo' # <<>> => todo # <<>>
  PROVE  AdapterInv'
<1>1. adapter' = adapter /\ Deferred' = Deferred
  BY DEF adapter, Deferred
<1>2. CASE phase = "up"
  BY <1>1, <1>2 DEF TypeOK, Events, Follows, Same, AdapterInv, Detached, InUse, CleanedUp, Apart
<1>3. CASE phase # "up"
  <2>1. e = ev
    BY <1>3 DEF AdapterInv, Detached, Follows
  <2>2. todo = <<>> /\ todo' = <<>>
    BY <1>3 DEF AdapterInv, Detached
  <2> QED
    BY <1>1, <1>3, <2>1, <2>2 DEF AdapterInv, Detached, InUse, CleanedUp, Apart
<1> QED
  BY <1>2, <1>3

\* So does one that ends the context.
LEMMA Ending ==
  ASSUME TypeOK, AdapterInv, NEW e, Follows(e), ctx = "alive" \/ e = ev,
         ctx \in {"alive", "dead"}, ctx' \in {"dead", "freed", "aborted"},
         ev' = Cleanup(e), UNCHANGED <<setup, phase>>, todo' # <<>> => todo # <<>>
  PROVE  AdapterInv' /\ ev' \in Events /\ ev'.cleaned
<1>1. adapter' = adapter /\ Deferred' = Deferred
  BY DEF adapter, Deferred
<1>2. /\ ev' \in Events /\ ev'.cleaned /\ ev'.hooks = ev.hooks /\ ev'.entered = ev.entered
      /\ e.data = ev.data /\ e.hooks = ev.hooks /\ e.cleaned = ev.cleaned
      /\ e.entered = ev.entered /\ e.deleted = ev.deleted /\ e.frees = ev.frees
  BY CleaningUp DEF Follows, Same
<1>3. CASE ev.cleaned \/ ~ev.hooks \/ ev.data # "valid"
  <2>1. e = ev
    BY <1>3 DEF AdapterInv, Detached, InUse, TypeOK, Follows
  <2>2. /\ ev'.watch = ev.watch /\ ev'.timer = ev.timer /\ ev'.data = ev.data
        /\ ev'.deleted = ev.deleted /\ ev'.frees = ev.frees
    BY <1>2, <1>3, <2>1, CleaningUp DEF Follows
  <2>3. Detached' /\ InUse' /\ Apart'
    BY <1>1, <1>2, <1>3, <2>2 DEF AdapterInv, Detached, InUse, Apart
  <2>4. CleanedUp'
    BY <1>1, <1>2, <1>3, <2>2, AdapterFacts
       DEF AdapterInv, Detached, InUse, CleanedUp, Apart, TypeOK
  <2> QED
    BY <1>2, <2>3, <2>4 DEF AdapterInv
<1>4. CASE ~ev.cleaned /\ ev.hooks /\ ev.data = "valid"
  <2>1. /\ ev'.watch = {} /\ ~ev'.timer
        /\ ev'.data = (IF adapter.end = "user" THEN "valid" ELSE "freed")
        /\ ev'.deleted = Deferred
        /\ ev'.frees = IF adapter.end \in {"user", "closed"}
                          \/ (adapter.end = "left" /\ ev.entered)
                       THEN ev.frees ELSE ev.frees + 1
    <3>1. e \in Events /\ ~e.cleaned /\ e.hooks /\ e.data = "valid"
      BY <1>2, <1>4 DEF Follows
    <3>2. /\ Cleanup(e).watch = {} /\ ~Cleanup(e).timer
          /\ Cleanup(e).data = (IF adapter.end = "user" THEN "valid" ELSE "freed")
          /\ Cleanup(e).deleted = Deferred
          /\ Cleanup(e).frees = IF adapter.end \in {"user", "closed"}
                                   \/ (adapter.end = "left" /\ e.entered)
                                THEN e.frees ELSE e.frees + 1
      BY <3>1, CleaningUp
    <3> QED
      BY <1>2, <3>2
  <2>2. phase = "up"
    BY <1>4 DEF AdapterInv, Detached
  <2>5. InUse' /\ Detached'
    BY <1>1, <1>2, <1>4, <2>1, <2>2 DEF AdapterInv, Detached, InUse
  <2>6. adapter.end # "user" => ev.frees = 0
    BY <1>4, <2>2 DEF AdapterInv, InUse
  <2>7. CleanedUp'
    <3>5. {ev'.deleted, ev'.entered, ev.entered} \subseteq BOOLEAN
      BY <1>2 DEF TypeOK, Events
    <3>1. adapter.end = "now" => ev'.frees = 1
      BY <2>1, <2>6
    <3>2. adapter.end = "closed" => ev'.deleted /\ ev'.frees = 0
      BY <2>1, <2>6 DEF Deferred
    <3>3. adapter.end = "left" =>
            IF ev.entered THEN ev'.deleted /\ ev'.frees = 0 ELSE ev'.frees = 1
      <4>1. adapter.end = "left" /\ ev.entered => ev'.deleted /\ ev'.frees = 0
        BY <2>1, <2>6 DEF Deferred
      <4>2. adapter.end = "left" /\ ~ev.entered => ev'.frees = 1
        BY <2>1, <2>6
      <4> QED
        BY <3>5, <4>1, <4>2
    <3>4. adapter'.end = adapter.end /\ ev'.entered = ev.entered
      BY <1>1, <1>2
    <3> QED
      BY <2>1, <3>1, <3>2, <3>3, <3>4, <3>5 DEF CleanedUp
  <2>3. InUse' /\ CleanedUp' /\ Detached'
    BY <2>5, <2>7
  <2>4. Apart'
    BY <1>1, <1>2, <1>4, <2>1, <2>2, AdapterFacts
       DEF AdapterInv, InUse, Apart, Deferred
  <2> QED
    BY <1>2, <2>3, <2>4 DEF AdapterInv
<1> QED
  BY <1>3, <1>4

\* Without TLS nothing is ever to be tried again.
LEMMA PlainInductive == Plain /\ [Next]_vars => Plain'
<1>1. [Next]_vars => setup' = setup /\ (~setup.tls => lastLen' = lastLen)
  BY DEF Next, Handler, vars, redisSSLConnect, Attach, on_close, QtAdapterDeleted, redisAsyncFree,
         redisAsyncCommand, Poll, Skip, Leave, HandledTooLate, HandleConnect, ConnectDone,
         HandleTimeout, redisAsyncRead, redisAsyncWrite, redisSSLAsyncRead, redisSSLAsyncWrite,
         Drains, Handshake, Record, world
<1> QED
  BY <1>1 DEF Plain

\* Every step keeps the numbers of commands in their bounds.
LEMMA CountsInductive == TypeOK /\ Counts /\ Plain /\ AdapterInv /\ [Next]_vars => Counts'
<1> SUFFICES ASSUME TypeOK, Counts, Plain, AdapterInv, [Next]_vars PROVE Counts'
  OBVIOUS
<1>o. /\ obuf \in Nat /\ waiting \in Nat /\ replies \in Nat /\ issued \in Nat /\ lastLen \in Nat
      /\ MaxCommands \in Nat
  BY EventLoopAssumption DEF TypeOK
<1> USE <1>o DEF Counts, Handles
<1>1. CASE redisSSLConnect \/ Attach \/ on_close \/ QtAdapterDeleted
  BY <1>1 DEF redisSSLConnect, Attach, on_close, QtAdapterDeleted
<1>2. CASE redisAsyncFree \/ redisAsyncCommand
  BY <1>2 DEF redisAsyncFree, redisAsyncCommand, Gone, Send
<1>3. CASE Poll \/ Skip \/ Leave \/ HandledTooLate \/ ConnectDone
  BY <1>3 DEF Poll, Skip, Leave, HandledTooLate, ConnectDone
<1>4. CASE HandleConnect \/ HandleTimeout
  BY <1>4 DEF HandleConnect, HandleTimeout, Disconnect, Gone
<1>g. ASSUME obuf' = 0, waiting' = 0, UNCHANGED <<issued, phase>>, ctx' # "alive",
             replies' \in 0..issued
      PROVE  Counts'
  <2>1. issued' = issued /\ phase' = phase /\ replies' \in Nat /\ replies' <= issued
    BY <1>g
  <2>2. ASSUME NEW r \in Nat, r <= issued PROVE 0 + r <= issued /\ 0 <= issued /\ 0 <= 0
    BY <2>2
  <2> QED
    BY <1>g, <2>1, <2>2
<1>u. todo # <<>> => phase = "up"
  BY DEF AdapterInv, Detached
<1>m. ASSUME NEW m \in 0..obuf, NEW n \in 0..replies, NEW k \in {0, 1}, todo # <<>>,
             ctx = "alive", UNCHANGED phase, obuf' = obuf - m + k, waiting' = waiting - n + k,
             issued' = issued + k, replies' = replies - n + m,
             ctx' = "alive" => lastLen' \in 0..obuf - m
      PROVE  Counts'
  BY <1>m, <1>u
<1>d. ASSUME NEW err, Disconnect(ev, err), UNCHANGED <<phase, replies>>
      PROVE  Counts'
  BY <1>d, <1>g DEF Disconnect, Gone
<1>c. ASSUME NEW m \in 0..obuf, NEW n \in 0..replies, NEW e, todo # <<>>, ctx = "alive",
             UNCHANGED phase, replies' = replies - n + m, lastLen' \in 0..obuf - m,
             Callbacks(obuf - m, waiting - n, e)
      PROVE  Counts'
  <2>1. CASE obuf' = obuf - m /\ waiting' = waiting - n /\ UNCHANGED <<ctx, issued>>
    <3>1. obuf' = obuf - m + 0 /\ waiting' = waiting - n + 0 /\ issued' = issued + 0
      BY <2>1
    <3> QED
      BY <1>c, <1>m, <2>1, <3>1
  <2>2. CASE Send(obuf - m, waiting - n, e)
    BY <1>c, <1>m, <2>2 DEF Send
  <2>3. CASE ctx' = "freed" /\ obuf' = 0 /\ waiting' = 0 /\ UNCHANGED issued
    BY <1>c, <1>g, <2>3
  <2> QED
    BY <1>c, <2>1, <2>2, <2>3 DEF Callbacks
<1>w. ASSUME NEW out \in WriteOutcomes, ctx = "alive"
      PROVE  out.n \in 0..obuf /\ (SSLWritten(out) => lastLen' \in 0..obuf - out.n)
  <2>0. WriteLen \in 0..obuf /\ obuf - 0 = obuf /\ lastLen \in 0..obuf
    BY <1>w DEF WriteLen
  <2>1. CASE obuf = 0
    <3>1. out.n = 0
      BY <1>w, <2>1 DEF WriteOutcomes
    <3>2. SSLWritten(out) => lastLen' = lastLen
      BY <2>1 DEF SSLWritten
    <3> QED
      BY <2>0, <3>1, <3>2
  <2>2. CASE obuf # 0 /\ out.want # "none" /\ out.n = 0
    <3>1. SSLWritten(out) => lastLen' = WriteLen
      BY <2>2 DEF SSLWritten
    <3> QED
      BY <2>0, <2>2, <3>1
  <2>3. CASE obuf # 0 /\ out.want = "none" /\ out.n = WriteLen
    <3>1. SSLWritten(out) => lastLen' = 0
      BY <2>3 DEF SSLWritten
    <3>2. obuf - WriteLen \in Nat
      BY <2>0
    <3> QED
      BY <2>0, <2>3, <3>1, <3>2
  <2> QED
    BY <1>w, <2>1, <2>2, <2>3 DEF WriteOutcomes
<1>5. CASE redisAsyncRead
  <2>1. ASSUME NEW n \in 0..replies, ctx = "alive", replies' = replies - n,
               Callbacks(obuf, waiting - n, Add(ev, "read"))
        PROVE  Counts'
    <3>1. obuf - 0 = obuf /\ replies - n + 0 = replies - n /\ 0 \in 0..obuf
      OBVIOUS
    <3>2. lastLen' \in 0..obuf - 0 /\ UNCHANGED phase /\ todo # <<>>
      BY <1>5, <2>1, <3>1 DEF redisAsyncRead
    <3> QED
      BY <1>c, <2>1, <3>1, <3>2
  <2> QED
    BY <1>5, <1>d, <2>1 DEF redisAsyncRead
<1>6. CASE redisAsyncWrite
  <2>1. ASSUME NEW n \in 0..obuf, ctx = "alive", obuf' = obuf - n, replies' = replies + n,
               UNCHANGED <<ctx, waiting, issued>>
        PROVE  Counts'
    <3>1. UNCHANGED <<phase, lastLen>> /\ todo # <<>>
      BY <1>6 DEF redisAsyncWrite
    <3>2. 0 <= obuf - n /\ obuf - n + (replies + n) = obuf + replies /\ obuf - n <= waiting
      BY <2>1
    <3>3. ~setup.tls
      BY <1>6 DEF redisAsyncWrite
    <3>4. lastLen = 0
      BY <3>3 DEF Plain
    <3> QED
      BY <1>u, <2>1, <3>1, <3>2, <3>4
  <2>2. CASE Disconnect(ev, TRUE) /\ UNCHANGED <<replies, full>>
    BY <1>6, <1>d, <2>2 DEF redisAsyncWrite
  <2>3. CASE Disconnect(ev, FALSE) /\ UNCHANGED <<replies, full>>
    BY <1>6, <1>d, <2>3 DEF redisAsyncWrite
  <2>4. ASSUME NEW n \in IF obuf = 0 THEN {0} ELSE 1..obuf PROVE n \in 0..obuf
    BY <2>4
  <2> QED
    BY <1>6, <2>1, <2>2, <2>3, <2>4 DEF redisAsyncWrite
<1>7. CASE redisSSLAsyncWrite
  <2>1. ASSUME NEW out \in WriteOutcomes, ctx = "alive", SSLWritten(out), obuf' = obuf - out.n,
               replies' = replies + out.n, UNCHANGED <<ctx, waiting, issued>>
        PROVE  Counts'
    <3>1. out.n \in 0..obuf /\ lastLen' \in 0..obuf - out.n
      BY <1>w, <2>1
    <3> QED
      <4>1. UNCHANGED phase /\ todo # <<>>
        BY <1>7 DEF redisSSLAsyncWrite
      <4>2. /\ obuf' \in Nat /\ obuf' + replies' = obuf + replies /\ obuf' <= obuf
            /\ lastLen' <= obuf' /\ waiting' = waiting /\ issued' = issued
        BY <2>1, <3>1
      <4> QED
        BY <1>u, <2>1, <4>1, <4>2
  <2> QED
    BY <1>7, <1>d, <2>1 DEF redisSSLAsyncWrite
<1>8. CASE redisSSLAsyncRead
  <2>1. ASSUME NEW out, NEW n \in 0..replies, ctx = "alive",
               IF pendingWrite THEN out \in WriteOutcomes ELSE out.n = 0,
               IF pendingWrite THEN SSLWritten(out) ELSE UNCHANGED lastLen,
               replies' = replies - n + out.n, NEW e, Callbacks(obuf - out.n, waiting - n, e)
        PROVE  Counts'
    <3>1. out.n \in 0..obuf /\ lastLen' \in 0..obuf - out.n
      BY <1>w, <2>1
    <3> QED
      BY <1>8, <1>c, <2>1, <3>1 DEF redisSSLAsyncRead
  <2> QED
    BY <1>8, <1>d, <2>1 DEF redisSSLAsyncRead
<1>9. CASE Drains \/ Handshake \/ Record \/ UNCHANGED vars
  BY <1>9 DEF Drains, Handshake, Record, world, vars
<1> QED
  BY <1>1, <1>2, <1>3, <1>4, <1>5, <1>6, <1>7, <1>8, <1>9 DEF Next, Handler

\* Two kinds of steps: those that only change what is watched, and those that end the
\* context.  A hook is called for the adapter's last state, or for one that follows it.
GoesOn ==
  /\ \E e : Follows(e) /\ (ctx = "alive" \/ e = ev) /\ ev' = e
  /\ UNCHANGED <<setup, phase, ctx>> /\ (todo' # <<>> => todo # <<>>)
  /\ bad' => bad \/ (Crashes(ev) /\ ctx = "alive")
Ends ==
  /\ \E e : Follows(e) /\ (ctx = "alive" \/ e = ev) /\ ev' = Cleanup(e)
  /\ ctx \in {"alive", "dead"} /\ ctx' \in {"dead", "freed", "aborted"}
  /\ UNCHANGED <<setup, phase>> /\ (todo' # <<>> => todo # <<>>)
  /\ bad' => bad \/ (Crashes(ev) /\ ~ev.cleaned)

LEMMA Disconnecting ==
  ASSUME TypeOK, Valid, NEW err, Disconnect(ev, err), UNCHANGED <<setup, phase>>,
         todo' # <<>> => todo # <<>>
  PROVE  Ends
BY Following DEF Disconnect, Gone, Ends, Valid

LEMMA CallingBack ==
  ASSUME TypeOK, ctx = "alive", NEW e, Follows(e), NEW o, NEW w, Callbacks(o, w, e),
         UNCHANGED <<setup, phase>>, todo' # <<>> => todo # <<>>
  PROVE  GoesOn \/ Ends
<1>1. CASE ev' = e /\ UNCHANGED <<ctx, bad>>
  BY <1>1 DEF GoesOn
<1>2. CASE Send(o, w, e)
  <2>1. Follows(Add(e, "write")) /\ (Crashes(e) <=> Crashes(ev))
    BY Following DEF Follows, Same, Crashes
  <2> QED
    BY <1>2, <2>1 DEF Send, GoesOn
<1>3. CASE ctx' = "freed" /\ ev' = Cleanup(e) /\ UNCHANGED bad
  BY <1>3 DEF Ends
<1> QED
  BY <1>1, <1>2, <1>3 DEF Callbacks

\* The steps of the two kinds.
Working == \/ redisAsyncFree \/ redisAsyncCommand \/ HandleConnect \/ ConnectDone \/ HandleTimeout
           \/ redisAsyncRead \/ redisAsyncWrite \/ redisSSLAsyncRead \/ redisSSLAsyncWrite
           \/ Drains \/ Handshake \/ Record \/ UNCHANGED vars
LEMMA WorkingSteps ==
  ASSUME TypeOK, Working
  PROVE  GoesOn \/ Ends
<1> USE DEF Handles
<1>f. Follows(ev) /\ \A e, x : Follows(e) /\ x \in IO => Follows(Add(e, x)) /\ Follows(Del(e, x))
  BY Following
<1>1. CASE redisAsyncFree
  BY <1>1, <1>f DEF redisAsyncFree, Gone, Ends
<1>2. CASE redisAsyncCommand
  BY <1>2, <1>f DEF redisAsyncCommand, Send, GoesOn
<1>3. CASE HandleConnect
  <2>1. CASE Disconnect(ev, TRUE)
    BY <1>3, <2>1, Disconnecting DEF HandleConnect
  <2> QED
    BY <1>3, <1>f, <2>1 DEF HandleConnect, GoesOn
<1>4. CASE ConnectDone \/ Drains \/ Handshake \/ Record \/ UNCHANGED vars
  BY <1>4, <1>f DEF ConnectDone, Drains, Handshake, Record, world, vars, GoesOn
<1>5. CASE HandleTimeout
  <2>1. CASE Disconnect(ev, TRUE)
    BY <1>5, <2>1, Disconnecting DEF HandleTimeout
  <2> QED
    BY <1>5, <1>f, <2>1 DEF HandleTimeout, GoesOn
<1>6. CASE redisAsyncRead
  <2>1. CASE Disconnect(ev, TRUE)
    BY <1>6, <2>1, Disconnecting DEF redisAsyncRead
  <2>2. ASSUME ctx = "alive", NEW n, Callbacks(obuf, waiting - n, Add(ev, "read"))
        PROVE  GoesOn \/ Ends
    BY <1>6, <1>f, <2>2, CallingBack DEF redisAsyncRead
  <2> QED
    BY <1>6, <2>1, <2>2 DEF redisAsyncRead
<1>7. CASE redisAsyncWrite
  <2>1. ASSUME NEW err, Disconnect(ev, err) PROVE GoesOn \/ Ends
    BY <1>7, <2>1, Disconnecting DEF redisAsyncWrite
  <2>2. ASSUME ctx = "alive", NEW n, UNCHANGED <<ctx, bad>>,
               ev' = Add(IF n = obuf THEN Del(ev, "write") ELSE Add(ev, "write"), "read")
        PROVE  GoesOn \/ Ends
    BY <1>7, <1>f, <2>2 DEF redisAsyncWrite, GoesOn
  <2> QED
    BY <1>7, <2>1, <2>2 DEF redisAsyncWrite
<1>8. CASE redisSSLAsyncWrite
  <2>1. CASE Disconnect(ev, TRUE)
    BY <1>8, <2>1, Disconnecting DEF redisSSLAsyncWrite
  <2>2. ASSUME ctx = "alive", NEW p, UNCHANGED <<ctx, bad>>,
               ev' = Add(IF p THEN Del(ev, "write") ELSE Add(ev, "write"), "read")
        PROVE  GoesOn \/ Ends
    BY <1>8, <1>f, <2>2 DEF redisSSLAsyncWrite, GoesOn
  <2> QED
    BY <1>8, <2>1, <2>2 DEF redisSSLAsyncWrite
<1>9. CASE redisSSLAsyncRead
  <2>1. CASE Disconnect(ev, TRUE)
    BY <1>9, <2>1, Disconnecting DEF redisSSLAsyncRead
  <2>2. ASSUME ctx = "alive", NEW o, NEW w, NEW p,
               Callbacks(o, w, Add(IF p THEN Add(ev, "write") ELSE ev, "read"))
        PROVE  GoesOn \/ Ends
    <3>1. Follows(Add(IF p THEN Add(ev, "write") ELSE ev, "read"))
      BY <1>f
    <3> QED
      BY <1>9, <2>2, <3>1, CallingBack DEF redisSSLAsyncRead
  <2> QED
    BY <1>9, <2>1, <2>2 DEF redisSSLAsyncRead
<1> QED
  BY <1>1, <1>2, <1>3, <1>4, <1>5, <1>6, <1>7, <1>8, <1>9 DEF Working

\* Every step keeps what is known of the adapter.
LEMMA AdapterInductive == TypeOK /\ AdapterInv /\ [Next]_vars => AdapterInv' /\ ev' \in Events
<1> SUFFICES ASSUME TypeOK, AdapterInv, [Next]_vars PROVE AdapterInv' /\ ev' \in Events
  OBVIOUS
<1>t. /\ ev \in Events /\ setup.adapter \in DOMAIN Adapters
      /\ {ev.hooks, ev.cleaned, ev.entered, ev.deleted, ev.timer} \subseteq BOOLEAN /\ ev.frees \in Nat
  BY AdapterFacts DEF TypeOK, Events
<1>a. ASSUME UNCHANGED setup PROVE adapter' = adapter /\ Deferred' = Deferred
  BY <1>a DEF adapter, Deferred
<1>1. CASE Working
  <2>1. CASE GoesOn
    <3>1. AdapterInv'
      BY <2>1, GoingOn DEF GoesOn
    <3> QED
      BY <2>1, <3>1 DEF GoesOn, Follows
  <2>2. CASE Ends
    BY <2>2, Ending DEF Ends
  <2> QED
    BY <1>1, <2>1, <2>2, WorkingSteps
<1>2. CASE redisSSLConnect
  <2>1. CASE phase' = "attach" /\ UNCHANGED <<ctx, ev>>
    BY <1>2, <1>a, <1>t, <2>1 DEF redisSSLConnect, AdapterInv, Detached, InUse, CleanedUp, Apart
  <2>2. CASE ctx' = "freed" /\ ev' = Cleanup(ev) /\ UNCHANGED phase
    <3>1. Follows(ev) /\ ctx = "alive" /\ UNCHANGED <<setup, todo>>
      BY <1>2, Following DEF redisSSLConnect
    <3> QED
      BY <2>2, <3>1, Ending
  <2> QED
    BY <1>2, <2>1, <2>2 DEF redisSSLConnect
<1>3. CASE Attach
  <2>0. UNCHANGED <<setup, ctx, todo>> /\ ctx = "alive" /\ todo = <<>>
    BY <1>3 DEF Attach, AdapterInv, Detached
  <2>1. CASE phase' = "up" /\ ev' = Attached
    <3>1. /\ ev' \in Events /\ ev'.hooks /\ ~ev'.cleaned /\ ev'.data = "valid" /\ ~ev'.timer
          /\ ~ev'.entered /\ ~ev'.deleted /\ ev'.frees = 0
      BY <2>1, AdapterFacts DEF Attached, NoEvents, Events
    <3>2. phase' = "up" /\ ctx' = "alive" /\ todo' = <<>> /\ setup' = setup
      BY <2>0, <2>1
    <3>3. Detached' /\ InUse' /\ CleanedUp'
      BY <3>1, <3>2 DEF Detached, InUse, CleanedUp
    <3>4. Apart'
      BY <1>a, <3>1, <3>2 DEF Apart
    <3> QED
      BY <3>1, <3>3, <3>4 DEF AdapterInv
  <2>2. CASE phase' = "failed"
    <3>1. \/ adapter.failure = "hooks" /\ ev' = [NoEvents EXCEPT !.hooks = TRUE]
          \/ /\ adapter.failure = "dangling"
             /\ ev' = [NoEvents EXCEPT !.hooks = TRUE, !.data = "freed", !.frees = 1]
          \/ ev' = NoEvents
      BY <1>3, <2>2 DEF Attach
    <3>2. /\ ev' \in Events /\ ev'.watch = {} /\ ~ev'.timer /\ ev'.data # "valid"
          /\ ~ev'.entered /\ ~ev'.deleted
          /\ ev'.hooks => setup.adapter \in {"libuv", "macosx"}
          /\ ev'.frees = 0 \/ (ev'.frees = 1 /\ setup.adapter = "macosx")
      <4>1. CASE ev' = NoEvents
        BY <4>1 DEF NoEvents, Events
      <4>2. CASE adapter.failure = "hooks" /\ ev' = [NoEvents EXCEPT !.hooks = TRUE]
        BY <4>2, AdapterFacts DEF NoEvents, Events
      <4>3. CASE /\ adapter.failure = "dangling"
                 /\ ev' = [NoEvents EXCEPT !.hooks = TRUE, !.data = "freed", !.frees = 1]
        BY <4>3, AdapterFacts DEF NoEvents, Events
      <4> QED
        BY <3>1, <4>1, <4>2, <4>3
    <3> QED
      BY <1>a, <2>0, <2>2, <3>2 DEF AdapterInv, Detached, InUse, CleanedUp, Apart
  <2> QED
    BY <1>3, <2>1, <2>2 DEF Attach
<1>4. CASE on_close
  <2>1. /\ ev' = [ev EXCEPT !.deleted = FALSE, !.frees = @ + 1] /\ adapter.end = "closed"
        /\ ev.deleted /\ todo = <<>> /\ UNCHANGED <<setup, phase, ctx, todo>>
    BY <1>4 DEF on_close
  <2>2. phase = "up" /\ ev.cleaned /\ ev.frees = 0
    BY <1>t, <2>1 DEF AdapterInv, Detached, InUse, CleanedUp
  <2>3. setup.adapter \notin {"glib", "qt"}
    BY <2>1, AdapterFacts
  <2>4. /\ ev' \in Events /\ ev'.hooks = ev.hooks /\ ev'.cleaned /\ ~ev'.deleted /\ ev'.frees = 1
        /\ ev'.watch = ev.watch /\ ev'.timer = ev.timer /\ ev'.data = ev.data
        /\ ev'.entered = ev.entered
    <3>1. ev' = [ev EXCEPT !.deleted = FALSE, !.frees = 1]
      BY <2>1, <2>2
    <3> QED
      BY <1>t, <2>2, <3>1 DEF Events
  <2>5. Detached' /\ InUse' /\ CleanedUp'
    BY <1>a, <2>1, <2>2, <2>4 DEF AdapterInv, Detached, InUse, CleanedUp
  <2>6. Apart'
    BY <1>a, <2>1, <2>2, <2>3, <2>4 DEF AdapterInv, Apart
  <2> QED
    BY <2>4, <2>5, <2>6 DEF AdapterInv
<1>5. CASE QtAdapterDeleted
  <2>1. /\ ev' = [ev EXCEPT !.data = "NULL", !.watch = {}, !.wish = {}, !.frees = @ + 1]
        /\ setup.adapter = "qt" /\ ev.data = "valid" /\ UNCHANGED <<setup, phase, ctx, todo>>
    BY <1>5 DEF QtAdapterDeleted
  <2>2. phase = "up" /\ ev.frees = 0 /\ adapter.end = "user"
    BY <2>1, AdapterFacts DEF AdapterInv, Detached, Apart
  <2>3. /\ ev' \in Events /\ ev'.hooks = ev.hooks /\ ev'.cleaned = ev.cleaned
        /\ ev'.deleted = ev.deleted /\ ev'.frees = 1 /\ ev'.watch = {} /\ ev'.timer = ev.timer
        /\ ev'.data = "NULL" /\ ev'.entered = ev.entered
    <3>1. ev' = [ev EXCEPT !.data = "NULL", !.watch = {}, !.wish = {}, !.frees = 1]
      BY <2>1, <2>2
    <3> QED
      BY <1>t, <3>1 DEF Events
  <2>4. Detached' /\ InUse' /\ CleanedUp'
    BY <1>a, <2>1, <2>2, <2>3 DEF AdapterInv, Detached, InUse, CleanedUp
  <2>5. Apart'
    BY <1>a, <2>1, <2>2, <2>3 DEF AdapterInv, Apart
  <2> QED
    BY <2>3, <2>4, <2>5 DEF AdapterInv
<1>6. CASE Poll
  <2>1. /\ ev' = [ev EXCEPT !.entered = (adapter.end = "left")] /\ todo = <<>> /\ ~ev.entered
        /\ UNCHANGED <<setup, phase, ctx>>
    BY <1>6 DEF Poll
  <2>2. ev.watch # {} \/ ev.timer
    BY <1>6 DEF Poll
  <2>3. phase = "up" /\ ~ev.cleaned
    BY <2>2 DEF AdapterInv, Detached, CleanedUp
  <2> QED
    BY <1>a, <1>t, <2>1, <2>3 DEF Events, AdapterInv, Detached, InUse, CleanedUp, Apart
<1>7. CASE Skip
  <2>1. todo # <<>> /\ phase = "up" /\ UNCHANGED <<setup, phase, ctx>>
    BY <1>7 DEF Skip, AdapterInv, Detached
  <2>2. CASE adapter.end = "left"
    <3>1. /\ todo' = <<>>
          /\ ev' = [ev EXCEPT !.entered = FALSE, !.deleted = FALSE, !.frees = @ + 1]
      BY <1>7, <2>2 DEF Skip
    <3>2. adapter.order # <<>>
      BY <2>2, AdapterFacts
    <3>3. ev.deleted /\ ev.entered
      BY <1>7, <2>1, <2>2, <3>2 DEF Skip, Void, AdapterInv, Apart
    <3>4. ev.cleaned /\ ev.frees = 0 /\ setup.adapter \notin {"glib", "qt"}
      BY <1>t, <2>1, <2>2, <3>3, AdapterFacts DEF AdapterInv, InUse, CleanedUp
    <3>5. /\ ev' \in Events /\ ev'.hooks = ev.hooks /\ ev'.cleaned
          /\ ~ev'.deleted /\ ev'.frees = 1 /\ ev'.watch = ev.watch /\ ev'.timer = ev.timer
          /\ ev'.data = ev.data /\ ~ev'.entered
      <4>1. ev' = [ev EXCEPT !.entered = FALSE, !.deleted = FALSE, !.frees = 1]
        BY <3>1, <3>4
      <4> QED
        BY <1>t, <3>4, <4>1 DEF Events
    <3>6. Detached' /\ InUse' /\ CleanedUp'
      BY <1>a, <2>1, <2>2, <3>1, <3>4, <3>5 DEF AdapterInv, Detached, InUse, CleanedUp
    <3>7. Apart'
      BY <1>a, <2>1, <2>2, <3>1, <3>4, <3>5 DEF AdapterInv, Apart
    <3> QED
      BY <3>5, <3>6, <3>7 DEF AdapterInv
  <2>3. CASE adapter.end # "left"
    BY <1>7, <1>a, <1>t, <2>1, <2>3 DEF Skip, AdapterInv, Detached, InUse, CleanedUp, Apart
  <2> QED
    BY <2>2, <2>3
<1>8. CASE Leave
  <2>1. todo = <<>> /\ ev.entered /\ UNCHANGED <<setup, phase, ctx, todo>>
    BY <1>8 DEF Leave
  <2>2. phase = "up" /\ adapter.end = "left" /\ setup.adapter \notin {"glib", "qt"}
    BY <2>1, AdapterFacts DEF AdapterInv, Detached, Apart
  <2>3. CASE ev.deleted
    <3>1. ev.cleaned /\ ev.frees = 0
      BY <1>t, <2>1, <2>2, <2>3 DEF AdapterInv, InUse, CleanedUp
    <3>2. ev' = [ev EXCEPT !.entered = FALSE, !.deleted = FALSE, !.frees = @ + 1]
      BY <1>8, <2>3 DEF Leave
    <3>3. /\ ev' \in Events /\ ev'.hooks = ev.hooks /\ ev'.cleaned
          /\ ~ev'.deleted /\ ev'.frees = 1 /\ ev'.watch = ev.watch /\ ev'.timer = ev.timer
          /\ ev'.data = ev.data /\ ~ev'.entered
      <4>1. ev' = [ev EXCEPT !.entered = FALSE, !.deleted = FALSE, !.frees = 1]
        BY <3>1, <3>2
      <4> QED
        BY <1>t, <3>1, <4>1 DEF Events
    <3>4. Detached' /\ InUse' /\ CleanedUp'
      BY <1>a, <2>1, <2>2, <3>1, <3>3 DEF AdapterInv, Detached, InUse, CleanedUp
    <3>5. Apart'
      BY <1>a, <2>1, <2>2, <3>1, <3>3 DEF AdapterInv, Apart
    <3> QED
      BY <3>3, <3>4, <3>5 DEF AdapterInv
  <2>4. CASE ~ev.deleted
    <3>1. ~ev.cleaned
      BY <1>t, <2>1, <2>2, <2>4 DEF AdapterInv, CleanedUp
    <3>2. ev' = [ev EXCEPT !.entered = FALSE]
      BY <1>8, <2>4 DEF Leave
    <3> QED
      BY <1>a, <1>t, <2>1, <2>2, <2>4, <3>1, <3>2
         DEF Events, AdapterInv, Detached, InUse, CleanedUp, Apart
  <2> QED
    BY <2>3, <2>4
<1>9. CASE HandledTooLate
  <2>1. todo # <<>> /\ UNCHANGED <<setup, phase, ctx, ev>>
    BY <1>9 DEF HandledTooLate, Handles
  <2> QED
    BY <1>t, <2>1, Following, GoingOn
<1> QED
  BY <1>1, <1>2, <1>3, <1>4, <1>5, <1>6, <1>7, <1>8, <1>9 DEF Next, Handler, Working

\* Freed memory is used in the cases named only.
LEMMA SafeInductive ==
  TypeOK /\ AdapterInv /\ Uses /\ [Next]_vars => Uses'
<1> SUFFICES ASSUME TypeOK, AdapterInv, Uses, [Next]_vars PROVE Uses'
  OBVIOUS
<1>t. /\ ev \in Events /\ ev.frees \in Nat
      /\ {ev.hooks, ev.cleaned, ev.entered, ev.deleted, ev.timer} \subseteq BOOLEAN
  BY DEF TypeOK, Events
<1>c. Crashes(ev) /\ (ctx = "alive" \/ ~ev.cleaned) =>
        \/ setup.adapter \in {"libuv", "macosx"} /\ phase = "failed"
        \/ setup.adapter = "qt" /\ ev.frees > 0
  <2>1. CASE phase = "up"
    BY <1>t, <2>1, AdapterFacts DEF Crashes, AdapterInv, InUse, Apart
  <2>2. CASE phase # "up"
    BY <2>2 DEF Crashes, TypeOK, AdapterInv, Detached
  <2> QED
    BY <2>1, <2>2
<1>1. CASE Working
  <2>1. CASE GoesOn
    <3>1. UNCHANGED <<setup, phase, ctx>> /\ ev'.frees = ev.frees
      BY <2>1 DEF GoesOn, Follows, Same
    <3>2. bad' => bad \/ (Crashes(ev) /\ ctx = "alive")
      BY <2>1 DEF GoesOn
    <3> QED
      BY <1>c, <3>1, <3>2 DEF Uses, Exempt
  <2>2. CASE Ends
    <3>1. PICK e : Follows(e) /\ ev' = Cleanup(e)
      BY <2>2 DEF Ends
    <3>2. setup.adapter = "qt" => ev'.frees = ev.frees
      BY <3>1, CleaningUp, AdapterFacts DEF Follows, Same
    <3>3. /\ UNCHANGED <<setup, phase>> /\ (bad' => bad \/ (Crashes(ev) /\ ~ev.cleaned))
          /\ ctx \in {"alive", "dead"}
      BY <2>2 DEF Ends
    <3> QED
      BY <1>c, <3>2, <3>3 DEF Uses, Exempt
  <2> QED
    BY <1>1, <2>1, <2>2, WorkingSteps
<1>2. CASE redisSSLConnect \/ Attach
  <2>1. UNCHANGED <<setup, bad>> /\ phase \in {"tls", "attach"} /\ ctx = "alive"
    BY <1>2 DEF redisSSLConnect, Attach
  <2>2. ~bad
    BY <2>1 DEF Uses, Exempt, AdapterInv, Detached
  <2> QED
    BY <2>1, <2>2 DEF Uses
<1>3. CASE on_close \/ Leave \/ Skip \/ Poll
  <2>1. UNCHANGED <<setup, phase, ctx, bad>>
    BY <1>3 DEF on_close, Leave, Skip, Poll
  <2>2. setup.adapter = "qt" => ev'.frees = ev.frees
    <3>1. setup.adapter = "qt" => adapter.end \notin {"left", "closed"} /\ ~ev.entered
      BY AdapterFacts DEF AdapterInv, Apart
    <3> QED
      BY <1>3, <1>t, <3>1 DEF on_close, Leave, Skip, Poll, Events
  <2> QED
    BY <2>1, <2>2 DEF Uses, Exempt
<1>4. CASE QtAdapterDeleted
  <2>1. setup'.adapter = "qt" /\ ev'.frees = ev.frees + 1
    BY <1>4, <1>t DEF QtAdapterDeleted, Events
  <2>2. ev.frees + 1 > 0
    BY <1>t
  <2> QED
    BY <2>1, <2>2 DEF Uses, Exempt
<1>5. CASE HandledTooLate
  <2>1. PICK x \in IO \cup {"timeout"} : Handles(x)
    BY <1>5 DEF HandledTooLate
  <2>2. /\ todo # <<>> /\ Head(todo) = x /\ ~Void(x) /\ ctx \in {"freed", "aborted"}
        /\ UNCHANGED <<setup, phase, ctx>>
    BY <1>5, <2>1 DEF HandledTooLate, Handles
  <2>3. phase = "up" /\ ev.cleaned
    BY <1>t, <2>2 DEF AdapterInv, Detached, InUse
  <2>4. ev.watch = {} /\ ~ev.timer
    BY <2>3 DEF AdapterInv, CleanedUp
  <2>5. adapter.order # <<>>
    BY <2>2, <2>4 DEF Void
  <2>6. setup.adapter = "glib" \/ Deferred
    BY <2>5, AdapterFacts
  <2>7. Deferred => ev.deleted
    BY <1>t, <2>2, <2>3 DEF AdapterInv, CleanedUp, Apart, Deferred
  <2> QED
    BY <2>2, <2>6, <2>7 DEF Void, Uses, Exempt
<1> QED
  BY <1>1, <1>2, <1>3, <1>4, <1>5 DEF Next, Handler, Working

LEMMA FreedOnceFollows == TypeOK /\ AdapterInv => FreedOnce
<1> SUFFICES ASSUME TypeOK, AdapterInv PROVE FreedOnce
  OBVIOUS
<1>t. ev.frees \in Nat /\ {ev.cleaned, ev.entered, ev.deleted} \subseteq BOOLEAN
  BY DEF TypeOK, Events
<1>1. phase = "up" => ev.frees \in {0, 1}
  BY <1>t, AdapterFacts DEF AdapterInv, InUse, CleanedUp, Apart
<1>2. phase = "up" /\ ctx # "alive" /\ adapter.end # "user" /\ todo = <<>> /\ ~ev.entered =>
        ev.frees = 1 \/ (adapter.end = "closed" /\ ev.deleted)
  BY <1>t, AdapterFacts DEF AdapterInv, InUse, CleanedUp
<1>3. ev.frees = 1 => ~ev.entered
  BY <1>t, AdapterFacts DEF AdapterInv, Detached, InUse, CleanedUp, Apart
<1> QED
  BY <1>1, <1>2, <1>3 DEF FreedOnce

\* Callbacks and the hooks keep awake what has something to send.
LEMMA Waking ==
  ASSUME TypeOK, AdapterInv, NEW e, Follows(e), ev.data = "valid"
  PROVE  /\ Add(e, "write").wish = e.wish \cup {"write"}
         /\ Add(e, "read").wish = e.wish \cup {"read"}
         /\ Del(e, "write").wish = e.wish \ {"write"}
BY Adding, Deleting DEF Follows, Same, AdapterInv, Detached, InUse

LEMMA CallbacksNeed ==
  ASSUME TypeOK, AdapterInv, NEW e, Follows(e), ev.data = "valid", NEW o, NEW w, NEW p,
         Needed(e, o, p), Callbacks(o, w, e), ctx' = "alive"
  PROVE  Needed(ev', obuf', p)
<1>1. CASE obuf' = o /\ ev' = e
  BY <1>1 DEF Needed
<1>2. CASE Send(o, w, e)
  BY <1>2, Waking DEF Send, Needed
<1> QED
  BY <1>1, <1>2 DEF Callbacks

LEMMA NeededInductive ==
  ASSUME TypeOK, Counts, AdapterInv, Interests, Working, GoesOn,
         ev'.data = "valid", ~ev'.cleaned, ctx' = "alive"
  PROVE  Needed(ev', obuf', setup'.tls /\ pendingWrite')
<1> USE DEF Handles
<1>1. ctx = "alive" /\ ev.data = "valid" /\ ~ev.cleaned /\ setup' = setup
  BY DEF GoesOn, Follows, Same
<1>2. Needed(ev, obuf, setup.tls /\ pendingWrite)
  BY <1>1 DEF Interests
<1>f. Follows(ev) /\ \A e, x : Follows(e) /\ x \in IO => Follows(Add(e, x)) /\ Follows(Del(e, x))
  BY Following
<1>o. obuf \in Nat
  BY DEF TypeOK
<1>3. ASSUME UNCHANGED <<ev, obuf, pendingWrite>>
      PROVE  Needed(ev', obuf', setup'.tls /\ pendingWrite')
  BY <1>1, <1>2, <1>3
<1>d. ASSUME NEW err, Disconnect(ev, err) PROVE FALSE
  BY <1>1, <1>d DEF Disconnect, Gone
<1>4. CASE redisAsyncFree
  BY <1>1, <1>4 DEF redisAsyncFree, Gone
<1>5. CASE redisAsyncCommand
  BY <1>1, <1>5, <1>f, Waking DEF redisAsyncCommand, Send, Needed
<1>6. CASE HandleConnect \/ HandleTimeout \/ ConnectDone \/ Drains \/ Handshake \/ Record \/ UNCHANGED vars
  BY <1>3, <1>6, <1>d DEF HandleConnect, HandleTimeout, ConnectDone, Drains, Handshake, Record, world, vars
<1>7. CASE redisAsyncRead
  <2>1. ASSUME NEW n, Callbacks(obuf, waiting - n, Add(ev, "read"))
        PROVE  Needed(ev', obuf', setup'.tls /\ pendingWrite')
    <3>1. Needed(Add(ev, "read"), obuf, setup.tls /\ pendingWrite) /\ Follows(Add(ev, "read"))
      BY <1>1, <1>2, <1>f, Waking DEF Needed
    <3>2. pendingWrite' = pendingWrite
      BY <1>7 DEF redisAsyncRead
    <3> QED
      BY <1>1, <2>1, <3>1, <3>2, CallbacksNeed
  <2> QED
    BY <1>7, <1>d, <2>1 DEF redisAsyncRead
<1>8. CASE redisAsyncWrite
  <2>1. ASSUME NEW n, obuf' = obuf - n,
               ev' = Add(IF n = obuf THEN Del(ev, "write") ELSE Add(ev, "write"), "read")
        PROVE  Needed(ev', obuf', setup'.tls /\ pendingWrite')
    <3>1. CASE n = obuf
      BY <1>o, <2>1, <3>1 DEF Needed
    <3>2. CASE n # obuf
      BY <1>1, <1>f, <2>1, <3>2, Waking DEF Needed
    <3> QED
      BY <3>1, <3>2
  <2> QED
    BY <1>8, <1>d, <2>1 DEF redisAsyncWrite
<1>9. CASE redisSSLAsyncWrite
  <2>1. ASSUME NEW out, NEW want, obuf' = obuf - out.n, setup.tls,
               pendingWrite' = (out.want = "write" \/ (~Done(out) /\ want)),
               ev' = Add(IF Done(out) \/ want THEN Del(ev, "write") ELSE Add(ev, "write"), "read")
        PROVE  Needed(ev', obuf', setup'.tls /\ pendingWrite')
    <3>1. CASE Done(out)
      BY <1>o, <2>1, <3>1 DEF Needed, Done
    <3>2. CASE ~Done(out) /\ want
      BY <1>1, <1>f, <2>1, <3>2, Waking DEF Needed
    <3>3. CASE ~Done(out) /\ ~want
      BY <1>1, <1>f, <2>1, <3>3, Waking DEF Needed
    <3> QED
      BY <3>1, <3>2, <3>3
  <2> QED
    BY <1>9, <1>d, <2>1 DEF redisSSLAsyncWrite
<1>10. CASE redisSSLAsyncRead
  <2>1. ASSUME NEW out, NEW n, ~pendingWrite => out.n = 0,
               Callbacks(obuf - out.n, waiting - n,
                         Add(IF pendingWrite /\ ~Done(out) THEN Add(ev, "write") ELSE ev, "read"))
        PROVE  Needed(ev', obuf', setup'.tls /\ pendingWrite')
    <3> DEFINE e == IF pendingWrite /\ ~Done(out) THEN Add(ev, "write") ELSE ev
    <3>1. Follows(e) /\ Follows(Add(e, "read"))
      BY <1>f
    <3>2. Needed(e, obuf - out.n, FALSE)
      <4>1. CASE pendingWrite /\ ~Done(out)
        BY <1>1, <1>f, <4>1, Waking DEF Needed
      <4>2. CASE Done(out)
        BY <1>o, <4>2 DEF Needed, Done
      <4>3. CASE ~pendingWrite /\ ~Done(out)
        BY <1>2, <1>o, <2>1, <4>3 DEF Needed
      <4> QED
        BY <4>1, <4>2, <4>3
    <3> HIDE DEF e
    <3>3. Needed(Add(e, "read"), obuf - out.n, setup'.tls /\ pendingWrite')
      BY <1>1, <3>1, <3>2, Waking DEF Needed
    <3>4. Callbacks(obuf - out.n, waiting - n, Add(e, "read"))
      BY <2>1 DEF e
    <3> QED
      BY <1>1, <3>1, <3>3, <3>4, CallbacksNeed
  <2>2. PICK out \in (IF pendingWrite THEN WriteOutcomes ELSE {[n |-> 0, want |-> "none"]}), n \in 0..replies :
          Callbacks(obuf - out.n, waiting - n,
                    Add(IF pendingWrite /\ ~Done(out) THEN Add(ev, "write") ELSE ev, "read"))
    BY <1>10, <1>d DEF redisSSLAsyncRead
  <2>3. ~pendingWrite => out.n = 0
    BY <2>2
  <2> QED
    BY <2>1, <2>2, <2>3
<1> QED
  BY <1>4, <1>5, <1>6, <1>7, <1>8, <1>9, <1>10 DEF Working

\* What is awaited stays known to all, and covers what is to be sent.
LEMMA InterestsInductive ==
  TypeOK /\ Counts /\ AdapterInv /\ Interests /\ [Next]_vars => Interests'
<1> SUFFICES ASSUME TypeOK, Counts, AdapterInv, Interests, [Next]_vars PROVE Interests'
  OBVIOUS
<1>t. ev \in Events /\ {ev.hooks, ev.cleaned, ev.entered, ev.deleted} \subseteq BOOLEAN
  BY DEF TypeOK, Events
<1>1. CASE Working
  <2>1. CASE GoesOn
    <3>1. ev'.data = ev.data /\ ev'.cleaned = ev.cleaned /\ (Agree(ev) => Agree(ev'))
      BY <2>1 DEF GoesOn, Follows, Same
    <3>2. ev'.data = "valid" /\ ~ev'.cleaned /\ ctx' = "alive" =>
            Needed(ev', obuf', setup'.tls /\ pendingWrite')
      BY <1>1, <2>1, NeededInductive
    <3> QED
      BY <3>1, <3>2 DEF Interests, Agree, Needed
  <2>2. CASE Ends
    <3>1. ev'.cleaned
      BY <2>2, CleaningUp DEF Ends, Follows
    <3> QED
      BY <3>1 DEF Interests
  <2> QED
    BY <1>1, <2>1, <2>2, WorkingSteps
<1>2. CASE redisSSLConnect
  <2>1. ev.data # "valid" /\ Cleanup(ev).cleaned
    BY <1>2, <1>t, CleaningUp DEF redisSSLConnect, AdapterInv, Detached
  <2>2. ev' = ev \/ ev' = Cleanup(ev)
    BY <1>2 DEF redisSSLConnect
  <2> QED
    BY <2>1, <2>2 DEF Interests
<1>3. CASE Attach
  <2>1. obuf' = 0
    <3>1. obuf = 0
      BY <1>3, EventLoopAssumption DEF Attach, Counts, TypeOK
    <3> QED
      BY <1>3, <3>1 DEF Attach
  <2>2. ev'.data = "valid" => ev' = Attached
    <3>1. CASE ev' = Attached
      BY <3>1
    <3>2. CASE ev' = [NoEvents EXCEPT !.hooks = TRUE] \/ ev' = NoEvents
      BY <3>2 DEF NoEvents
    <3>3. CASE ev' = [NoEvents EXCEPT !.hooks = TRUE, !.data = "freed", !.frees = 1]
      BY <3>3 DEF NoEvents
    <3> QED
      BY <1>3, <3>1, <3>2, <3>3 DEF Attach
  <2>3. Agree(Attached)
    BY DEF Attached, NoEvents, Agree
  <2>4. Needed(ev', obuf', setup'.tls /\ pendingWrite')
    BY <2>1 DEF Needed
  <2> QED
    BY <2>2, <2>3, <2>4 DEF Interests
<1>4. CASE on_close
  <2>1. ev.cleaned
    BY <1>4, <1>t DEF on_close, AdapterInv, Detached, InUse
  <2>2. ev'.cleaned
    BY <1>4, <1>t, <2>1 DEF on_close, Events
  <2> QED
    BY <2>2 DEF Interests
<1>5. CASE QtAdapterDeleted
  <2>1. ev'.data = "NULL"
    BY <1>5, <1>t DEF QtAdapterDeleted, Events
  <2> QED
    BY <2>1 DEF Interests
<1>6. CASE Poll \/ Skip \/ Leave \/ HandledTooLate
  <2>1. UNCHANGED <<setup, ctx, obuf, pendingWrite>>
    BY <1>6 DEF Poll, Skip, Leave, HandledTooLate
  <2>2. /\ ev'.data = ev.data /\ ev'.cleaned = ev.cleaned
        /\ ev'.wish = ev.wish /\ ev'.flags = ev.flags /\ ev'.watch = ev.watch
    <3>1. \/ ev' = ev
          \/ ev' = [ev EXCEPT !.entered = FALSE]
          \/ ev' = [ev EXCEPT !.entered = FALSE, !.deleted = FALSE, !.frees = @ + 1]
          \/ ev' = [ev EXCEPT !.entered = (adapter.end = "left")]
      BY <1>6, Zenon DEF Poll, Skip, Leave, HandledTooLate
    <3> QED
      BY <1>t, <3>1 DEF Events
  <2> QED
    BY <2>1, <2>2 DEF Interests, Agree, Needed
<1> QED
  BY <1>1, <1>2, <1>3, <1>4, <1>5, <1>6 DEF Next, Handler, Working

\* Every step keeps the types.
LEMMA OrdersAreSequences == \A S \in SUBSET (IO \cup {"timeout"}) : Orders(S) \subseteq Seq(IO \cup {"timeout"})
<1> SUFFICES ASSUME NEW S \in SUBSET (IO \cup {"timeout"}), NEW o \in SetToSeqs(S)
             PROVE  o \in Seq(IO \cup {"timeout"})
  BY DEF Orders
<1>1. IsFiniteSet(IO \cup {"timeout"})
  <2>1. IsFiniteSet(((({} \cup {"read"}) \cup {"write"}) \cup {"timeout"}))
    <3>1. IsFiniteSet({} \cup {"read"})
      BY FS_EmptySet, FS_AddElement
    <3>2. IsFiniteSet(({} \cup {"read"}) \cup {"write"})
      BY <3>1, FS_AddElement
    <3> QED
      BY <3>2, FS_AddElement
  <2>2. IO \cup {"timeout"} = ((({} \cup {"read"}) \cup {"write"}) \cup {"timeout"})
    OBVIOUS
  <2> QED
    BY <2>1, <2>2
<1>2. Cardinality(S) \in Nat
  BY <1>1, FS_Subset, FS_CardinalityType
<1>3. o \in [1..Cardinality(S) -> S]
  BY DEF SetToSeqs
<1>4. o \in [1..Cardinality(S) -> IO \cup {"timeout"}]
  BY <1>3
<1>5. ASSUME NEW T, NEW n \in Nat, NEW f \in [1..n -> T] PROVE f \in Seq(T)
  BY <1>5, SeqDef
<1> QED
  BY <1>2, <1>4, <1>5

LEMMA TurnsInductive == TypeOK /\ [Next]_vars => todo' \in Seq(IO \cup {"timeout"})
<1> SUFFICES ASSUME TypeOK, [Next]_vars PROVE todo' \in Seq(IO \cup {"timeout"})
  OBVIOUS
<1>1. todo \in Seq(IO \cup {"timeout"})
  BY DEF TypeOK
<1>2. CASE UNCHANGED todo
  BY <1>1, <1>2
<1>3. CASE todo # <<>> /\ todo' = Tail(todo)
  BY <1>1, <1>3
<1>4. CASE todo' = <<>>
  BY <1>4
<1>5. CASE Poll
  BY <1>5, OrdersAreSequences DEF Poll
<1>6. CASE UNCHANGED vars
  BY <1>2, <1>6 DEF vars
<1>7. CASE redisSSLConnect \/ Attach \/ on_close \/ QtAdapterDeleted \/ redisAsyncFree
           \/ redisAsyncCommand
  BY <1>2, <1>7 DEF redisSSLConnect, Attach, on_close, QtAdapterDeleted, redisAsyncFree,
                    redisAsyncCommand
<1>8. CASE Drains \/ Handshake \/ Record
  BY <1>2, <1>8 DEF Drains, Handshake, Record, world
<1>9. CASE Skip \/ Leave \/ HandledTooLate
  <2>1. \/ UNCHANGED todo
        \/ todo # <<>> /\ todo' = Tail(todo)
        \/ todo' = <<>>
    BY <1>9 DEF Skip, Leave, HandledTooLate, Handles
  <2> QED
    BY <1>2, <1>3, <1>4, <2>1
<1>10. CASE HandleConnect \/ ConnectDone \/ HandleTimeout
  BY <1>2, <1>3, <1>4, <1>10 DEF HandleConnect, ConnectDone, HandleTimeout, Handles
<1>11. CASE redisAsyncRead \/ redisAsyncWrite
  BY <1>2, <1>3, <1>4, <1>11 DEF redisAsyncRead, redisAsyncWrite, Handles
<1>12. CASE redisSSLAsyncRead \/ redisSSLAsyncWrite
  BY <1>2, <1>3, <1>4, <1>12 DEF redisSSLAsyncRead, redisSSLAsyncWrite, Handles
<1> QED
  BY <1>5, <1>6, <1>7, <1>8, <1>9, <1>10, <1>11, <1>12 DEF Next, Handler

\* What a step makes of the events still to be handled; where a context goes, it takes
\* one off.
LEMMA TurnSteps ==
  ASSUME TypeOK, AdapterInv, [Next]_vars
  PROVE  \/ UNCHANGED <<todo, ctx>>
         \/ todo' = <<>>
         \/ todo # <<>> /\ todo' = Tail(todo)
         \/ Poll
<1>1. CASE redisSSLConnect
  BY <1>1 DEF redisSSLConnect, AdapterInv, Detached
<1>2. CASE Attach \/ on_close \/ QtAdapterDeleted \/ redisAsyncFree \/ redisAsyncCommand
  BY <1>2 DEF Attach, on_close, QtAdapterDeleted, redisAsyncFree, redisAsyncCommand
<1>3. CASE Skip \/ Leave \/ HandledTooLate
  BY <1>3 DEF Skip, Leave, HandledTooLate, Handles
<1>4. CASE HandleConnect \/ ConnectDone \/ HandleTimeout
  BY <1>4 DEF HandleConnect, ConnectDone, HandleTimeout, Handles
<1>5. CASE redisAsyncRead \/ redisAsyncWrite
  BY <1>5 DEF redisAsyncRead, redisAsyncWrite, Handles
<1>6. CASE redisSSLAsyncRead \/ redisSSLAsyncWrite
  BY <1>6 DEF redisSSLAsyncRead, redisSSLAsyncWrite, Handles
<1>7. CASE Drains \/ Handshake \/ Record \/ UNCHANGED vars
  BY <1>7 DEF Drains, Handshake, Record, world, vars
<1> QED
  BY <1>1, <1>2, <1>3, <1>4, <1>5, <1>6, <1>7 DEF Next, Handler

\* In glib, once the write is behind, a read is all that can come.
LEMMA GlibInductive ==
  TypeOK /\ AdapterInv /\ GlibTurn /\ GlibOnlyReads /\ [Next]_vars => GlibTurn' /\ GlibOnlyReads'
<1> SUFFICES ASSUME TypeOK, AdapterInv, GlibTurn, GlibOnlyReads, [Next]_vars,
                    setup'.adapter = "glib"
             PROVE  /\ \A i, j \in DOMAIN todo' : i < j => todo'[i] = "write" /\ todo'[j] = "read"
                    /\ ctx' \in {"freed", "aborted"} => todo' \in {<<>>, <<"read">>}
  BY DEF GlibTurn, GlibOnlyReads
<1>s. setup' = setup
  BY DEF Next, Handler, vars, redisSSLConnect, Attach, on_close, QtAdapterDeleted, redisAsyncFree,
         redisAsyncCommand, Poll, Skip, Leave, HandledTooLate, HandleConnect, ConnectDone,
         HandleTimeout, redisAsyncRead, redisAsyncWrite, redisSSLAsyncRead, redisSSLAsyncWrite,
         Drains, Handshake, Record, world
<1>t. todo \in Seq(IO \cup {"timeout"})
  BY DEF TypeOK
<1>1. CASE UNCHANGED <<todo, ctx>>
  BY <1>1, <1>s DEF GlibTurn, GlibOnlyReads
<1>2. CASE todo' = <<>>
  BY <1>2
<1>3. CASE todo # <<>> /\ todo' = Tail(todo)
  <2>1. \A i, j \in DOMAIN todo : i < j => todo[i] = "write" /\ todo[j] = "read"
    BY <1>s DEF GlibTurn
  <2>2. Len(todo) \in {1, 2}
    <3>1. DOMAIN todo = 1..Len(todo) /\ Len(todo) \in Nat /\ Len(todo) # 0
      <4> DEFINE W == IO \cup {"timeout"}
      <4>1. todo \in Seq(W)
        BY <1>t
      <4> HIDE DEF W
      <4> QED
        BY <1>3, <4>1
    <3>2. ASSUME Len(todo) >= 3 PROVE FALSE
      <4>1. {1, 2, 3} \subseteq DOMAIN todo /\ 1 < 2 /\ 2 < 3
        BY <3>1, <3>2
      <4>2. todo[2] = "read" /\ todo[2] = "write"
        BY <2>1, <4>1
      <4> QED
        BY <4>2
    <3> QED
      BY <3>1, <3>2
  <2>3. /\ todo' \in Seq(IO \cup {"timeout"}) /\ Len(todo') = Len(todo) - 1
        /\ \A i \in 1..Len(todo') : todo'[i] = todo[i + 1]
    <3> DEFINE W == IO \cup {"timeout"}
    <3>1. todo \in Seq(W)
      BY <1>t
    <3> HIDE DEF W
    <3>2. Tail(todo) \in Seq(W) /\ Len(Tail(todo)) = Len(todo) - 1
          /\ \A i \in 1..Len(Tail(todo)) : Tail(todo)[i] = todo[i + 1]
      BY <1>3, <3>1, HeadTailProperties
    <3> QED
      BY <1>3, <3>2 DEF W
  <2>4. todo' \in {<<>>, <<"read">>}
    <3>1. CASE Len(todo) = 1
      <4>1. Len(todo') = 0
        BY <2>3, <3>1
      <4> QED
        BY <2>3, <4>1, EmptySeq
    <3>2. CASE Len(todo) = 2
      <4>1. 1 \in DOMAIN todo /\ 2 \in DOMAIN todo /\ 1 < 2
        BY <1>t, <3>2
      <4>2. todo[2] = "read"
        BY <2>1, <4>1
      <4>3. Len(todo') = 1 /\ todo'[1] = "read"
        BY <2>3, <3>2, <4>2
      <4>4. todo' = [i \in 1..1 |-> todo'[i]]
        BY <2>3, <4>3
      <4> QED
        BY <4>3, <4>4
    <3> QED
      BY <2>2, <3>1, <3>2
  <2> QED
    BY <2>4
<1>4. CASE Poll
  <2>1. PICK S \in SUBSET (IO \cup {"timeout"}) :
          /\ S # {} /\ \A x \in S \cap IO : x \in ev.watch
          /\ "timeout" \in S => ev.timer
          /\ todo' \in Orders(S)
    BY <1>4 DEF Poll
  <2>2. ctx' = ctx
    BY <1>4 DEF Poll
  <2>3. ctx \notin {"freed", "aborted"}
    <3>1. ev.watch = {} => ev.timer
      BY <2>1
    <3>2. CASE phase = "up"
      BY <3>1, <3>2 DEF AdapterInv, InUse, CleanedUp
    <3>3. CASE phase # "up"
      BY <3>1, <3>3 DEF AdapterInv, Detached
    <3> QED
      BY <3>2, <3>3
  <2>4. \A i, j \in DOMAIN todo' : i < j => todo'[i] = "write" /\ todo'[j] = "read"
    <3>1. adapter.order = <<"write", "read">>
      <4>1. setup.adapter = "glib"
        BY <1>s
      <4>2. adapter = Glib
        BY <4>1 DEF adapter, Adapters
      <4> QED
        BY <4>2 DEF Glib, Each
    <3>2. \A i, j \in DOMAIN todo' : i < j => Before(todo'[i], todo'[j])
      <4>1. adapter.order # <<>>
        BY <3>1
      <4> QED
        BY <2>1, <4>1 DEF Orders
    <3>3. ASSUME NEW x, NEW y, Before(x, y) PROVE x = "write" /\ y = "read"
      BY <3>1, <3>3 DEF Before
    <3> QED
      BY <3>2, <3>3
  <2> QED
    BY <2>2, <2>3, <2>4
<1> QED
  BY <1>1, <1>2, <1>3, <1>4, TurnSteps

\* The numbers of commands and records stay in their ranges.
LEMMA NumbersInductive ==
  TypeOK /\ Counts /\ [Next]_vars =>
    /\ issued' \in 0..MaxCommands /\ lastLen' \in 0..MaxCommands /\ records' \in 0..MaxRecords
    /\ {obuf', waiting', replies', extra'} \subseteq Nat
<1> SUFFICES ASSUME TypeOK, Counts, [Next]_vars
             PROVE  /\ issued' \in 0..MaxCommands /\ lastLen' \in 0..MaxCommands
                    /\ records' \in 0..MaxRecords /\ {obuf', waiting', replies', extra'} \subseteq Nat
  OBVIOUS
<1>t. /\ issued \in 0..MaxCommands /\ lastLen \in 0..MaxCommands /\ records \in 0..MaxRecords
      /\ obuf \in 0..MaxCommands /\ waiting \in Nat /\ replies \in Nat /\ extra \in Nat
      /\ MaxCommands \in Nat /\ MaxRecords \in Nat
  BY EventLoopAssumption DEF TypeOK
<1>i. issued' \in 0..MaxCommands
  <2>1. issued' = issued \/ (issued < MaxCommands /\ issued' = issued + 1)
    <3>d. ASSUME NEW e, NEW err, Disconnect(e, err) PROVE issued' = issued \/ (issued < MaxCommands /\ issued' = issued + 1)
      BY <3>d DEF Disconnect, Gone
    <3>c. ASSUME NEW o, NEW w, NEW e, Callbacks(o, w, e)
          PROVE  issued' = issued \/ (issued < MaxCommands /\ issued' = issued + 1)
      BY <3>c DEF Callbacks, Send
    <3>1. CASE UNCHANGED vars
      BY <3>1 DEF vars
    <3>2. CASE redisSSLConnect \/ Attach \/ on_close \/ QtAdapterDeleted
      BY <3>2 DEF redisSSLConnect, Attach, on_close, QtAdapterDeleted
    <3>3. CASE redisAsyncFree \/ redisAsyncCommand
      BY <3>3 DEF redisAsyncFree, redisAsyncCommand, Gone, Send
    <3>4. CASE Poll \/ Skip \/ Leave \/ HandledTooLate
      BY <3>4 DEF Poll, Skip, Leave, HandledTooLate
    <3>5. CASE HandleConnect \/ ConnectDone \/ HandleTimeout
      BY <3>5, <3>d DEF HandleConnect, ConnectDone, HandleTimeout
    <3>6. CASE redisAsyncRead \/ redisAsyncWrite
      BY <3>6, <3>d, <3>c DEF redisAsyncRead, redisAsyncWrite
    <3>7. CASE redisSSLAsyncRead \/ redisSSLAsyncWrite
      BY <3>7, <3>d, <3>c DEF redisSSLAsyncRead, redisSSLAsyncWrite
    <3>8. CASE Drains \/ Handshake \/ Record
      BY <3>8 DEF Drains, Handshake, Record, world
    <3> QED
      BY <3>1, <3>2, <3>3, <3>4, <3>5, <3>6, <3>7, <3>8 DEF Next, Handler
  <2> QED
    BY <1>t, <2>1
<1>r. records' \in 0..MaxRecords /\ extra' \in Nat
  <2>1. records' = records \/ (records > 0 /\ records' = records - 1)
    <3>1. CASE UNCHANGED vars
      BY <3>1 DEF vars
    <3>2. CASE redisSSLConnect \/ Attach \/ on_close \/ QtAdapterDeleted
      BY <3>2 DEF redisSSLConnect, Attach, on_close, QtAdapterDeleted
    <3>3. CASE redisAsyncFree \/ redisAsyncCommand
      BY <3>3 DEF redisAsyncFree, redisAsyncCommand
    <3>4. CASE Poll \/ Skip \/ Leave \/ HandledTooLate
      BY <3>4 DEF Poll, Skip, Leave, HandledTooLate
    <3>5. CASE HandleConnect \/ ConnectDone \/ HandleTimeout
      BY <3>5 DEF HandleConnect, ConnectDone, HandleTimeout
    <3>6. CASE redisAsyncRead \/ redisAsyncWrite
      BY <3>6 DEF redisAsyncRead, redisAsyncWrite
    <3>7. CASE redisSSLAsyncRead \/ redisSSLAsyncWrite
      BY <3>7 DEF redisSSLAsyncRead, redisSSLAsyncWrite, TakeRecords
    <3>8. CASE Drains \/ Handshake \/ Record
      BY <3>8 DEF Drains, Handshake, Record, world
    <3> QED
      BY <3>1, <3>2, <3>3, <3>4, <3>5, <3>6, <3>7, <3>8 DEF Next, Handler
  <2>2. extra' \in {extra, extra + 1, 0, 1}
    <3>1. CASE UNCHANGED vars
      BY <3>1 DEF vars
    <3>2. CASE redisSSLConnect \/ Attach \/ on_close \/ QtAdapterDeleted
      BY <3>2 DEF redisSSLConnect, Attach, on_close, QtAdapterDeleted
    <3>3. CASE redisAsyncFree \/ redisAsyncCommand
      BY <3>3 DEF redisAsyncFree, redisAsyncCommand
    <3>4. CASE Poll \/ Skip \/ Leave \/ HandledTooLate
      BY <3>4 DEF Poll, Skip, Leave, HandledTooLate
    <3>5. CASE HandleConnect \/ ConnectDone \/ HandleTimeout
      BY <3>5 DEF HandleConnect, ConnectDone, HandleTimeout
    <3>6. CASE redisAsyncRead \/ redisAsyncWrite
      BY <3>6 DEF redisAsyncRead, redisAsyncWrite
    <3>7. CASE redisSSLAsyncRead \/ redisSSLAsyncWrite
      BY <3>7 DEF redisSSLAsyncRead, redisSSLAsyncWrite, TakeRecords
    <3>8. CASE Drains \/ Handshake \/ Record
      BY <3>8 DEF Drains, Handshake, Record, world
    <3> QED
      BY <3>1, <3>2, <3>3, <3>4, <3>5, <3>6, <3>7, <3>8 DEF Next, Handler
  <2> QED
    BY <1>t, <2>1, <2>2
<1>l. lastLen' \in 0..MaxCommands
  <2>1. lastLen' \in {lastLen, 0, WriteLen}
    <3>1. CASE UNCHANGED vars
      BY <3>1 DEF vars
    <3>2. CASE redisSSLConnect \/ Attach \/ on_close \/ QtAdapterDeleted
      BY <3>2 DEF redisSSLConnect, Attach, on_close, QtAdapterDeleted
    <3>3. CASE redisAsyncFree \/ redisAsyncCommand
      BY <3>3 DEF redisAsyncFree, redisAsyncCommand
    <3>4. CASE Poll \/ Skip \/ Leave \/ HandledTooLate
      BY <3>4 DEF Poll, Skip, Leave, HandledTooLate
    <3>5. CASE HandleConnect \/ ConnectDone \/ HandleTimeout
      BY <3>5 DEF HandleConnect, ConnectDone, HandleTimeout
    <3>6. CASE redisAsyncRead \/ redisAsyncWrite
      BY <3>6 DEF redisAsyncRead, redisAsyncWrite
    <3>7. CASE redisSSLAsyncRead \/ redisSSLAsyncWrite
      BY <3>7 DEF redisSSLAsyncRead, redisSSLAsyncWrite, SSLWritten
    <3>8. CASE Drains \/ Handshake \/ Record
      BY <3>8 DEF Drains, Handshake, Record, world
    <3> QED
      BY <3>1, <3>2, <3>3, <3>4, <3>5, <3>6, <3>7, <3>8 DEF Next, Handler
  <2>2. WriteLen \in 0..MaxCommands
    BY <1>t DEF WriteLen
  <2> QED
    BY <1>t, <2>1, <2>2
<1>o. {obuf', waiting', replies'} \subseteq Nat
  <2> USE DEF Handles
  <2>a. ctx = "alive" => obuf <= waiting /\ replies <= waiting
    BY <1>t DEF Counts
  <2>d. ASSUME NEW err, Disconnect(ev, err), UNCHANGED replies
        PROVE  {obuf', waiting', replies'} \subseteq Nat
    BY <1>t, <2>d DEF Disconnect, Gone
  <2>c. ASSUME NEW m \in 0..obuf, NEW n \in 0..replies, NEW e, ctx = "alive",
               replies' = replies - n + m, Callbacks(obuf - m, waiting - n, e)
        PROVE  {obuf', waiting', replies'} \subseteq Nat
    <3>1. /\ obuf - m \in Nat /\ waiting - n \in Nat /\ replies - n + m \in Nat
          /\ obuf - m + 1 \in Nat /\ waiting - n + 1 \in Nat
      BY <1>t, <2>a, <2>c
    <3>2. /\ obuf' \in {obuf - m, obuf - m + 1, 0} /\ waiting' \in {waiting - n, waiting - n + 1, 0}
      BY <2>c DEF Callbacks, Send
    <3> QED
      BY <2>c, <3>1, <3>2
  <2>w. ASSUME NEW out \in WriteOutcomes, ctx = "alive" PROVE out.n \in 0..obuf
    <3>1. WriteLen \in 0..obuf
      BY <1>t, <2>w DEF WriteLen, Counts
    <3> QED
      BY <1>t, <2>w, <3>1 DEF WriteOutcomes
  <2>1. CASE UNCHANGED <<obuf, waiting, replies>>
    BY <1>t, <2>1
  <2>2. CASE redisAsyncFree \/ redisAsyncCommand
    BY <1>t, <2>2 DEF redisAsyncFree, redisAsyncCommand, Gone, Send
  <2>3. CASE HandleConnect \/ HandleTimeout
    BY <1>t, <2>1, <2>3, <2>d DEF HandleConnect, HandleTimeout
  <2>4. CASE redisAsyncRead
    <3>1. ASSUME NEW n \in 0..replies, ctx = "alive", replies' = replies - n,
                 Callbacks(obuf, waiting - n, Add(ev, "read"))
          PROVE  {obuf', waiting', replies'} \subseteq Nat
      <4>1. obuf - 0 = obuf /\ replies - n + 0 = replies - n /\ 0 \in 0..obuf
        BY <1>t
      <4> QED
        BY <2>c, <3>1, <4>1
    <3> QED
      BY <2>4, <2>d, <3>1 DEF redisAsyncRead
  <2>5. CASE redisAsyncWrite
    <3>1. ASSUME NEW n \in 0..obuf, obuf' = obuf - n, replies' = replies + n, UNCHANGED waiting
          PROVE  {obuf', waiting', replies'} \subseteq Nat
      BY <1>t, <3>1
    <3>2. ASSUME NEW n \in IF obuf = 0 THEN {0} ELSE 1..obuf PROVE n \in 0..obuf
      BY <1>t, <3>2
    <3> QED
      BY <2>5, <2>d, <3>1, <3>2 DEF redisAsyncWrite
  <2>6. CASE redisSSLAsyncWrite
    <3>1. ASSUME NEW out \in WriteOutcomes, ctx = "alive", obuf' = obuf - out.n,
                 replies' = replies + out.n, UNCHANGED waiting
          PROVE  {obuf', waiting', replies'} \subseteq Nat
      BY <1>t, <2>w, <3>1
    <3> QED
      BY <2>6, <2>d, <3>1 DEF redisSSLAsyncWrite
  <2>7. CASE redisSSLAsyncRead
    <3>1. CASE Disconnect(ev, TRUE) /\ UNCHANGED replies
      BY <2>d, <3>1
    <3>2. CASE ctx = "alive" /\ ~(Disconnect(ev, TRUE) /\ UNCHANGED replies)
      <4>1. PICK out \in (IF pendingWrite THEN WriteOutcomes ELSE {[n |-> 0, want |-> "none"]}),
                 n \in 0..replies :
              /\ replies' = replies - n + out.n
              /\ Callbacks(obuf - out.n, waiting - n,
                           Add(IF pendingWrite /\ ~Done(out) THEN Add(ev, "write") ELSE ev, "read"))
        BY <2>7, <3>2 DEF redisSSLAsyncRead
      <4>2. out.n \in 0..obuf
        BY <1>t, <2>w, <3>2, <4>1
      <4> QED
        BY <2>c, <3>2, <4>1, <4>2
    <3> QED
      BY <2>7, <3>1, <3>2 DEF redisSSLAsyncRead
  <2> QED
    BY <2>1, <2>2, <2>3, <2>4, <2>5, <2>6, <2>7
       DEF Next, Handler, vars, redisSSLConnect, Attach, on_close, QtAdapterDeleted, Poll, Skip,
           Leave, HandledTooLate, ConnectDone, Drains, Handshake, Record, world
<1> QED
  BY <1>i, <1>r, <1>l, <1>o

\* The history of a use after free only ever takes a truth value.
LEMMA BadIsBoolean ==
  ASSUME bad \in BOOLEAN, [Next]_vars
  PROVE  bad' \in BOOLEAN
<1>d. ASSUME NEW e, NEW err, Disconnect(e, err) PROVE bad' \in BOOLEAN
  BY <1>d DEF Disconnect, Gone
<1>c. ASSUME NEW o, NEW w, NEW e, Callbacks(o, w, e) PROVE bad' \in BOOLEAN
  BY <1>c DEF Callbacks, Send
<1>1. CASE UNCHANGED vars
  BY <1>1 DEF vars
<1>2. CASE redisSSLConnect \/ Attach \/ on_close \/ QtAdapterDeleted
  BY <1>2 DEF redisSSLConnect, Attach, on_close, QtAdapterDeleted
<1>3. CASE redisAsyncFree \/ redisAsyncCommand
  BY <1>3 DEF redisAsyncFree, redisAsyncCommand, Gone, Send
<1>4. CASE Poll \/ Skip \/ Leave \/ HandledTooLate
  BY <1>4 DEF Poll, Skip, Leave, HandledTooLate
<1>5. CASE HandleConnect \/ ConnectDone \/ HandleTimeout
  BY <1>5, <1>d DEF HandleConnect, ConnectDone, HandleTimeout
<1>6. CASE redisAsyncRead \/ redisAsyncWrite
  BY <1>6, <1>d, <1>c DEF redisAsyncRead, redisAsyncWrite
<1>7. CASE redisSSLAsyncRead \/ redisSSLAsyncWrite
  BY <1>7, <1>d, <1>c DEF redisSSLAsyncRead, redisSSLAsyncWrite
<1>8. CASE Drains \/ Handshake \/ Record
  BY <1>8 DEF Drains, Handshake, Record, world
<1> QED
  BY <1>1, <1>2, <1>3, <1>4, <1>5, <1>6, <1>7, <1>8 DEF Next, Handler

\* Whether a write has filled the socket is a truth value.
LEMMA FullIsBoolean ==
  ASSUME full \in BOOLEAN, NEW p, full' \in {full, p > 0}
  PROVE  full' \in BOOLEAN
<1>1. CASE full' = full
  BY <1>1
<1>2. CASE full' = (p > 0)
  BY <1>2
<1> QED
  BY <1>1, <1>2, Zenon

LEMMA WrittenIsBoolean ==
  ASSUME full \in BOOLEAN, NEW out, SSLWritten(out)
  PROVE  full' \in BOOLEAN
<1>1. CASE out.want = "write"
  BY <1>1 DEF SSLWritten
<1>2. CASE out.want # "write"
  <2>1. full' \in {full, out.n > 0}
    BY <1>2, Zenon DEF SSLWritten
  <2> QED
    BY <2>1, FullIsBoolean
<1> QED
  BY <1>1, <1>2

\* So do the flags and the states of the context.
LEMMA FlagsInductive ==
  TypeOK /\ [Next]_vars =>
    /\ setup' \in Setups /\ phase' \in {"tls", "attach", "up", "failed"}
    /\ ctx' \in {"alive", "dead", "freed", "aborted"}
    /\ {bad', connected', wantRead', pendingWrite', full', hs'} \subseteq BOOLEAN
<1> SUFFICES ASSUME TypeOK, [Next]_vars
             PROVE  /\ setup' \in Setups /\ phase' \in {"tls", "attach", "up", "failed"}
                    /\ ctx' \in {"alive", "dead", "freed", "aborted"}
                    /\ {bad', connected', wantRead', pendingWrite', full', hs'} \subseteq BOOLEAN
  OBVIOUS
<1>t. /\ setup \in Setups /\ phase \in {"tls", "attach", "up", "failed"}
      /\ ctx \in {"alive", "dead", "freed", "aborted"}
      /\ {bad, connected, wantRead, pendingWrite, full, hs} \subseteq BOOLEAN
  BY DEF TypeOK
<1> USE DEF Next, Handler, vars, redisSSLConnect, Attach, on_close, QtAdapterDeleted, redisAsyncFree,
            redisAsyncCommand, Poll, Skip, Leave, HandledTooLate, HandleConnect, ConnectDone,
            HandleTimeout, redisAsyncRead, redisAsyncWrite, redisSSLAsyncRead, redisSSLAsyncWrite,
            Drains, Handshake, Record, world
<1>1. setup' \in Setups /\ phase' \in {"tls", "attach", "up", "failed"}
  BY <1>t
<1>2. ctx' \in {"alive", "dead", "freed", "aborted"}
  BY <1>t DEF Disconnect, Gone, Callbacks, Send
<1>3. bad' \in BOOLEAN
  <2> HIDE DEF Next, vars
  <2> QED
    BY <1>t, BadIsBoolean
<1>4. connected' \in BOOLEAN
  BY <1>t
<1>5. wantRead' \in BOOLEAN /\ pendingWrite' \in BOOLEAN
  BY <1>t
<1>6. full' \in BOOLEAN
  <2>1. ASSUME NEW n, full' \in {full, n > 0} PROVE full' \in BOOLEAN
    <3> HIDE DEF Next, vars
    <3> QED
      BY <1>t, <2>1, FullIsBoolean
  <2>2. ASSUME NEW out, SSLWritten(out) PROVE full' \in BOOLEAN
    <3> HIDE DEF Next, vars
    <3> QED
      BY <1>t, <2>2, WrittenIsBoolean
  <2>3. CASE redisAsyncWrite
    <3>1. CASE UNCHANGED full
      BY <1>t, <3>1
    <3>2. CASE full' # full
      <4>1. PICK n \in (IF obuf = 0 THEN {0} ELSE 1..obuf) :
              full' \in (IF n < obuf THEN {TRUE} ELSE {full, n > 0})
        BY <2>3, <3>2, Zenon
      <4>2. CASE n < obuf
        BY <4>1, <4>2
      <4>3. CASE ~(n < obuf)
        <5>1. full' \in {full, n > 0}
          BY <4>1, <4>3, Zenon
        <5> HIDE DEF Next, vars
        <5> QED
          BY <1>t, <5>1, FullIsBoolean
      <4> QED
        BY <4>2, <4>3
    <3> QED
      BY <3>1, <3>2
  <2>4. CASE redisSSLAsyncWrite \/ redisSSLAsyncRead
    <3>1. full' = full \/ \E out : SSLWritten(out)
      BY <2>4
    <3> QED
      BY <1>t, <2>2, <3>1
  <2>5. CASE ~(redisAsyncWrite \/ redisSSLAsyncWrite \/ redisSSLAsyncRead)
    BY <1>t, <2>5
  <2> QED
    BY <2>3, <2>4, <2>5
<1>7. hs' \in BOOLEAN
  BY <1>t DEF TakeRecords
<1> QED
  BY <1>1, <1>2, <1>3, <1>4, <1>5, <1>6, <1>7

\* IInv holds at first, and every step keeps it.
LEMMA InitIInv == Init => IInv
<1> SUFFICES ASSUME Init PROVE IInv
  OBVIOUS
<1>1. /\ NoEvents \in Events /\ NoEvents.data = "NULL" /\ ~NoEvents.hooks /\ ~NoEvents.timer
      /\ ~NoEvents.entered /\ ~NoEvents.deleted /\ NoEvents.frees = 0 /\ NoEvents.watch = {}
  BY DEF NoEvents, Events
<1>2. TypeOK
  <2>1. ev \in Events /\ todo \in Seq(IO \cup {"timeout"})
    BY <1>1 DEF Init
  <2>2. /\ setup \in Setups /\ phase \in {"tls", "attach"} /\ ctx = "alive"
        /\ {bad, connected, wantRead, pendingWrite, full, hs} \subseteq BOOLEAN
    BY DEF Init
  <2>3. /\ obuf = 0 /\ issued = 0 /\ waiting = 0 /\ replies = 0 /\ lastLen = 0 /\ extra = 0
        /\ records = MaxRecords
    BY DEF Init
  <2>4. 0 \in 0..MaxCommands /\ 0 \in Nat /\ MaxRecords \in 0..MaxRecords
    BY EventLoopAssumption
  <2> QED
    BY <2>1, <2>2, <2>3, <2>4 DEF TypeOK
<1>3. Counts /\ Plain
  BY DEF Init, Counts, Plain
<1>4. Detached /\ InUse /\ CleanedUp
  BY <1>1 DEF Init, Detached, InUse, CleanedUp
<1>5. Apart
  BY <1>1 DEF Init, Apart
<1>6. Interests /\ Uses /\ GlibTurn /\ GlibOnlyReads
  BY <1>1 DEF Init, Interests, Uses, GlibTurn, GlibOnlyReads
<1> QED
  BY <1>2, <1>3, <1>4, <1>5, <1>6 DEF IInv, AdapterInv

LEMMA IInvInductive == IInv /\ [Next]_vars => IInv'
<1> SUFFICES ASSUME IInv, [Next]_vars PROVE IInv'
  OBVIOUS
<1> USE DEF IInv
<1>1. Counts' /\ Plain'
  BY CountsInductive, PlainInductive
<1>2. /\ AdapterInv' /\ ev' \in Events /\ Interests' /\ Uses'
      /\ GlibTurn' /\ GlibOnlyReads'
  BY AdapterInductive, InterestsInductive, SafeInductive, GlibInductive
<1>3. TypeOK'
  <2>1. /\ issued' \in 0..MaxCommands /\ lastLen' \in 0..MaxCommands /\ records' \in 0..MaxRecords
        /\ {obuf', waiting', replies', extra'} \subseteq Nat
    BY NumbersInductive
  <2>2. obuf' \in 0..MaxCommands /\ waiting' \in 0..MaxCommands /\ replies' \in 0..MaxCommands
    BY <1>1, <2>1, EventLoopAssumption DEF Counts
  <2> QED
    BY <1>2, <2>1, <2>2, FlagsInductive, TurnsInductive DEF TypeOK
<1> QED
  BY <1>1, <1>2, <1>3

THEOREM Invariance == Spec => []IInv
BY InitIInv, IInvInductive, PTL DEF Spec

\* No context and no adapter is used after it is freed, but in the cases that
\* NoUseAfterFree names, and each adapter is freed once.
THEOREM MemoryIsSafe == Spec => []MemorySafe
<1>1. IInv => MemorySafe
  BY FreedOnceFollows DEF IInv, MemorySafe, NoUseAfterFree, Uses
<1> QED
  BY <1>1, Invariance, PTL

\* What is asked for is watched, and so is what commands in the buffer wait for.
THEOREM AlwaysWatched == Spec => []WatchesAsNeeded
<1>1. IInv => WatchesAsNeeded
  <2> SUFFICES ASSUME IInv PROVE WatchesAsNeeded
    OBVIOUS
  <2>1. TypeOK /\ AdapterInv /\ Interests /\ Counts
    BY DEF IInv
  <2>2. InterestKept
    BY <2>1 DEF InterestKept, Interests, Agree
  <2>3. UnsentIsWatched
    BY <2>1 DEF UnsentIsWatched, AdapterInv, InUse, Interests, Agree, Needed
  <2>4. RetryWithinBuffer
    BY <2>1 DEF RetryWithinBuffer, Counts
  <2> QED
    BY <2>1, <2>2, <2>3, <2>4 DEF WatchesAsNeeded
<1> QED
  BY <1>1, Invariance, PTL
=============================================================================
