------------------------- MODULE AsyncClientProofs -------------------------
(***************************************************************************)
(* Proofs about AsyncClient, for any commands, channels and arguments.     *)
(* First what holds of every user: types, the phases a context goes        *)
(* through, clean disconnections and frees that are not forgotten.         *)
(* Then what holds of patient users whose SUBSCRIBE and UNSUBSCRIBE name   *)
(* one channel each: replies find their callbacks, every callback is       *)
(* called once, no assertion fails, and the client is in pub/sub mode when *)
(* the server is.                                                          *)
(***************************************************************************)
EXTENDS AsyncClient, FiniteSetTheorems, SequenceTheorems, TLAPS

\* Only errors and pushes are not about a command or a channel.
Item == {r \in [kind : {"reply", "error", "push"} \cup PubSub,
                of : Commands \cup Channels \cup {None},
                left : Nat] : r.kind = "reply" => r.of \in Plain}

Entry == [fn : Subscribes, pending_subs : Int]

Types ==
  /\ pc \in UserCode \cup Gone \cup
            {"connect_cb", "read", "write", "process", "timeout", "free"}
  /\ flags \subseteq Flags
  /\ "IN_CALLBACK" \in flags <=> pc \in Callbacks
  /\ err \in BOOLEAN /\ detached \in BOOLEAN
  /\ onDisconnect \in {"none", "OK", "ERR"}
  /\ replies \in Seq(Plain) /\ invalid \in Seq(Plain)
  /\ channels \in [DOMAIN channels -> Entry] /\ DOMAIN channels \subseteq Channels
  /\ obuf \in Seq(Commands) /\ issued \in Seq(Commands)
  /\ inbuf \in Seq(Item) /\ wire \in Seq(Item)
  /\ cb \in Commands \cup {None}
  /\ resp3 \in BOOLEAN
  /\ server \in {"new", "open", "closed"} /\ subs \subseteq Channels
  /\ called \in [Plain -> Nat] /\ answered \subseteq Plain

\* Where the context is when an error was found, when it is detached from its events
\* and when it is being freed.
Phases ==
  /\ detached => pc \in {"loop", "free", "free_cb", "freed", "aborted"}
  /\ err => detached \/ pc \in {"timeout", "timeout_cb"}
  /\ pc \in {"timeout", "timeout_cb"} => err
  /\ pc \in {"free", "free_cb", "freed"} => flags \cap {"DISCONNECTING", "FREEING"} # {}
  /\ pc \in {"free", "free_cb"} => err \/ "FREEING" \in flags \/ replies = << >>
  /\ pc = "freed" => replies = << >>
  /\ onDisconnect # "none" => pc = "freed"
  /\ onDisconnect = "OK" => "FREEING" \in flags \/ ~err

\* A command sent before any subscription waits in replies until it is answered.
EarlyWait ==
  /\ "SUBSCRIBED" \in flags => \E i \in DOMAIN issued : issued[i] \in Subscribes
  /\ ~err /\ "FREEING" \notin flags => Early \ NullFn \subseteq Range(replies) \cup answered

\* Where a context is that the user has asked to free.  One who asked in the push
\* callback is lost from sight.
Freeing ==
  "FREEING" \in flags =>
    \/ asked = "push_cb"
    \/ pc \in {"free", "free_cb", "freed", "aborted", "reply_cb"}
    \/ pc \in {"timeout", "timeout_cb"} /\ asked = "timeout_cb"
    \/ /\ pc = "loop" /\ asked = "timeout_cb" /\ "NO_AUTO_FREE" \in flags
       /\ replies = << >> /\ detached /\ err

AnyUser == Types /\ Phases /\ EarlyWait /\ Freeing

-----------------------------------------------------------------------------
(* Recursion on the numbers up to a bound: what a function defined by it is. *)

LEMMA LeastNumber ==
  ASSUME NEW T, T \subseteq Nat, T # {}
  PROVE  \E x \in T : \A y \in T : x <= y
<1> DEFINE R == OpToRel(<, Nat)
<1>1. IsWellFoundedOn(R, Nat)
  BY NatLessThanWellFounded
<1>2. \A x, y \in Nat : x < y => << x, y >> \in R
  BY DEF OpToRel
<1> HIDE DEF R
<1>3. PICK x \in T : \A y \in T : << y, x >> \notin R
  BY <1>1, WFMin
<1>4. ASSUME NEW y \in T PROVE x <= y
  <2>1. x \in Nat /\ y \in Nat
    OBVIOUS
  <2>2. ~(y < x)
    BY <1>2, <1>3, <2>1
  <2> QED
    BY <2>1, <2>2
<1> QED
  BY <1>4

\* The turns of the loop of SUBSCRIBE, as far as its n-th channel.
Turns(cmd, n, g) ==
  g = [i \in 0 .. n |->
         IF i = 0 THEN [dict |-> channels, pending_subs |-> 1]
                  ELSE AddSubscription(g[i - 1], Args[cmd][i], cmd)]

Turning(cmd, n) == \E g : Turns(cmd, n, g)

LEMMA TurnsExist ==
  ASSUME NEW cmd, NEW n \in Nat
  PROVE  Turning(cmd, n)
<1> DEFINE B == [dict |-> channels, pending_subs |-> 1]
           C(a, i) == AddSubscription(a, Args[cmd][i], cmd)
           T == {m \in Nat : ~Turning(cmd, m)}
           Same(m, g) == g = [i \in 0 .. m |-> IF i = 0 THEN B ELSE C(g[i - 1], i)]
<1>0. ASSUME NEW m, NEW g PROVE Turns(cmd, m, g) <=> Same(m, g)
  BY DEF Turns
<1> SUFFICES ASSUME n \in T PROVE FALSE
  OBVIOUS
<1> HIDE DEF B, C
<1>1. PICK m \in T : \A k \in T : m <= k
  <2> HIDE DEF T
  <2>1. T \subseteq Nat
    BY DEF T
  <2> QED
    BY <2>1, LeastNumber
<1>2. m # 0
  <2> DEFINE g == [i \in 0 .. 0 |-> B]
  <2>1. Same(0, g)
    OBVIOUS
  <2> HIDE DEF g, Same
  <2>2. Turning(cmd, 0)
    BY <2>1, <1>0 DEF Turning
  <2> QED
    BY <2>2
<1>3. Turning(cmd, m - 1)
  BY <1>1, <1>2
<1>4. PICK g : Same(m - 1, g)
  BY <1>3, <1>0 DEF Turning
<1> DEFINE h == [i \in 0 .. m |-> IF i = m THEN C(g[m - 1], m) ELSE g[i]]
<1>5. Same(m, h)
  <2>1. \A i \in 0 .. m - 1 : g[i] = IF i = 0 THEN B ELSE C(g[i - 1], i)
    BY <1>4
  <2>2. ASSUME NEW i \in 0 .. m PROVE h[i] = IF i = 0 THEN B ELSE C(h[i - 1], i)
    <3>1. m \in Nat \ {0}
      BY <1>1, <1>2
    <3>2. CASE i = m
      BY <3>1, <3>2
    <3>3. CASE i = 0
      BY <3>1, <3>3, <2>1
    <3>4. CASE i \in 1 .. m - 1
      BY <3>1, <3>4, <2>1
    <3> QED
      BY <3>1, <3>2, <3>3, <3>4
  <2>3. h = [i \in 0 .. m |-> h[i]]
    OBVIOUS
  <2> HIDE DEF h
  <2> QED
    BY <2>2, <2>3
<1> HIDE DEF h, Same
<1>6. Turning(cmd, m)
  BY <1>5, <1>0 DEF Turning
<1> QED
  BY <1>6

\* What the last turn leaves is what Subscribed is.
LEMMA SubscribedIsLastTurn ==
  ASSUME NEW cmd, Len(Args[cmd]) \in Nat
  PROVE  \E g : Turns(cmd, Len(Args[cmd]), g) /\ Subscribed(cmd) = g[Len(Args[cmd])].dict
<1> DEFINE n == Len(Args[cmd])
           f == CHOOSE g : Turns(cmd, n, g)
<1>1. Turns(cmd, n, f)
  BY TurnsExist DEF Turning
<1>2. Subscribed(cmd) = f[n].dict
  BY DEF Subscribed, Turns
<1> QED
  BY <1>1, <1>2

Fits(acc) ==
  /\ acc.dict \in [DOMAIN acc.dict -> Entry] /\ DOMAIN acc.dict \subseteq Channels
  /\ acc.pending_subs \in Int

LEMMA AddSubscriptionFits ==
  ASSUME NEW acc, Fits(acc), NEW ch \in Channels, NEW cmd \in Subscribes
  PROVE  Fits(AddSubscription(acc, ch, cmd))
<1> DEFINE pending == AddSubscription(acc, ch, cmd).pending_subs
           d == AddSubscription(acc, ch, cmd).dict
<1>1. ASSUME NEW c \in DOMAIN acc.dict PROVE acc.dict[c] \in Entry /\ acc.dict[c].pending_subs \in Int
  BY <1>1 DEF Fits, Entry
<1>2. pending = IF ch \in DOMAIN acc.dict THEN acc.dict[ch].pending_subs + 1 ELSE acc.pending_subs
  BY DEF AddSubscription
<1>3. pending \in Int
  BY <1>1, <1>2 DEF Fits
<1>4. d = [c \in DOMAIN acc.dict \cup {ch} |->
             IF c = ch THEN [fn |-> cmd, pending_subs |-> pending] ELSE acc.dict[c]]
  BY DEF AddSubscription
<1> HIDE DEF pending, d
<1>5. [fn |-> cmd, pending_subs |-> pending] \in Entry
  BY <1>3 DEF Entry
<1>6. d \in [DOMAIN d -> Entry] /\ DOMAIN d \subseteq Channels
  BY <1>1, <1>4, <1>5 DEF Fits
<1> QED
  BY <1>3, <1>6 DEF Fits, pending, d

LEMMA SubscribedFits ==
  ASSUME NEW cmd \in Subscribes, channels \in [DOMAIN channels -> Entry], DOMAIN channels \subseteq Channels
  PROVE  /\ Subscribed(cmd) \in [DOMAIN Subscribed(cmd) -> Entry]
         /\ DOMAIN Subscribed(cmd) \subseteq Channels
<1> DEFINE n == Len(Args[cmd])
<1>1. Args[cmd] \in Seq(Channels) /\ n \in Nat /\ \A i \in 1 .. n : Args[cmd][i] \in Channels
  BY ClientAssumption, LenProperties
<1>2. PICK g : Turns(cmd, n, g) /\ Subscribed(cmd) = g[n].dict
  BY <1>1, SubscribedIsLastTurn
<1> DEFINE T == {i \in 0 .. n : ~Fits(g[i])}
<1>3. T = {}
  <2> SUFFICES ASSUME T # {} PROVE FALSE
    OBVIOUS
  <2>1. T \subseteq Nat
    OBVIOUS
  <2> HIDE DEF T
  <2>2. PICK i \in T : \A j \in T : i <= j
    BY <2>1, LeastNumber
  <2>3. i \in 0 .. n /\ ~Fits(g[i])
    BY DEF T
  <2>4. i # 0
    <3>1. g[0] = [dict |-> channels, pending_subs |-> 1]
      BY <1>1, <1>2 DEF Turns
    <3> QED
      BY <2>3, <3>1 DEF Fits
  <2>5. Fits(g[i - 1])
    BY <1>1, <2>2, <2>3, <2>4 DEF T
  <2>6. g[i] = AddSubscription(g[i - 1], Args[cmd][i], cmd)
    BY <1>1, <1>2, <2>3, <2>4 DEF Turns
  <2> QED
    BY <1>1, <2>3, <2>4, <2>5, <2>6, AddSubscriptionFits
<1>4. Fits(g[n])
  BY <1>1, <1>3
<1> QED
  BY <1>2, <1>4 DEF Fits

-----------------------------------------------------------------------------
(* What the operators called by several actions do.                        *)

LEMMA CallbackRuns ==
  ASSUME Types,
         NEW cmd \in Commands \cup {None}, NEW fl \in SUBSET Flags, "IN_CALLBACK" \notin fl,
         NEW at \in {"process", "timeout", "free"}, NEW got \in BOOLEAN,
         __redisRunCallback(cmd, fl, at, got)
  PROVE  /\ \/ pc' = at /\ flags' = fl
            \/ /\ flags' = fl \cup {"IN_CALLBACK"}
               /\ at = "process" => pc' = "reply_cb"
               /\ at = "timeout" => pc' = "timeout_cb"
               /\ at = "free" => pc' = "free_cb"
         /\ flags' \subseteq Flags /\ ("IN_CALLBACK" \in flags' <=> pc' \in Callbacks)
         /\ issued' = issued
         /\ called' \in [Plain -> Nat]
         /\ answered' \subseteq Plain /\ answered \subseteq answered'
         /\ cmd \in Plain \ NullFn /\ got => cmd \in answered'
<1>1. CASE cmd \in NullFn \cup {None}
  BY <1>1, ClientAssumption DEF __redisRunCallback, historyVars, Types, Callbacks, Commands
<1>2. CASE cmd \notin NullFn \cup {None}
  <2>1. /\ flags' = fl \cup {"IN_CALLBACK"}
        /\ at = "process" => pc' = "reply_cb"
        /\ at = "timeout" => pc' = "timeout_cb"
        /\ at = "free" => pc' = "free_cb"
    BY <1>2 DEF __redisRunCallback
  <2>2. Count(cmd, got)
    BY <1>2 DEF __redisRunCallback
  <2>3. flags' \subseteq Flags /\ pc' \in Callbacks /\ "IN_CALLBACK" \in flags'
    BY <2>1 DEF Flags, Callbacks
  <2>4. /\ issued' = issued /\ called' \in [Plain -> Nat]
        /\ answered' \subseteq Plain /\ answered \subseteq answered'
        /\ cmd \in Plain \ NullFn /\ got => cmd \in answered'
    <3>1. CASE cmd \notin Plain
      BY <2>2, <3>1 DEF Count, historyVars, Types
    <3>2. CASE cmd \in Plain
      <4>1. called' = [called EXCEPT ![cmd] = @ + 1] /\ issued' = issued
        BY <2>2, <3>2 DEF Count
      <4>2. answered' = IF got THEN answered \cup {cmd} ELSE answered
        BY <2>2, <3>2 DEF Count
      <4>3. called' \in [Plain -> Nat]
        BY <4>1, <3>2 DEF Types
      <4> QED
        BY <3>2, <4>1, <4>2, <4>3 DEF Types
    <3> QED
      BY <3>1, <3>2
  <2> QED
    BY <2>1, <2>3, <2>4
<1> QED
  BY <1>1, <1>2

LEMMA Disconnects ==
  ASSUME Types, NEW fl \in SUBSET Flags, "IN_CALLBACK" \notin fl, NEW e \in BOOLEAN,
         __redisAsyncDisconnect(fl, e)
  PROVE  /\ pc' \in {"aborted", "loop", "free"}
         /\ pc' = "aborted" <=> ~e /\ replies # << >>
         /\ pc' = "loop" => "NO_AUTO_FREE" \in fl
         /\ fl \subseteq flags' /\ flags' \subseteq fl \cup {"DISCONNECTING"}
         /\ e => "DISCONNECTING" \in flags'
         /\ flags' \subseteq Flags /\ "IN_CALLBACK" \notin flags'
         /\ err' = e /\ detached' = TRUE /\ onDisconnect' = onDisconnect
BY DEF __redisAsyncDisconnect, Flags

-----------------------------------------------------------------------------
(* Types.                                                                  *)

LEMMA InitTypes == Init => Types
<1> SUFFICES ASSUME Init PROVE Types
  OBVIOUS
<1>1. channels \in [DOMAIN channels -> Entry] /\ DOMAIN channels \subseteq Channels
  BY DEF Init
<1>2. called \in [Plain -> Nat] /\ answered \subseteq Plain
  BY DEF Init
<1>3. "IN_CALLBACK" \notin flags /\ flags \subseteq Flags
  BY DEF Init, Flags
<1> QED
  BY <1>1, <1>2, <1>3, EmptySeq DEF Init, Types, UserCode, Callbacks

LEMMA CallbackReturnsTypes == Types /\ CallbackReturns => Types'
BY DEF Types, CallbackReturns, closeVars, clientVars, serverVars, historyVars, UserCode,
       Callbacks, Flags, Gone, NoReply, Reply

LEMMA FreeTypes == Types /\ (FreeCallsBack \/ FreeEnds) => Types'
<1> SUFFICES ASSUME Types, FreeCallsBack \/ FreeEnds PROVE Types'
  OBVIOUS
<1> USE DEF closeVars, localVars, redisFree
<1>0. /\ << >> \in Seq(Commands) /\ << >> \in Seq(Item) /\ {} \subseteq Channels
      /\ pc = "free" => "IN_CALLBACK" \notin flags
      /\ Plain \subseteq Commands /\ Subscribes \subseteq Commands
  BY EmptySeq DEF Types, Callbacks, Commands
<1>1. CASE FreeEnds
  BY <1>0, <1>1 DEF FreeEnds, Types, clientVars, historyVars, Callbacks, UserCode, Gone
<1>2. CASE FreeCallsBack
  <2>0. pc = "free" /\ redisFree /\ UNCHANGED << closeVars, localVars, resp3, notices >>
    BY <1>2 DEF FreeCallsBack
  <2>1. ASSUME NEW cmd \in Commands, __redisRunCallback(cmd, flags, "free", FALSE)
        PROVE  /\ pc' \in {"free", "free_cb"} /\ issued' = issued
               /\ flags' \subseteq Flags /\ ("IN_CALLBACK" \in flags' <=> pc' \in Callbacks)
               /\ called' \in [Plain -> Nat] /\ answered' \subseteq Plain
    BY <1>0, <2>0, <2>1, CallbackRuns DEF Types
  <2>2. \E cmd \in Commands : __redisRunCallback(cmd, flags, "free", FALSE)
    <3>1. CASE replies # << >>
      BY <1>0, <1>2, <3>1, HeadTailProperties DEF FreeCallsBack, Types
    <3>2. CASE replies = << >> /\ invalid # << >>
      BY <1>0, <1>2, <3>2, HeadTailProperties DEF FreeCallsBack, Types
    <3>3. CASE replies = << >> /\ invalid = << >>
      BY <1>0, <1>2, <3>3 DEF FreeCallsBack, Types, Entry
    <3> QED
      BY <3>1, <3>2, <3>3
  <2>3. /\ replies' \in Seq(Plain) /\ invalid' \in Seq(Plain)
        /\ channels' \in [DOMAIN channels' -> Entry] /\ DOMAIN channels' \subseteq Channels
    <3>1. CASE replies # << >> \/ invalid # << >>
      BY <1>2, <3>1, HeadTailProperties DEF FreeCallsBack, Types
    <3>2. CASE replies = << >> /\ invalid = << >>
      BY <1>2, <3>2 DEF FreeCallsBack, Types
    <3> QED
      BY <3>1, <3>2
  <2> QED
    BY <1>0, <2>0, <2>1, <2>2, <2>3 DEF Types, UserCode, Callbacks
<1> QED
  BY <1>1, <1>2

LEMMA UserTypes ==
  Types /\ (redisAsyncDisconnect \/ redisAsyncFree \/ \E cmd \in Commands : __redisAsyncCommand(cmd))
    => Types'
<1> SUFFICES ASSUME Types,
                    redisAsyncDisconnect \/ redisAsyncFree \/ \E cmd \in Commands : __redisAsyncCommand(cmd)
             PROVE  Types'
  OBVIOUS
<1> USE DEF clientVars, localVars, serverVars, closeVars, historyVars
<1>1. CASE redisAsyncDisconnect
  <2> DEFINE fl == (flags \cup {"DISCONNECTING"}) \ {"NO_AUTO_FREE"}
  <2>1. fl \in SUBSET Flags /\ ("IN_CALLBACK" \in fl <=> "IN_CALLBACK" \in flags)
    BY DEF Types, Flags
  <2>2. CASE "IN_CALLBACK" \notin flags /\ replies = << >>
    <3>1. __redisAsyncDisconnect(fl, err)
      BY <1>1, <2>2 DEF redisAsyncDisconnect
    <3>2. /\ pc' \in {"aborted", "loop", "free"} /\ flags' \subseteq Flags /\ "IN_CALLBACK" \notin flags'
          /\ err' = err /\ detached' = TRUE /\ onDisconnect' = onDisconnect
      <4> HIDE DEF fl
      <4> QED
        BY <2>1, <2>2, <3>1, Disconnects DEF Types
    <3> QED
      BY <1>1, <3>2 DEF redisAsyncDisconnect, Types, Callbacks, UserCode, Gone
  <2>3. CASE ~("IN_CALLBACK" \notin flags /\ replies = << >>)
    BY <1>1, <2>1, <2>3 DEF redisAsyncDisconnect, Types
  <2> QED
    BY <2>2, <2>3
<1>2. CASE redisAsyncFree
  BY <1>2 DEF redisAsyncFree, Types, Flags, Callbacks
<1>3. CASE \E cmd \in Commands : __redisAsyncCommand(cmd)
  <2> PICK cmd \in Commands : __redisAsyncCommand(cmd)
    BY <1>3
  <2>1. Append(obuf, cmd) \in Seq(Commands) /\ Append(issued, cmd) \in Seq(Commands)
    BY AppendProperties DEF Types
  <2>2. /\ replies' \in Seq(Plain) /\ invalid' \in Seq(Plain)
        /\ channels' \in [DOMAIN channels' -> Entry] /\ DOMAIN channels' \subseteq Channels
        /\ flags' \subseteq Flags /\ ("IN_CALLBACK" \in flags' <=> "IN_CALLBACK" \in flags)
    <3>0. Enlist(cmd)
      BY DEF __redisAsyncCommand
    <3>1. CASE cmd \in Subscribes
      <4>1. channels' = Subscribed(cmd) /\ flags' = flags \cup {"SUBSCRIBED"}
            /\ UNCHANGED << replies, invalid >>
        BY <3>0, <3>1, ClientAssumption DEF Enlist
      <4>2. /\ Subscribed(cmd) \in [DOMAIN Subscribed(cmd) -> Entry]
            /\ DOMAIN Subscribed(cmd) \subseteq Channels
        BY <3>1, SubscribedFits DEF Types
      <4> QED
        BY <4>1, <4>2 DEF Types, Flags
    <3>2. CASE cmd \in Unsubscribes
      BY <3>0, <3>2, ClientAssumption DEF Enlist, Types
    <3>3. CASE cmd \in Plain
      <4>1. /\ UNCHANGED << flags, channels >>
            /\ \/ invalid' = Append(invalid, cmd) /\ UNCHANGED replies
               \/ replies' = Append(replies, cmd) /\ UNCHANGED invalid
        BY <3>0, <3>3, ClientAssumption DEF Enlist
      <4>2. Append(replies, cmd) \in Seq(Plain) /\ Append(invalid, cmd) \in Seq(Plain)
        BY <3>3, AppendProperties DEF Types
      <4> QED
        BY <4>1, <4>2 DEF Types
    <3> QED
      BY <3>1, <3>2, <3>3 DEF Commands
  <2> QED
    BY <2>1, <2>2 DEF __redisAsyncCommand, Types
<1> QED
  BY <1>1, <1>2, <1>3

\* The answers of the server are replies about what was asked.
LEMMA AnswersFit ==
  ASSUME Types, NEW cmd \in Commands, NEW kind \in {"reply", "error"}
  PROVE  Answers(cmd, kind) \in Seq(Item)
<1>1. CASE cmd \in Plain
  <2> DEFINE k == IF subs # {} /\ ~resp3 THEN "error" ELSE kind
  <2>0. k \in {"reply", "error"}
    OBVIOUS
  <2>1. Reply(k, cmd, 0) \in Item
    <3> HIDE DEF k
    <3> QED
      BY <1>1, <2>0 DEF Reply, Item
  <2> QED
    BY <1>1, <2>1 DEF Answers
<1>2. CASE cmd \notin Plain
  <2>1. /\ Args[cmd] \in Seq(Channels) /\ Len(Args[cmd]) \in Nat
        /\ \A i \in 1 .. Len(Args[cmd]) : Args[cmd][i] \in Channels
    BY <1>2, ClientAssumption, LenProperties DEF Commands
  <2>2. ASSUME NEW i \in 1 .. Len(Args[cmd])
        PROVE  Answers(cmd, kind)[i] \in Item
    <3> DEFINE named == {Args[cmd][j] : j \in 1 .. i}
    <3>1. named \subseteq Channels
      BY <2>1
    <3> HIDE DEF named
    <3>2. Cardinality(subs \cup named) \in Nat /\ Cardinality(subs \ named) \in Nat
      <4>1. IsFiniteSet(subs \cup named) /\ IsFiniteSet(subs \ named)
        BY <3>1, ClientAssumption, FS_Subset DEF Types
      <4> QED
        BY <4>1, FS_CardinalityType
    <3>3. Answers(cmd, kind)[i] = IF cmd \in Subscribes
                                    THEN Reply("subscribe", Args[cmd][i], Cardinality(subs \cup named))
                                    ELSE Reply("unsubscribe", Args[cmd][i], Cardinality(subs \ named))
      BY <1>2 DEF Answers, named
    <3> QED
      BY <2>1, <3>2, <3>3 DEF Reply, Item, PubSub
  <2> DEFINE a == Answers(cmd, kind)
  <2>3. a = [i \in 1 .. Len(Args[cmd]) |-> a[i]]
    BY <1>2 DEF Answers
  <2> HIDE DEF a
  <2>4. a \in [1 .. Len(Args[cmd]) -> Item]
    BY <2>2, <2>3 DEF a
  <2> QED
    BY <2>1, <2>4, IsASeq DEF a
<1> QED
  BY <1>1, <1>2

LEMMA EventTypes ==
  Types /\ (\/ HandleConnect \/ ConnectReturns \/ NothingToWrite \/ SocketFails \/ HandleTimeout
            \/ TimeoutCallsBack \/ TimeoutEnds) => Types'
<1> SUFFICES ASSUME Types,
                    \/ HandleConnect \/ ConnectReturns \/ NothingToWrite \/ SocketFails \/ HandleTimeout
                    \/ TimeoutCallsBack \/ TimeoutEnds
             PROVE  Types'
  OBVIOUS
<1> USE DEF clientVars, localVars, serverVars, closeVars, historyVars
<1>0. pc \notin Callbacks => "IN_CALLBACK" \notin flags
  BY DEF Types
<1>1. ASSUME NEW e \in BOOLEAN, __redisAsyncDisconnect(flags, e), pc \notin Callbacks,
             UNCHANGED << clientVars, obuf, inbuf, localVars, serverVars, wire, historyVars >>
      PROVE  Types'
  <2>1. /\ pc' \in {"aborted", "loop", "free"} /\ flags' \subseteq Flags /\ "IN_CALLBACK" \notin flags'
        /\ err' = e /\ detached' = TRUE /\ onDisconnect' = onDisconnect
    BY <1>0, <1>1, Disconnects DEF Types
  <2> QED
    BY <1>1, <2>1 DEF Types, Callbacks, UserCode, Gone
<1>2. CASE HandleConnect
  <2>1. CASE __redisAsyncDisconnect(flags, TRUE)
    BY <1>1, <1>2, <2>1 DEF HandleConnect, Dispatched, Callbacks
  <2>2. CASE pc' = "connect_cb" /\ UNCHANGED << flags, closeVars >>
    BY <1>2, <2>2 DEF HandleConnect, Dispatched, Types, Callbacks
  <2> QED
    BY <1>2, <2>1, <2>2 DEF HandleConnect
<1>3. CASE ConnectReturns
  BY <1>3 DEF ConnectReturns, Types, Callbacks, Flags
<1>4. CASE NothingToWrite
  BY <1>4 DEF NothingToWrite, Types, Callbacks, UserCode
<1>5. CASE SocketFails
  BY <1>1, <1>5 DEF SocketFails, Dispatched, Callbacks
<1>6. CASE HandleTimeout
  BY <1>6 DEF HandleTimeout, Dispatched, Types, Callbacks, UserCode
<1>7. CASE TimeoutCallsBack
  <2>1. Head(replies) \in Plain /\ Tail(replies) \in Seq(Plain) /\ Plain \subseteq Commands
    BY <1>7, HeadTailProperties DEF TimeoutCallsBack, Types, Commands
  <2>2. __redisRunCallback(Head(replies), flags, "timeout", FALSE) /\ "IN_CALLBACK" \notin flags
    BY <1>0, <1>7 DEF TimeoutCallsBack, Callbacks
  <2>3. /\ pc' \in {"timeout", "timeout_cb"} /\ issued' = issued
        /\ flags' \subseteq Flags /\ ("IN_CALLBACK" \in flags' <=> pc' \in Callbacks)
        /\ called' \in [Plain -> Nat] /\ answered' \subseteq Plain
    BY <2>1, <2>2, CallbackRuns DEF Types
  <2> QED
    BY <1>7, <2>1, <2>3 DEF TimeoutCallsBack, Types, UserCode, Callbacks
<1>8. CASE TimeoutEnds
  BY <1>1, <1>8 DEF TimeoutEnds, Callbacks, Types
<1> QED
  BY <1>2, <1>3, <1>4, <1>5, <1>6, <1>7, <1>8

LEMMA WireTypes ==
  Types /\ (HandleWrite \/ Notice \/ Reject \/ Close \/ \E n \in 0 .. Len(wire) : HandleRead(n)) => Types'
<1> SUFFICES ASSUME Types,
                    HandleWrite \/ Notice \/ Reject \/ Close \/ \E n \in 0 .. Len(wire) : HandleRead(n)
             PROVE  Types'
  OBVIOUS
<1> USE DEF clientVars, localVars, serverVars, closeVars, historyVars
<1>1. CASE HandleWrite
  <2>1. Head(obuf) \in Commands /\ Tail(obuf) \in Seq(Commands)
    BY <1>1, HeadTailProperties DEF HandleWrite, Types
  <2>2. wire' \in Seq(Item) /\ server' \in {"new", "open", "closed"} /\ subs' \subseteq Channels
    <3> DEFINE cmd == Head(obuf)
    <3>1. CASE server = "closed"
      BY <1>1, <3>1 DEF HandleWrite, Types
    <3>2. CASE server # "closed"
      <4>1. PICK kind \in {"reply", "error"} : wire' = wire \o Answers(cmd, kind)
        BY <1>1, <3>2 DEF HandleWrite
      <4>2. wire' \in Seq(Item)
        BY <2>1, <4>1, AnswersFit, ConcatProperties DEF Types
      <4>3. cmd \in Subscribes \cup Unsubscribes => Range(Args[cmd]) \subseteq Channels
        BY ClientAssumption, LenProperties DEF Range
      <4>4. server' = "open" /\ subs' \subseteq Channels
        BY <1>1, <3>2, <4>3 DEF HandleWrite, Types
      <4> QED
        BY <4>2, <4>4
    <3> QED
      BY <3>1, <3>2
  <2>3. "IN_CALLBACK" \notin flags
    BY <1>1 DEF HandleWrite, Types, Dispatched, Callbacks
  <2> QED
    BY <1>1, <2>1, <2>2, <2>3 DEF HandleWrite, Types, UserCode, Callbacks
<1>2. CASE Notice
  <2>1. \E r \in Item : wire' = Append(wire, r)
    <3>1. \A ch \in subs : Reply("message", ch, 0) \in Item
      BY DEF Types, Reply, Item, PubSub
    <3>2. Reply("push", None, 0) \in Item
      BY DEF Reply, Item
    <3> QED
      BY <1>2, <3>1, <3>2 DEF Notice
  <2>2. wire' \in Seq(Item)
    BY <2>1, AppendProperties DEF Types
  <2> QED
    BY <1>2, <2>2 DEF Notice, Types
<1>3. CASE Reject
  <2>1. Reply("error", None, 0) \in Item
    BY DEF Reply, Item
  <2> QED
    BY <1>3, <2>1 DEF Reject, Types
<1>4. CASE Close
  BY <1>4 DEF Close, Types
<1>5. CASE \E n \in 0 .. Len(wire) : HandleRead(n)
  <2> PICK n \in 0 .. Len(wire) : HandleRead(n)
    BY <1>5
  <2>1. /\ SubSeq(wire, 1, n) \in Seq(Item) /\ SubSeq(wire, n + 1, Len(wire)) \in Seq(Item)
    BY LenProperties, SubSeqProperties DEF Types
  <2>2. inbuf' \in Seq(Item) /\ wire' \in Seq(Item)
    BY <2>1, ConcatProperties DEF HandleRead, Types
  <2>3. "IN_CALLBACK" \notin flags /\ pc' = "process"
    BY DEF HandleRead, Dispatched, Types, Callbacks
  <2> QED
    BY <2>2, <2>3 DEF HandleRead, Types, Callbacks
<1> QED
  BY <1>1, <1>2, <1>3, <1>4, <1>5

\* A reply is taken from the reader.
LEMMA NextReplyTakes ==
  ASSUME Types, NextReply
  PROVE  /\ pc = "process" /\ "IN_CALLBACK" \notin flags
         /\ reply' = Head(inbuf) /\ reply' \in Item /\ inbuf' \in Seq(Item)
         /\ reply'.kind \in {"reply", "error", "push"} \cup PubSub
<1>1. inbuf # << >> /\ reply' = Head(inbuf) /\ inbuf' = Tail(inbuf) /\ pc = "process"
  BY DEF NextReply
<1>2. reply' \in Item /\ inbuf' \in Seq(Item)
  BY <1>1, HeadTailProperties DEF Types
<1> QED
  BY <1>1, <1>2 DEF Types, Item, Callbacks

\* Whatever the reply, only the count of a channel's entry changes, and the set of entries.
LEMMA ChannelEntryFits ==
  ASSUME Types, NEW r, r.of \in DOMAIN channels
  PROVE  /\ ChannelEntry(r) \in [DOMAIN ChannelEntry(r) -> Entry]
         /\ DOMAIN ChannelEntry(r) \subseteq DOMAIN channels
<1>1. \A c \in DOMAIN channels : /\ channels[c] \in Entry
                                 /\ [channels[c] EXCEPT !.pending_subs = @ - 1] \in Entry
  <2>1. ASSUME NEW e \in Entry PROVE [e EXCEPT !.pending_subs = @ - 1] \in Entry
    BY DEF Entry
  <2> QED
    BY <2>1 DEF Types
<1>2. CASE r.kind = "subscribe"
  <2>1. ChannelEntry(r) =
          [channels EXCEPT ![r.of] = [channels[r.of] EXCEPT !.pending_subs = @ - 1]]
    BY <1>2 DEF ChannelEntry
  <2> QED
    BY <1>1, <2>1
<1>3. CASE r.kind # "subscribe"
  BY <1>1, <1>3 DEF ChannelEntry, Types
<1> QED
  BY <1>2, <1>3

LEMMA ProcessTypes == Types /\ redisProcessCallbacks => Types'
<1> SUFFICES ASSUME Types, redisProcessCallbacks PROVE Types'
  OBVIOUS
<1> USE DEF clientVars, localVars, serverVars, closeVars, historyVars
<1>0. pc = "process" /\ "IN_CALLBACK" \notin flags
  <2>1. pc = "process"
    BY DEF redisProcessCallbacks, NoMoreReplies, ReaderFails, PushReply, RegularReply, NextReply,
           SpontaneousError, AssertionFails, ChannelReply, InvalidReply, Unexpected
  <2> QED
    BY <2>1 DEF Types, Callbacks
<1>1. ASSUME NEW e \in BOOLEAN, __redisAsyncDisconnect(flags, e), inbuf' \in Seq(Item), cb' = None,
             UNCHANGED << clientVars, obuf, serverVars, wire, historyVars >>
      PROVE  Types'
  <2>1. /\ pc' \in {"aborted", "loop", "free"} /\ flags' \subseteq Flags /\ "IN_CALLBACK" \notin flags'
        /\ err' = e /\ detached' = TRUE /\ onDisconnect' = onDisconnect
    BY <1>0, <1>1, Disconnects DEF Types
  <2> QED
    BY <1>1, <2>1 DEF Types, Callbacks, UserCode, Gone
<1>2. ASSUME NEW cmd \in Commands \cup {None}, NEW fl \in SUBSET Flags, "IN_CALLBACK" \notin fl,
             __redisRunCallback(cmd, fl, "process", TRUE), cb' = cmd, inbuf' \in Seq(Item),
             replies' \in Seq(Plain), invalid' \in Seq(Plain),
             channels' \in [DOMAIN channels' -> Entry], DOMAIN channels' \subseteq Channels,
             UNCHANGED << closeVars, obuf, serverVars, wire >>
      PROVE  Types'
  <2>1. /\ pc' \in {"process", "reply_cb"} /\ issued' = issued
        /\ flags' \subseteq Flags /\ ("IN_CALLBACK" \in flags' <=> pc' \in Callbacks)
        /\ called' \in [Plain -> Nat] /\ answered' \subseteq Plain
    BY <1>2, CallbackRuns
  <2> QED
    BY <1>2, <2>1 DEF Types, Callbacks, UserCode
<1>3. CASE NoMoreReplies
  <2>1. inbuf' = inbuf /\ cb' = None
    BY <1>3 DEF NoMoreReplies, Leave
  <2>2. CASE __redisAsyncDisconnect(flags, err)
    BY <1>1, <1>3, <2>1, <2>2 DEF NoMoreReplies, Types
  <2>3. CASE pc' = "loop" /\ UNCHANGED << flags, closeVars >>
    BY <1>0, <1>3, <2>1, <2>3 DEF NoMoreReplies, Types, UserCode, Callbacks
  <2> QED
    BY <1>3, <2>2, <2>3 DEF NoMoreReplies
<1>4. CASE ReaderFails
  BY <1>1, <1>4 DEF ReaderFails, Leave, Types
<1>5. CASE PushReply
  <2>1. inbuf' \in Seq(Item)
    BY <1>5, NextReplyTakes DEF PushReply
  <2> QED
    BY <1>5, <2>1 DEF PushReply, Types, UserCode, Callbacks, Flags
<1>6. CASE RegularReply
  <2>1. inbuf' \in Seq(Item)
    BY <1>6, NextReplyTakes DEF RegularReply
  <2>2. cb' \in Commands /\ replies' \in Seq(Plain)
    BY <1>6, HeadTailProperties DEF RegularReply, Types, Commands
  <2> QED
    BY <1>0, <1>2, <1>6, <2>1, <2>2 DEF RegularReply, Types
<1>7. CASE SpontaneousError
  <2>1. inbuf' \in Seq(Item)
    BY <1>7, NextReplyTakes DEF SpontaneousError, Unexpected
  <2> QED
    BY <1>1, <1>7, <2>1 DEF SpontaneousError
<1>8. CASE AssertionFails
  <2>1. inbuf' \in Seq(Item)
    BY <1>8, NextReplyTakes DEF AssertionFails, Unexpected
  <2> QED
    BY <1>0, <1>8, <2>1 DEF AssertionFails, Types, Gone, Callbacks
<1>9. CASE ChannelReply
  <2>1. inbuf' \in Seq(Item)
    BY <1>9, NextReplyTakes DEF ChannelReply, Unexpected
  <2>2. /\ cb' \in Commands \cup {None}
        /\ channels' \in [DOMAIN channels' -> Entry] /\ DOMAIN channels' \subseteq Channels
    <3>1. CASE reply'.of \in DOMAIN channels
      <4>1. cb' = channels[reply'.of].fn /\ channels' = ChannelEntry(reply')
        BY <1>9, <3>1 DEF ChannelReply
      <4>2. channels[reply'.of] \in Entry
        BY <3>1 DEF Types
      <4> QED
        BY <3>1, <4>1, <4>2, ChannelEntryFits DEF Types, Entry, Commands
    <3>2. CASE reply'.of \notin DOMAIN channels
      BY <1>9, <3>2 DEF ChannelReply, Types
    <3> QED
      BY <3>1, <3>2
  <2>3. \E fl \in {flags, flags \ {"SUBSCRIBED"}} : __redisRunCallback(cb', fl, "process", TRUE)
    BY <1>9 DEF ChannelReply
  <2>4. \A fl \in {flags, flags \ {"SUBSCRIBED"}} : fl \in SUBSET Flags /\ "IN_CALLBACK" \notin fl
    BY <1>0 DEF Types
  <2> QED
    BY <1>2, <1>9, <2>1, <2>2, <2>3, <2>4 DEF ChannelReply, Types
<1>10. CASE InvalidReply
  <2>1. inbuf' \in Seq(Item)
    BY <1>10, NextReplyTakes DEF InvalidReply, Unexpected
  <2>2. cb' \in Commands \cup {None} /\ invalid' \in Seq(Plain)
    <3>1. invalid \in Seq(Plain) /\ cb \in Commands \cup {None}
      BY DEF Types
    <3>2. CASE invalid = << >>
      BY <1>10, <3>1, <3>2 DEF InvalidReply
    <3>3. CASE invalid # << >>
      <4>1. Head(invalid) \in Plain /\ Tail(invalid) \in Seq(Plain)
        BY <3>1, <3>3, HeadTailProperties
      <4> QED
        BY <1>10, <3>3, <4>1 DEF InvalidReply, Commands
    <3> QED
      BY <3>2, <3>3
  <2> QED
    BY <1>0, <1>2, <1>10, <2>1, <2>2 DEF InvalidReply, Types
<1> QED
  BY <1>3, <1>4, <1>5, <1>6, <1>7, <1>8, <1>9, <1>10 DEF redisProcessCallbacks

LEMMA StepTypes == Types /\ [Next]_vars => Types'
<1> SUFFICES ASSUME Types, [Next]_vars PROVE Types'
  OBVIOUS
<1>1. CASE UNCHANGED vars
  BY <1>1 DEF vars, closeVars, clientVars, localVars, serverVars, historyVars, Types
<1>2. CASE Next
  BY <1>2, CallbackReturnsTypes, FreeTypes, UserTypes, EventTypes, WireTypes, ProcessTypes
     DEF Next, Handler
<1> QED
  BY <1>1, <1>2

-----------------------------------------------------------------------------
(* The phases of a context.                                                *)

LEMMA ProcessRuns == redisProcessCallbacks => pc = "process"
BY DEF redisProcessCallbacks, NoMoreReplies, ReaderFails, PushReply, RegularReply, NextReply,
       SpontaneousError, AssertionFails, ChannelReply, InvalidReply, Unexpected

\* Where an action can be taken, what it does to the error and to the lists; and how
\* a reply is handled, as far as the phases are concerned.
LEMMA ProcessPhases ==
  ASSUME Types, redisProcessCallbacks
  PROVE  \/ \E e \in {err, TRUE} : __redisAsyncDisconnect(flags, e)
              /\ (e = TRUE \/ (replies = << >> /\ "DISCONNECTING" \in flags))
         \/ /\ pc' \in {"loop", "process", "reply_cb", "push_cb", "aborted"}
            /\ UNCHANGED closeVars
            /\ flags \ {"SUBSCRIBED"} \subseteq flags' \ {"IN_CALLBACK"}
            /\ flags' \subseteq flags \cup {"IN_CALLBACK"}
<1> SUFFICES ASSUME ~\E e \in {err, TRUE} : __redisAsyncDisconnect(flags, e)
                        /\ (e = TRUE \/ (replies = << >> /\ "DISCONNECTING" \in flags))
             PROVE  /\ pc' \in {"loop", "process", "reply_cb", "push_cb", "aborted"}
                    /\ UNCHANGED closeVars
                    /\ flags \ {"SUBSCRIBED"} \subseteq flags' \ {"IN_CALLBACK"}
                    /\ flags' \subseteq flags \cup {"IN_CALLBACK"}
  OBVIOUS
<1>0. pc = "process" /\ "IN_CALLBACK" \notin flags /\ flags \in SUBSET Flags
  BY ProcessRuns DEF Types, Callbacks
<1>1. ASSUME NEW cmd \in Commands \cup {None}, NEW fl \in {flags, flags \ {"SUBSCRIBED"}},
             __redisRunCallback(cmd, fl, "process", TRUE)
      PROVE  /\ pc' \in {"process", "reply_cb"}
             /\ flags \ {"SUBSCRIBED"} \subseteq flags' \ {"IN_CALLBACK"}
             /\ flags' \subseteq flags \cup {"IN_CALLBACK"}
  <2>1. pc' \in {"process", "reply_cb"} /\ flags' \in {fl, fl \cup {"IN_CALLBACK"}}
    BY <1>0, <1>1, CallbackRuns
  <2> QED
    BY <1>0, <2>1
<1>2. cb' \in Commands \cup {None}
  BY ProcessTypes DEF Types
<1>3. CASE NoMoreReplies
  BY <1>0, <1>3 DEF NoMoreReplies
<1>4. CASE ReaderFails \/ SpontaneousError
  BY <1>4 DEF ReaderFails, SpontaneousError
<1>5. CASE PushReply \/ AssertionFails
  BY <1>0, <1>5 DEF PushReply, AssertionFails
<1>6. CASE RegularReply \/ InvalidReply
  BY <1>1, <1>2, <1>6 DEF RegularReply, InvalidReply
<1>7. CASE ChannelReply
  <2>1. \E fl \in {flags, flags \ {"SUBSCRIBED"}} : __redisRunCallback(cb', fl, "process", TRUE)
    BY <1>7 DEF ChannelReply
  <2> QED
    BY <1>1, <1>2, <1>7, <2>1 DEF ChannelReply
<1> QED
  BY <1>3, <1>4, <1>5, <1>6, <1>7 DEF redisProcessCallbacks

LEMMA DisconnectPhases ==
  ASSUME Types, Phases, pc # "freed", NEW fl \in SUBSET Flags, flags \ {"NO_AUTO_FREE"} \subseteq fl,
         "IN_CALLBACK" \notin fl,
         NEW e \in BOOLEAN, __redisAsyncDisconnect(fl, e),
         e \/ (replies = << >> /\ "DISCONNECTING" \in fl), replies' = replies
  PROVE  Phases'
<1>1. /\ pc' \in {"aborted", "loop", "free"}
      /\ fl \subseteq flags' /\ (e => "DISCONNECTING" \in flags')
      /\ err' = e /\ detached' = TRUE /\ onDisconnect' = onDisconnect
  BY Disconnects
<1> QED
  BY <1>1 DEF Phases

\* The loops that call back with NULL: how one turn changes pc and the flags.
LEMMA FreeTurn ==
  ASSUME Types, FreeCallsBack
  PROVE  /\ pc = "free" /\ pc' \in {"free", "free_cb"} /\ flags \subseteq flags'
         /\ flags' \subseteq flags \cup {"IN_CALLBACK"} /\ issued' = issued
         /\ answered \subseteq answered' /\ UNCHANGED closeVars
         /\ replies' = IF replies = << >> THEN replies ELSE Tail(replies)
<1>1. pc = "free" /\ "IN_CALLBACK" \notin flags /\ flags \in SUBSET Flags
  BY DEF FreeCallsBack, Types, Callbacks
<1>2. \E cmd \in Commands \cup {None} : __redisRunCallback(cmd, flags, "free", FALSE)
  <2>1. CASE replies # << >>
    BY <2>1, HeadTailProperties DEF FreeCallsBack, Types, Commands
  <2>2. CASE replies = << >> /\ invalid # << >>
    BY <2>2, HeadTailProperties DEF FreeCallsBack, Types, Commands
  <2>3. CASE replies = << >> /\ invalid = << >>
    BY <2>3 DEF FreeCallsBack, Types, Entry, Commands
  <2> QED
    BY <2>1, <2>2, <2>3
<1>3. /\ pc' \in {"free", "free_cb"} /\ flags' \in {flags, flags \cup {"IN_CALLBACK"}}
      /\ issued' = issued /\ answered \subseteq answered'
  BY <1>1, <1>2, CallbackRuns
<1>4. UNCHANGED closeVars /\ replies' = IF replies = << >> THEN replies ELSE Tail(replies)
  BY DEF FreeCallsBack
<1> QED
  BY <1>1, <1>3, <1>4

LEMMA TimeoutTurn ==
  ASSUME Types, TimeoutCallsBack
  PROVE  /\ pc = "timeout" /\ pc' \in {"timeout", "timeout_cb"}
         /\ flags' \in {flags, flags \cup {"IN_CALLBACK"}}
         /\ issued' = issued /\ answered \subseteq answered'
<1>1. pc = "timeout" /\ "IN_CALLBACK" \notin flags /\ flags \in SUBSET Flags
  BY DEF TimeoutCallsBack, Types, Callbacks
<1>2. Head(replies) \in Commands /\ __redisRunCallback(Head(replies), flags, "timeout", FALSE)
  BY HeadTailProperties DEF TimeoutCallsBack, Types, Commands
<1> QED
  BY <1>1, <1>2, CallbackRuns

LEMMA StepPhases == Types /\ Phases /\ [Next]_vars => Phases'
<1> SUFFICES ASSUME Types, Phases, [Next]_vars PROVE Phases'
  OBVIOUS
<1> USE DEF closeVars, clientVars
<1>0. ASSUME NEW e \in BOOLEAN, __redisAsyncDisconnect(flags, e), 
             e \/ (replies = << >> /\ "DISCONNECTING" \in flags),
             UNCHANGED clientVars, pc \notin Callbacks \cup {"freed"}
      PROVE  Phases'
  BY <1>0, DisconnectPhases DEF Types
<1>1. CASE UNCHANGED vars
  BY <1>1 DEF vars, Phases
<1>2. CASE CallbackReturns
  BY <1>2 DEF CallbackReturns, Phases, Callbacks
<1>3. CASE ConnectReturns \/ NothingToWrite \/ HandleTimeout
  BY <1>3 DEF ConnectReturns, NothingToWrite, HandleTimeout, Dispatched, Phases
<1>4. CASE redisProcessCallbacks
  <2>0. pc = "process" /\ ~err /\ ~detached /\ onDisconnect = "none"
    BY <1>4, ProcessRuns DEF Phases
  <2>1. CASE \E e \in {err, TRUE} : __redisAsyncDisconnect(flags, e)
               /\ (e = TRUE \/ (replies = << >> /\ "DISCONNECTING" \in flags))
    <3>1. PICK e \in {err, TRUE} : __redisAsyncDisconnect(flags, e)
               /\ (e = TRUE \/ (replies = << >> /\ "DISCONNECTING" \in flags))
      BY <2>1
    <3>2. flags \in SUBSET Flags /\ "IN_CALLBACK" \notin flags /\ e \in BOOLEAN
      BY <2>0 DEF Types, Callbacks
    <3>3. /\ pc' \in {"aborted", "loop", "free"} /\ (pc' = "aborted" <=> ~e /\ replies # << >>)
          /\ flags \subseteq flags' /\ (e => "DISCONNECTING" \in flags')
          /\ err' = e /\ detached' = TRUE /\ onDisconnect' = onDisconnect
      BY <3>1, <3>2, Disconnects
    <3>4. replies' = replies \/ e
      BY <1>4, <2>0, <3>1, <3>3 DEF redisProcessCallbacks, NoMoreReplies, ReaderFails, SpontaneousError,
         PushReply, RegularReply, AssertionFails, ChannelReply, InvalidReply
    <3> QED
      BY <2>0, <3>1, <3>3, <3>4 DEF Phases
  <2>2. CASE pc' \in {"loop", "process", "reply_cb", "push_cb", "aborted"} /\ UNCHANGED closeVars
    BY <2>0, <2>2 DEF Phases
  <2> QED
    BY <1>4, <2>1, <2>2, ProcessPhases
<1>5. CASE TimeoutCallsBack
  <2>1. UNCHANGED closeVars
    BY <1>5 DEF TimeoutCallsBack
  <2> QED
    BY <1>5, <2>1, TimeoutTurn DEF Phases
<1>6. CASE TimeoutEnds
  <2>1. err = TRUE /\ pc = "timeout"
    BY <1>6 DEF TimeoutEnds, Types, Phases
  <2> QED
    BY <1>0, <1>6, <2>1 DEF TimeoutEnds, Callbacks
<1>7. CASE FreeCallsBack
  BY <1>7, FreeTurn DEF Phases
<1>8. CASE FreeEnds
  BY <1>8 DEF FreeEnds, Phases
<1>9. CASE HandleWrite \/ \E n \in 0 .. Len(wire) : HandleRead(n)
  BY <1>9 DEF HandleWrite, HandleRead, Dispatched, Phases
<1>10. CASE redisAsyncDisconnect
  <2> DEFINE fl == (flags \cup {"DISCONNECTING"}) \ {"NO_AUTO_FREE"}
  <2>0. pc \in UserCode /\ pc # "freed"
    BY <1>10 DEF redisAsyncDisconnect, UserCode, Callbacks
  <2>1. CASE "IN_CALLBACK" \notin flags /\ replies = << >>
    <3>1. __redisAsyncDisconnect(fl, err)
      BY <1>10, <2>1 DEF redisAsyncDisconnect
    <3>2. /\ fl \in SUBSET Flags /\ "IN_CALLBACK" \notin fl /\ flags \ {"NO_AUTO_FREE"} \subseteq fl
          /\ "DISCONNECTING" \in fl /\ replies' = replies /\ err \in BOOLEAN
      BY <1>10, <2>1 DEF Types, Flags, redisAsyncDisconnect
    <3> HIDE DEF fl
    <3> QED
      BY <2>0, <2>1, <3>1, <3>2, DisconnectPhases
  <2>2. CASE ~("IN_CALLBACK" \notin flags /\ replies = << >>)
    BY <1>10, <2>0, <2>2 DEF redisAsyncDisconnect, Phases
  <2> QED
    BY <2>1, <2>2
<1>11. CASE redisAsyncFree
  BY <1>11 DEF redisAsyncFree, Types, Phases, UserCode, Callbacks
<1>12. CASE \E cmd \in Commands : __redisAsyncCommand(cmd)
  <2> PICK cmd \in Commands : __redisAsyncCommand(cmd)
    BY <1>12
  <2>1. /\ pc' = pc /\ UNCHANGED closeVars /\ flags \subseteq flags'
        /\ flags \cap {"DISCONNECTING", "FREEING"} = {}
    BY DEF __redisAsyncCommand, Accepting, Enlist
  <2>2. pc \notin {"free", "free_cb", "freed"}
    BY <2>1 DEF Phases
  <2> QED
    BY <2>1, <2>2 DEF Phases
<1>13. CASE HandleConnect
  <2>1. CASE __redisAsyncDisconnect(flags, TRUE)
    BY <1>0, <1>13, <2>1 DEF HandleConnect, Dispatched, Callbacks
  <2>2. CASE pc' = "connect_cb" /\ UNCHANGED << flags, closeVars >>
    BY <1>13, <2>2 DEF HandleConnect, Dispatched, Phases
  <2> QED
    BY <1>13, <2>1, <2>2 DEF HandleConnect
<1>14. CASE SocketFails
  BY <1>0, <1>14 DEF SocketFails, Dispatched, Callbacks
<1>15. CASE Notice \/ Reject \/ Close
  BY <1>15 DEF Notice, Reject, Close, Phases
<1> QED
  BY <1>1, <1>2, <1>3, <1>4, <1>5, <1>6, <1>7, <1>8, <1>9, <1>10, <1>11, <1>12, <1>13, <1>14, <1>15
     DEF Next, Handler

-----------------------------------------------------------------------------
(* Commands sent before a subscription.                                    *)

LEMMA RangeHeadTail ==
  ASSUME NEW S, NEW s \in Seq(S), s # << >>
  PROVE  Range(s) = {Head(s)} \cup Range(Tail(s))
<1>1. /\ Len(s) \in Nat \ {0} /\ DOMAIN s = 1 .. Len(s) /\ Head(s) = s[1]
      /\ DOMAIN Tail(s) = 1 .. Len(s) - 1 /\ \A i \in 1 .. Len(s) - 1 : Tail(s)[i] = s[i + 1]
  BY LenProperties, EmptySeq, HeadTailProperties
<1>2. ASSUME NEW i \in DOMAIN s, i # 1 PROVE i - 1 \in DOMAIN Tail(s) /\ s[i] = Tail(s)[i - 1]
  BY <1>1, <1>2
<1>3. ASSUME NEW i \in DOMAIN Tail(s) PROVE i + 1 \in DOMAIN s /\ s[i + 1] = Tail(s)[i]
  BY <1>1, <1>3
<1>4. 1 \in DOMAIN s
  BY <1>1
<1> QED
  BY <1>1, <1>2, <1>3, <1>4 DEF Range

LEMMA RangeAppend ==
  ASSUME NEW S, NEW s \in Seq(S), NEW e \in S
  PROVE  Range(Append(s, e)) = Range(s) \cup {e}
<1>1. /\ Len(s) \in Nat /\ DOMAIN s = 1 .. Len(s)
      /\ DOMAIN Append(s, e) = 1 .. Len(s) + 1 /\ Append(s, e)[Len(s) + 1] = e
      /\ \A i \in 1 .. Len(s) : Append(s, e)[i] = s[i]
  BY LenProperties, AppendProperties
<1>2. ASSUME NEW i \in DOMAIN Append(s, e)
      PROVE  \/ i = Len(s) + 1
             \/ i \in DOMAIN s /\ Append(s, e)[i] = s[i]
  BY <1>1
<1>3. ASSUME NEW i \in DOMAIN s PROVE i \in DOMAIN Append(s, e) /\ Append(s, e)[i] = s[i]
  BY <1>1
<1>4. Len(s) + 1 \in DOMAIN Append(s, e)
  BY <1>1
<1> QED
  BY <1>1, <1>2, <1>3, <1>4 DEF Range

LEMMA EarlyKept ==
  ASSUME EarlyWait, issued' = issued, err => err', "FREEING" \in flags => "FREEING" \in flags',
         "SUBSCRIBED" \in flags' => "SUBSCRIBED" \in flags,
         ~err' /\ "FREEING" \notin flags' =>
           (Range(replies) \cup answered) \ NullFn \subseteq Range(replies') \cup answered'
  PROVE  EarlyWait'
BY DEF EarlyWait, Early

LEMMA StepEarlyWait == Types /\ Phases /\ EarlyWait /\ [Next]_vars => EarlyWait'
<1> SUFFICES ASSUME Types, Phases, EarlyWait, [Next]_vars PROVE EarlyWait'
  OBVIOUS
<1> USE DEF closeVars, clientVars, historyVars
<1>0. ASSUME NEW fl, fl \in SUBSET Flags, "IN_CALLBACK" \notin fl,
             "FREEING" \in flags => "FREEING" \in fl, "SUBSCRIBED" \in fl => "SUBSCRIBED" \in flags,
             NEW e \in {err, TRUE}, __redisAsyncDisconnect(fl, e),
             UNCHANGED << replies, historyVars >>
      PROVE  EarlyWait'
  <2>1. e \in BOOLEAN /\ (err => e)
    BY <1>0 DEF Types
  <2>2. /\ fl \subseteq flags' /\ flags' \subseteq fl \cup {"DISCONNECTING"} /\ err' = e
    BY <1>0, <2>1, Disconnects
  <2>3. /\ (err => err') /\ ("FREEING" \in flags => "FREEING" \in flags')
        /\ ("SUBSCRIBED" \in flags' => "SUBSCRIBED" \in flags)
    BY <1>0, <2>1, <2>2
  <2>4. issued' = issued /\ Range(replies') = Range(replies) /\ answered' = answered
    BY <1>0
  <2> QED
    BY <2>3, <2>4, EarlyKept
<1>1. CASE UNCHANGED vars
  BY <1>1 DEF vars, EarlyWait, Early
<1>2. CASE CallbackReturns
  BY <1>2, EarlyKept DEF CallbackReturns
<1>3. CASE ConnectReturns \/ NothingToWrite \/ HandleTimeout
  BY <1>3, EarlyKept DEF ConnectReturns, NothingToWrite, HandleTimeout
<1>4. CASE redisProcessCallbacks
  <2>0. pc = "process" /\ "IN_CALLBACK" \notin flags /\ flags \in SUBSET Flags
    BY <1>4, ProcessRuns DEF Types, Callbacks
  <2>1. /\ (err => err') /\ ("FREEING" \in flags => "FREEING" \in flags')
        /\ ("SUBSCRIBED" \in flags' => "SUBSCRIBED" \in flags)
    <3>1. CASE \E e \in {err, TRUE} : __redisAsyncDisconnect(flags, e)
      <4>1. PICK e \in {err, TRUE} : __redisAsyncDisconnect(flags, e)
        BY <3>1
      <4>2. e \in BOOLEAN /\ (err => e)
        BY DEF Types
      <4>3. flags \subseteq flags' /\ flags' \subseteq flags \cup {"DISCONNECTING"} /\ err' = e
        BY <2>0, <4>1, <4>2, Disconnects
      <4> QED
        BY <4>2, <4>3
    <3>2. CASE /\ UNCHANGED closeVars
               /\ flags \ {"SUBSCRIBED"} \subseteq flags' \ {"IN_CALLBACK"}
               /\ flags' \subseteq flags \cup {"IN_CALLBACK"}
      BY <3>2
    <3> QED
      BY <1>4, <3>1, <3>2, ProcessPhases
  <2>2. issued' = issued /\ (Range(replies) \cup answered) \ NullFn \subseteq Range(replies') \cup answered'
    <3>0. ASSUME NEW cmd \in Commands \cup {None}, NEW fl \in {flags, flags \ {"SUBSCRIBED"}},
                 __redisRunCallback(cmd, fl, "process", TRUE)
          PROVE  /\ issued' = issued /\ answered \subseteq answered'
                 /\ cmd \in Plain \ NullFn => cmd \in answered'
      BY <2>0, <3>0, CallbackRuns
    <3>1. cb' \in Commands \cup {None}
      BY <1>4, ProcessTypes DEF Types
    <3>2. CASE NoMoreReplies \/ ReaderFails \/ PushReply \/ SpontaneousError \/ AssertionFails
      BY <3>2 DEF NoMoreReplies, ReaderFails, PushReply, SpontaneousError, AssertionFails
    <3>3. CASE ChannelReply
      <4>1. \E fl \in {flags, flags \ {"SUBSCRIBED"}} : __redisRunCallback(cb', fl, "process", TRUE)
        BY <3>3 DEF ChannelReply
      <4> QED
        BY <3>0, <3>1, <3>3, <4>1 DEF ChannelReply
    <3>4. CASE InvalidReply
      BY <3>0, <3>1, <3>4 DEF InvalidReply
    <3>5. CASE RegularReply
      <4>1. replies # << >> /\ cb' = Head(replies) /\ replies' = Tail(replies)
            /\ __redisRunCallback(cb', flags, "process", TRUE)
        BY <3>5 DEF RegularReply
      <4>2. cb' \in Plain /\ Range(replies) = {cb'} \cup Range(replies')
        BY <4>1, RangeHeadTail, HeadTailProperties DEF Types
      <4> QED
        BY <3>0, <3>1, <4>1, <4>2
    <3> QED
      BY <1>4, <3>2, <3>3, <3>4, <3>5 DEF redisProcessCallbacks
  <2>3. ~err' /\ "FREEING" \notin flags' =>
          (Range(replies) \cup answered) \ NullFn \subseteq Range(replies') \cup answered'
    BY <2>2
  <2> QED
    BY <2>1, <2>2, <2>3, EarlyKept
<1>5. CASE TimeoutCallsBack
  <2>1. err /\ err' = err
    BY <1>5 DEF TimeoutCallsBack, Phases
  <2> QED
    BY <1>5, <2>1, TimeoutTurn, EarlyKept
<1>6. CASE TimeoutEnds \/ HandleConnect \/ SocketFails
  <2>1. CASE \E e \in {err, TRUE} : __redisAsyncDisconnect(flags, e)
    <3>1. pc \notin Callbacks /\ UNCHANGED << replies, historyVars >>
      BY <1>6 DEF TimeoutEnds, HandleConnect, SocketFails, Dispatched, Callbacks
    <3>2. flags \in SUBSET Flags /\ "IN_CALLBACK" \notin flags
      BY <3>1 DEF Types
    <3> QED
      BY <1>0, <2>1, <3>1, <3>2
  <2>2. CASE UNCHANGED << flags, closeVars >>
    BY <1>6, <2>2, EarlyKept DEF TimeoutEnds, HandleConnect, SocketFails
  <2> QED
    BY <1>6, <2>1, <2>2 DEF TimeoutEnds, HandleConnect, SocketFails
<1>7. CASE FreeCallsBack
  <2>1. err \/ "FREEING" \in flags \/ replies = << >>
    BY <1>7, FreeTurn DEF Phases
  <2> QED
    BY <1>7, <2>1, FreeTurn, EarlyKept
<1>8. CASE FreeEnds
  BY <1>8, EarlyKept DEF FreeEnds
<1>9. CASE HandleWrite \/ \E n \in 0 .. Len(wire) : HandleRead(n)
  BY <1>9, EarlyKept DEF HandleWrite, HandleRead
<1>10. CASE redisAsyncDisconnect
  <2> DEFINE fl == (flags \cup {"DISCONNECTING"}) \ {"NO_AUTO_FREE"}
  <2>1. /\ fl \in SUBSET Flags /\ ("IN_CALLBACK" \notin flags => "IN_CALLBACK" \notin fl)
        /\ ("FREEING" \in flags => "FREEING" \in fl) /\ ("SUBSCRIBED" \in fl => "SUBSCRIBED" \in flags)
        /\ UNCHANGED << replies, historyVars >>
    BY <1>10 DEF Types, Flags, redisAsyncDisconnect
  <2>2. \/ "IN_CALLBACK" \notin flags /\ __redisAsyncDisconnect(fl, err)
        \/ flags' = fl /\ UNCHANGED closeVars
    BY <1>10 DEF redisAsyncDisconnect
  <2> HIDE DEF fl
  <2>3. CASE "IN_CALLBACK" \notin flags /\ __redisAsyncDisconnect(fl, err)
    BY <1>0, <2>1, <2>3
  <2>4. CASE flags' = fl /\ UNCHANGED closeVars
    BY <2>1, <2>4, EarlyKept
  <2> QED
    BY <2>2, <2>3, <2>4
<1>11. CASE redisAsyncFree
  BY <1>11, EarlyKept DEF redisAsyncFree
<1>12. CASE \E cmd \in Commands : __redisAsyncCommand(cmd)
  <2> PICK cmd \in Commands : __redisAsyncCommand(cmd)
    BY <1>12
  <2>0. Enlist(cmd) /\ issued' = Append(issued, cmd) /\ answered' = answered /\ err' = err
    BY DEF __redisAsyncCommand
  <2>1. /\ DOMAIN issued' = 1 .. Len(issued) + 1 /\ DOMAIN issued = 1 .. Len(issued)
        /\ Len(issued) \in Nat /\ issued'[Len(issued) + 1] = cmd
        /\ \A i \in 1 .. Len(issued) : issued'[i] = issued[i]
    BY <2>0, AppendProperties, LenProperties DEF Types
  <2>2. "SUBSCRIBED" \in flags' => \E i \in DOMAIN issued' : issued'[i] \in Subscribes
    <3>1. CASE cmd \in Subscribes
      BY <2>1, <3>1
    <3>2. CASE cmd \notin Subscribes
      <4>1. flags' = flags
        BY <2>0, <3>2 DEF Enlist
      <4> QED
        BY <2>1, <4>1 DEF EarlyWait
    <3> QED
      BY <3>1, <3>2
  <2>3. ASSUME NEW c \in Early', c \notin Early
        PROVE  c = cmd /\ c \in Plain /\ "SUBSCRIBED" \notin flags
    <3>1. PICK i \in DOMAIN issued' : issued'[i] = c /\ \A j \in 1 .. i : issued'[j] \notin Subscribes
      BY <2>3 DEF Early
    <3>2. i = Len(issued) + 1
      <4> SUFFICES ASSUME i \in 1 .. Len(issued) PROVE FALSE
        BY <2>1
      <4>1. \A j \in 1 .. i : issued[j] \notin Subscribes
        BY <2>1, <3>1
      <4>2. c \in Plain
        BY <2>3 DEF Early
      <4> QED
        BY <2>1, <2>3, <3>1, <4>1, <4>2 DEF Early
    <3>3. \A j \in DOMAIN issued : issued[j] \notin Subscribes
      BY <2>1, <3>1, <3>2
    <3> QED
      BY <2>1, <2>3, <3>1, <3>2, <3>3 DEF Early, EarlyWait
  <2>4. /\ ("FREEING" \in flags' <=> "FREEING" \in flags)
        /\ Range(replies) \subseteq Range(replies')
        /\ (cmd \in Plain /\ "SUBSCRIBED" \notin flags => cmd \in Range(replies'))
    <3>1. CASE cmd \in Plain
      <4>1. /\ flags' = flags
            /\ IF "SUBSCRIBED" \in flags THEN replies' = replies ELSE replies' = Append(replies, cmd)
        BY <2>0, <3>1, ClientAssumption DEF Enlist
      <4>2. Range(Append(replies, cmd)) = Range(replies) \cup {cmd}
        BY <3>1, RangeAppend DEF Types
      <4> QED
        BY <4>1, <4>2
    <3>2. CASE cmd \notin Plain
      BY <2>0, <3>2 DEF Enlist
    <3> QED
      BY <3>1, <3>2
  <2> QED
    BY <2>0, <2>2, <2>3, <2>4 DEF EarlyWait
<1>13. CASE Notice \/ Reject \/ Close
  BY <1>13, EarlyKept DEF Notice, Reject, Close
<1> QED
  BY <1>1, <1>2, <1>3, <1>4, <1>5, <1>6, <1>7, <1>8, <1>9, <1>10, <1>11, <1>12, <1>13 DEF Next, Handler

-----------------------------------------------------------------------------
(* Frees that are asked for from inside a callback.                        *)

LEMMA RangeConcat ==
  ASSUME NEW S, NEW s \in Seq(S), NEW t \in Seq(S)
  PROVE  Range(s \o t) = Range(s) \cup Range(t)
<1> DEFINE u == s \o t
<1>1. /\ Len(s) \in Nat /\ DOMAIN s = 1 .. Len(s) /\ Len(t) \in Nat /\ DOMAIN t = 1 .. Len(t)
      /\ DOMAIN u = 1 .. Len(s) + Len(t)
      /\ \A i \in 1 .. Len(s) + Len(t) : u[i] = IF i <= Len(s) THEN s[i] ELSE t[i - Len(s)]
  BY LenProperties, ConcatProperties
<1> HIDE DEF u
<1>2. ASSUME NEW i \in DOMAIN u
      PROVE  \/ i \in DOMAIN s /\ u[i] = s[i]
             \/ i - Len(s) \in DOMAIN t /\ u[i] = t[i - Len(s)]
  BY <1>1
<1>3. ASSUME NEW i \in DOMAIN s PROVE i \in DOMAIN u /\ u[i] = s[i]
  BY <1>1
<1>4. ASSUME NEW i \in DOMAIN t PROVE i + Len(s) \in DOMAIN u /\ u[i + Len(s)] = t[i]
  BY <1>1
<1>5. Range(u) = Range(s) \cup Range(t)
  BY <1>2, <1>3, <1>4 DEF Range
<1> QED
  BY <1>5 DEF u

\* Reading moves replies from the wire to the reader.
LEMMA ReadingMoves ==
  ASSUME Types, NEW n \in 0 .. Len(wire), HandleRead(n)
  PROVE  inbuf' \o wire' = inbuf \o wire
<1> DEFINE a == SubSeq(wire, 1, n)
           b == SubSeq(wire, n + 1, Len(wire))
<1>1. inbuf' = inbuf \o a /\ wire' = b
  BY DEF HandleRead
<1>2. a \in Seq(Item) /\ b \in Seq(Item) /\ inbuf \in Seq(Item) /\ wire \in Seq(Item)
  BY LenProperties, SubSeqProperties DEF Types
<1>3. a \o b = wire
  <2>1. Len(wire) \in Nat
    BY LenProperties DEF Types
  <2>2. a \o b = SubSeq(wire, 1, Len(wire))
    <3>1. 1 \in 1 .. Len(wire) + 1 /\ n \in 1 - 1 .. Len(wire) /\ Len(wire) \in n .. Len(wire)
      BY <2>1
    <3> QED
      BY <3>1, ConcatAdjacentSubSeq DEF Types
  <2>3. SubSeq(wire, 1, Len(wire)) = wire
    BY SubSeqFull DEF Types
  <2> QED
    BY <2>2, <2>3
<1> HIDE DEF a, b
<1>4. (inbuf \o a) \o b = inbuf \o (a \o b)
  BY <1>2, ConcatAssociative
<1> QED
  BY <1>1, <1>3, <1>4

\* Where the user first asked to free the context does not change any more.
LEMMA AskedOnce == [Next]_vars => asked' = asked \/ (redisAsyncFree /\ "FREEING" \notin flags)
<1> USE DEF historyVars
<1>1. ASSUME NEW cmd, NEW got, Count(cmd, got) PROVE asked' = asked
  BY <1>1 DEF Count
<1>2. ASSUME NEW cmd, NEW fl, NEW at, NEW got, __redisRunCallback(cmd, fl, at, got)
      PROVE  asked' = asked
  BY <1>1, <1>2 DEF __redisRunCallback
<1>3. redisProcessCallbacks => asked' = asked
  <2>1. NoMoreReplies \/ ReaderFails \/ PushReply \/ SpontaneousError \/ AssertionFails => asked' = asked
    BY DEF NoMoreReplies, ReaderFails, PushReply, SpontaneousError, AssertionFails
  <2>2. RegularReply \/ ChannelReply \/ InvalidReply => asked' = asked
    BY <1>2 DEF RegularReply, ChannelReply, InvalidReply
  <2> QED
    BY <2>1, <2>2 DEF redisProcessCallbacks
<1>4. FreeCallsBack \/ TimeoutCallsBack => asked' = asked
  BY <1>2 DEF FreeCallsBack, TimeoutCallsBack
<1>5. FreeEnds \/ TimeoutEnds \/ redisAsyncDisconnect \/ (\E cmd \in Commands : __redisAsyncCommand(cmd))
        => asked' = asked
  BY DEF FreeEnds, TimeoutEnds, redisAsyncDisconnect, __redisAsyncCommand
<1>6. redisAsyncFree => asked' = asked \/ "FREEING" \notin flags
  BY DEF redisAsyncFree
<1>7. HandleWrite \/ Notice \/ Reject \/ Close \/ (\E n \in 0 .. Len(wire) : HandleRead(n))
        => asked' = asked
  BY DEF HandleWrite, Notice, Reject, Close, HandleRead
<1>8. CallbackReturns \/ ConnectReturns \/ NothingToWrite => asked' = asked
  BY DEF CallbackReturns, ConnectReturns, NothingToWrite
<1>9. HandleConnect \/ SocketFails \/ HandleTimeout \/ UNCHANGED vars => asked' = asked
  BY DEF HandleConnect, SocketFails, HandleTimeout, vars
<1> QED
  BY <1>3, <1>4, <1>5, <1>6, <1>7, <1>8, <1>9 DEF Next, Handler

LEMMA StepFreeing == Types /\ Phases /\ Freeing /\ [Next]_vars => Freeing'
<1> SUFFICES ASSUME Types, Phases, Freeing, [Next]_vars, "FREEING" \in flags => asked # "push_cb"
             PROVE  Freeing'
  BY AskedOnce DEF Freeing
<1> USE DEF closeVars, clientVars
<1>0. ~redisAsyncFree => asked' = asked
  BY AskedOnce
<1>1. ASSUME NEW fl \in SUBSET Flags, "IN_CALLBACK" \notin fl, NEW e \in BOOLEAN,
             __redisAsyncDisconnect(fl, e), replies' = replies, asked' = asked,
             "FREEING" \in fl => e /\ replies = << >> /\ (asked = "timeout_cb" \/ "NO_AUTO_FREE" \notin fl)
      PROVE  Freeing'
  <2>1. /\ pc' \in {"aborted", "loop", "free"}
        /\ (pc' = "loop" => "NO_AUTO_FREE" \in fl)
        /\ fl \subseteq flags' /\ flags' \subseteq fl \cup {"DISCONNECTING"}
        /\ err' = e /\ detached' = TRUE
    BY <1>1, Disconnects
  <2> QED
    BY <1>1, <2>1 DEF Freeing
<1>2. pc = "process" \/ (pc = "loop" /\ ~detached) \/ pc \in {"read", "write", "connect_cb", "push_cb"}
        => "FREEING" \notin flags
  BY DEF Freeing
<1>3. pc \notin Callbacks => "IN_CALLBACK" \notin flags /\ flags \in SUBSET Flags
  BY DEF Types
<1>4. CASE UNCHANGED vars
  BY <1>4 DEF vars, historyVars, Freeing
<1>5. CASE CallbackReturns
  BY <1>2, <1>5 DEF CallbackReturns, Freeing, Callbacks, historyVars
<1>6. CASE ConnectReturns \/ NothingToWrite \/ HandleTimeout \/ HandleWrite
             \/ \E n \in 0 .. Len(wire) : HandleRead(n)
  BY <1>2, <1>6 DEF ConnectReturns, NothingToWrite, HandleTimeout, HandleWrite, HandleRead, Dispatched,
                    Freeing
<1>7. CASE redisProcessCallbacks
  <2>1. pc = "process" /\ "FREEING" \notin flags
    BY <1>2, <1>7, ProcessRuns
  <2>2. ASSUME NEW e \in {err, TRUE}, __redisAsyncDisconnect(flags, e)
        PROVE  Freeing'
    <3>1. e \in BOOLEAN /\ "IN_CALLBACK" \notin flags /\ flags \in SUBSET Flags
      BY <1>3, <2>1 DEF Types, Callbacks
    <3>2. flags' \subseteq flags \cup {"DISCONNECTING"}
      BY <2>2, <3>1, Disconnects
    <3> QED
      BY <2>1, <3>2 DEF Freeing
  <2>3. CASE flags' \subseteq flags \cup {"IN_CALLBACK"}
    BY <2>1, <2>3 DEF Freeing
  <2> QED
    BY <1>7, <2>2, <2>3, ProcessPhases
<1>8. CASE TimeoutCallsBack
  <2>1. asked' = asked
    BY <1>0, <1>8 DEF TimeoutCallsBack, redisAsyncFree, UserCode, Callbacks
  <2>2. /\ pc = "timeout" /\ pc' \in {"timeout", "timeout_cb"}
        /\ flags' \in {flags, flags \cup {"IN_CALLBACK"}}
    BY <1>8, TimeoutTurn
  <2> QED
    BY <2>1, <2>2 DEF Freeing
<1>9. CASE TimeoutEnds
  <2>1. "FREEING" \in flags => asked = "timeout_cb"
    BY <1>9 DEF TimeoutEnds, Freeing
  <2>2. asked' = asked /\ replies' = replies /\ __redisAsyncDisconnect(flags, err)
    BY <1>9 DEF TimeoutEnds, historyVars
  <2>3. pc = "timeout" /\ replies = << >> /\ err /\ "IN_CALLBACK" \notin flags
    BY <1>3, <1>9 DEF TimeoutEnds, Callbacks, Phases
  <2>4. err \in BOOLEAN /\ flags \in SUBSET Flags
    BY DEF Types
  <2> QED
    BY <1>1, <2>1, <2>2, <2>3, <2>4
<1>10. CASE FreeCallsBack
  <2>1. pc' \in {"free", "free_cb"}
    BY <1>10, FreeTurn
  <2> QED
    BY <2>1 DEF Freeing
<1>11. CASE FreeEnds
  BY <1>11 DEF FreeEnds, Freeing
<1>12. CASE redisAsyncDisconnect
  <2> DEFINE fl == (flags \cup {"DISCONNECTING"}) \ {"NO_AUTO_FREE"}
  <2>0. asked' = asked /\ replies' = replies /\ pc \in UserCode
    BY <1>12 DEF redisAsyncDisconnect, historyVars
  <2>1. CASE "IN_CALLBACK" \notin flags /\ replies = << >>
    <3>1. /\ __redisAsyncDisconnect(fl, err) /\ fl \in SUBSET Flags /\ "IN_CALLBACK" \notin fl
          /\ err \in BOOLEAN /\ "NO_AUTO_FREE" \notin fl
      BY <1>12, <2>1 DEF redisAsyncDisconnect, Types, Flags
    <3>2. "FREEING" \in fl => err
      BY <2>0, <2>1 DEF Freeing, Types, UserCode, Callbacks
    <3> HIDE DEF fl
    <3> QED
      BY <1>1, <2>0, <2>1, <3>1, <3>2
  <2>2. CASE ~("IN_CALLBACK" \notin flags /\ replies = << >>)
    <3>1. flags' = fl /\ UNCHANGED << pc, closeVars >>
      BY <1>12, <2>2 DEF redisAsyncDisconnect
    <3>2. "FREEING" \in flags /\ pc = "loop" => "IN_CALLBACK" \notin flags /\ replies = << >>
      BY <1>3 DEF Freeing, Callbacks
    <3> QED
      BY <2>0, <2>2, <3>1, <3>2 DEF Freeing
  <2> QED
    BY <2>1, <2>2
<1>13. CASE redisAsyncFree
  <2>1. pc \in UserCode /\ ("IN_CALLBACK" \in flags <=> pc \in Callbacks)
    BY <1>13 DEF redisAsyncFree, Types
  <2>2. /\ pc' = IF "IN_CALLBACK" \in flags THEN pc ELSE "free"
        /\ asked' = IF "FREEING" \in flags THEN asked ELSE pc
    BY <1>13 DEF redisAsyncFree
  <2> QED
    BY <2>1, <2>2 DEF Freeing, UserCode, Callbacks
<1>14. CASE \E cmd \in Commands : __redisAsyncCommand(cmd)
  BY <1>14 DEF __redisAsyncCommand, Accepting, Enlist, Freeing
<1>15. CASE HandleConnect
  <2>1. CASE __redisAsyncDisconnect(flags, TRUE)
    <3>1. pc = "loop" /\ ~detached /\ UNCHANGED << replies, asked >>
      BY <1>15 DEF HandleConnect, Dispatched, historyVars
    <3>2. flags \in SUBSET Flags /\ "IN_CALLBACK" \notin flags
      BY <1>3, <3>1 DEF Callbacks
    <3> QED
      BY <1>1, <1>2, <2>1, <3>1, <3>2
  <2>2. CASE pc' = "connect_cb" /\ UNCHANGED << flags, closeVars >>
    BY <1>2, <1>15, <2>2 DEF HandleConnect, Dispatched, Freeing
  <2> QED
    BY <1>15, <2>1, <2>2 DEF HandleConnect
<1>16. CASE SocketFails
  <2>1. /\ (pc = "loop" /\ ~detached) \/ pc \in {"read", "write"}
        /\ UNCHANGED << replies, asked >> /\ __redisAsyncDisconnect(flags, TRUE)
    BY <1>16 DEF SocketFails, Dispatched, historyVars
  <2>2. flags \in SUBSET Flags /\ "IN_CALLBACK" \notin flags
    BY <1>3, <2>1 DEF Callbacks
  <2> QED
    BY <1>1, <1>2, <2>1, <2>2
<1>17. CASE Notice \/ Reject \/ Close
  BY <1>17 DEF Notice, Reject, Close, Freeing, historyVars
<1> QED
  BY <1>4, <1>5, <1>6, <1>7, <1>8, <1>9, <1>10, <1>11, <1>12, <1>13, <1>14, <1>15, <1>16, <1>17
     DEF Next, Handler

-----------------------------------------------------------------------------
(* What holds of every user.                                               *)

LEMMA InitAnyUser == Init => AnyUser
<1> SUFFICES ASSUME Init PROVE AnyUser
  OBVIOUS
<1>1. Phases
  BY DEF Init, Phases
<1>2. EarlyWait
  <2>1. DOMAIN issued = {}
    BY DEF Init
  <2>2. Early = {} /\ "SUBSCRIBED" \notin flags
    BY <2>1 DEF Early, Init
  <2> QED
    BY <2>2 DEF EarlyWait
<1>3. Freeing
  BY DEF Init, Freeing
<1> QED
  BY <1>1, <1>2, <1>3, InitTypes DEF AnyUser

\* The inductive invariant that needs no assumption about the user.
THEOREM AnyUserInvariance == Spec => []AnyUser
<1>1. AnyUser /\ [Next]_vars => AnyUser'
  BY StepTypes, StepPhases, StepEarlyWait, StepFreeing DEF AnyUser
<1> QED
  BY InitAnyUser, <1>1, PTL DEF Spec

\* redisAsyncDisconnect lets the replies come in: when the disconnect callback is told
\* REDIS_OK, every command sent before any subscription has had its answer, whatever
\* callbacks send, disconnect and free.
THEOREM DisconnectsCleanly == Spec => []CleanDisconnect
<1>1. AnyUser => CleanDisconnect
  <2> SUFFICES ASSUME AnyUser, onDisconnect = "OK", "FREEING" \notin flags
               PROVE  Early \ NullFn \subseteq answered
    BY DEF CleanDisconnect
  <2>1. ~err /\ replies = << >>
    BY DEF AnyUser, Phases
  <2>2. Range(replies) = {}
    BY <2>1 DEF Range
  <2> QED
    BY <2>1, <2>2 DEF AnyUser, EarlyWait
<1> QED
  BY AnyUserInvariance, <1>1, PTL

\* A redisAsyncFree from inside a callback, which is deferred, is carried out before the
\* event loop runs again, in RESP2 and RESP3: except one from the push callback, and one
\* from the callback of a command that timed out when the user wants NO_AUTO_FREE.
THEOREM FreesArePickedUp == Spec => []FreeIsPickedUp
<1>1. AnyUser => FreeIsPickedUp
  BY DEF AnyUser, Freeing, FreeIsPickedUp
<1> QED
  BY AnyUserInvariance, <1>1, PTL

-----------------------------------------------------------------------------
(* The rest is about patient users, whose SUBSCRIBE and UNSUBSCRIBE name   *)
(* one channel each.  What is on its way between client and server, in the *)
(* order in which it will be read: the replies, and behind them the        *)
(* commands whose replies will be.  The two are told apart by position     *)
(* only, so that writing a command changes nothing but Written.  Nothing   *)
(* comes back of commands that are written to a server that has gone.      *)

OneChannel == \A cmd \in Subscribes \cup Unsubscribes : Len(Args[cmd]) = 1

\* Until the context fails or is freed.
Alive == ~err /\ pc \notin {"free", "free_cb"} \cup Gone

Input == inbuf \o wire
Output == IF server = "closed" THEN << >> ELSE obuf
Now == IF server = "closed" THEN {} ELSE subs
Pending == replies \o invalid

About(what, of) == [what |-> what, of |-> of]

Answer(r) ==
  About(IF r.kind \notin {"reply", "error"} THEN r.kind
        ELSE IF r.of \in Plain THEN "plain" ELSE "refusal", r.of)

Asked(cmd) ==
  IF cmd \in Plain THEN About("plain", cmd)
  ELSE About(IF cmd \in Subscribes THEN "subscribe" ELSE "unsubscribe", Args[cmd][1])

Written == Len(Input)
Total == Written + Len(Output)
Flight ==
  [p \in 1 .. Total |-> IF p <= Written THEN Answer(Input[p]) ELSE Asked(Output[p - Written])]

\* The i-th callback that waits has its answer among the first n.
Answered(i, n) == \E q \in 1 .. n : Flight[q] = About("plain", Pending[i])

\* An answer belongs to a command whose callback waits, and nothing is answered twice.
Owned ==
  /\ \A p \in 1 .. Total : Flight[p].what = "plain" =>
       \E i \in 1 .. Len(Pending) : Flight[p] = About("plain", Pending[i])
  /\ \A p, q \in 1 .. Total : Flight[p].what = "plain" /\ Flight[p] = Flight[q] => p = q

\* While the server is there every callback will have its answer.
Owed == server # "closed" => \A i \in 1 .. Len(Pending) : Answered(i, Total)

\* The answers come in the order of the callbacks.
InOrder ==
  \A j \in 1 .. Len(Pending) : \A p \in 1 .. Total :
    Flight[p] = About("plain", Pending[j]) => \A i \in 1 .. j - 1 : Answered(i, p - 1)

\* Those of replies come before anything about channels, and all before an answer to
\* UNSUBSCRIBE.
RepliesFirst ==
  /\ \A p \in 1 .. Total : Flight[p].what \in PubSub =>
       \A i \in 1 .. Len(replies) : Answered(i, p - 1)
  /\ Now # {} => \A i \in 1 .. Len(replies) : Answered(i, Written)
UnsubscribeLast ==
  \A p \in 1 .. Total : Flight[p].what = "unsubscribe" =>
    \A i \in 1 .. Len(Pending) : Answered(i, p - 1)

Matched == Owned /\ Owed /\ InOrder /\ RepliesFirst /\ UnsubscribeLast

\* Without the flag nothing is left of any subscription.
NotSubscribed ==
  "SUBSCRIBED" \notin flags =>
    /\ invalid = << >> /\ Now = {} /\ DOMAIN channels = {}
    /\ \A p \in 1 .. Total : Flight[p].what \notin PubSub

\* What is read about a channel finds its entry.
EntriesFound ==
  /\ \A p \in 1 .. Total : Flight[p].what \in PubSub => Flight[p].of \in DOMAIN channels
  /\ Now \subseteq DOMAIN channels

\* Patience.
OneUnsubscribe ==
  \A p, q \in 1 .. Total : Flight[p].what = "unsubscribe" /\ Flight[q].what = "unsubscribe" => p = q

\* The server speaks of a channel after an UNSUBSCRIBE of it only if there was another SUBSCRIBE.
Resubscribed ==
  \A p \in 1 .. Written : Flight[p].what = "unsubscribe" =>
    \/ /\ Flight[p].of \notin Now
       /\ \A q \in p + 1 .. Written : Flight[q] # About("message", Flight[p].of)
    \/ \E q \in p + 1 .. Written : Flight[q] = About("subscribe", Flight[p].of)

\* Why an entry is there, and what a subscription that was made has become.
EntryNeeded ==
  ~resp3 /\ server # "closed" =>
    \A ch \in DOMAIN channels :
      \/ ch \in Now
      \/ \E p \in Written + 1 .. Total : Flight[p] = About("subscribe", ch)
      \/ \E p \in 1 .. Written : Flight[p] = About("unsubscribe", ch)
SubscribedStill ==
  server # "closed" =>
    \A p \in 1 .. Written : Flight[p].what = "subscribe" =>
      \/ Flight[p].of \in Now
      \/ \E q \in p + 1 .. Written : Flight[q] = About("unsubscribe", Flight[p].of)

\* The number of subscriptions left, in an answer to UNSUBSCRIBE, and the flag.
LastOne ==
  /\ \A p \in 1 .. Written : Input[p].kind = "unsubscribe" /\ Input[p].left # 0 =>
       \E ch \in DOMAIN channels : ch # Input[p].of
  /\ ~resp3 /\ "SUBSCRIBED" \in flags => DOMAIN channels # {}

\* pending_subs counts the answers to SUBSCRIBE that are still to come.
Awaited(ch) == {p \in 1 .. Total : Flight[p] = About("subscribe", ch)}
Counted ==
  \A ch \in DOMAIN channels :
    /\ channels[ch].pending_subs >= Cardinality(Awaited(ch))
    /\ server # "closed" => channels[ch].pending_subs = Cardinality(Awaited(ch))
    /\ Args[channels[ch].fn][1] = ch

\* A server that does not take the connection says so, and nothing else; one that is silent
\* has nothing to say yet.  Messages and pushes are not commands.
Silent ==
  /\ \A p \in 1 .. Total : Flight[p].what = "refusal" =>
       Total = 1 /\ server = "closed" /\ Flight[p].of = None
  /\ \A p \in 1 .. Total : Flight[p].what = "message" => p <= Written
  /\ server = "new" => Written = 0 /\ subs = {}

Subscription ==
  /\ NotSubscribed /\ EntriesFound /\ OneUnsubscribe /\ Resubscribed
  /\ EntryNeeded /\ SubscribedStill /\ LastOne /\ Counted /\ Silent

\* The event loop runs when all that was read has been handled.
Handled == pc \in {"loop", "connect_cb", "read", "write"} /\ ~detached => inbuf = << >>

WhileAlive == Alive => Matched /\ Subscription /\ Handled

-----------------------------------------------------------------------------
(* How the operations change what is on its way.                           *)

QueueTypes == Input \in Seq(Item) /\ Output \in Seq(Commands) /\ Pending \in Seq(Plain)
Sizes ==
  /\ Written \in Nat /\ Total \in Nat /\ Written <= Total
  /\ Len(Input) = Written /\ Len(Output) = Total - Written
ToRead == \A p \in 1 .. Written : Input[p] \in Item /\ Flight[p] = Answer(Input[p])
ToWrite == \A p \in Written + 1 .. Total : Flight[p] = Asked(Output[p - Written])
Queues ==
  /\ Len(replies) \in Nat /\ Len(invalid) \in Nat /\ Len(Pending) = Len(replies) + Len(invalid)
  /\ \A i \in 1 .. Len(replies) : Pending[i] = replies[i]
  /\ \A i \in 1 .. Len(invalid) : Pending[Len(replies) + i] = invalid[i]
Shape == QueueTypes /\ Sizes /\ ToRead /\ ToWrite /\ Queues

LEMMA FlightShape == Types => Shape
<1> SUFFICES ASSUME Types PROVE Shape
  OBVIOUS
<1>1. Input \in Seq(Item) /\ Output \in Seq(Commands)
  BY ConcatProperties, EmptySeq DEF Types, Input, Output
<1>2. Len(Input) \in Nat /\ Len(Output) \in Nat
  BY <1>1, LenProperties
<1>3. \A p \in 1 .. Written : Input[p] \in Item
  BY <1>1, LenProperties DEF Written
<1>4. \A p \in 1 .. Written : p \in 1 .. Total /\ p <= Written
  BY <1>2 DEF Written, Total
<1>5. \A p \in Written + 1 .. Total : p \in 1 .. Total /\ ~(p <= Written)
  BY <1>2 DEF Written, Total
<1>6. /\ Len(replies) \in Nat /\ Len(invalid) \in Nat
      /\ Pending \in Seq(Plain) /\ Len(Pending) = Len(replies) + Len(invalid)
      /\ \A i \in 1 .. Len(replies) + Len(invalid) :
           Pending[i] = IF i <= Len(replies) THEN replies[i] ELSE invalid[i - Len(replies)]
  BY LenProperties, ConcatProperties DEF Types, Pending
<1>7. /\ \A i \in 1 .. Len(replies) : Pending[i] = replies[i]
      /\ \A i \in 1 .. Len(invalid) : Pending[Len(replies) + i] = invalid[i]
  BY <1>6
<1>8. Written \in Nat /\ Total \in Nat /\ Written <= Total /\ Len(Input) = Written
      /\ Len(Output) = Total - Written
  BY <1>2 DEF Written, Total
<1> QED
  BY <1>1, <1>2, <1>3, <1>4, <1>5, <1>6, <1>7, <1>8 
     DEF Shape, QueueTypes, Sizes, ToRead, ToWrite, Queues, Flight

LEMMA NextFlightShape == Types' => Shape'
BY FlightShape, PTL

\* Nothing of it changes.
FlightSame == Written' = Written /\ Total' = Total /\ Flight' = Flight

LEMMA FlightStays ==
  ASSUME Input' = Input, Output' = Output
  PROVE  FlightSame
<1>1. Written' = Written /\ Total' = Total
  BY DEF Written, Total
<1> QED
  BY <1>1 DEF FlightSame, Flight

\* A command is put behind everything.
FlightGrows(x) ==
  /\ Written' = Written /\ Total' = Total + 1
  /\ \A p \in 1 .. Total : Flight'[p] = Flight[p]
  /\ Flight'[Total + 1] = x

LEMMA FlightSends ==
  ASSUME Shape, Shape', NEW cmd \in Commands, Input' = Input, Output' = Append(Output, cmd)
  PROVE  FlightGrows(Asked(cmd))
<1>0. Sizes /\ Sizes' /\ ToRead /\ ToRead' /\ ToWrite /\ ToWrite' /\ Output \in Seq(Commands)
  BY DEF Shape, QueueTypes
<1>1. /\ Len(Output') = Len(Output) + 1 /\ Output'[Len(Output) + 1] = cmd
      /\ \A i \in 1 .. Len(Output) : Output'[i] = Output[i]
  BY <1>0, AppendProperties
<1>2. Written' = Written /\ Total' = Total + 1
  BY <1>0, <1>1 DEF Sizes
<1>3. ASSUME NEW p \in 1 .. Written PROVE Flight'[p] = Flight[p]
  BY <1>0, <1>2 DEF ToRead
<1>4. ASSUME NEW p \in Written + 1 .. Total PROVE Flight'[p] = Flight[p]
  <2>1. p \in Written' + 1 .. Total' /\ p - Written \in 1 .. Len(Output)
    BY <1>0, <1>2 DEF Sizes
  <2>2. Flight'[p] = Asked(Output'[p - Written']) /\ Flight[p] = Asked(Output[p - Written])
    BY <1>0, <2>1 DEF ToWrite
  <2> QED
    BY <1>1, <1>2, <2>1, <2>2
<1>5. Flight'[Total + 1] = Asked(cmd)
  <2>1. \A q : q \in Written' + 1 .. Total' => Flight'[q] = Asked(Output'[q - Written'])
    BY <1>0 DEF ToWrite
  <2>2. ASSUME NEW q \in Nat, q = Total + 1 PROVE Flight'[q] = Asked(cmd)
    <3>1. q \in Written' + 1 .. Total' /\ q - Written' = Len(Output) + 1
      BY <1>0, <1>2, <2>2 DEF Sizes
    <3>2. Flight'[q] = Asked(Output'[q - Written'])
      BY <3>1, <2>1
    <3>3. Output'[q - Written'] = cmd
      BY <3>1, <1>1
    <3> QED
      BY <3>2, <3>3
  <2>3. Total + 1 \in Nat
    BY <1>0 DEF Sizes
  <2> QED
    BY <2>2, <2>3
<1>6. \A p \in 1 .. Total : p \in 1 .. Written \/ p \in Written + 1 .. Total
  BY <1>0 DEF Sizes
<1> QED
  BY <1>2, <1>3, <1>4, <1>5, <1>6 DEF FlightGrows

\* The first command is written and answered.
FlightWritten ==
  /\ Written' = Written + 1 /\ Total' = Total /\ Flight' = Flight
  /\ \A p \in 1 .. Written : Input'[p] = Input[p]

LEMMA FlightWrites ==
  ASSUME Shape, Shape', Output # << >>, Output' = Tail(Output),
         NEW r \in Item, Input' = Append(Input, r), Answer(r) = Asked(Head(Output))
  PROVE  /\ FlightWritten /\ Written < Total /\ Flight[Written + 1] = Asked(Head(Output))
         /\ Input'[Written + 1] = r
<1>0. /\ Sizes /\ Sizes' /\ ToRead /\ ToRead' /\ ToWrite /\ ToWrite'
      /\ Output \in Seq(Commands) /\ Input \in Seq(Item)
  BY DEF Shape, QueueTypes
<1>1. /\ Len(Output') = Len(Output) - 1 /\ Len(Output) # 0 /\ Head(Output) = Output[1]
      /\ \A i \in 1 .. Len(Output) - 1 : Output'[i] = Output[i + 1]
  BY <1>0, EmptySeq, HeadTailProperties
<1>2. Written' = Written + 1 /\ Input'[Written + 1] = r /\ \A p \in 1 .. Written : Input'[p] = Input[p]
  <2>1. /\ Len(Append(Input, r)) = Len(Input) + 1 /\ Append(Input, r)[Len(Input) + 1] = r
        /\ \A p \in 1 .. Len(Input) : Append(Input, r)[p] = Input[p]
    BY <1>0, AppendProperties
  <2>2. Len(Input) = Written /\ Len(Input') = Written'
    BY <1>0 DEF Sizes
  <2> QED
    BY <2>1, <2>2
<1>3. Total' = Total /\ Written < Total
  BY <1>0, <1>1, <1>2 DEF Sizes
<1>4. ASSUME NEW p \in 1 .. Written PROVE Flight'[p] = Flight[p]
  <2>1. p \in 1 .. Written'
    BY <1>0, <1>2 DEF Sizes
  <2>2. Flight'[p] = Answer(Input'[p]) /\ Flight[p] = Answer(Input[p])
    BY <1>0, <2>1 DEF ToRead
  <2> QED
    BY <1>2, <2>2
<1>5. Flight[Written + 1] = Asked(Head(Output))
  <2>1. Written + 1 \in Written + 1 .. Total /\ Written + 1 - Written = 1
    BY <1>0, <1>3 DEF Sizes
  <2>2. \A p : p = Written + 1 => Flight[p] = Asked(Output[p - Written])
    BY <1>0, <2>1 DEF ToWrite
  <2> QED
    BY <1>0, <1>1, <2>1, <2>2 DEF Sizes
<1>6. Flight'[Written + 1] = Asked(Head(Output))
  <2>1. Written + 1 \in 1 .. Written'
    BY <1>0, <1>2 DEF Sizes
  <2>2. Flight'[Written + 1] = Answer(Input'[Written + 1])
    BY <1>0, <2>1 DEF ToRead
  <2> QED
    BY <1>2, <2>2
<1>7. ASSUME NEW p \in Written + 2 .. Total PROVE Flight'[p] = Flight[p]
  <2>1. /\ p \in Written' + 1 .. Total' /\ p \in Written + 1 .. Total
        /\ p - Written' \in 1 .. Len(Output) - 1 /\ p - Written = (p - Written') + 1
    <3>1. \A w, t \in Nat : \A u, v : u = w + 1 /\ v = t =>
            \A q \in w + 2 .. t : /\ q \in u + 1 .. v /\ q \in w + 1 .. t
                                  /\ q - u \in 1 .. (t - w) - 1 /\ q - w = (q - u) + 1
      OBVIOUS
    <3>2. Written \in Nat /\ Total \in Nat /\ Len(Output) = Total - Written
      BY <1>0 DEF Sizes
    <3>3. Written' = Written + 1 /\ Total' = Total
      BY <1>2, <1>3
    <3> QED
      BY <3>1, <3>2, <3>3
  <2>2. Flight'[p] = Asked(Output'[p - Written']) /\ Flight[p] = Asked(Output[p - Written])
    BY <1>0, <2>1 DEF ToWrite
  <2> QED
    BY <1>0, <1>1, <2>1, <2>2 DEF Sizes
<1>8. \A p \in 1 .. Total : p \in 1 .. Written \/ p = Written + 1 \/ p \in Written + 2 .. Total
  BY <1>0 DEF Sizes
<1>9. \A p \in 1 .. Total : Flight'[p] = Flight[p]
  BY <1>4, <1>5, <1>6, <1>7, <1>8
<1>10. Flight = [p \in 1 .. Total |-> Flight[p]] /\ Flight' = [p \in 1 .. Total' |-> Flight'[p]]
  BY DEF Flight
<1> QED
  BY <1>2, <1>3, <1>5, <1>9, <1>10 DEF FlightWritten

\* The first reply is taken.
FlightTaken ==
  /\ Written > 0 /\ Written' = Written - 1 /\ Total' = Total - 1
  /\ \A p \in 1 .. Total - 1 : Flight'[p] = Flight[p + 1]
  /\ \A p \in 1 .. Written - 1 : Input'[p] = Input[p + 1]

LEMMA FlightTakes ==
  ASSUME Shape, Shape', Input # << >>, Input' = Tail(Input), Output' = Output
  PROVE  FlightTaken
<1>0. /\ Sizes /\ Sizes' /\ ToRead /\ ToRead' /\ ToWrite /\ ToWrite'
      /\ Input \in Seq(Item)
  BY DEF Shape, QueueTypes
<1>1. /\ Len(Input') = Len(Input) - 1 /\ Len(Input) # 0
      /\ \A i \in 1 .. Len(Input) - 1 : Input'[i] = Input[i + 1]
  BY <1>0, EmptySeq, HeadTailProperties
<1>2. Written' = Written - 1 /\ Total' = Total - 1 /\ Written > 0
  BY <1>0, <1>1 DEF Sizes
<1>3. ASSUME NEW p \in 1 .. Written - 1 PROVE Flight'[p] = Flight[p + 1] /\ Input'[p] = Input[p + 1]
  <2>1. p \in 1 .. Written' /\ p + 1 \in 1 .. Written
    BY <1>0, <1>2 DEF Sizes
  <2>2. Flight'[p] = Answer(Input'[p]) /\ Flight[p + 1] = Answer(Input[p + 1])
    BY <1>0, <2>1 DEF ToRead
  <2> QED
    BY <1>0, <1>1, <2>2 DEF Sizes
<1>4. ASSUME NEW p \in Written .. Total - 1 PROVE Flight'[p] = Flight[p + 1]
  <2>1. p \in Written' + 1 .. Total'
    BY <1>0, <1>2 DEF Sizes
  <2>2. Flight'[p] = Asked(Output'[p - Written'])
    BY <1>0, <2>1 DEF ToWrite
  <2>3. \A q : q \in Written + 1 .. Total => Flight[q] = Asked(Output[q - Written])
    BY <1>0 DEF ToWrite
  <2>4. ASSUME NEW q \in Nat, q = p + 1 PROVE Flight'[p] = Flight[q]
    <3>1. q \in Written + 1 .. Total /\ q - Written = p - Written'
      BY <1>0, <1>2, <2>4 DEF Sizes
    <3>2. Flight[q] = Asked(Output[q - Written])
      BY <3>1, <2>3
    <3>3. Output'[p - Written'] = Output[q - Written]
      BY <3>1
    <3> QED
      BY <3>2, <3>3, <2>2
  <2>5. p + 1 \in Nat
    BY <1>0 DEF Sizes
  <2> QED
    BY <2>4, <2>5
<1>5. \A p \in 1 .. Total - 1 : p \in 1 .. Written - 1 \/ p \in Written .. Total - 1
  BY <1>0 DEF Sizes
<1> QED
  BY <1>2, <1>3, <1>4, <1>5 DEF FlightTaken

\* The server says something that was not asked.
FlightInserted(x) ==
  /\ Written' = Written + 1 /\ Total' = Total + 1
  /\ \A p \in 1 .. Written : Flight'[p] = Flight[p] /\ Input'[p] = Input[p]
  /\ Flight'[Written + 1] = x
  /\ \A p \in Written + 1 .. Total : Flight'[p + 1] = Flight[p]

LEMMA FlightInserts ==
  ASSUME Shape, Shape', Output' = Output, NEW r \in Item, Input' = Append(Input, r)
  PROVE  FlightInserted(Answer(r)) /\ Input'[Written + 1] = r
<1>0. /\ Sizes /\ Sizes' /\ ToRead /\ ToRead' /\ ToWrite /\ ToWrite'
      /\ Input \in Seq(Item)
  BY DEF Shape, QueueTypes
<1>1. Written' = Written + 1 /\ Input'[Written + 1] = r /\ \A p \in 1 .. Written : Input'[p] = Input[p]
  BY <1>0, AppendProperties DEF Sizes
<1>2. Total' = Total + 1
  BY <1>0, <1>1 DEF Sizes
<1>3. ASSUME NEW p \in 1 .. Written PROVE Flight'[p] = Flight[p]
  <2>1. p \in 1 .. Written'
    BY <1>0, <1>1 DEF Sizes
  <2>2. Flight'[p] = Answer(Input'[p]) /\ Flight[p] = Answer(Input[p])
    BY <1>0, <2>1 DEF ToRead
  <2> QED
    BY <1>1, <2>2
<1>4. Flight'[Written + 1] = Answer(r)
  <2>1. Written + 1 \in 1 .. Written'
    BY <1>0, <1>1 DEF Sizes
  <2> QED
    BY <1>0, <1>1, <2>1 DEF ToRead
<1>5. ASSUME NEW p \in Written + 1 .. Total PROVE Flight'[p + 1] = Flight[p]
  <2>1. p \in Written + 1 .. Total
    OBVIOUS
  <2>2. \A q : q \in Written' + 1 .. Total' => Flight'[q] = Asked(Output'[q - Written'])
    BY <1>0 DEF ToWrite
  <2>3. Flight[p] = Asked(Output[p - Written])
    BY <1>0, <2>1 DEF ToWrite
  <2>4. ASSUME NEW q \in Nat, q = p + 1 PROVE Flight'[q] = Flight[p]
    <3>1. q \in Written' + 1 .. Total' /\ q - Written' = p - Written
      BY <1>0, <1>1, <1>2, <2>4 DEF Sizes
    <3>2. Flight'[q] = Asked(Output'[q - Written'])
      BY <3>1, <2>2
    <3>3. Output'[q - Written'] = Output[p - Written]
      BY <3>1
    <3> QED
      BY <3>2, <3>3, <2>3
  <2>5. p + 1 \in Nat
    BY <1>0 DEF Sizes
  <2> QED
    BY <2>4, <2>5
<1> QED
  BY <1>1, <1>2, <1>3, <1>4, <1>5 DEF FlightInserted

\* The server goes: the commands that are not written will not be answered.
FlightCut ==
  /\ Written' = Written /\ Total' = Written
  /\ \A p \in 1 .. Written : Flight'[p] = Flight[p]

LEMMA FlightEnds ==
  ASSUME Shape, Shape', Input' = Input, Len(Output') = 0
  PROVE  FlightCut
<1>0. Sizes /\ Sizes' /\ ToRead /\ ToRead'
  BY DEF Shape
<1>1. Written' = Written
  BY <1>0 DEF Sizes
<1>2. Total' = Written
  <2>1. Total' \in Nat /\ Written' \in Nat /\ Total' - Written' = 0
    BY <1>0 DEF Sizes
  <2>2. \A t, w \in Nat : t - w = 0 => t = w
    OBVIOUS
  <2> QED
    BY <1>1, <2>1, <2>2
<1>3. ASSUME NEW p \in 1 .. Written PROVE Flight'[p] = Flight[p]
  BY <1>0, <1>1 DEF ToRead
<1> QED
  BY <1>1, <1>2, <1>3 DEF FlightCut

-----------------------------------------------------------------------------
(* What they keep: every answer finds its callback.                        *)

Bounds ==
  /\ Written \in Nat /\ Total \in Nat /\ Written <= Total
  /\ Len(replies) \in Nat /\ Len(Pending) \in Nat /\ Len(replies) <= Len(Pending)

LEMMA ShapeBounds == Shape => Bounds
BY DEF Shape, Sizes, Queues, Bounds

\* No callback is added or taken.
PendingSame == Pending' = Pending /\ Len(replies') = Len(replies)

\* The callback of a command is added.
PendingGrows(c) ==
  /\ Len(Pending') = Len(Pending) + 1 /\ Pending'[Len(Pending) + 1] = c
  /\ \A i \in 1 .. Len(Pending) : Pending'[i] = Pending[i]
  /\ \/ Len(replies') = Len(replies)
     \/ Len(replies) = Len(Pending) /\ Len(replies') = Len(Pending) + 1

\* The first one is taken.
PendingPops ==
  /\ Len(Pending) > 0 /\ Len(Pending') = Len(Pending) - 1
  /\ \A i \in 1 .. Len(Pending) - 1 : Pending'[i] = Pending[i + 1]
  /\ Len(replies') = IF Len(replies) > 0 THEN Len(replies) - 1 ELSE 0

LEMMA MatchedStays ==
  ASSUME Bounds, Matched, FlightSame, PendingSame, Now' \in {Now, {}}, server' \in {server, "closed"}
  PROVE  Matched'
<1>1. \A i, n : Answered(i, n) => \E q \in 1 .. n : Flight'[q] = About("plain", Pending'[i])
  BY DEF FlightSame, PendingSame, Answered
<1>2. Owned'
  BY DEF Matched, Owned, FlightSame, PendingSame
<1>3. Owed'
  BY <1>1 DEF Matched, Owed, FlightSame, PendingSame, Answered
<1>4. InOrder'
  BY <1>1 DEF Matched, InOrder, FlightSame, PendingSame, Answered
<1>5. RepliesFirst'
  BY <1>1 DEF Matched, RepliesFirst, FlightSame, PendingSame, Answered
<1>6. UnsubscribeLast'
  BY <1>1 DEF Matched, UnsubscribeLast, FlightSame, PendingSame, Answered
<1> QED
  BY <1>2, <1>3, <1>4, <1>5, <1>6 DEF Matched

LEMMA MatchedAsks ==
  ASSUME Bounds, Matched, NEW x, x.what \in {"subscribe", "unsubscribe"}, FlightGrows(x),
         PendingSame, Now' = Now, server' = server, server # "closed"
  PROVE  Matched'
<1>1. \A i : \A n \in 0 .. Total :
        Answered(i, n) => \E q \in 1 .. n : Flight'[q] = About("plain", Pending'[i])
  BY DEF FlightGrows, PendingSame, Answered, Bounds
<1>2. \A p \in 1 .. Total' : (p \in 1 .. Total /\ Flight'[p] = Flight[p]) \/ (p = Total + 1 /\ Flight'[p] = x)
  <2>1. \A p \in 1 .. Total + 1 : p \in 1 .. Total \/ p = Total + 1
    BY DEF Bounds
  <2> QED
    BY <2>1 DEF FlightGrows
<1>3. Flight'[Total + 1].what # "plain"
  BY DEF FlightGrows
<1>4. Owned'
  <2>1. ASSUME NEW p \in 1 .. Total', Flight'[p].what = "plain"
        PROVE  \E i \in 1 .. Len(Pending') : Flight'[p] = About("plain", Pending'[i])
    BY <1>2, <2>1 DEF Matched, Owned, PendingSame
  <2>2. ASSUME NEW p \in 1 .. Total', NEW q \in 1 .. Total', Flight'[p].what = "plain",
               Flight'[p] = Flight'[q]
        PROVE  p = q
    BY <1>2, <2>2 DEF Matched, Owned
  <2> QED
    BY <2>1, <2>2 DEF Owned
<1>5. Owed'
  <2>1. ASSUME NEW i \in 1 .. Len(Pending)
        PROVE  \E q \in 1 .. Total + 1 : Flight'[q] = About("plain", Pending'[i])
    <3>1. \E q \in 1 .. Total : Flight'[q] = About("plain", Pending'[i])
      BY <1>1 DEF Matched, Owed, Bounds
    <3> QED
      BY <3>1 DEF Bounds
  <2> QED
    BY <2>1 DEF Owed, Answered, PendingSame, FlightGrows
<1>6. InOrder'
  <2> SUFFICES ASSUME NEW j \in 1 .. Len(Pending), NEW p \in 1 .. Total',
                      Flight'[p] = About("plain", Pending[j]), NEW i \in 1 .. j - 1
               PROVE  \E q \in 1 .. p - 1 : Flight'[q] = About("plain", Pending'[i])
    BY DEF InOrder, Answered, PendingSame
  <2>1. p \in 1 .. Total /\ Flight'[p] = Flight[p]
    BY <1>2 DEF About
  <2>2. Answered(i, p - 1) /\ p - 1 \in 0 .. Total
    BY <2>1 DEF Matched, InOrder, Bounds
  <2> QED
    BY <1>1, <2>2
<1>7. RepliesFirst'
  <2>1. ASSUME NEW p \in 1 .. Total', Flight'[p].what \in PubSub, NEW i \in 1 .. Len(replies)
        PROVE  \E q \in 1 .. p - 1 : Flight'[q] = About("plain", Pending'[i])
    <3>1. CASE p \in 1 .. Total
      <4>1. Answered(i, p - 1) /\ p - 1 \in 0 .. Total
        BY <1>2, <2>1, <3>1 DEF Matched, RepliesFirst, Bounds, FlightGrows
      <4> QED
        BY <1>1, <4>1
    <3>2. CASE p = Total + 1
      <4>1. Answered(i, Total) /\ Total \in 0 .. Total
        BY DEF Matched, Owed, Bounds
      <4>2. p - 1 = Total
        BY <3>2 DEF Bounds
      <4> QED
        BY <1>1, <4>1, <4>2
    <3> QED
      BY <1>2, <3>1, <3>2
  <2>2. ASSUME Now # {}, NEW i \in 1 .. Len(replies)
        PROVE  \E q \in 1 .. Written : Flight'[q] = About("plain", Pending'[i])
    BY <1>1, <2>2 DEF Matched, RepliesFirst, Bounds
  <2> QED
    BY <2>1, <2>2 DEF RepliesFirst, Answered, PendingSame, FlightGrows
<1>8. UnsubscribeLast'
  <2>1. ASSUME NEW p \in 1 .. Total', Flight'[p].what = "unsubscribe", NEW i \in 1 .. Len(Pending)
        PROVE  \E q \in 1 .. p - 1 : Flight'[q] = About("plain", Pending'[i])
    <3>1. CASE p \in 1 .. Total
      <4>1. Answered(i, p - 1) /\ p - 1 \in 0 .. Total
        BY <1>2, <2>1, <3>1 DEF Matched, UnsubscribeLast, Bounds, FlightGrows
      <4> QED
        BY <1>1, <4>1
    <3>2. CASE p = Total + 1
      <4>1. Answered(i, Total) /\ Total \in 0 .. Total
        BY DEF Matched, Owed, Bounds
      <4>2. p - 1 = Total
        BY <3>2 DEF Bounds
      <4> QED
        BY <1>1, <4>1, <4>2
    <3> QED
      BY <1>2, <3>1, <3>2
  <2> QED
    BY <2>1 DEF UnsubscribeLast, Answered, PendingSame
<1> QED
  BY <1>4, <1>5, <1>6, <1>7, <1>8 DEF Matched

LEMMA MatchedCommands ==
  ASSUME Bounds, Matched, NEW c \in Plain, FlightGrows(About("plain", c)), PendingGrows(c),
         Now' = Now, server' = server, server # "closed",
         \A i \in 1 .. Len(Pending) : Pending[i] # c,
         \A p \in 1 .. Total : Flight[p].what # "unsubscribe",
         \/ Len(replies') = Len(replies)
         \/ Now = {} /\ \A p \in 1 .. Total : Flight[p].what \notin PubSub
  PROVE  Matched'
<1>1. \A i \in 1 .. Len(Pending) : \A n \in 0 .. Total :
        Answered(i, n) => \E q \in 1 .. n : Flight'[q] = About("plain", Pending'[i])
  BY DEF FlightGrows, PendingGrows, Answered, Bounds
<1>2. \A p \in 1 .. Total' : \/ p \in 1 .. Total /\ Flight'[p] = Flight[p]
                             \/ p = Total + 1 /\ Flight'[p] = About("plain", c)
  <2>1. \A p \in 1 .. Total + 1 : p \in 1 .. Total \/ p = Total + 1
    BY DEF Bounds
  <2> QED
    BY <2>1 DEF FlightGrows
<1>3. \A i \in 1 .. Len(Pending') : (i \in 1 .. Len(Pending) /\ Pending'[i] = Pending[i]) \/ i = Len(Pending) + 1
  <2>1. \A i \in 1 .. Len(Pending) + 1 : i \in 1 .. Len(Pending) \/ i = Len(Pending) + 1
    BY DEF Bounds
  <2> QED
    BY <2>1 DEF PendingGrows
<1>4. \A i \in 1 .. Len(Pending) : i \in 1 .. Len(Pending')
  BY DEF PendingGrows, Bounds
<1>5. \A p \in 1 .. Total : Flight[p] # About("plain", c)
  <2> SUFFICES ASSUME NEW p \in 1 .. Total, Flight[p] = About("plain", c) PROVE FALSE
    OBVIOUS
  <2>1. PICK i \in 1 .. Len(Pending) : Flight[p] = About("plain", Pending[i])
    BY DEF Matched, Owned, About
  <2> QED
    BY <2>1 DEF About
<1>6. Owned'
  <2>1. ASSUME NEW p \in 1 .. Total', Flight'[p].what = "plain"
        PROVE  \E i \in 1 .. Len(Pending') : Flight'[p] = About("plain", Pending'[i])
    <3>1. CASE p = Total + 1
      <4>1. Len(Pending) + 1 \in 1 .. Len(Pending')
        BY DEF PendingGrows, Bounds
      <4> QED
        BY <3>1, <4>1 DEF FlightGrows, PendingGrows
    <3>2. CASE p \in 1 .. Total
      <4>1. PICK i \in 1 .. Len(Pending) : Flight[p] = About("plain", Pending[i])
        BY <2>1, <3>2 DEF Matched, Owned, FlightGrows
      <4> QED
        BY <1>4, <3>2, <4>1 DEF FlightGrows, PendingGrows
    <3> QED
      BY <1>2, <3>1, <3>2
  <2>2. ASSUME NEW p \in 1 .. Total', NEW q \in 1 .. Total', Flight'[p].what = "plain",
               Flight'[p] = Flight'[q]
        PROVE  p = q
    BY <1>2, <1>5, <2>2 DEF Matched, Owned
  <2> QED
    BY <2>1, <2>2 DEF Owned
<1>7. Owed'
  <2>1. ASSUME NEW i \in 1 .. Len(Pending')
        PROVE  \E q \in 1 .. Total' : Flight'[q] = About("plain", Pending'[i])
    <3>1. CASE i \in 1 .. Len(Pending)
      <4>1. \E q \in 1 .. Total : Flight'[q] = About("plain", Pending'[i])
        BY <1>1, <3>1 DEF Matched, Owed, Bounds
      <4> QED
        BY <4>1 DEF Bounds, FlightGrows
    <3>2. CASE i = Len(Pending) + 1
      <4>1. Total + 1 \in 1 .. Total'
        BY DEF FlightGrows, Bounds
      <4> QED
        BY <3>2, <4>1 DEF FlightGrows, PendingGrows
    <3> QED
      BY <1>3, <3>1, <3>2
  <2> QED
    BY <2>1 DEF Owed, Answered
<1>8. InOrder'
  <2> SUFFICES ASSUME NEW j \in 1 .. Len(Pending'), NEW p \in 1 .. Total',
                      Flight'[p] = About("plain", Pending'[j]), NEW i \in 1 .. j - 1
               PROVE  \E q \in 1 .. p - 1 : Flight'[q] = About("plain", Pending'[i])
    BY DEF InOrder, Answered
  <2>1. i \in 1 .. Len(Pending)
    BY DEF PendingGrows, Bounds
  <2>2. CASE p = Total + 1
    <3>1. Answered(i, Total) /\ Total \in 0 .. Total /\ p - 1 = Total
      BY <2>1, <2>2 DEF Matched, Owed, Bounds
    <3> QED
      BY <1>1, <2>1, <3>1
  <2>3. CASE p \in 1 .. Total /\ j \in 1 .. Len(Pending)
    <3>1. Flight[p] = About("plain", Pending[j])
      BY <2>3 DEF FlightGrows, PendingGrows
    <3>2. Answered(i, p - 1) /\ p - 1 \in 0 .. Total
      BY <2>3, <3>1 DEF Matched, InOrder, Bounds
    <3> QED
      BY <1>1, <2>1, <3>2
  <2>4. CASE p \in 1 .. Total /\ j = Len(Pending) + 1
    BY <1>5, <2>4 DEF FlightGrows, PendingGrows
  <2> QED
    BY <1>2, <1>3, <2>2, <2>3, <2>4
<1>9. RepliesFirst'
  <2>1. CASE Len(replies') = Len(replies)
    <3>1. \A i \in 1 .. Len(replies) : i \in 1 .. Len(Pending)
      BY DEF Bounds
    <3>2. ASSUME NEW p \in 1 .. Total', Flight'[p].what \in PubSub, NEW i \in 1 .. Len(replies)
          PROVE  \E q \in 1 .. p - 1 : Flight'[q] = About("plain", Pending'[i])
      <4>1. p \in 1 .. Total /\ Flight'[p] = Flight[p]
        BY <1>2, <3>2 DEF About, PubSub
      <4>2. Answered(i, p - 1) /\ p - 1 \in 0 .. Total
        BY <3>2, <4>1 DEF Matched, RepliesFirst, Bounds
      <4> QED
        BY <1>1, <3>1, <4>2
    <3>3. ASSUME Now # {}, NEW i \in 1 .. Len(replies)
          PROVE  \E q \in 1 .. Written : Flight'[q] = About("plain", Pending'[i])
      BY <1>1, <3>1, <3>3 DEF Matched, RepliesFirst, Bounds
    <3> QED
      BY <2>1, <3>2, <3>3 DEF RepliesFirst, Answered, FlightGrows
  <2>2. CASE Now = {} /\ \A p \in 1 .. Total : Flight[p].what \notin PubSub
    <3>1. \A p \in 1 .. Total' : Flight'[p].what \notin PubSub
      BY <1>2, <2>2 DEF About, PubSub
    <3> QED
      BY <2>2, <3>1 DEF RepliesFirst
  <2> QED
    BY <2>1, <2>2
<1>10. UnsubscribeLast'
  <2>1. \A p \in 1 .. Total' : Flight'[p].what # "unsubscribe"
    BY <1>2 DEF About
  <2> QED
    BY <2>1 DEF UnsubscribeLast
<1> QED
  BY <1>6, <1>7, <1>8, <1>9, <1>10 DEF Matched

LEMMA MatchedInVain ==
  ASSUME Bounds, Matched, NEW c \in Plain, FlightSame, PendingGrows(c),
         Now' = {}, server' = "closed",
         \A i \in 1 .. Len(Pending) : Pending[i] # c,
         \A p \in 1 .. Total : Flight[p].what # "unsubscribe",
         \/ Len(replies') = Len(replies)
         \/ \A p \in 1 .. Total : Flight[p].what \notin PubSub
  PROVE  Matched'
<1>1. \A i \in 1 .. Len(Pending) : \A n :
        Answered(i, n) => \E q \in 1 .. n : Flight'[q] = About("plain", Pending'[i])
  BY DEF FlightSame, PendingGrows, Answered
<1>2. \A i \in 1 .. Len(Pending') : (i \in 1 .. Len(Pending) /\ Pending'[i] = Pending[i]) \/ i = Len(Pending) + 1
  <2>1. \A i \in 1 .. Len(Pending) + 1 : i \in 1 .. Len(Pending) \/ i = Len(Pending) + 1
    BY DEF Bounds
  <2> QED
    BY <2>1 DEF PendingGrows
<1>3. \A i \in 1 .. Len(Pending) : i \in 1 .. Len(Pending')
  BY DEF PendingGrows, Bounds
<1>4. \A p \in 1 .. Total : Flight[p] # About("plain", c)
  <2> SUFFICES ASSUME NEW p \in 1 .. Total, Flight[p] = About("plain", c) PROVE FALSE
    OBVIOUS
  <2>1. PICK i \in 1 .. Len(Pending) : Flight[p] = About("plain", Pending[i])
    BY DEF Matched, Owned, About
  <2> QED
    BY <2>1 DEF About
<1>5. Owned'
  <2>1. ASSUME NEW p \in 1 .. Total, Flight[p].what = "plain"
        PROVE  \E i \in 1 .. Len(Pending') : Flight[p] = About("plain", Pending'[i])
    <3>1. PICK i \in 1 .. Len(Pending) : Flight[p] = About("plain", Pending[i])
      BY <2>1 DEF Matched, Owned
    <3> QED
      BY <1>3, <3>1 DEF PendingGrows
  <2> QED
    BY <2>1 DEF Matched, Owned, FlightSame
<1>6. Owed'
  BY DEF Owed
<1>7. InOrder'
  <2> SUFFICES ASSUME NEW j \in 1 .. Len(Pending'), NEW p \in 1 .. Total,
                      Flight[p] = About("plain", Pending'[j]), NEW i \in 1 .. j - 1
               PROVE  \E q \in 1 .. p - 1 : Flight'[q] = About("plain", Pending'[i])
    BY DEF InOrder, Answered, FlightSame
  <2>1. j \in 1 .. Len(Pending) /\ i \in 1 .. Len(Pending)
    BY <1>2, <1>4 DEF PendingGrows, Bounds
  <2>2. Answered(i, p - 1)
    BY <2>1 DEF Matched, InOrder, PendingGrows
  <2> QED
    BY <1>1, <2>1, <2>2
<1>8. RepliesFirst'
  <2>1. CASE Len(replies') = Len(replies)
    <3>1. \A i \in 1 .. Len(replies) : i \in 1 .. Len(Pending)
      BY DEF Bounds
    <3>2. ASSUME NEW p \in 1 .. Total, Flight[p].what \in PubSub, NEW i \in 1 .. Len(replies)
          PROVE  \E q \in 1 .. p - 1 : Flight'[q] = About("plain", Pending'[i])
      BY <1>1, <3>1, <3>2 DEF Matched, RepliesFirst
    <3> QED
      BY <2>1, <3>2 DEF RepliesFirst, Answered, FlightSame
  <2>2. CASE \A p \in 1 .. Total : Flight[p].what \notin PubSub
    BY <2>2 DEF RepliesFirst, FlightSame
  <2> QED
    BY <2>1, <2>2
<1>9. UnsubscribeLast'
  BY DEF UnsubscribeLast, FlightSame
<1> QED
  BY <1>5, <1>6, <1>7, <1>8, <1>9 DEF Matched

LEMMA MatchedWrites ==
  ASSUME Bounds, Matched, FlightWritten, Written < Total, PendingSame, server # "closed",
         \/ Now # {} \/ Now' = {}
         \/ Flight[Written + 1].what = "subscribe"
  PROVE  Matched'
<1>1. \A i, n : Answered(i, n) => \E q \in 1 .. n : Flight'[q] = About("plain", Pending'[i])
  BY DEF FlightWritten, PendingSame, Answered
<1>2. Owned'
  BY DEF Matched, Owned, FlightWritten, PendingSame
<1>3. Owed'
  BY <1>1 DEF Matched, Owed, FlightWritten, PendingSame, Answered
<1>4. InOrder'
  BY <1>1 DEF Matched, InOrder, FlightWritten, PendingSame, Answered
<1>5. ASSUME Now' # {}, NEW i \in 1 .. Len(replies)
      PROVE  \E q \in 1 .. Written + 1 : Flight'[q] = About("plain", Pending'[i])
  <2>1. Answered(i, Written)
    <3>1. CASE Now # {}
      BY <3>1 DEF Matched, RepliesFirst
    <3>2. CASE Flight[Written + 1].what = "subscribe"
      <4>1. Written + 1 \in 1 .. Total /\ "subscribe" \in PubSub
        BY DEF Bounds, PubSub
      <4>2. ASSUME NEW p \in 1 .. Total, p = Written + 1 PROVE Answered(i, Written)
        <5>1. Answered(i, p - 1)
          BY <3>2, <4>1, <4>2 DEF Matched, RepliesFirst
        <5>2. p - 1 = Written
          BY <4>2 DEF Bounds
        <5> QED
          BY <5>1, <5>2
      <4> QED
        BY <4>1, <4>2
    <3> QED
      BY <1>5, <3>1, <3>2
  <2>2. \E q \in 1 .. Written : Flight'[q] = About("plain", Pending'[i])
    BY <1>1, <2>1
  <2> QED
    BY <2>2 DEF Bounds
<1>6. RepliesFirst'
  BY <1>1, <1>5 DEF Matched, RepliesFirst, FlightWritten, PendingSame, Answered
<1>7. UnsubscribeLast'
  BY <1>1 DEF Matched, UnsubscribeLast, FlightWritten, PendingSame, Answered
<1> QED
  BY <1>2, <1>3, <1>4, <1>6, <1>7 DEF Matched

LEMMA MatchedTakes ==
  ASSUME Bounds, Matched, FlightTaken, PendingSame, server' = server, Now' = Now,
         Flight[1].what # "plain"
  PROVE  Matched'
<1>1. \A p \in 1 .. Total' : p + 1 \in 1 .. Total /\ Flight'[p] = Flight[p + 1] /\ (p + 1) - 1 = p
  BY DEF FlightTaken, Bounds
<1>2. \A p, q \in 1 .. Total' : p + 1 = q + 1 => p = q
  BY DEF FlightTaken, Bounds
<1>3. ASSUME NEW i, NEW n \in 0 .. Total', Answered(i, n + 1)
      PROVE  \E q \in 1 .. n : Flight'[q] = About("plain", Pending'[i])
  <2>1. PICK q \in 1 .. n + 1 : Flight[q] = About("plain", Pending[i])
    BY <1>3 DEF Answered
  <2>2. q # 1
    BY <2>1 DEF About
  <2>3. q - 1 \in 1 .. n /\ q - 1 \in 1 .. Total - 1 /\ (q - 1) + 1 = q
    BY <2>2 DEF FlightTaken, Bounds
  <2>4. Flight'[q - 1] = Flight[q]
    BY <2>3 DEF FlightTaken
  <2> QED
    BY <2>1, <2>3, <2>4 DEF PendingSame
<1>4. Owned'
  <2>1. ASSUME NEW p \in 1 .. Total', Flight'[p].what = "plain"
        PROVE  \E i \in 1 .. Len(Pending') : Flight'[p] = About("plain", Pending'[i])
    BY <1>1, <2>1 DEF Matched, Owned, PendingSame
  <2>2. ASSUME NEW p \in 1 .. Total', NEW q \in 1 .. Total', Flight'[p].what = "plain",
               Flight'[p] = Flight'[q]
        PROVE  p = q
    <3>1. p + 1 = q + 1
      BY <1>1, <2>2 DEF Matched, Owned
    <3> QED
      BY <1>2, <3>1
  <2> QED
    BY <2>1, <2>2 DEF Owned
<1>5. Owed'
  <2>1. ASSUME NEW i \in 1 .. Len(Pending), server # "closed"
        PROVE  \E q \in 1 .. Total' : Flight'[q] = About("plain", Pending'[i])
    <3>1. Total' \in 0 .. Total' /\ Total' + 1 = Total
      BY DEF FlightTaken, Bounds
    <3>2. Answered(i, Total' + 1)
      BY <2>1, <3>1 DEF Matched, Owed
    <3> QED
      BY <1>3, <3>1, <3>2
  <2> QED
    BY <2>1 DEF Owed, Answered, PendingSame
<1>6. InOrder'
  <2> SUFFICES ASSUME NEW j \in 1 .. Len(Pending), NEW p \in 1 .. Total',
                      Flight'[p] = About("plain", Pending[j]), NEW i \in 1 .. j - 1
               PROVE  \E q \in 1 .. p - 1 : Flight'[q] = About("plain", Pending'[i])
    BY DEF InOrder, Answered, PendingSame
  <2>1. Answered(i, (p + 1) - 1)
    BY <1>1 DEF Matched, InOrder
  <2>2. p - 1 \in 0 .. Total' /\ (p - 1) + 1 = (p + 1) - 1
    BY DEF FlightTaken, Bounds
  <2> QED
    BY <1>3, <2>1, <2>2
<1>7. ASSUME NEW i \in 1 .. Len(Pending), NEW p \in 1 .. Total', Answered(i, (p + 1) - 1)
      PROVE  \E q \in 1 .. p - 1 : Flight'[q] = About("plain", Pending'[i])
  <2>2. p - 1 \in 0 .. Total' /\ (p - 1) + 1 = (p + 1) - 1
    BY DEF FlightTaken, Bounds
  <2> QED
    BY <1>3, <1>7, <2>2
<1>8. RepliesFirst'
  <2>0. \A i \in 1 .. Len(replies) : i \in 1 .. Len(Pending)
    BY DEF Bounds
  <2>1. ASSUME NEW p \in 1 .. Total', Flight'[p].what \in PubSub, NEW i \in 1 .. Len(replies)
        PROVE  \E q \in 1 .. p - 1 : Flight'[q] = About("plain", Pending'[i])
    BY <1>1, <1>7, <2>0, <2>1 DEF Matched, RepliesFirst
  <2>2. ASSUME Now # {}, NEW i \in 1 .. Len(replies)
        PROVE  \E q \in 1 .. Written' : Flight'[q] = About("plain", Pending'[i])
    <3>1. Written' \in 0 .. Total' /\ Written' + 1 = Written
      BY DEF FlightTaken, Bounds
    <3>2. Answered(i, Written' + 1)
      BY <2>2, <3>1 DEF Matched, RepliesFirst
    <3> QED
      BY <1>3, <3>1, <3>2
  <2> QED
    BY <2>1, <2>2 DEF RepliesFirst, Answered, PendingSame
<1>9. UnsubscribeLast'
  <2>1. ASSUME NEW p \in 1 .. Total', Flight'[p].what = "unsubscribe", NEW i \in 1 .. Len(Pending)
        PROVE  \E q \in 1 .. p - 1 : Flight'[q] = About("plain", Pending'[i])
    BY <1>1, <1>7, <2>1 DEF Matched, UnsubscribeLast
  <2> QED
    BY <2>1 DEF UnsubscribeLast, Answered, PendingSame
<1> QED
  BY <1>4, <1>5, <1>6, <1>8, <1>9 DEF Matched

\* The answer that is read first is that of the command that waits first.
LEMMA FirstAnswered ==
  ASSUME Bounds, Matched, Total > 0, Flight[1].what = "plain"
  PROVE  Len(Pending) > 0 /\ Flight[1] = About("plain", Pending[1])
<1>1. 1 \in 1 .. Total
  BY DEF Bounds
<1>2. PICK i \in 1 .. Len(Pending) : Flight[1] = About("plain", Pending[i])
  BY <1>1 DEF Matched, Owned
<1>3. ~(1 \in 1 .. i - 1)
  <2> SUFFICES ASSUME 1 \in 1 .. i - 1 PROVE FALSE
    OBVIOUS
  <2>1. Answered(1, 1 - 1)
    BY <1>1, <1>2 DEF Matched, InOrder
  <2> QED
    BY <2>1 DEF Answered
<1> QED
  BY <1>2, <1>3 DEF Bounds

LEMMA MatchedAnswers ==
  ASSUME Bounds, Matched, FlightTaken, PendingPops, server' = server, Now' = Now,
         Flight[1].what = "plain",
         \A i, j \in 1 .. Len(Pending) : Pending[i] = Pending[j] => i = j
  PROVE  Matched'
<1>0. Total > 0 /\ Flight[1] = About("plain", Pending[1]) /\ 1 \in 1 .. Len(Pending)
  BY FirstAnswered DEF FlightTaken, Bounds, PendingPops
<1>1. \A p \in 1 .. Total' : p + 1 \in 1 .. Total /\ Flight'[p] = Flight[p + 1] /\ (p + 1) - 1 = p
  BY DEF FlightTaken, Bounds
<1>2. \A p, q \in 1 .. Total' : p + 1 = q + 1 => p = q
  BY DEF FlightTaken, Bounds
<1>3. \A i \in 1 .. Len(Pending') : i + 1 \in 1 .. Len(Pending) /\ Pending'[i] = Pending[i + 1] /\ i + 1 # 1
  BY DEF PendingPops, Bounds
<1>4. ASSUME NEW i \in 1 .. Len(Pending'), NEW n \in 0 .. Total', Answered(i + 1, n + 1)
      PROVE  \E q \in 1 .. n : Flight'[q] = About("plain", Pending'[i])
  <2>1. PICK q \in 1 .. n + 1 : Flight[q] = About("plain", Pending[i + 1])
    BY <1>4 DEF Answered
  <2>2. q # 1
    BY <1>0, <1>3, <2>1 DEF About
  <2>3. q - 1 \in 1 .. n /\ q - 1 \in 1 .. Total - 1 /\ (q - 1) + 1 = q
    BY <2>2 DEF FlightTaken, Bounds
  <2>4. Flight'[q - 1] = Flight[q]
    BY <2>3 DEF FlightTaken
  <2> QED
    BY <1>3, <2>1, <2>3, <2>4
<1>5. Owned'
  <2>1. ASSUME NEW p \in 1 .. Total', Flight'[p].what = "plain"
        PROVE  \E i \in 1 .. Len(Pending') : Flight'[p] = About("plain", Pending'[i])
    <3>1. p + 1 \in 1 .. Total /\ Flight'[p] = Flight[p + 1] /\ p + 1 # 1
      BY <1>1 DEF FlightTaken, Bounds
    <3>2. PICK j \in 1 .. Len(Pending) : Flight[p + 1] = About("plain", Pending[j])
      BY <2>1, <3>1 DEF Matched, Owned
    <3>3. j # 1
      <4> SUFFICES ASSUME j = 1 PROVE FALSE
        OBVIOUS
      <4>1. Flight[p + 1] = Flight[1] /\ Flight[1].what = "plain" /\ 1 \in 1 .. Total
        BY <1>0, <3>2 DEF Bounds
      <4>2. p + 1 = 1
        BY <3>1, <4>1 DEF Matched, Owned
      <4> QED
        BY <3>1, <4>2
    <3>4. j - 1 \in 1 .. Len(Pending) - 1 /\ (j - 1) + 1 = j
      BY <3>3 DEF Bounds
    <3>5. Pending'[j - 1] = Pending[j] /\ j - 1 \in 1 .. Len(Pending')
      BY <3>4 DEF PendingPops
    <3> QED
      BY <3>1, <3>2, <3>5
  <2>2. ASSUME NEW p \in 1 .. Total', NEW q \in 1 .. Total', Flight'[p].what = "plain",
               Flight'[p] = Flight'[q]
        PROVE  p = q
    <3>1. p + 1 = q + 1
      BY <1>1, <2>2 DEF Matched, Owned
    <3> QED
      BY <1>2, <3>1
  <2> QED
    BY <2>1, <2>2 DEF Owned
<1>6. Owed'
  <2>1. ASSUME NEW i \in 1 .. Len(Pending'), server # "closed"
        PROVE  \E q \in 1 .. Total' : Flight'[q] = About("plain", Pending'[i])
    <3>1. Total' \in 0 .. Total' /\ Total' + 1 = Total
      BY DEF FlightTaken, Bounds
    <3>2. Answered(i + 1, Total' + 1)
      BY <1>3, <2>1, <3>1 DEF Matched, Owed
    <3> QED
      BY <1>4, <3>1, <3>2
  <2> QED
    BY <2>1 DEF Owed, Answered
<1>7. ASSUME NEW i \in 1 .. Len(Pending'), NEW p \in 1 .. Total', Answered(i + 1, (p + 1) - 1)
      PROVE  \E q \in 1 .. p - 1 : Flight'[q] = About("plain", Pending'[i])
  <2>2. p - 1 \in 0 .. Total' /\ (p - 1) + 1 = (p + 1) - 1
    BY DEF FlightTaken, Bounds
  <2> QED
    BY <1>4, <1>7, <2>2
<1>8. InOrder'
  <2> SUFFICES ASSUME NEW j \in 1 .. Len(Pending'), NEW p \in 1 .. Total',
                      Flight'[p] = About("plain", Pending'[j]), NEW i \in 1 .. j - 1
               PROVE  \E q \in 1 .. p - 1 : Flight'[q] = About("plain", Pending'[i])
    BY DEF InOrder, Answered
  <2>1. i \in 1 .. Len(Pending') /\ i + 1 \in 1 .. (j + 1) - 1
    BY DEF PendingPops, Bounds
  <2>2. Answered(i + 1, (p + 1) - 1)
    BY <1>1, <1>3, <2>1 DEF Matched, InOrder
  <2> QED
    BY <1>7, <2>1, <2>2
<1>9. RepliesFirst'
  <2>0. \A i \in 1 .. Len(replies') : i \in 1 .. Len(Pending') /\ i + 1 \in 1 .. Len(replies)
    BY DEF PendingPops, Bounds
  <2>1. ASSUME NEW p \in 1 .. Total', Flight'[p].what \in PubSub, NEW i \in 1 .. Len(replies')
        PROVE  \E q \in 1 .. p - 1 : Flight'[q] = About("plain", Pending'[i])
    BY <1>1, <1>7, <2>0, <2>1 DEF Matched, RepliesFirst
  <2>2. ASSUME Now # {}, NEW i \in 1 .. Len(replies')
        PROVE  \E q \in 1 .. Written' : Flight'[q] = About("plain", Pending'[i])
    <3>1. Written' \in 0 .. Total' /\ Written' + 1 = Written
      BY DEF FlightTaken, Bounds
    <3>2. Answered(i + 1, Written' + 1)
      BY <2>0, <2>2, <3>1 DEF Matched, RepliesFirst
    <3> QED
      BY <1>4, <2>0, <3>1, <3>2
  <2> QED
    BY <2>1, <2>2 DEF RepliesFirst, Answered
<1>10. UnsubscribeLast'
  <2>1. ASSUME NEW p \in 1 .. Total', Flight'[p].what = "unsubscribe", NEW i \in 1 .. Len(Pending')
        PROVE  \E q \in 1 .. p - 1 : Flight'[q] = About("plain", Pending'[i])
    BY <1>1, <1>3, <1>7, <2>1 DEF Matched, UnsubscribeLast
  <2> QED
    BY <2>1 DEF UnsubscribeLast, Answered
<1> QED
  BY <1>5, <1>6, <1>8, <1>9, <1>10 DEF Matched

LEMMA MatchedSpeaks ==
  ASSUME Bounds, Matched, NEW x, FlightInserted(x), PendingSame, server' = server, Now' = Now,
         x.what \in {"message", "push"}, x.what = "message" => Now # {}
  PROVE  Matched'
<1>1. ASSUME NEW p \in 1 .. Total'
      PROVE  \/ p \in 1 .. Written /\ Flight'[p] = Flight[p]
             \/ p = Written + 1 /\ Flight'[p] = x
             \/ p \in Written + 2 .. Total + 1 /\ p - 1 \in Written + 1 .. Total /\ Flight'[p] = Flight[p - 1]
  <2>1. \/ p \in 1 .. Written
        \/ p = Written + 1
        \/ p \in Written + 2 .. Total + 1 /\ p - 1 \in Written + 1 .. Total /\ (p - 1) + 1 = p
    BY DEF Bounds, FlightInserted
  <2>2. CASE p \in Written + 2 .. Total + 1 /\ p - 1 \in Written + 1 .. Total /\ (p - 1) + 1 = p
    <3>1. Flight'[(p - 1) + 1] = Flight[p - 1]
      BY <2>2 DEF FlightInserted
    <3> QED
      BY <2>2, <3>1
  <2> QED
    BY <2>1, <2>2 DEF FlightInserted
<1>2. ASSUME NEW i, NEW n \in 0 .. Written, Answered(i, n)
      PROVE  \E q \in 1 .. n : Flight'[q] = About("plain", Pending'[i])
  BY <1>2 DEF Answered, FlightInserted, PendingSame, Bounds
<1>3. ASSUME NEW i, NEW n \in 0 .. Total, Answered(i, n)
      PROVE  \E q \in 1 .. n + 1 : Flight'[q] = About("plain", Pending'[i])
  <2>1. PICK q \in 1 .. n : Flight[q] = About("plain", Pending[i])
    BY <1>3 DEF Answered
  <2>2. CASE q \in 1 .. Written
    <3>1. q \in 1 .. n + 1
      OBVIOUS
    <3> QED
      BY <2>1, <2>2, <3>1 DEF FlightInserted, PendingSame
  <2>3. CASE q \in Written + 1 .. Total
    <3>1. q + 1 \in 1 .. n + 1
      OBVIOUS
    <3> QED
      BY <2>1, <2>3, <3>1 DEF FlightInserted, PendingSame
  <2>4. q \in 1 .. Written \/ q \in Written + 1 .. Total
    BY DEF Bounds
  <2> QED
    BY <2>2, <2>3, <2>4
<1>4. Owned'
  <2>1. ASSUME NEW p \in 1 .. Total', Flight'[p].what = "plain"
        PROVE  \E i \in 1 .. Len(Pending') : Flight'[p] = About("plain", Pending'[i])
    <3>1. PICK q \in 1 .. Total : Flight'[p] = Flight[q]
      BY <1>1, <2>1 DEF Bounds
    <3> QED
      BY <2>1, <3>1 DEF Matched, Owned, PendingSame
  <2>2. ASSUME NEW p \in 1 .. Total', NEW q \in 1 .. Total', Flight'[p].what = "plain",
               Flight'[p] = Flight'[q]
        PROVE  p = q
    <3>1. p \in 1 .. Written \/ p \in Written + 2 .. Total + 1
      BY <1>1, <2>2
    <3>2. q \in 1 .. Written \/ q \in Written + 2 .. Total + 1
      BY <1>1, <2>2
    <3>3. CASE p \in 1 .. Written /\ q \in 1 .. Written
      BY <2>2, <3>3 DEF Matched, Owned, FlightInserted, Bounds
    <3>4. CASE p \in 1 .. Written /\ q \in Written + 2 .. Total + 1
      <4>1. q - 1 \in 1 .. Total /\ Flight'[q] = Flight[q - 1] /\ p \in 1 .. Total /\ p # q - 1
        BY <1>1, <3>4 DEF Bounds
      <4> QED
        BY <2>2, <3>4, <4>1 DEF Matched, Owned, FlightInserted
    <3>5. CASE p \in Written + 2 .. Total + 1 /\ q \in 1 .. Written
      <4>1. p - 1 \in 1 .. Total /\ Flight'[p] = Flight[p - 1] /\ q \in 1 .. Total /\ p - 1 # q
        BY <1>1, <3>5 DEF Bounds
      <4> QED
        BY <2>2, <3>5, <4>1 DEF Matched, Owned, FlightInserted
    <3>6. CASE p \in Written + 2 .. Total + 1 /\ q \in Written + 2 .. Total + 1
      <4>1. /\ p - 1 \in 1 .. Total /\ Flight'[p] = Flight[p - 1]
            /\ q - 1 \in 1 .. Total /\ Flight'[q] = Flight[q - 1]
        BY <1>1, <3>6 DEF Bounds
      <4>2. p - 1 = q - 1
        BY <2>2, <4>1 DEF Matched, Owned
      <4> QED
        BY <3>6, <4>2 DEF Bounds
    <3> QED
      BY <3>1, <3>2, <3>3, <3>4, <3>5, <3>6
  <2> QED
    BY <2>1, <2>2 DEF Owned
<1>5. Owed'
  <2>1. ASSUME NEW i \in 1 .. Len(Pending), server # "closed"
        PROVE  \E q \in 1 .. Total + 1 : Flight'[q] = About("plain", Pending'[i])
    <3>1. Answered(i, Total) /\ Total \in 0 .. Total
      BY <2>1 DEF Matched, Owed, Bounds
    <3> QED
      BY <1>3, <3>1
  <2> QED
    BY <2>1 DEF Owed, Answered, PendingSame, FlightInserted
\* What was before a place is before it still.
<1>6. ASSUME NEW p \in 1 .. Total', p # Written + 1, NEW i,
             \A q \in 1 .. Total : Flight[q] = Flight'[p] => Answered(i, q - 1)
      PROVE  \E q \in 1 .. p - 1 : Flight'[q] = About("plain", Pending'[i])
  <2>1. CASE p \in 1 .. Written
    <3>1. p \in 1 .. Total /\ p - 1 \in 0 .. Written /\ Flight'[p] = Flight[p]
      BY <2>1 DEF Bounds, FlightInserted
    <3> QED
      BY <1>2, <1>6, <3>1
  <2>2. CASE p \in Written + 2 .. Total + 1
    <3>1. /\ p - 1 \in 1 .. Total /\ Flight'[p] = Flight[p - 1]
          /\ (p - 1) - 1 \in 0 .. Total /\ ((p - 1) - 1) + 1 = p - 1
      BY <1>1, <2>2 DEF Bounds
    <3>2. Answered(i, (p - 1) - 1)
      BY <1>6, <3>1
    <3> QED
      BY <1>3, <3>1, <3>2
  <2> QED
    BY <1>1, <1>6, <2>1, <2>2
<1>7. Flight'[Written + 1].what \notin {"plain", "unsubscribe"}
  BY DEF FlightInserted
<1>8. InOrder'
  <2> SUFFICES ASSUME NEW j \in 1 .. Len(Pending), NEW p \in 1 .. Total',
                      Flight'[p] = About("plain", Pending[j]), NEW i \in 1 .. j - 1
               PROVE  \E q \in 1 .. p - 1 : Flight'[q] = About("plain", Pending'[i])
    BY DEF InOrder, Answered, PendingSame
  <2>1. p # Written + 1
    BY <1>7 DEF About
  <2>2. \A q \in 1 .. Total : Flight[q] = Flight'[p] => Answered(i, q - 1)
    BY DEF Matched, InOrder
  <2> QED
    BY <1>6, <2>1, <2>2
<1>9. RepliesFirst'
  <2>1. ASSUME NEW p \in 1 .. Total', Flight'[p].what \in PubSub, NEW i \in 1 .. Len(replies)
        PROVE  \E q \in 1 .. p - 1 : Flight'[q] = About("plain", Pending'[i])
    <3>1. CASE p # Written + 1
      <4>1. \A q \in 1 .. Total : Flight[q] = Flight'[p] => Answered(i, q - 1)
        BY <2>1 DEF Matched, RepliesFirst
      <4> QED
        BY <1>6, <3>1, <4>1
    <3>2. CASE p = Written + 1
      <4>1. Now # {}
        BY <2>1, <3>2 DEF FlightInserted, PubSub
      <4>2. Answered(i, Written) /\ Written \in 0 .. Written /\ p - 1 = Written
        BY <3>2, <4>1 DEF Matched, RepliesFirst, Bounds
      <4> QED
        BY <1>2, <4>2
    <3> QED
      BY <3>1, <3>2
  <2>2. ASSUME Now # {}, NEW i \in 1 .. Len(replies)
        PROVE  \E q \in 1 .. Written + 1 : Flight'[q] = About("plain", Pending'[i])
    <3>1. Answered(i, Written) /\ Written \in 0 .. Total
      BY <2>2 DEF Matched, RepliesFirst, Bounds
    <3> QED
      BY <1>3, <3>1
  <2> QED
    BY <2>1, <2>2 DEF RepliesFirst, Answered, PendingSame, FlightInserted
<1>10. UnsubscribeLast'
  <2>1. ASSUME NEW p \in 1 .. Total', Flight'[p].what = "unsubscribe", NEW i \in 1 .. Len(Pending)
        PROVE  \E q \in 1 .. p - 1 : Flight'[q] = About("plain", Pending'[i])
    <3>1. p # Written + 1
      BY <1>7, <2>1
    <3>2. \A q \in 1 .. Total : Flight[q] = Flight'[p] => Answered(i, q - 1)
      BY <2>1 DEF Matched, UnsubscribeLast
    <3> QED
      BY <1>6, <3>1, <3>2
  <2> QED
    BY <2>1 DEF UnsubscribeLast, Answered, PendingSame
<1> QED
  BY <1>4, <1>5, <1>8, <1>9, <1>10 DEF Matched

LEMMA MatchedEnds ==
  ASSUME Bounds, Matched, FlightCut, PendingSame, server' = "closed", Now' = {}
  PROVE  Matched'
<1>1. ASSUME NEW i, NEW n \in 0 .. Written, Answered(i, n)
      PROVE  \E q \in 1 .. n : Flight'[q] = About("plain", Pending'[i])
  BY <1>1 DEF Answered, FlightCut, PendingSame, Bounds
<1>2. \A p \in 1 .. Total' : p \in 1 .. Total /\ p - 1 \in 0 .. Written /\ Flight'[p] = Flight[p]
  BY DEF FlightCut, Bounds
<1>3. Owned'
  BY <1>2 DEF Matched, Owned, PendingSame
<1>4. Owed'
  BY DEF Owed
<1>5. InOrder'
  <2> SUFFICES ASSUME NEW j \in 1 .. Len(Pending), NEW p \in 1 .. Total',
                      Flight'[p] = About("plain", Pending[j]), NEW i \in 1 .. j - 1
               PROVE  \E q \in 1 .. p - 1 : Flight'[q] = About("plain", Pending'[i])
    BY DEF InOrder, Answered, PendingSame
  <2>1. Answered(i, p - 1)
    BY <1>2 DEF Matched, InOrder
  <2> QED
    BY <1>1, <1>2, <2>1
<1>6. RepliesFirst'
  <2> SUFFICES ASSUME NEW p \in 1 .. Total', Flight'[p].what \in PubSub, NEW i \in 1 .. Len(replies)
               PROVE  \E q \in 1 .. p - 1 : Flight'[q] = About("plain", Pending'[i])
    BY DEF RepliesFirst, Answered, PendingSame
  <2>1. Answered(i, p - 1)
    BY <1>2 DEF Matched, RepliesFirst
  <2> QED
    BY <1>1, <1>2, <2>1
<1>7. UnsubscribeLast'
  <2> SUFFICES ASSUME NEW p \in 1 .. Total', Flight'[p].what = "unsubscribe", NEW i \in 1 .. Len(Pending)
               PROVE  \E q \in 1 .. p - 1 : Flight'[q] = About("plain", Pending'[i])
    BY DEF UnsubscribeLast, Answered, PendingSame
  <2>1. Answered(i, p - 1)
    BY <1>2 DEF Matched, UnsubscribeLast
  <2> QED
    BY <1>1, <1>2, <2>1
<1> QED
  BY <1>3, <1>4, <1>5, <1>6, <1>7 DEF Matched

\* Nothing is on its way but a refusal.
LEMMA MatchedRefused ==
  ASSUME server' = "closed", Now' = {}, \A p \in 1 .. Total' : Flight'[p].what = "refusal"
  PROVE  Matched'
BY DEF Matched, Owned, Owed, InOrder, RepliesFirst, UnsubscribeLast, About, PubSub

-----------------------------------------------------------------------------
(* And every subscription is counted.                                      *)

LEMMA SameCount ==
  ASSUME NEW S, NEW T, IsFiniteSet(S), NEW f \in [S -> T],
         \A x, y \in S : f[x] = f[y] => x = y,
         \A y \in T : \E x \in S : f[x] = y
  PROVE  Cardinality(T) = Cardinality(S)
<1>1. f \in Bijection(S, T)
  BY DEF Bijection, Injection, Surjection, IsInjective
<1> QED
  BY <1>1, FS_Bijection DEF ExistsBijection

LEMMA AwaitedFinite ==
  ASSUME Bounds, NEW ch
  PROVE  IsFiniteSet(Awaited(ch)) /\ Cardinality(Awaited(ch)) \in Nat
<1>1. IsFiniteSet(1 .. Total)
  <2>1. 1 \in Int /\ Total \in Int
    BY DEF Bounds
  <2> QED
    BY <2>1, FS_Interval
<1>2. Awaited(ch) \in SUBSET (1 .. Total)
  BY DEF Awaited
<1> QED
  BY <1>1, <1>2, FS_Subset, FS_CardinalityType

LEMMA CountStays ==
  ASSUME Total' = Total, Flight' = Flight, NEW ch
  PROVE  Awaited(ch)' = Awaited(ch)
BY DEF Awaited

LEMMA CountGrows ==
  ASSUME Bounds, NEW x, FlightGrows(x), NEW ch
  PROVE  Cardinality(Awaited(ch)') =
           IF x = About("subscribe", ch) THEN Cardinality(Awaited(ch)) + 1
                                         ELSE Cardinality(Awaited(ch))
<1>1. \A p \in 1 .. Total + 1 : p \in 1 .. Total \/ p = Total + 1
  BY DEF Bounds
<1>2. Total + 1 \in 1 .. Total + 1 /\ \A p \in 1 .. Total : p \in 1 .. Total + 1 /\ p # Total + 1
  BY DEF Bounds
<1>3. CASE x = About("subscribe", ch)
  <2>1. Awaited(ch)' = Awaited(ch) \cup {Total + 1} /\ Total + 1 \notin Awaited(ch)
    BY <1>1, <1>2, <1>3 DEF Awaited, FlightGrows
  <2> QED
    BY <1>3, <2>1, AwaitedFinite, FS_AddElement
<1>4. CASE x # About("subscribe", ch)
  <2>1. Awaited(ch)' = Awaited(ch)
    BY <1>1, <1>2, <1>4 DEF Awaited, FlightGrows
  <2> QED
    BY <1>4, <2>1
<1> QED
  BY <1>3, <1>4

LEMMA CountTakes ==
  ASSUME Bounds, FlightTaken, NEW ch
  PROVE  Cardinality(Awaited(ch)') =
           IF Flight[1] = About("subscribe", ch) THEN Cardinality(Awaited(ch)) - 1
                                                 ELSE Cardinality(Awaited(ch))
<1> DEFINE S == Awaited(ch) \ {1}
           f == [p \in S |-> p - 1]
<1>1. \A p \in S : p \in 2 .. Total /\ Flight[p] = About("subscribe", ch)
  BY DEF Awaited, Bounds
<1>2. \A p \in 2 .. Total : p - 1 \in 1 .. Total' /\ Flight'[p - 1] = Flight[p]
  <2> SUFFICES ASSUME NEW p \in 2 .. Total PROVE p - 1 \in 1 .. Total' /\ Flight'[p - 1] = Flight[p]
    OBVIOUS
  <2>1. p - 1 \in 1 .. Total - 1 /\ (p - 1) + 1 = p
    BY DEF Bounds
  <2> QED
    BY <2>1 DEF FlightTaken
<1>3. f \in [S -> Awaited(ch)']
  BY <1>1, <1>2 DEF Awaited
<1>4. \A p, q \in S : f[p] = f[q] => p = q
  BY <1>1 DEF Bounds
<1>5. \A q \in Awaited(ch)' : \E p \in S : f[p] = q
  <2> SUFFICES ASSUME NEW q \in Awaited(ch)' PROVE q + 1 \in S /\ f[q + 1] = q
    OBVIOUS
  <2>1. q \in 1 .. Total - 1 /\ Flight[q + 1] = About("subscribe", ch)
    BY DEF Awaited, FlightTaken
  <2>2. q + 1 \in 1 .. Total /\ q + 1 # 1 /\ (q + 1) - 1 = q
    BY <2>1 DEF Bounds
  <2> QED
    BY <2>1, <2>2 DEF Awaited
<1>6. IsFiniteSet(S) /\ Cardinality(S) = IF 1 \in Awaited(ch) THEN Cardinality(Awaited(ch)) - 1
                                                             ELSE Cardinality(Awaited(ch))
  BY AwaitedFinite, FS_RemoveElement
<1> HIDE DEF S, f
<1>7. Cardinality(Awaited(ch)') = Cardinality(S)
  BY <1>3, <1>4, <1>5, <1>6, SameCount
<1>8. 1 \in Awaited(ch) <=> Flight[1] = About("subscribe", ch)
  BY DEF Awaited, FlightTaken, Bounds
<1> QED
  BY <1>6, <1>7, <1>8

LEMMA CountSpeaks ==
  ASSUME Bounds, NEW x, FlightInserted(x), NEW ch, x # About("subscribe", ch)
  PROVE  Cardinality(Awaited(ch)') = Cardinality(Awaited(ch))
<1> DEFINE f == [p \in Awaited(ch) |-> IF p <= Written THEN p ELSE p + 1]
<1>1. \A p \in Awaited(ch) : p \in 1 .. Total /\ Flight[p] = About("subscribe", ch)
  BY DEF Awaited
<1>2. ASSUME NEW p \in 1 .. Total
      PROVE  \/ p <= Written /\ p \in 1 .. Total' /\ Flight'[p] = Flight[p]
             \/ ~(p <= Written) /\ p + 1 \in 1 .. Total' /\ Flight'[p + 1] = Flight[p]
  <2>1. CASE p <= Written
    <3>1. p \in 1 .. Written /\ p \in 1 .. Total + 1
      BY <2>1 DEF Bounds
    <3> QED
      BY <2>1, <3>1 DEF FlightInserted
  <2>2. CASE ~(p <= Written)
    <3>1. p \in Written + 1 .. Total /\ p + 1 \in 1 .. Total + 1
      BY <2>2 DEF Bounds
    <3> QED
      BY <2>2, <3>1 DEF FlightInserted
  <2> QED
    BY <2>1, <2>2
<1>3. f \in [Awaited(ch) -> Awaited(ch)']
  BY <1>1, <1>2 DEF Awaited
<1>4. \A p, q \in Awaited(ch) : f[p] = f[q] => p = q
  BY <1>1 DEF Bounds
<1>5. \A q \in Awaited(ch)' : \E p \in Awaited(ch) : f[p] = q
  <2> SUFFICES ASSUME NEW q \in Awaited(ch)' PROVE \E p \in Awaited(ch) : f[p] = q
    OBVIOUS
  <2>1. q \in 1 .. Total + 1 /\ Flight'[q] = About("subscribe", ch)
    BY DEF Awaited, FlightInserted
  <2>2. CASE q \in 1 .. Written
    <3>1. q \in 1 .. Total /\ q <= Written /\ Flight[q] = About("subscribe", ch)
      BY <2>1, <2>2 DEF FlightInserted, Bounds
    <3> QED
      BY <3>1 DEF Awaited
  <2>3. CASE q = Written + 1
    BY <2>1, <2>3 DEF FlightInserted
  <2>4. CASE q \in Written + 2 .. Total + 1
    <3>1. q - 1 \in Written + 1 .. Total /\ (q - 1) + 1 = q
      BY <2>4 DEF Bounds
    <3>2. q - 1 \in 1 .. Total /\ ~(q - 1 <= Written)
      BY <3>1 DEF Bounds
    <3>3. Flight'[(q - 1) + 1] = Flight[q - 1]
      BY <3>1 DEF FlightInserted
    <3>4. q - 1 \in Awaited(ch)
      BY <2>1, <3>1, <3>2, <3>3 DEF Awaited
    <3>5. f[q - 1] = q
      BY <3>1, <3>2, <3>4
    <3> QED
      BY <3>4, <3>5
  <2> QED
    BY <2>1, <2>2, <2>3, <2>4 DEF Bounds
<1> HIDE DEF f
<1> QED
  BY <1>3, <1>4, <1>5, SameCount, AwaitedFinite

LEMMA CountEnds ==
  ASSUME Bounds, FlightCut, NEW ch
  PROVE  Cardinality(Awaited(ch)') <= Cardinality(Awaited(ch))
<1>1. Awaited(ch)' \in SUBSET Awaited(ch)
  BY DEF Awaited, FlightCut, Bounds
<1> QED
  BY <1>1, AwaitedFinite, FS_Subset

\* Nothing happens to the subscriptions.
SubscriptionsKept ==
  /\ channels' = channels /\ resp3' = resp3 /\ server' = server /\ subs' = subs /\ Now' = Now
  /\ "SUBSCRIBED" \in flags' <=> "SUBSCRIBED" \in flags
  /\ "SUBSCRIBED" \notin flags => invalid' = invalid

LEMMA SubscriptionStays ==
  ASSUME Subscription, FlightSame, Input' = Input, SubscriptionsKept
  PROVE  Subscription'
<1>0. Total' = Total /\ Written' = Written /\ Flight' = Flight
  BY DEF FlightSame
<1>1. NotSubscribed'
  BY <1>0 DEF Subscription, NotSubscribed, SubscriptionsKept
<1>2. EntriesFound'
  BY <1>0 DEF Subscription, EntriesFound, SubscriptionsKept
<1>3. OneUnsubscribe'
  BY <1>0 DEF Subscription, OneUnsubscribe
<1>4. Resubscribed'
  BY <1>0 DEF Subscription, Resubscribed, SubscriptionsKept
<1>5. EntryNeeded'
  BY <1>0 DEF Subscription, EntryNeeded, SubscriptionsKept
<1>6. SubscribedStill'
  BY <1>0 DEF Subscription, SubscribedStill, SubscriptionsKept
<1>7. LastOne'
  BY <1>0 DEF Subscription, LastOne, SubscriptionsKept
<1>8. Counted'
  <2>1. \A ch : Awaited(ch)' = Awaited(ch)
    BY <1>0, CountStays
  <2> QED
    BY <2>1 DEF Subscription, Counted, SubscriptionsKept
<1>9. Silent'
  BY <1>0 DEF Subscription, Silent, SubscriptionsKept
<1> QED
  BY <1>1, <1>2, <1>3, <1>4, <1>5, <1>6, <1>7, <1>8, <1>9 DEF Subscription

\* A plain command is sent, or an UNSUBSCRIBE when none is on its way.
LEMMA SubscriptionCommands ==
  ASSUME Bounds, Subscription, NEW x, FlightGrows(x), Input' = Input, SubscriptionsKept,
         server # "closed", x.what \in {"plain", "unsubscribe"},
         x.what = "unsubscribe" => /\ "SUBSCRIBED" \in flags
                                   /\ x.of \in DOMAIN channels
                                   /\ \A p \in 1 .. Total : Flight[p].what # "unsubscribe"
  PROVE  Subscription'
<1>0. Written' = Written /\ Total' = Total + 1 /\ Flight'[Total + 1] = x
  BY DEF FlightGrows
<1>a. \A p \in 1 .. Total + 1 : (p \in 1 .. Total /\ Flight'[p] = Flight[p]) \/ (p = Total + 1 /\ Flight'[p] = x)
  <2>1. \A p \in 1 .. Total + 1 : p \in 1 .. Total \/ p = Total + 1
    BY DEF Bounds
  <2> QED
    BY <2>1 DEF FlightGrows
<1>b. \A p \in 1 .. Written : p \in 1 .. Total /\ Flight'[p] = Flight[p]
  BY DEF Bounds, FlightGrows
<1>1. NotSubscribed'
  BY <1>0, <1>a DEF Subscription, NotSubscribed, SubscriptionsKept, PubSub
<1>2. EntriesFound'
  BY <1>0, <1>a DEF Subscription, EntriesFound, SubscriptionsKept, PubSub
<1>3. OneUnsubscribe'
  BY <1>0, <1>a DEF Subscription, OneUnsubscribe
<1>4. Resubscribed'
  <2>1. \A p \in 1 .. Written : \A q \in p + 1 .. Written : q \in 1 .. Written
    BY DEF Bounds
  <2> QED
    BY <1>0, <1>b, <2>1 DEF Subscription, Resubscribed, SubscriptionsKept
<1>5. EntryNeeded'
  <2>1. \A p \in Written + 1 .. Total : p \in Written + 1 .. Total + 1 /\ Flight'[p] = Flight[p]
    BY DEF Bounds, FlightGrows
  <2> QED
    BY <1>0, <1>b, <2>1 DEF Subscription, EntryNeeded, SubscriptionsKept
<1>6. SubscribedStill'
  <2>1. \A p \in 1 .. Written : \A q \in p + 1 .. Written : q \in 1 .. Written
    BY DEF Bounds
  <2> QED
    BY <1>0, <1>b, <2>1 DEF Subscription, SubscribedStill, SubscriptionsKept
<1>7. LastOne'
  BY <1>0 DEF Subscription, LastOne, SubscriptionsKept
<1>8. Counted'
  <2>1. \A ch : Cardinality(Awaited(ch)') = Cardinality(Awaited(ch))
    <3> SUFFICES ASSUME NEW ch PROVE Cardinality(Awaited(ch)') = Cardinality(Awaited(ch))
      OBVIOUS
    <3>1. x # About("subscribe", ch)
      BY DEF About
    <3> QED
      BY <3>1, CountGrows
  <2> QED
    BY <2>1 DEF Subscription, Counted, SubscriptionsKept
<1>9. Silent'
  BY <1>0, <1>a DEF Subscription, Silent, SubscriptionsKept
<1> QED
  BY <1>1, <1>2, <1>3, <1>4, <1>5, <1>6, <1>7, <1>8, <1>9 DEF Subscription

\* A SUBSCRIBE is sent.
ChannelAdded(cmd) ==
  channels' = [c \in DOMAIN channels \cup {Args[cmd][1]} |->
                 IF c = Args[cmd][1]
                   THEN [fn |-> cmd, pending_subs |-> IF c \in DOMAIN channels
                                                        THEN channels[c].pending_subs + 1 ELSE 1]
                   ELSE channels[c]]

LEMMA SubscriptionAdds ==
  ASSUME Bounds, Subscription, Types, NEW cmd \in Subscribes, ChannelAdded(cmd),
         Input' = Input, Now' = Now, subs' = subs, server' = server, resp3' = resp3,
         "SUBSCRIBED" \in flags',
         \/ server # "closed" /\ FlightGrows(About("subscribe", Args[cmd][1]))
         \/ server = "closed" /\ FlightSame
  PROVE  Subscription'
<1> DEFINE ch == Args[cmd][1]
           x == About("subscribe", ch)
<1>0. /\ DOMAIN channels' = DOMAIN channels \cup {ch}
      /\ \A c \in DOMAIN channels : c # ch => channels'[c] = channels[c]
      /\ channels'[ch].fn = cmd
      /\ channels'[ch].pending_subs = IF ch \in DOMAIN channels THEN channels[ch].pending_subs + 1 ELSE 1
  BY DEF ChannelAdded
<1>a. /\ Written' = Written /\ Total' \in {Total, Total + 1}
      /\ \A p \in 1 .. Total : Flight'[p] = Flight[p]
      /\ Total' = Total + 1 => Flight'[Total + 1] = x
  BY DEF FlightGrows, FlightSame, Bounds
<1>b. \A p \in 1 .. Total' : (p \in 1 .. Total /\ Flight'[p] = Flight[p]) \/ (p = Total + 1 /\ Flight'[p] = x)
  <2>1. \A p \in 1 .. Total + 1 : p \in 1 .. Total \/ p = Total + 1
    BY DEF Bounds
  <2>2. \A p \in 1 .. Total : p # Total + 1
    BY DEF Bounds
  <2> QED
    BY <1>a, <2>1, <2>2
<1>c. \A p \in 1 .. Written : p \in 1 .. Total /\ Flight'[p] = Flight[p]
  BY <1>a DEF Bounds
<1>d. \A p \in 1 .. Written : \A q \in p + 1 .. Written : q \in 1 .. Written
  BY DEF Bounds
<1>e. x.what = "subscribe" /\ x.of = ch
  BY DEF About
<1> HIDE DEF ch, x
<1>1. NotSubscribed'
  BY DEF NotSubscribed
<1>2. EntriesFound'
  BY <1>0, <1>b, <1>e DEF Subscription, EntriesFound
<1>3. OneUnsubscribe'
  BY <1>b, <1>e DEF Subscription, OneUnsubscribe
<1>4. Resubscribed'
  BY <1>a, <1>c, <1>d DEF Subscription, Resubscribed
<1>5. EntryNeeded'
  <2> SUFFICES ASSUME ~resp3, server # "closed", NEW c \in DOMAIN channels'
               PROVE  \/ c \in Now
                      \/ \E p \in Written + 1 .. Total' : Flight'[p] = About("subscribe", c)
                      \/ \E p \in 1 .. Written : Flight'[p] = About("unsubscribe", c)
    BY <1>a DEF EntryNeeded
  <2>1. Total' = Total + 1
    BY DEF FlightGrows
  <2>2. CASE c = ch
    <3>1. Total + 1 \in Written + 1 .. Total'
      BY <2>1 DEF Bounds
    <3> QED
      BY <1>a, <2>1, <2>2, <3>1 DEF x
  <2>3. CASE c \in DOMAIN channels
    <3>1. \A p \in Written + 1 .. Total : p \in Written + 1 .. Total' /\ Flight'[p] = Flight[p]
      BY <1>a, <2>1 DEF Bounds
    <3> QED
      BY <1>c, <2>3, <3>1 DEF Subscription, EntryNeeded
  <2> QED
    BY <1>0, <2>2, <2>3
<1>6. SubscribedStill'
  BY <1>a, <1>c, <1>d DEF Subscription, SubscribedStill
<1>7. LastOne'
  <2>1. \A p \in 1 .. Written : Input[p].kind = "unsubscribe" /\ Input[p].left # 0 =>
          \E c \in DOMAIN channels' : c # Input[p].of
    BY <1>0 DEF Subscription, LastOne
  <2>2. DOMAIN channels' # {}
    BY <1>0
  <2> QED
    BY <1>a, <2>1, <2>2 DEF LastOne
<1>8. Counted'
  <2> SUFFICES ASSUME NEW c \in DOMAIN channels'
               PROVE  /\ channels'[c].pending_subs >= Cardinality(Awaited(c)')
                      /\ server # "closed" => channels'[c].pending_subs = Cardinality(Awaited(c)')
                      /\ Args[channels'[c].fn][1] = c
    BY DEF Counted
  <2>1. CASE c # ch
    <3>1. Cardinality(Awaited(c)') = Cardinality(Awaited(c))
      <4>1. CASE FlightGrows(x)
        <5>1. x # About("subscribe", c)
          BY <2>1, <1>e DEF About
        <5> QED
          BY <4>1, <5>1, CountGrows
      <4>2. CASE FlightSame
        BY <4>2, CountStays DEF FlightSame
      <4> QED
        BY <4>1, <4>2 DEF x, ch
    <3> QED
      BY <1>0, <2>1, <3>1 DEF Subscription, Counted
  <2>2. CASE c = ch
    <3>1. Cardinality(Awaited(ch)) \in Nat
      BY AwaitedFinite
    <3>2. ch \notin DOMAIN channels => Cardinality(Awaited(ch)) = 0
      <4> SUFFICES ASSUME ch \notin DOMAIN channels PROVE Cardinality(Awaited(ch)) = 0
        OBVIOUS
      <4>1. Awaited(ch) = {}
        BY DEF Subscription, EntriesFound, Awaited, About, PubSub
      <4> QED
        BY <4>1, FS_EmptySet
    <3>3. ch \in DOMAIN channels =>
            /\ channels[ch].pending_subs \in Int
            /\ channels[ch].pending_subs >= Cardinality(Awaited(ch))
            /\ server # "closed" => channels[ch].pending_subs = Cardinality(Awaited(ch))
      BY DEF Types, Entry, Subscription, Counted
    <3>6. Args[channels'[c].fn][1] = c
      BY <1>0, <2>2 DEF ch
    <3> DEFINE pending == channels'[ch].pending_subs
               n == Cardinality(Awaited(ch))
    <3>7. pending \in Int /\ pending >= n + 1 /\ (server # "closed" => pending = n + 1)
      BY <1>0, <3>1, <3>2, <3>3
    <3>8. n \in Nat
      BY <3>1
    <3> HIDE DEF pending, n
    <3>4. CASE server # "closed"
      <4>1. FlightGrows(x)
        BY <3>4 DEF x, ch
      <4>2. Cardinality(Awaited(ch)') = n + 1
        BY <4>1, CountGrows DEF x, n
      <4>3. pending >= Cardinality(Awaited(ch)') /\ pending = Cardinality(Awaited(ch)')
        BY <3>4, <3>7, <3>8, <4>2
      <4> QED
        BY <2>2, <3>4, <3>6, <4>3 DEF pending
    <3>5. CASE server = "closed"
      <4>1. Cardinality(Awaited(ch)') = n
        BY <3>5, CountStays DEF FlightSame, n
      <4>2. pending >= Cardinality(Awaited(ch)')
        BY <3>7, <3>8, <4>1
      <4> QED
        BY <2>2, <3>5, <3>6, <4>2 DEF pending
    <3> QED
      BY <3>4, <3>5
  <2> QED
    BY <2>1, <2>2
<1>9. Silent'
  <2>1. \A p \in 1 .. Total' : Flight'[p].what # "refusal" \/ (p \in 1 .. Total /\ Flight'[p] = Flight[p])
    BY <1>b, <1>e
  <2>2. \A p \in 1 .. Total' : Flight'[p].what # "message" \/ (p \in 1 .. Total /\ Flight'[p] = Flight[p])
    BY <1>b, <1>e
  <2>3. server = "closed" => Total' = Total
    BY DEF FlightSame
  <2> QED
    BY <1>a, <2>1, <2>2, <2>3 DEF Subscription, Silent
<1> QED
  BY <1>1, <1>2, <1>3, <1>4, <1>5, <1>6, <1>7, <1>8, <1>9 DEF Subscription

\* The server has read a command.
Obeyed(x) ==
  Now' = IF x.what = "subscribe" THEN Now \cup {x.of}
         ELSE IF x.what = "unsubscribe" THEN Now \ {x.of}
         ELSE Now

LEMMA SubscriptionWrites ==
  ASSUME Bounds, Subscription, FlightWritten, Written < Total, NEW x, x = Flight[Written + 1],
         Obeyed(x), x.what \in {"plain", "subscribe", "unsubscribe"}, x = About(x.what, x.of),
         server # "closed", server' = "open", resp3' = resp3, channels' = channels, flags' = flags,
         invalid' = invalid,
         Input'[Written + 1].kind = "unsubscribe" /\ Input'[Written + 1].left # 0 =>
           \E c \in Now : c # Input'[Written + 1].of
  PROVE  Subscription'
<1>0. /\ Written' = Written + 1 /\ Total' = Total /\ Flight' = Flight
      /\ \A p \in 1 .. Written : Input'[p] = Input[p]
  BY DEF FlightWritten
<1>a. ASSUME NEW p \in 1 .. Written + 1 PROVE p \in 1 .. Written \/ p = Written + 1
  BY DEF Bounds
<1>b. Written + 1 \in 1 .. Total
  BY DEF Bounds
<1>c. \A p \in 1 .. Written : p \in 1 .. Total /\ Written + 1 \in p + 1 .. Written + 1
  BY DEF Bounds
<1>d. \A p \in 1 .. Written : \A q \in p + 1 .. Written : q \in p + 1 .. Written + 1 /\ q \in 1 .. Written
  BY DEF Bounds
<1>e. \A p \in 1 .. Written : \A q \in p + 1 .. Written + 1 : q \in p + 1 .. Written \/ q = Written + 1
  BY DEF Bounds
<1>1. NotSubscribed'
  <2> SUFFICES ASSUME "SUBSCRIBED" \notin flags
               PROVE  /\ invalid = << >> /\ Now' = {} /\ DOMAIN channels = {}
                      /\ \A p \in 1 .. Total : Flight[p].what \notin PubSub
    BY <1>0 DEF NotSubscribed
  <2>1. /\ invalid = << >> /\ Now = {} /\ DOMAIN channels = {}
        /\ \A p \in 1 .. Total : Flight[p].what \notin PubSub
    BY DEF Subscription, NotSubscribed
  <2>2. x.what \notin PubSub
    BY <1>b, <2>1
  <2> QED
    BY <2>1, <2>2 DEF PubSub, Obeyed
<1>2. EntriesFound'
  <2>1. x.what = "subscribe" => x.of \in DOMAIN channels
    BY <1>b DEF Subscription, EntriesFound, PubSub
  <2>2. Now' \subseteq DOMAIN channels
    BY <2>1 DEF Subscription, EntriesFound, Obeyed
  <2> QED
    BY <1>0, <2>2 DEF Subscription, EntriesFound
<1>3. OneUnsubscribe'
  BY <1>0 DEF Subscription, OneUnsubscribe
<1>4. Resubscribed'
  <2> SUFFICES ASSUME NEW p \in 1 .. Written + 1, Flight[p].what = "unsubscribe"
               PROVE  \/ /\ Flight[p].of \notin Now'
                         /\ \A q \in p + 1 .. Written + 1 : Flight[q] # About("message", Flight[p].of)
                      \/ \E q \in p + 1 .. Written + 1 : Flight[q] = About("subscribe", Flight[p].of)
    BY <1>0 DEF Resubscribed
  <2>1. CASE p = Written + 1
    <3>1. \A q \in p + 1 .. Written + 1 : FALSE
      BY <2>1 DEF Bounds
    <3>2. Flight[p] = x
      BY <2>1
    <3> QED
      BY <3>1, <3>2 DEF Obeyed
  <2>2. CASE p \in 1 .. Written
    <3>1. CASE \E q \in p + 1 .. Written : Flight[q] = About("subscribe", Flight[p].of)
      BY <1>d, <2>2, <3>1
    <3>2. CASE x = About("subscribe", Flight[p].of)
      BY <1>c, <2>2, <3>2
    <3>3. CASE /\ x # About("subscribe", Flight[p].of) /\ Flight[p].of \notin Now
               /\ \A q \in p + 1 .. Written : Flight[q] # About("message", Flight[p].of)
      <4>1. Flight[p].of \notin Now'
        BY <3>3 DEF Obeyed
      <4>2. x # About("message", Flight[p].of)
        BY DEF About
      <4>3. \A q \in p + 1 .. Written + 1 : Flight[q] # About("message", Flight[p].of)
        BY <1>e, <2>2, <3>3, <4>2
      <4> QED
        BY <4>1, <4>3
    <3> QED
      BY <2>2, <3>1, <3>2, <3>3 DEF Subscription, Resubscribed
  <2> QED
    BY <1>a, <2>1, <2>2
<1>5. EntryNeeded'
  <2> SUFFICES ASSUME ~resp3, NEW c \in DOMAIN channels
               PROVE  \/ c \in Now'
                      \/ \E p \in (Written + 1) + 1 .. Total : Flight[p] = About("subscribe", c)
                      \/ \E p \in 1 .. Written + 1 : Flight[p] = About("unsubscribe", c)
    BY <1>0 DEF EntryNeeded
  <2>1. CASE c \in Now
    <3>1. CASE x.what = "unsubscribe" /\ x.of = c
      <4>1. Written + 1 \in 1 .. Written + 1
        BY DEF Bounds
      <4> QED
        BY <3>1, <4>1
    <3>2. CASE ~(x.what = "unsubscribe" /\ x.of = c)
      BY <2>1, <3>2 DEF Obeyed
    <3> QED
      BY <3>1, <3>2
  <2>2. CASE \E p \in Written + 1 .. Total : Flight[p] = About("subscribe", c)
    <3>1. PICK p \in Written + 1 .. Total : Flight[p] = About("subscribe", c)
      BY <2>2
    <3>2. CASE p = Written + 1
      BY <3>1, <3>2 DEF Obeyed, About
    <3>3. CASE p # Written + 1
      <4>1. p \in (Written + 1) + 1 .. Total
        BY <3>3 DEF Bounds
      <4> QED
        BY <3>1, <4>1
    <3> QED
      BY <3>2, <3>3
  <2>3. CASE \E p \in 1 .. Written : Flight[p] = About("unsubscribe", c)
    <3>1. \A p \in 1 .. Written : p \in 1 .. Written + 1
      BY DEF Bounds
    <3> QED
      BY <2>3, <3>1
  <2> QED
    BY <2>1, <2>2, <2>3 DEF Subscription, EntryNeeded
<1>6. SubscribedStill'
  <2> SUFFICES ASSUME NEW p \in 1 .. Written + 1, Flight[p].what = "subscribe"
               PROVE  \/ Flight[p].of \in Now'
                      \/ \E q \in p + 1 .. Written + 1 : Flight[q] = About("unsubscribe", Flight[p].of)
    BY <1>0 DEF SubscribedStill
  <2>1. CASE p = Written + 1
    BY <2>1 DEF Obeyed
  <2>2. CASE p \in 1 .. Written
    <3>1. CASE x.what = "unsubscribe" /\ x.of = Flight[p].of
      BY <1>c, <2>2, <3>1
    <3>2. CASE Flight[p].of \in Now /\ ~(x.what = "unsubscribe" /\ x.of = Flight[p].of)
      BY <3>2 DEF Obeyed
    <3>3. CASE \E q \in p + 1 .. Written : Flight[q] = About("unsubscribe", Flight[p].of)
      BY <1>d, <2>2, <3>3
    <3> QED
      BY <2>2, <3>1, <3>2, <3>3 DEF Subscription, SubscribedStill
  <2> QED
    BY <1>a, <2>1, <2>2
<1>7. LastOne'
  <2>1. ASSUME NEW p \in 1 .. Written + 1, Input'[p].kind = "unsubscribe", Input'[p].left # 0
        PROVE  \E c \in DOMAIN channels : c # Input'[p].of
    <3>1. CASE p = Written + 1
      <4>1. PICK c \in Now : c # Input'[p].of
        BY <2>1, <3>1
      <4>2. c \in DOMAIN channels
        BY DEF Subscription, EntriesFound
      <4> QED
        BY <4>1, <4>2
    <3>2. CASE p \in 1 .. Written
      BY <1>0, <2>1, <3>2 DEF Subscription, LastOne
    <3> QED
      BY <1>a, <3>1, <3>2
  <2> QED
    BY <1>0, <2>1 DEF Subscription, LastOne
<1>8. Counted'
  <2>1. \A c : Awaited(c)' = Awaited(c)
    BY <1>0, CountStays
  <2> QED
    BY <2>1 DEF Subscription, Counted
<1>9. Silent'
  <2>1. \A p \in 1 .. Total : Flight[p].what # "refusal"
    BY DEF Subscription, Silent
  <2>2. \A p \in 1 .. Total : Flight[p].what = "message" => p <= Written + 1
    BY DEF Subscription, Silent, Bounds
  <2> QED
    BY <1>0, <2>1, <2>2 DEF Silent
<1> QED
  BY <1>1, <1>2, <1>3, <1>4, <1>5, <1>6, <1>7, <1>8, <1>9 DEF Subscription

\* A reply is taken: where the others go.
LEMMA TakenPlaces ==
  ASSUME Bounds, FlightTaken
  PROVE  /\ Total' \in Nat /\ Written' \in Nat /\ 1 \in 1 .. Written /\ 1 \in 1 .. Total
         /\ \A p \in 1 .. Total' : p + 1 \in 1 .. Total /\ p + 1 # 1 /\ Flight'[p] = Flight[p + 1]
         /\ \A p \in 1 .. Written' : p + 1 \in 1 .. Written /\ Input'[p] = Input[p + 1]
         /\ \A p \in 1 .. Written' : p \in 1 .. Total'
         /\ \A p \in 1 .. Total : p = 1 \/ (p - 1 \in 1 .. Total' /\ Flight'[p - 1] = Flight[p])
         /\ \A p \in 1 .. Written : p = 1 \/ p - 1 \in 1 .. Written'
         /\ \A p \in Written + 1 .. Total : p \in 1 .. Total /\ p # 1 /\ p - 1 \in Written' + 1 .. Total'
         /\ \A p, q \in 1 .. Total' : p + 1 = q + 1 => p = q
         /\ \A p \in 1 .. Written' : \A q \in p + 1 .. Written' :
              q \in 1 .. Total' /\ q + 1 \in (p + 1) + 1 .. Written
         /\ \A p \in 1 .. Written' : \A q \in (p + 1) + 1 .. Written :
              q \in 1 .. Total /\ q # 1 /\ q - 1 \in p + 1 .. Written'
<1>1. Written > 0 /\ Written' = Written - 1 /\ Total' = Total - 1
  BY DEF FlightTaken
<1>2. \A p \in 1 .. Total' : p + 1 \in 1 .. Total /\ p + 1 # 1 /\ Flight'[p] = Flight[p + 1]
  BY <1>1 DEF Bounds, FlightTaken
<1>3. \A p \in 1 .. Written' : p + 1 \in 1 .. Written /\ Input'[p] = Input[p + 1]
  BY <1>1 DEF Bounds, FlightTaken
<1>4. ASSUME NEW p \in 1 .. Total, p # 1 PROVE p - 1 \in 1 .. Total' /\ Flight'[p - 1] = Flight[p]
  <2>1. p - 1 \in 1 .. Total' /\ (p - 1) + 1 = p
    BY <1>1, <1>4 DEF Bounds
  <2> QED
    BY <1>2, <2>1
<1>5. /\ Total' \in Nat /\ Written' \in Nat /\ 1 \in 1 .. Written /\ 1 \in 1 .. Total
      /\ \A p \in 1 .. Written' : p \in 1 .. Total'
      /\ \A p \in 1 .. Written : p = 1 \/ p - 1 \in 1 .. Written'
      /\ \A p \in Written + 1 .. Total : p \in 1 .. Total /\ p # 1 /\ p - 1 \in Written' + 1 .. Total'
      /\ \A p, q \in 1 .. Total' : p + 1 = q + 1 => p = q
  BY <1>1 DEF Bounds
<1>6. ASSUME NEW p \in 1 .. Written', NEW q \in p + 1 .. Written'
      PROVE  q \in 1 .. Total' /\ q + 1 \in (p + 1) + 1 .. Written
  BY <1>1 DEF Bounds
<1>7. ASSUME NEW p \in 1 .. Written', NEW q \in (p + 1) + 1 .. Written
      PROVE  q \in 1 .. Total /\ q # 1 /\ q - 1 \in p + 1 .. Written'
  BY <1>1 DEF Bounds
<1>8. \A p \in 1 .. Total : p = 1 \/ (p - 1 \in 1 .. Total' /\ Flight'[p - 1] = Flight[p])
  BY <1>4
<1> QED
  BY <1>2, <1>3, <1>5, <1>6, <1>7, <1>8

LEMMA SubscriptionTakes ==
  ASSUME Bounds, Subscription, FlightTaken, Now' = Now, server' = server
  PROVE  OneUnsubscribe' /\ Resubscribed' /\ SubscribedStill' /\ Silent'
<1>1. OneUnsubscribe'
  BY TakenPlaces DEF Subscription, OneUnsubscribe
<1>2. Resubscribed'
  <2> SUFFICES ASSUME NEW p \in 1 .. Written', Flight'[p].what = "unsubscribe"
               PROVE  \/ /\ Flight'[p].of \notin Now
                         /\ \A q \in p + 1 .. Written' : Flight'[q] # About("message", Flight'[p].of)
                      \/ \E q \in p + 1 .. Written' : Flight'[q] = About("subscribe", Flight'[p].of)
    BY DEF Resubscribed
  <2>1. p + 1 \in 1 .. Written /\ Flight'[p] = Flight[p + 1]
    BY TakenPlaces
  <2>2. \A q \in p + 1 .. Written' : q + 1 \in (p + 1) + 1 .. Written /\ Flight'[q] = Flight[q + 1]
    BY TakenPlaces
  <2>3. \A q \in (p + 1) + 1 .. Written : q - 1 \in p + 1 .. Written' /\ Flight'[q - 1] = Flight[q]
    BY TakenPlaces
  <2> QED
    BY <2>1, <2>2, <2>3 DEF Subscription, Resubscribed
<1>3. SubscribedStill'
  <2> SUFFICES ASSUME NEW p \in 1 .. Written', Flight'[p].what = "subscribe", server # "closed"
               PROVE  \/ Flight'[p].of \in Now
                      \/ \E q \in p + 1 .. Written' : Flight'[q] = About("unsubscribe", Flight'[p].of)
    BY DEF SubscribedStill
  <2>1. p + 1 \in 1 .. Written /\ Flight'[p] = Flight[p + 1]
    BY TakenPlaces
  <2>3. \A q \in (p + 1) + 1 .. Written : q - 1 \in p + 1 .. Written' /\ Flight'[q - 1] = Flight[q]
    BY TakenPlaces
  <2> QED
    BY <2>1, <2>3 DEF Subscription, SubscribedStill
<1>4. Silent'
  <2>1. ASSUME NEW p \in 1 .. Total', Flight'[p].what = "refusal" PROVE FALSE
    <3>1. p + 1 \in 1 .. Total /\ Flight[p + 1].what = "refusal"
      BY <2>1, TakenPlaces
    <3>2. Total = 1
      BY <3>1 DEF Subscription, Silent
    <3> QED
      BY <3>1, <3>2
  <2>2. ASSUME NEW p \in 1 .. Total', Flight'[p].what = "message" PROVE p <= Written'
    <3>1. p + 1 \in 1 .. Total /\ Flight[p + 1].what = "message"
      BY <2>2, TakenPlaces
    <3>2. p + 1 <= Written
      BY <3>1 DEF Subscription, Silent
    <3> QED
      BY <3>2 DEF FlightTaken, Bounds
  <2>3. server # "new"
    BY DEF Subscription, Silent, FlightTaken
  <2> QED
    BY <2>1, <2>2, <2>3 DEF Silent
<1> QED
  BY <1>1, <1>2, <1>3, <1>4

\* The channels stay as they are.
LEMMA SubscriptionPasses ==
  ASSUME Bounds, Subscription, FlightTaken, SubscriptionsKept, Flight[1].what # "subscribe",
         \/ Flight[1].what # "unsubscribe"
         \/ resp3
         \/ \E ch \in DOMAIN channels :
              Flight[1] = About("unsubscribe", ch) /\ channels[ch].pending_subs # 0
  PROVE  Subscription'
<1>0. Now' = Now /\ server' = server /\ channels' = channels /\ resp3' = resp3
  BY DEF SubscriptionsKept
<1>1. NotSubscribed'
  BY TakenPlaces DEF Subscription, NotSubscribed, SubscriptionsKept
<1>2. EntriesFound'
  BY <1>0, TakenPlaces DEF Subscription, EntriesFound
<1>3. EntryNeeded'
  <2> SUFFICES ASSUME ~resp3, server # "closed", NEW c \in DOMAIN channels
               PROVE  \/ c \in Now
                      \/ \E p \in Written' + 1 .. Total' : Flight'[p] = About("subscribe", c)
                      \/ \E p \in 1 .. Written' : Flight'[p] = About("unsubscribe", c)
    BY <1>0 DEF EntryNeeded
  <2>1. CASE \E p \in Written + 1 .. Total : Flight[p] = About("subscribe", c)
    BY <2>1, TakenPlaces
  <2>2. CASE \E p \in 1 .. Written : p # 1 /\ Flight[p] = About("unsubscribe", c)
    <3>1. \A p \in 1 .. Written : p \in 1 .. Total
      BY DEF Bounds
    <3> QED
      BY <2>2, <3>1, TakenPlaces
  <2>3. CASE Flight[1] = About("unsubscribe", c)
    <3>1. channels[c].pending_subs # 0
      <4>1. Flight[1].what = "unsubscribe" /\ Flight[1].of = c
        BY <2>3 DEF About
      <4>2. PICK ch \in DOMAIN channels : Flight[1] = About("unsubscribe", ch) /\ channels[ch].pending_subs # 0
        BY <4>1
      <4> QED
        BY <4>1, <4>2 DEF About
    <3>2. Awaited(c) # {}
      <4>1. Cardinality(Awaited(c)) = channels[c].pending_subs
        BY DEF Subscription, Counted
      <4> QED
        BY <3>1, <4>1, FS_EmptySet
    <3>3. PICK q \in 1 .. Total : Flight[q] = About("subscribe", c)
      BY <3>2 DEF Awaited
    <3>4. CASE q \in Written + 1 .. Total
      BY <2>1, <3>3, <3>4
    <3>5. CASE q \in 1 .. Written
      <4>1. \/ c \in Now
            \/ \E r \in q + 1 .. Written : Flight[r] = About("unsubscribe", c)
        BY <3>3, <3>5 DEF Subscription, SubscribedStill, About
      <4>2. ASSUME NEW r \in q + 1 .. Written, Flight[r] = About("unsubscribe", c) PROVE FALSE
        <5>1. r \in 1 .. Total /\ r # 1 /\ 1 \in 1 .. Total
          BY DEF Bounds
        <5> QED
          BY <2>3, <4>2, <5>1 DEF Subscription, OneUnsubscribe, About
      <4> QED
        BY <4>1, <4>2
    <3> QED
      BY <3>4, <3>5 DEF Bounds
  <2> QED
    BY <2>1, <2>2, <2>3 DEF Subscription, EntryNeeded
<1>4. LastOne'
  BY <1>0, TakenPlaces DEF Subscription, LastOne, SubscriptionsKept
<1>5. Counted'
  <2>1. \A ch : Flight[1] # About("subscribe", ch)
    BY DEF About
  <2>2. \A ch : Cardinality(Awaited(ch)') = Cardinality(Awaited(ch))
    BY <2>1, CountTakes
  <2> QED
    BY <1>0, <2>2 DEF Subscription, Counted
<1> QED
  BY <1>0, <1>1, <1>2, <1>3, <1>4, <1>5, SubscriptionTakes DEF Subscription

\* The answer to a SUBSCRIBE.
LEMMA SubscriptionCounts ==
  ASSUME Bounds, Subscription, Types, FlightTaken, Now' = Now, server' = server, resp3' = resp3,
         "SUBSCRIBED" \in flags' <=> "SUBSCRIBED" \in flags, invalid' = invalid,
         NEW ch \in DOMAIN channels, Flight[1] = About("subscribe", ch),
         channels' = [channels EXCEPT ![ch].pending_subs = @ - 1]
  PROVE  Subscription' /\ channels'[ch].pending_subs >= 0
<1>0. /\ DOMAIN channels' = DOMAIN channels
      /\ \A c \in DOMAIN channels : c # ch => channels'[c] = channels[c]
      /\ channels'[ch].fn = channels[ch].fn
      /\ channels'[ch].pending_subs = channels[ch].pending_subs - 1
  BY DEF Types, Entry
<1>1. NotSubscribed'
  BY <1>0, TakenPlaces DEF Subscription, NotSubscribed
<1>2. EntriesFound'
  BY <1>0, TakenPlaces DEF Subscription, EntriesFound
<1>3. EntryNeeded'
  <2> SUFFICES ASSUME ~resp3, server # "closed", NEW c \in DOMAIN channels
               PROVE  \/ c \in Now
                      \/ \E p \in Written' + 1 .. Total' : Flight'[p] = About("subscribe", c)
                      \/ \E p \in 1 .. Written' : Flight'[p] = About("unsubscribe", c)
    BY <1>0 DEF EntryNeeded
  <2>1. CASE \E p \in Written + 1 .. Total : Flight[p] = About("subscribe", c)
    BY <2>1, TakenPlaces
  <2>2. CASE \E p \in 1 .. Written : Flight[p] = About("unsubscribe", c)
    <3>1. \A p \in 1 .. Written : p \in 1 .. Total
      BY DEF Bounds
    <3>2. Flight[1] # About("unsubscribe", c)
      BY DEF About
    <3> QED
      BY <2>2, <3>1, <3>2, TakenPlaces
  <2> QED
    BY <2>1, <2>2 DEF Subscription, EntryNeeded
<1>4. LastOne'
  <2>1. ASSUME NEW p \in 1 .. Written', Input'[p].kind = "unsubscribe", Input'[p].left # 0
        PROVE  \E c \in DOMAIN channels : c # Input'[p].of
    <3>1. p + 1 \in 1 .. Written /\ Input'[p] = Input[p + 1]
      BY TakenPlaces
    <3>2. \A q \in 1 .. Written : Input[q].kind = "unsubscribe" /\ Input[q].left # 0 =>
            \E c \in DOMAIN channels : c # Input[q].of
      BY DEF Subscription, LastOne
    <3> QED
      BY <2>1, <3>1, <3>2
  <2>2. ~resp3 /\ "SUBSCRIBED" \in flags => DOMAIN channels # {}
    BY DEF Subscription, LastOne
  <2> QED
    BY <1>0, <2>1, <2>2 DEF LastOne
<1>5. Cardinality(Awaited(ch)') = Cardinality(Awaited(ch)) - 1 /\ Cardinality(Awaited(ch)) \in Nat
  BY CountTakes, AwaitedFinite
<1>6. /\ channels[ch].pending_subs \in Int
      /\ channels[ch].pending_subs >= Cardinality(Awaited(ch))
      /\ server # "closed" => channels[ch].pending_subs = Cardinality(Awaited(ch))
      /\ Args[channels[ch].fn][1] = ch
  BY DEF Types, Entry, Subscription, Counted
<1>7. Cardinality(Awaited(ch)) # 0
  <2>1. 1 \in Awaited(ch)
    BY TakenPlaces DEF Awaited
  <2> QED
    BY <2>1, AwaitedFinite, FS_EmptySet
<1>8. Counted'
  <2> SUFFICES ASSUME NEW c \in DOMAIN channels
               PROVE  /\ channels'[c].pending_subs >= Cardinality(Awaited(c)')
                      /\ server # "closed" => channels'[c].pending_subs = Cardinality(Awaited(c)')
                      /\ Args[channels'[c].fn][1] = c
    BY <1>0 DEF Counted
  <2>1. CASE c = ch
    BY <1>0, <1>5, <1>6, <2>1
  <2>2. CASE c # ch
    <3>1. Flight[1] # About("subscribe", c)
      BY <2>2 DEF About
    <3>2. Cardinality(Awaited(c)') = Cardinality(Awaited(c))
      BY <3>1, CountTakes
    <3> QED
      BY <1>0, <2>2, <3>2 DEF Subscription, Counted
  <2> QED
    BY <2>1, <2>2
<1> QED
  BY <1>0, <1>1, <1>2, <1>3, <1>4, <1>5, <1>6, <1>7, <1>8, SubscriptionTakes DEF Subscription

LEMMA FlightAbout ==
  ASSUME Shape, NEW p \in 1 .. Total
  PROVE  /\ Flight[p] = About(Flight[p].what, Flight[p].of)
         /\ Flight[p].what \in {"plain", "refusal", "push"} \cup PubSub
<1>1. Sizes /\ ToRead /\ ToWrite /\ QueueTypes
  BY DEF Shape
<1>2. CASE p \in 1 .. Written
  <2>1. Input[p] \in Item /\ Flight[p] = Answer(Input[p])
    BY <1>1, <1>2 DEF ToRead
  <2> QED
    BY <2>1 DEF Answer, About, Item
<1>3. CASE p \in Written + 1 .. Total
  <2>1. Flight[p] = Asked(Output[p - Written])
    BY <1>1, <1>3 DEF ToWrite
  <2> QED
    BY <2>1 DEF Asked, About, PubSub
<1> QED
  BY <1>1, <1>2, <1>3 DEF Sizes

LEMMA InputAnswers ==
  ASSUME Shape, NEW p \in 1 .. Written
  PROVE  Input[p] \in Item /\ Flight[p] = Answer(Input[p])
BY DEF Shape, ToRead

\* The answer to the last UNSUBSCRIBE of a channel.
LEMMA SubscriptionRemoves ==
  ASSUME Bounds, Shape, Shape', Subscription, Types, FlightTaken, Now' = Now, server' = server,
         resp3' = resp3, invalid' = << >>,
         NEW ch \in DOMAIN channels, channels[ch].pending_subs = 0,
         Flight[1] = About("unsubscribe", ch), Input[1].kind = "unsubscribe", Input[1].of = ch,
         channels' = [c \in DOMAIN channels \ {ch} |-> channels[c]],
         "SUBSCRIBED" \in flags' <=> ~(Input[1].left = 0 /\ DOMAIN channels' = {})
  PROVE  Subscription'
<1>0. /\ DOMAIN channels' = DOMAIN channels \ {ch}
      /\ \A c \in DOMAIN channels' : channels'[c] = channels[c]
  OBVIOUS
<1>1. \A p \in 1 .. Total : Flight[p] # About("subscribe", ch)
  <2>1. Cardinality(Awaited(ch)) \in Nat /\ 0 >= Cardinality(Awaited(ch)) /\ IsFiniteSet(Awaited(ch))
    BY AwaitedFinite DEF Subscription, Counted
  <2>2. Awaited(ch) = {}
    BY <2>1, FS_EmptySet
  <2> QED
    BY <2>2 DEF Awaited
<1>2. /\ ch \notin Now
      /\ \A q \in 1 + 1 .. Written : Flight[q] # About("message", ch)
  <2>1. 1 \in 1 .. Written /\ Flight[1].what = "unsubscribe" /\ Flight[1].of = ch
    BY TakenPlaces DEF About
  <2>2. \A q \in 1 + 1 .. Written : Flight[q] # About("subscribe", ch)
    BY <1>1 DEF Bounds
  <2> QED
    BY <2>1, <2>2 DEF Subscription, Resubscribed
<1>3. ASSUME NEW p \in 1 .. Total, p # 1 PROVE Flight[p].what # "unsubscribe"
  <2>1. 1 \in 1 .. Total /\ Flight[1].what = "unsubscribe"
    BY TakenPlaces DEF About
  <2> QED
    BY <1>3, <2>1 DEF Subscription, OneUnsubscribe
<1>4. EntriesFound'
  <2>1. ASSUME NEW p \in 1 .. Total', Flight'[p].what \in PubSub PROVE Flight'[p].of \in DOMAIN channels'
    <3>1. p + 1 \in 1 .. Total /\ p + 1 # 1 /\ Flight'[p] = Flight[p + 1]
      BY TakenPlaces
    <3>2. Flight[p + 1].of \in DOMAIN channels
      BY <2>1, <3>1 DEF Subscription, EntriesFound
    <3>3. Flight[p + 1].of # ch
      <4> SUFFICES ASSUME Flight[p + 1].of = ch PROVE FALSE
        OBVIOUS
      <4>1. Flight[p + 1] = About(Flight[p + 1].what, ch)
        BY <3>1, FlightAbout
      <4>2. Flight[p + 1].what = "message"
        BY <1>1, <1>3, <2>1, <3>1, <4>1 DEF PubSub
      <4>3. p + 1 <= Written
        BY <3>1, <4>2 DEF Subscription, Silent
      <4>4. p + 1 \in 1 + 1 .. Written
        BY <3>1, <4>3 DEF Bounds
      <4> QED
        BY <1>2, <4>1, <4>2, <4>4
    <3> QED
      BY <1>0, <3>1, <3>2, <3>3
  <2>2. Now \subseteq DOMAIN channels'
    BY <1>0, <1>2 DEF Subscription, EntriesFound
  <2> QED
    BY <2>1, <2>2 DEF EntriesFound
<1>5. NotSubscribed'
  <2> SUFFICES ASSUME "SUBSCRIBED" \notin flags'
               PROVE  /\ Now = {} /\ DOMAIN channels' = {}
                      /\ \A p \in 1 .. Total' : Flight'[p].what \notin PubSub
    BY DEF NotSubscribed
  <2> QED
    BY <1>4 DEF EntriesFound
<1>6. EntryNeeded'
  <2> SUFFICES ASSUME ~resp3, server # "closed", NEW c \in DOMAIN channels'
               PROVE  \/ c \in Now
                      \/ \E p \in Written' + 1 .. Total' : Flight'[p] = About("subscribe", c)
                      \/ \E p \in 1 .. Written' : Flight'[p] = About("unsubscribe", c)
    BY DEF EntryNeeded
  <2>1. CASE \E p \in Written + 1 .. Total : Flight[p] = About("subscribe", c)
    BY <2>1, TakenPlaces
  <2>2. CASE \E p \in 1 .. Written : Flight[p] = About("unsubscribe", c)
    <3>1. \A p \in 1 .. Written : p \in 1 .. Total
      BY DEF Bounds
    <3>2. Flight[1] # About("unsubscribe", c)
      BY <1>0 DEF About
    <3> QED
      BY <2>2, <3>1, <3>2, TakenPlaces
  <2> QED
    BY <1>0, <2>1, <2>2 DEF Subscription, EntryNeeded
<1>7. LastOne'
  <2>1. ASSUME NEW p \in 1 .. Written' PROVE Input'[p].kind # "unsubscribe"
    <3>1. p + 1 \in 1 .. Written /\ p + 1 \in 1 .. Total /\ p + 1 # 1 /\ Input'[p] = Input[p + 1]
      BY TakenPlaces
    <3>2. Flight[p + 1] = Answer(Input[p + 1])
      BY <3>1, InputAnswers
    <3>3. Flight[p + 1].what # "unsubscribe"
      BY <1>3, <3>1
    <3> QED
      BY <3>1, <3>2, <3>3 DEF Answer, About
  <2>2. ASSUME "SUBSCRIBED" \in flags', DOMAIN channels' = {} PROVE FALSE
    <3>1. Input[1].left # 0 /\ 1 \in 1 .. Written
      BY <2>2, TakenPlaces
    <3>2. PICK c \in DOMAIN channels : c # ch
      BY <3>1 DEF Subscription, LastOne
    <3> QED
      BY <1>0, <2>2, <3>2
  <2> QED
    BY <2>1, <2>2 DEF LastOne
<1>8. Counted'
  <2> SUFFICES ASSUME NEW c \in DOMAIN channels'
               PROVE  /\ channels'[c].pending_subs >= Cardinality(Awaited(c)')
                      /\ server # "closed" => channels'[c].pending_subs = Cardinality(Awaited(c)')
                      /\ Args[channels'[c].fn][1] = c
    BY DEF Counted
  <2>1. Flight[1] # About("subscribe", c)
    BY DEF About
  <2>2. Cardinality(Awaited(c)') = Cardinality(Awaited(c))
    BY <2>1, CountTakes
  <2>3. c \in DOMAIN channels /\ channels'[c] = channels[c]
    BY <1>0
  <2> QED
    BY <2>2, <2>3 DEF Subscription, Counted
<1> QED
  BY <1>4, <1>5, <1>6, <1>7, <1>8, SubscriptionTakes DEF Subscription

\* The server speaks of its own.
LEMMA SubscriptionSpeaks ==
  ASSUME Bounds, Shape, Shape', Subscription, NEW x, FlightInserted(x), SubscriptionsKept, server = "open",
         x.what = "push" \/ \E ch \in Now : x = About("message", ch),
         Input'[Written + 1].kind \in {"push", "message"}
  PROVE  Subscription'
<1>0. /\ Written' = Written + 1 /\ Total' = Total + 1
      /\ Now' = Now /\ server' = server /\ channels' = channels /\ resp3' = resp3
  BY DEF SubscriptionsKept, FlightInserted
<1>a. \A p \in 1 .. Total : \/ p \in 1 .. Written /\ p \in 1 .. Total + 1 /\ Flight'[p] = Flight[p]
                            \/ p \in Written + 1 .. Total /\ p + 1 \in Written + 2 .. Total + 1 /\ Flight'[p + 1] = Flight[p]
  BY DEF FlightInserted, Bounds
<1>b. ASSUME NEW p \in 1 .. Total + 1
      PROVE  \/ p \in 1 .. Written /\ p \in 1 .. Total /\ Flight'[p] = Flight[p]
             \/ p = Written + 1 /\ Flight'[p] = x
             \/ p \in Written + 2 .. Total + 1 /\ p - 1 \in Written + 1 .. Total /\ p - 1 \in 1 .. Total
                /\ Flight'[p] = Flight[p - 1]
  <2>1. \/ p \in 1 .. Written /\ p \in 1 .. Total
        \/ p = Written + 1
        \/ /\ p \in Written + 2 .. Total + 1 /\ p - 1 \in Written + 1 .. Total /\ p - 1 \in 1 .. Total
           /\ (p - 1) + 1 = p
    BY DEF Bounds
  <2>2. CASE p \in 1 .. Written /\ p \in 1 .. Total
    BY <2>2 DEF FlightInserted
  <2>3. CASE p = Written + 1
    BY <2>3 DEF FlightInserted
  <2>4. CASE /\ p \in Written + 2 .. Total + 1 /\ p - 1 \in Written + 1 .. Total /\ p - 1 \in 1 .. Total
             /\ (p - 1) + 1 = p
    <3>1. Flight'[(p - 1) + 1] = Flight[p - 1]
      BY <2>4 DEF FlightInserted
    <3>2. Flight'[p] = Flight[p - 1]
      BY <2>4, <3>1
    <3> QED
      BY <2>4, <3>2
  <2> QED
    BY <2>1, <2>2, <2>3, <2>4
<1>c. \A p \in 1 .. Written + 1 : (p \in 1 .. Written /\ Flight'[p] = Flight[p]) \/ (p = Written + 1 /\ Flight'[p] = x)
  <2>1. \A p \in 1 .. Written + 1 : p \in 1 .. Written \/ p = Written + 1
    BY DEF Bounds
  <2> QED
    BY <2>1 DEF FlightInserted
<1>d. \A p \in 1 .. Written : \A q \in p + 1 .. Written :
        q \in p + 1 .. Written + 1 /\ q \in 1 .. Written /\ Flight'[q] = Flight[q]
  BY DEF Bounds, FlightInserted
<1>e. x.what \notin {"plain", "refusal", "subscribe", "unsubscribe"}
  BY DEF About
<1>f. x.what = "message" => x.of \in Now /\ x.of \in DOMAIN channels
  BY DEF About, Subscription, EntriesFound
<1>1. NotSubscribed'
  <2> SUFFICES ASSUME "SUBSCRIBED" \notin flags
               PROVE  /\ invalid' = << >> /\ Now = {} /\ DOMAIN channels = {}
                      /\ \A p \in 1 .. Total + 1 : Flight'[p].what \notin PubSub
    BY <1>0 DEF NotSubscribed, SubscriptionsKept
  <2>1. /\ invalid = << >> /\ Now = {} /\ DOMAIN channels = {}
        /\ \A p \in 1 .. Total : Flight[p].what \notin PubSub
    BY DEF Subscription, NotSubscribed
  <2> QED
    BY <1>b, <1>e, <1>f, <2>1 DEF SubscriptionsKept, PubSub
<1>2. EntriesFound'
  <2>1. \A p \in 1 .. Total + 1 : Flight'[p].what \in PubSub => Flight'[p].of \in DOMAIN channels
    BY <1>b, <1>e, <1>f DEF Subscription, EntriesFound, PubSub
  <2> QED
    BY <1>0, <2>1 DEF Subscription, EntriesFound
<1>3. OneUnsubscribe'
  <2> SUFFICES ASSUME NEW p \in 1 .. Total + 1, NEW q \in 1 .. Total + 1,
                      Flight'[p].what = "unsubscribe", Flight'[q].what = "unsubscribe"
               PROVE  p = q
    BY <1>0 DEF OneUnsubscribe
  <2> DEFINE From(a, b) == (a \in 1 .. Written /\ b = a) \/ (a \in Written + 2 .. Total + 1 /\ b = a - 1)
  <2>1. \E a \in 1 .. Total : From(p, a) /\ Flight[a].what = "unsubscribe"
    BY <1>b, <1>e
  <2>2. \E a \in 1 .. Total : From(q, a) /\ Flight[a].what = "unsubscribe"
    BY <1>b, <1>e
  <2>3. PICK a \in 1 .. Total : From(p, a) /\ From(q, a)
    BY <2>1, <2>2 DEF Subscription, OneUnsubscribe
  <2> QED
    BY <2>3 DEF Bounds
<1>4. Resubscribed'
  <2> SUFFICES ASSUME NEW p \in 1 .. Written + 1, Flight'[p].what = "unsubscribe"
               PROVE  \/ /\ Flight'[p].of \notin Now
                         /\ \A q \in p + 1 .. Written + 1 : Flight'[q] # About("message", Flight'[p].of)
                      \/ \E q \in p + 1 .. Written + 1 : Flight'[q] = About("subscribe", Flight'[p].of)
    BY <1>0 DEF Resubscribed
  <2>1. p \in 1 .. Written /\ Flight'[p] = Flight[p]
    BY <1>c, <1>e
  <2>2. CASE \E q \in p + 1 .. Written : Flight[q] = About("subscribe", Flight[p].of)
    BY <1>d, <2>1, <2>2
  <2>3. CASE /\ Flight[p].of \notin Now
             /\ \A q \in p + 1 .. Written : Flight[q] # About("message", Flight[p].of)
    <3>1. x # About("message", Flight[p].of)
      BY <1>f, <2>3 DEF About
    <3>2. \A q \in p + 1 .. Written + 1 : q \in p + 1 .. Written \/ q = Written + 1
      BY <2>1 DEF Bounds
    <3>3. Flight'[Written + 1] = x
      BY DEF FlightInserted
    <3> QED
      BY <1>d, <2>1, <2>3, <3>1, <3>2, <3>3
  <2> QED
    BY <2>1, <2>2, <2>3 DEF Subscription, Resubscribed
<1>5. EntryNeeded'
  <2> SUFFICES ASSUME ~resp3, NEW c \in DOMAIN channels
               PROVE  \/ c \in Now
                      \/ \E p \in (Written + 1) + 1 .. Total + 1 : Flight'[p] = About("subscribe", c)
                      \/ \E p \in 1 .. Written + 1 : Flight'[p] = About("unsubscribe", c)
    BY <1>0 DEF EntryNeeded
  <2>1. \A p \in Written + 1 .. Total : p + 1 \in (Written + 1) + 1 .. Total + 1 /\ Flight'[p + 1] = Flight[p]
    BY DEF Bounds, FlightInserted
  <2>2. \A p \in 1 .. Written : p \in 1 .. Written + 1 /\ Flight'[p] = Flight[p]
    BY DEF Bounds, FlightInserted
  <2> QED
    BY <2>1, <2>2 DEF Subscription, EntryNeeded
<1>6. SubscribedStill'
  <2> SUFFICES ASSUME NEW p \in 1 .. Written + 1, Flight'[p].what = "subscribe"
               PROVE  \/ Flight'[p].of \in Now
                      \/ \E q \in p + 1 .. Written + 1 : Flight'[q] = About("unsubscribe", Flight'[p].of)
    BY <1>0 DEF SubscribedStill
  <2>1. p \in 1 .. Written /\ Flight'[p] = Flight[p]
    BY <1>c, <1>e
  <2> QED
    BY <1>d, <2>1 DEF Subscription, SubscribedStill
<1>7. LastOne'
  <2>1. ASSUME NEW p \in 1 .. Written + 1, Input'[p].kind = "unsubscribe", Input'[p].left # 0
        PROVE  \E c \in DOMAIN channels : c # Input'[p].of
    <3>1. p # Written + 1
      BY <2>1
    <3>2. p \in 1 .. Written /\ Input'[p] = Input[p]
      BY <1>c, <3>1 DEF FlightInserted
    <3> QED
      BY <2>1, <3>2 DEF Subscription, LastOne
  <2> QED
    BY <1>0, <2>1 DEF Subscription, LastOne, SubscriptionsKept
<1>8. Counted'
  <2>1. \A c : x # About("subscribe", c)
    BY <1>e DEF About
  <2>2. \A c : Cardinality(Awaited(c)') = Cardinality(Awaited(c))
    BY <2>1, CountSpeaks
  <2> QED
    BY <1>0, <2>2 DEF Subscription, Counted
<1>9. Silent'
  <2>1. \A p \in 1 .. Total : Flight[p].what # "refusal" /\ (Flight[p].what = "message" => p <= Written)
    BY DEF Subscription, Silent
  <2>2. \A p \in 1 .. Total + 1 : Flight'[p].what # "refusal"
    BY <1>b, <1>e, <2>1
  <2>3. ASSUME NEW p \in 1 .. Total + 1, Flight'[p].what = "message" PROVE p <= Written + 1
    <3>1. CASE p \in Written + 2 .. Total + 1
      <4>1. p - 1 \in 1 .. Total /\ Flight'[p] = Flight[p - 1] /\ p - 1 \in Written + 1 .. Total
        BY <1>b, <3>1 DEF Bounds
      <4>2. p - 1 <= Written
        BY <2>1, <2>3, <4>1
      <4> QED
        BY <4>1, <4>2 DEF Bounds
    <3> QED
      BY <3>1 DEF Bounds
  <2> QED
    BY <1>0, <2>2, <2>3 DEF Silent
<1> QED
  BY <1>1, <1>2, <1>3, <1>4, <1>5, <1>6, <1>7, <1>8, <1>9 DEF Subscription

\* The server goes.
LEMMA SubscriptionEnds ==
  ASSUME Bounds, Types, Subscription, FlightCut, Input' = Input, channels' = channels, resp3' = resp3,
         flags' = flags, invalid' = invalid, server' = "closed", Now' = {}
  PROVE  Subscription'
<1>0. Written' = Written /\ Total' = Written
  BY DEF FlightCut
<1>a. \A p \in 1 .. Written : p \in 1 .. Total /\ Flight'[p] = Flight[p]
  BY DEF FlightCut, Bounds
<1>b. \A p \in 1 .. Written : \A q \in p + 1 .. Written : q \in 1 .. Written
  BY DEF Bounds
<1>1. NotSubscribed'
  BY <1>0, <1>a DEF Subscription, NotSubscribed
<1>2. EntriesFound'
  BY <1>0, <1>a DEF Subscription, EntriesFound
<1>3. OneUnsubscribe'
  BY <1>0, <1>a DEF Subscription, OneUnsubscribe
<1>4. Resubscribed'
  BY <1>0, <1>a, <1>b DEF Subscription, Resubscribed
<1>5. EntryNeeded' /\ SubscribedStill'
  BY DEF EntryNeeded, SubscribedStill
<1>6. LastOne'
  BY <1>0 DEF Subscription, LastOne
<1>7. Counted'
  <2> SUFFICES ASSUME NEW c \in DOMAIN channels
               PROVE  channels[c].pending_subs >= Cardinality(Awaited(c)') /\ Args[channels[c].fn][1] = c
    BY DEF Counted
  <2>1. Cardinality(Awaited(c)') <= Cardinality(Awaited(c)) /\ Cardinality(Awaited(c)) \in Nat
    BY CountEnds, AwaitedFinite
  <2>2. IsFiniteSet(Awaited(c)') /\ Cardinality(Awaited(c)') \in Nat
    <3>1. Awaited(c)' \in SUBSET Awaited(c)
      BY <1>0, <1>a DEF Awaited
    <3> QED
      BY <3>1, AwaitedFinite, FS_Subset, FS_CardinalityType
  <2>3. channels[c].pending_subs \in Int /\ channels[c].pending_subs >= Cardinality(Awaited(c))
    BY DEF Types, Entry, Subscription, Counted
  <2> QED
    BY <2>1, <2>2, <2>3 DEF Subscription, Counted
<1>8. Silent'
  <2>1. ASSUME NEW p \in 1 .. Written, Flight[p].what = "refusal"
        PROVE  Total = 1 /\ Written = 1 /\ Flight[p].of = None
    <3>1. Total = 1 /\ Flight[p].of = None
      BY <1>a, <2>1 DEF Subscription, Silent
    <3> QED
      BY <3>1 DEF Bounds
  <2> QED
    BY <1>0, <1>a, <2>1 DEF Subscription, Silent
<1> QED
  BY <1>1, <1>2, <1>3, <1>4, <1>5, <1>6, <1>7, <1>8 DEF Subscription

\* The server does not take the connection.
LEMMA SubscriptionRefused ==
  ASSUME Bounds, Types, Subscription, server = "new", server' = "closed", Now' = {},
         Written' = 1, Total' = 1, Flight'[1] = About("refusal", None), Input'[1].kind = "error",
         channels' = channels, flags' = flags, invalid' = invalid, resp3' = resp3
  PROVE  Subscription'
<1>0. \A p \in 1 .. Total' : p = 1 /\ Flight'[p].what = "refusal" /\ Flight'[p].of = None
  BY DEF About
<1>1. NotSubscribed' /\ EntriesFound' /\ OneUnsubscribe'
  BY <1>0 DEF Subscription, NotSubscribed, EntriesFound, OneUnsubscribe, PubSub
<1>2. Resubscribed' /\ SubscribedStill' /\ EntryNeeded' /\ Silent'
  BY <1>0 DEF Resubscribed, SubscribedStill, EntryNeeded, Silent
<1>3. LastOne'
  <2>1. \A p \in 1 .. Written' : Input'[p].kind # "unsubscribe"
    <3>1. \A p \in 1 .. Written' : p = 1
      OBVIOUS
    <3> QED
      BY <3>1
  <2>2. ~resp3' /\ "SUBSCRIBED" \in flags' => DOMAIN channels' # {}
    BY DEF Subscription, LastOne
  <2> QED
    BY <2>1, <2>2 DEF LastOne
<1>4. Counted'
  <2> SUFFICES ASSUME NEW c \in DOMAIN channels
               PROVE  channels[c].pending_subs >= Cardinality(Awaited(c)') /\ Args[channels[c].fn][1] = c
    BY DEF Counted
  <2>1. Awaited(c)' = {}
    BY <1>0 DEF Awaited, About
  <2>2. Cardinality(Awaited(c)) \in Nat /\ Cardinality(Awaited(c)') = 0
    BY <2>1, AwaitedFinite, FS_EmptySet
  <2>3. channels[c].pending_subs \in Int /\ channels[c].pending_subs >= Cardinality(Awaited(c))
    BY DEF Types, Entry, Subscription, Counted
  <2> QED
    BY <2>2, <2>3 DEF Subscription, Counted
<1> QED
  BY <1>1, <1>2, <1>3, <1>4 DEF Subscription

-----------------------------------------------------------------------------
(* The lists of callbacks.                                                 *)

LEMMA PendingStays ==
  ASSUME replies' = replies, invalid' = invalid
  PROVE  PendingSame
BY DEF PendingSame, Pending

LEMMA PendingAppends ==
  ASSUME Types, Shape, Shape', NEW c \in Plain,
         \/ replies' = replies /\ invalid' = Append(invalid, c)
         \/ replies' = Append(replies, c) /\ invalid' = invalid /\ invalid = << >>
  PROVE  PendingGrows(c)
<1>0. /\ Len(replies) \in Nat /\ Len(invalid) \in Nat
      /\ replies \in Seq(Plain) /\ invalid \in Seq(Plain) /\ Queues /\ Queues'
  BY LenProperties DEF Types, Shape
<1>1. CASE replies' = replies /\ invalid' = Append(invalid, c)
  <2>1. /\ Len(invalid') = Len(invalid) + 1 /\ invalid'[Len(invalid) + 1] = c
        /\ \A i \in 1 .. Len(invalid) : invalid'[i] = invalid[i]
    BY <1>0, <1>1, AppendProperties
  <2>2. Len(Pending) = Len(replies) + Len(invalid) /\ Len(Pending') = Len(Pending) + 1
    BY <1>0, <1>1, <2>1 DEF Queues
  <2>3. ASSUME NEW i \in 1 .. Len(Pending) PROVE Pending'[i] = Pending[i]
    <3>1. CASE i \in 1 .. Len(replies)
      BY <1>0, <1>1, <3>1 DEF Queues
    <3>2. CASE i \in Len(replies) + 1 .. Len(Pending)
      <4>1. PICK k \in 1 .. Len(invalid) : i = Len(replies) + k
        <5>1. i - Len(replies) \in 1 .. Len(invalid) /\ i = Len(replies) + (i - Len(replies))
          BY <1>0, <2>2, <3>2
        <5> QED
          BY <5>1
      <4>2. Pending[Len(replies) + k] = invalid[k]
        BY <1>0 DEF Queues
      <4>3. k \in 1 .. Len(invalid')
        BY <1>0, <2>1
      <4>4. Pending'[Len(replies') + k] = invalid'[k]
        BY <1>0, <4>3 DEF Queues
      <4> QED
        BY <1>1, <2>1, <4>1, <4>2, <4>4
    <3> QED
      BY <1>0, <2>2, <3>1, <3>2
  <2>4. Pending'[Len(Pending) + 1] = c
    <3>1. Len(invalid) + 1 \in 1 .. Len(invalid') /\ Len(Pending) + 1 = Len(replies) + (Len(invalid) + 1)
      BY <1>0, <2>1, <2>2
    <3>2. Pending'[Len(replies') + (Len(invalid) + 1)] = invalid'[Len(invalid) + 1]
      BY <1>0, <3>1 DEF Queues
    <3> QED
      BY <1>1, <2>1, <3>1, <3>2
  <2> QED
    BY <1>1, <2>2, <2>3, <2>4 DEF PendingGrows
<1>2. CASE replies' = Append(replies, c) /\ invalid' = invalid /\ invalid = << >>
  <2>0. Len(invalid) = 0
    BY <1>2
  <2>1. /\ Len(replies') = Len(replies) + 1 /\ replies'[Len(replies) + 1] = c
        /\ \A i \in 1 .. Len(replies) : replies'[i] = replies[i]
    BY <1>0, <1>2, AppendProperties
  <2>2. Len(Pending) = Len(replies) /\ Len(Pending') = Len(Pending) + 1
    BY <1>0, <1>2, <2>0, <2>1 DEF Queues
  <2>3. \A i \in 1 .. Len(replies') : Pending'[i] = replies'[i]
    BY <1>0 DEF Queues
  <2>4. ASSUME NEW i \in 1 .. Len(Pending) PROVE Pending'[i] = Pending[i]
    <3>1. i \in 1 .. Len(replies) /\ i \in 1 .. Len(replies')
      BY <1>0, <2>1, <2>2
    <3> QED
      BY <1>0, <2>1, <2>3, <3>1 DEF Queues
  <2>5. Pending'[Len(Pending) + 1] = c
    <3>1. Len(replies) + 1 \in 1 .. Len(replies')
      BY <1>0, <2>1
    <3> QED
      BY <2>1, <2>2, <2>3, <3>1
  <2> QED
    BY <2>1, <2>2, <2>4, <2>5 DEF PendingGrows
<1> QED
  BY <1>1, <1>2

LEMMA PendingTakes ==
  ASSUME Types, Shape, Shape',
         \/ replies # << >> /\ replies' = Tail(replies) /\ invalid' = invalid
         \/ replies = << >> /\ replies' = << >> /\ invalid # << >> /\ invalid' = Tail(invalid)
  PROVE  PendingPops /\ Pending[1] = IF replies # << >> THEN Head(replies) ELSE Head(invalid)
<1>0. /\ Len(replies) \in Nat /\ Len(invalid) \in Nat
      /\ replies \in Seq(Plain) /\ invalid \in Seq(Plain) /\ Queues /\ Queues'
  BY LenProperties DEF Types, Shape
<1>1. CASE replies # << >> /\ replies' = Tail(replies) /\ invalid' = invalid
  <2>1. /\ Len(replies') = Len(replies) - 1 /\ Len(replies) # 0 /\ Head(replies) = replies[1]
        /\ \A i \in 1 .. Len(replies) - 1 : replies'[i] = replies[i + 1]
    BY <1>0, <1>1, EmptySeq, HeadTailProperties
  <2>2. Len(Pending) = Len(replies) + Len(invalid) /\ Len(Pending') = Len(Pending) - 1 /\ Len(Pending) > 0
    BY <1>0, <1>1, <2>1 DEF Queues
  <2>3. ASSUME NEW i \in 1 .. Len(Pending) - 1 PROVE Pending'[i] = Pending[i + 1]
    <3>1. CASE i \in 1 .. Len(replies) - 1
      <4>1. i \in 1 .. Len(replies') /\ i + 1 \in 1 .. Len(replies)
        BY <1>0, <2>1, <3>1
      <4>2. Pending'[i] = replies'[i] /\ Pending[i + 1] = replies[i + 1]
        BY <1>0, <4>1 DEF Queues
      <4> QED
        BY <2>1, <3>1, <4>2
    <3>2. CASE i \in Len(replies) .. Len(Pending) - 1
      <4>1. PICK k \in 1 .. Len(invalid) : i + 1 = Len(replies) + k /\ i = (Len(replies) - 1) + k
        <5>1. /\ i + 1 - Len(replies) \in 1 .. Len(invalid) /\ i + 1 = Len(replies) + (i + 1 - Len(replies))
              /\ i = (Len(replies) - 1) + (i + 1 - Len(replies))
          BY <1>0, <2>2, <3>2
        <5> QED
          BY <5>1
      <4>2. Pending[Len(replies) + k] = invalid[k]
        BY <1>0 DEF Queues
      <4>3. k \in 1 .. Len(invalid')
        BY <1>1
      <4>4. Pending'[Len(replies') + k] = invalid'[k]
        BY <1>0, <4>3 DEF Queues
      <4> QED
        BY <1>1, <2>1, <4>1, <4>2, <4>4
    <3> QED
      BY <1>0, <2>2, <3>1, <3>2
  <2>4. Pending[1] = Head(replies)
    BY <1>0, <2>1 DEF Queues
  <2>5. Len(replies) > 0
    BY <1>0, <2>1
  <2> QED
    BY <1>1, <2>1, <2>2, <2>3, <2>4, <2>5 DEF PendingPops
<1>2. CASE replies = << >> /\ replies' = << >> /\ invalid # << >> /\ invalid' = Tail(invalid)
  <2>0. Len(replies) = 0 /\ Len(replies') = 0
    BY <1>2
  <2>1. /\ Len(invalid') = Len(invalid) - 1 /\ Len(invalid) # 0 /\ Head(invalid) = invalid[1]
        /\ \A i \in 1 .. Len(invalid) - 1 : invalid'[i] = invalid[i + 1]
    BY <1>0, <1>2, EmptySeq, HeadTailProperties
  <2>2. Len(Pending) = Len(invalid) /\ Len(Pending') = Len(invalid) - 1 /\ Len(Pending) > 0
    BY <1>0, <2>0, <2>1 DEF Queues
  <2>3. /\ \A i \in 1 .. Len(invalid) : Pending[i] = invalid[i]
        /\ \A i \in 1 .. Len(invalid') : Pending'[i] = invalid'[i]
    <3>1. /\ \A i \in 1 .. Len(invalid) : Pending[0 + i] = invalid[i]
          /\ \A i \in 1 .. Len(invalid') : Pending'[0 + i] = invalid'[i]
      BY <1>0, <2>0 DEF Queues
    <3>2. \A n \in Nat : \A i \in 1 .. n : 0 + i = i
      OBVIOUS
    <3>3. Len(invalid') \in Nat
      BY <1>0, <2>1
    <3> QED
      BY <1>0, <3>1, <3>2, <3>3
  <2>4. ASSUME NEW i \in 1 .. Len(Pending) - 1 PROVE Pending'[i] = Pending[i + 1]
    <3>1. i \in 1 .. Len(invalid') /\ i + 1 \in 1 .. Len(invalid) /\ i \in 1 .. Len(invalid) - 1
      BY <1>0, <2>1, <2>2
    <3> QED
      BY <2>1, <2>3, <3>1
  <2>5. Pending[1] = Head(invalid)
    BY <1>0, <2>1, <2>3
  <2> QED
    BY <1>2, <2>0, <2>2, <2>4, <2>5 DEF PendingPops
<1> QED
  BY <1>1, <1>2

-----------------------------------------------------------------------------
(* Every plain command is called back once: it waits in one place from     *)
(* when it is accepted until it is called.                                 *)

Distinct == \A i, j \in 1 .. Len(Pending) : Pending[i] = Pending[j] => i = j
Uncalled == \A i \in 1 .. Len(Pending) : Contains(issued, Pending[i]) /\ called[Pending[i]] = 0
Remembered ==
  \A cmd \in Plain :
    /\ called[cmd] <= 1
    /\ called[cmd] = 1 => Contains(issued, cmd) /\ cmd \notin NullFn
    /\ Contains(issued, cmd) /\ cmd \notin NullFn /\ called[cmd] = 0 =>
         \E i \in 1 .. Len(Pending) : Pending[i] = cmd
Calls == Distinct /\ Uncalled /\ Remembered

\* Commands are put behind a subscription only while there is one, and none is left in the end.
Emptied ==
  /\ "SUBSCRIBED" \notin flags => invalid = << >>
  /\ pc = "freed" => replies = << >> /\ invalid = << >>

\* The counts are counts.
Naturals == \A ch \in DOMAIN channels : channels[ch].pending_subs >= 0

LEMMA IssuedGrows ==
  ASSUME Types, NEW cmd \in Commands, issued' = Append(issued, cmd), NEW d
  PROVE  Contains(issued', d) <=> (Contains(issued, d) \/ d = cmd)
<1>1. /\ Len(issued) \in Nat /\ Len(issued') = Len(issued) + 1 /\ issued'[Len(issued) + 1] = cmd
      /\ \A i \in 1 .. Len(issued) : issued'[i] = issued[i]
  BY AppendProperties, LenProperties DEF Types
<1>2. \A i \in 1 .. Len(issued) + 1 : i \in 1 .. Len(issued) \/ i = Len(issued) + 1
  BY <1>1
<1>3. \A i \in 1 .. Len(issued) : i \in 1 .. Len(issued) + 1
  BY <1>1
<1>4. Len(issued) + 1 \in 1 .. Len(issued) + 1
  BY <1>1
<1> QED
  BY <1>1, <1>2, <1>3, <1>4 DEF Contains

LEMMA CallsStay ==
  ASSUME Calls, PendingSame, called' = called,
         \A d \in Plain : Contains(issued', d) <=> Contains(issued, d), Shape
  PROVE  Calls'
<1>1. Len(Pending') = Len(Pending) /\ Pending' = Pending
  BY DEF PendingSame
<1>2. \A i \in 1 .. Len(Pending) : Pending[i] \in Plain
  BY LenProperties DEF Shape, QueueTypes
<1>3. Distinct'
  BY <1>1 DEF Calls, Distinct
<1>4. Uncalled'
  BY <1>1, <1>2 DEF Calls, Uncalled
<1>5. Remembered'
  BY <1>1 DEF Calls, Remembered
<1> QED
  BY <1>3, <1>4, <1>5 DEF Calls

LEMMA CallsAccept ==
  ASSUME Types, Shape, Calls, NEW c \in Plain, PendingGrows(c), called' = called, ~Contains(issued, c),
         \A d \in Plain : Contains(issued', d) <=> (Contains(issued, d) \/ d = c)
  PROVE  Calls'
<1>1. /\ Len(Pending) \in Nat /\ Len(Pending') = Len(Pending) + 1 /\ Pending'[Len(Pending) + 1] = c
      /\ \A i \in 1 .. Len(Pending) : Pending'[i] = Pending[i] /\ Pending[i] \in Plain
  BY LenProperties DEF Shape, QueueTypes, PendingGrows
<1>2. called[c] = 0
  BY DEF Calls, Remembered, Types
<1>3. \A i \in 1 .. Len(Pending') : i \in 1 .. Len(Pending) \/ i = Len(Pending) + 1
  BY <1>1
<1>4. \A i \in 1 .. Len(Pending) : Pending[i] # c
  BY DEF Calls, Uncalled
<1>5. \A i \in 1 .. Len(Pending) : i \in 1 .. Len(Pending')
  BY <1>1
<1>6. Len(Pending) + 1 \in 1 .. Len(Pending')
  BY <1>1
<1>7. Distinct'
  BY <1>1, <1>3, <1>4 DEF Calls, Distinct
<1>8. Uncalled'
  BY <1>1, <1>2, <1>3 DEF Calls, Uncalled
<1>9. Remembered'
  <2> SUFFICES ASSUME NEW cmd \in Plain
               PROVE  /\ called[cmd] <= 1
                      /\ called[cmd] = 1 => Contains(issued', cmd) /\ cmd \notin NullFn
                      /\ Contains(issued', cmd) /\ cmd \notin NullFn /\ called[cmd] = 0 =>
                           \E i \in 1 .. Len(Pending') : Pending'[i] = cmd
    BY DEF Remembered
  <2>1. called[cmd] <= 1 /\ (called[cmd] = 1 => Contains(issued', cmd) /\ cmd \notin NullFn)
    BY DEF Calls, Remembered
  <2>2. CASE cmd = c
    BY <1>1, <1>6, <2>1, <2>2
  <2>3. CASE cmd # c
    BY <1>1, <1>5, <2>1, <2>3 DEF Calls, Remembered
  <2> QED
    BY <2>2, <2>3
<1> QED
  BY <1>7, <1>8, <1>9 DEF Calls

LEMMA CallsPop ==
  ASSUME Types, Shape, Calls, PendingPops, issued' = issued,
         called' = IF Pending[1] \in NullFn THEN called
                   ELSE [called EXCEPT ![Pending[1]] = @ + 1]
  PROVE  Calls'
<1> DEFINE c == Pending[1]
<1>1. /\ Len(Pending) \in Nat /\ Len(Pending) > 0 /\ Len(Pending') = Len(Pending) - 1
      /\ \A i \in 1 .. Len(Pending) - 1 : Pending'[i] = Pending[i + 1]
      /\ \A i \in 1 .. Len(Pending) : Pending[i] \in Plain
  BY LenProperties DEF Shape, QueueTypes, PendingPops
<1>2. 1 \in 1 .. Len(Pending) /\ c \in Plain /\ called[c] = 0 /\ Contains(issued, c)
  BY <1>1 DEF Calls, Uncalled
<1>3. \A i \in 1 .. Len(Pending') : i + 1 \in 1 .. Len(Pending) /\ i + 1 # 1 /\ Pending'[i] = Pending[i + 1]
  BY <1>1
<1>4. \A i \in 1 .. Len(Pending) : i = 1 \/ (i - 1 \in 1 .. Len(Pending') /\ (i - 1) + 1 = i)
  BY <1>1
<1>5. \A i, j \in 1 .. Len(Pending') : i + 1 = j + 1 => i = j
  BY <1>1
<1>6. \A i \in 1 .. Len(Pending') : Pending'[i] # c
  BY <1>2, <1>3 DEF Calls, Distinct
<1>7. \A d \in Plain : d # c => called'[d] = called[d]
  BY DEF Types
<1>8. called'[c] = IF c \in NullFn THEN 0 ELSE 1
  <2>1. called \in [Plain -> Nat]
    BY DEF Types
  <2> QED
    BY <1>2, <2>1
<1>9. Distinct'
  BY <1>3, <1>5 DEF Calls, Distinct
<1>10. Uncalled'
  BY <1>1, <1>3, <1>6, <1>7 DEF Calls, Uncalled
<1>11. Remembered'
  <2> SUFFICES ASSUME NEW cmd \in Plain
               PROVE  /\ called'[cmd] <= 1
                      /\ called'[cmd] = 1 => Contains(issued, cmd) /\ cmd \notin NullFn
                      /\ Contains(issued, cmd) /\ cmd \notin NullFn /\ called'[cmd] = 0 =>
                           \E i \in 1 .. Len(Pending') : Pending'[i] = cmd
    BY DEF Remembered
  <2>1. CASE cmd = c
    BY <1>2, <1>8, <2>1
  <2>2. CASE cmd # c
    <3>1. /\ called[cmd] <= 1
          /\ called[cmd] = 1 => Contains(issued, cmd) /\ cmd \notin NullFn
          /\ called'[cmd] = called[cmd]
      BY <1>7, <2>2 DEF Calls, Remembered
    <3>2. ASSUME NEW i \in 1 .. Len(Pending), Pending[i] = cmd
          PROVE  \E j \in 1 .. Len(Pending') : Pending'[j] = cmd
      BY <1>3, <1>4, <2>2, <3>2
    <3> QED
      BY <3>1, <3>2 DEF Calls, Remembered
  <2> QED
    BY <2>1, <2>2
<1> QED
  BY <1>9, <1>10, <1>11 DEF Calls

-----------------------------------------------------------------------------
(* The steps that leave the lists and the queues alone.                    *)

Quiet ==
  /\ Input' = Input
  /\ UNCHANGED << obuf, clientVars, serverVars, issued, called >>
  /\ "SUBSCRIBED" \in flags' <=> "SUBSCRIBED" \in flags

LEMMA QuietKeeps ==
  ASSUME Shape, Quiet
  PROVE  /\ Calls => Calls'
         /\ Naturals => Naturals'
         /\ Matched => Matched'
         /\ Subscription => Subscription'
<1> USE DEF clientVars, serverVars
<1>1. Bounds
  BY ShapeBounds
<1>2. PendingSame
  BY PendingStays DEF Quiet
<1>3. FlightSame
  BY FlightStays DEF Quiet, Output
<1>4. Now' = Now /\ server' = server
  BY DEF Quiet, Now
<1>5. Calls => Calls'
  <2>1. called' = called /\ \A d \in Plain : Contains(issued', d) <=> Contains(issued, d)
    BY DEF Quiet
  <2> QED
    BY <1>2, <2>1, CallsStay
<1>6. Naturals => Naturals'
  BY DEF Naturals, Quiet
<1>7. Matched => Matched'
  BY <1>1, <1>2, <1>3, <1>4, MatchedStays
<1>8. Subscription => Subscription'
  <2>1. SubscriptionsKept
    BY <1>4 DEF SubscriptionsKept, Quiet
  <2>2. Input' = Input
    BY DEF Quiet
  <2> QED
    BY <1>3, <2>1, <2>2, SubscriptionStays
<1> QED
  BY <1>5, <1>6, <1>7, <1>8

LEMMA QuietActions ==
  ASSUME Types,
         \/ UNCHANGED vars \/ CallbackReturns \/ ConnectReturns \/ NothingToWrite \/ TimeoutEnds
         \/ redisAsyncDisconnect \/ redisAsyncFree \/ HandleConnect \/ SocketFails \/ HandleTimeout
         \/ NoMoreReplies \/ ReaderFails \/ \E n \in 0 .. Len(wire) : HandleRead(n)
  PROVE  Quiet
<1> USE DEF closeVars, clientVars, localVars, serverVars, historyVars, Input
<1>1. ASSUME NEW fl, NEW e, __redisAsyncDisconnect(fl, e), "SUBSCRIBED" \in fl <=> "SUBSCRIBED" \in flags
      PROVE  "SUBSCRIBED" \in flags' <=> "SUBSCRIBED" \in flags
  BY <1>1 DEF __redisAsyncDisconnect
<1>2. CASE UNCHANGED vars \/ CallbackReturns \/ ConnectReturns \/ NothingToWrite \/ HandleTimeout
           \/ redisAsyncFree
  BY <1>2 DEF vars, CallbackReturns, ConnectReturns, NothingToWrite, HandleTimeout, redisAsyncFree, Quiet
<1>3. CASE TimeoutEnds \/ SocketFails \/ ReaderFails
  <2>1. "SUBSCRIBED" \in flags' <=> "SUBSCRIBED" \in flags
    BY <1>1, <1>3 DEF TimeoutEnds, SocketFails, ReaderFails
  <2> QED
    BY <1>3, <2>1 DEF TimeoutEnds, SocketFails, ReaderFails, Quiet
<1>4. CASE HandleConnect
  <2>1. "SUBSCRIBED" \in flags' <=> "SUBSCRIBED" \in flags
    BY <1>1, <1>4 DEF HandleConnect
  <2> QED
    BY <1>4, <2>1 DEF HandleConnect, Quiet
<1>5. CASE NoMoreReplies
  <2>1. "SUBSCRIBED" \in flags' <=> "SUBSCRIBED" \in flags
    BY <1>1, <1>5 DEF NoMoreReplies
  <2> QED
    BY <1>5, <2>1 DEF NoMoreReplies, Quiet
<1>6. CASE redisAsyncDisconnect
  <2> DEFINE fl == (flags \cup {"DISCONNECTING"}) \ {"NO_AUTO_FREE"}
  <2>1. "SUBSCRIBED" \in fl <=> "SUBSCRIBED" \in flags
    OBVIOUS
  <2>2. __redisAsyncDisconnect(fl, err) \/ flags' = fl
    BY <1>6 DEF redisAsyncDisconnect
  <2> HIDE DEF fl
  <2>3. "SUBSCRIBED" \in flags' <=> "SUBSCRIBED" \in flags
    BY <1>1, <2>1, <2>2
  <2> QED
    BY <1>6, <2>3 DEF redisAsyncDisconnect, Quiet
<1>7. CASE \E n \in 0 .. Len(wire) : HandleRead(n)
  <2> PICK n \in 0 .. Len(wire) : HandleRead(n)
    BY <1>7
  <2>1. inbuf' \o wire' = inbuf \o wire
    BY ReadingMoves
  <2> QED
    BY <2>1 DEF HandleRead, Quiet
<1> QED
  BY <1>2, <1>3, <1>4, <1>5, <1>6, <1>7

\* A context that fails or is freed does not come back.
LEMMA AliveBefore ==
  ASSUME AnyUser, [Next]_vars, Alive'
  PROVE  Alive
<1> USE DEF closeVars, clientVars
<1>0. Types /\ Phases
  BY DEF AnyUser
<1>1. ~err' /\ pc' \notin {"free", "free_cb"} \cup Gone
  BY DEF Alive
<1>2. ASSUME NEW fl, NEW e, __redisAsyncDisconnect(fl, e), e = err \/ e = TRUE PROVE ~err
  BY <1>1, <1>2 DEF __redisAsyncDisconnect
<1>3. CASE redisProcessCallbacks
  <2>1. pc = "process" /\ ~err
    BY <1>0, <1>3, ProcessRuns DEF Phases
  <2> QED
    BY <2>1 DEF Alive, Gone
<1>4. CASE FreeCallsBack \/ FreeEnds
  BY <1>0, <1>1, <1>4, FreeTurn DEF FreeEnds, Gone
<1>5. CASE UNCHANGED vars \/ CallbackReturns \/ HandleTimeout \/ TimeoutCallsBack \/ TimeoutEnds
  BY <1>0, <1>1, <1>5, TimeoutTurn DEF vars, Alive, CallbackReturns, Callbacks, HandleTimeout, Dispatched,
     TimeoutCallsBack, TimeoutEnds, Gone, __redisAsyncDisconnect, Phases
<1>6. CASE redisAsyncDisconnect
  <2>1. ~err
    BY <1>1, <1>2, <1>6 DEF redisAsyncDisconnect
  <2>2. pc \in UserCode
    BY <1>6 DEF redisAsyncDisconnect
  <2>3. pc # "free_cb"
    BY <1>0, <1>1, <1>6 DEF redisAsyncDisconnect, Types, Callbacks
  <2> QED
    BY <2>1, <2>2, <2>3 DEF Alive, UserCode, Callbacks, Gone
<1>7. CASE redisAsyncFree \/ \E cmd \in Commands : __redisAsyncCommand(cmd)
  BY <1>0, <1>1, <1>7 DEF redisAsyncFree, __redisAsyncCommand, Alive, Types, UserCode, Callbacks, Gone
<1>8. CASE \/ ConnectReturns \/ NothingToWrite \/ HandleWrite \/ Notice \/ Reject \/ Close
           \/ \E n \in 0 .. Len(wire) : HandleRead(n)
  <2>1. CASE ConnectReturns \/ NothingToWrite \/ Notice \/ Reject \/ Close
    BY <1>1, <2>1 DEF ConnectReturns, NothingToWrite, Notice, Reject, Close, Alive, Gone
  <2>2. CASE HandleWrite
    BY <1>1, <2>2 DEF HandleWrite, Dispatched, Alive, Gone
  <2>3. ASSUME NEW n \in 0 .. Len(wire), HandleRead(n) PROVE Alive
    BY <1>1, <2>3 DEF HandleRead, Dispatched, Alive, Gone
  <2> QED
    BY <1>8, <2>1, <2>2, <2>3
<1>9. CASE HandleConnect \/ SocketFails
  <2>1. ~err
    BY <1>1, <1>2, <1>9 DEF HandleConnect, SocketFails
  <2> QED
    BY <1>9, <2>1 DEF HandleConnect, SocketFails, Dispatched, Alive, Gone
<1> QED
  BY <1>3, <1>4, <1>5, <1>6, <1>7, <1>8, <1>9 DEF Next, Handler

LEMMA StepHandled ==
  ASSUME AnyUser, Handled, [Next]_vars, Alive'
  PROVE  Handled'
<1> USE DEF closeVars, clientVars, localVars, serverVars, historyVars
<1>0. Types /\ Phases
  BY DEF AnyUser
<1>1. ~err' /\ pc' \notin {"free", "free_cb"} \cup Gone
  BY DEF Alive
<1>2. ASSUME NEW fl, NEW e, __redisAsyncDisconnect(fl, e) PROVE Handled'
  BY <1>2 DEF __redisAsyncDisconnect, Handled
<1>3. ASSUME pc' \notin {"loop", "connect_cb", "read", "write"} PROVE Handled'
  BY <1>3 DEF Handled
<1>4. CASE redisProcessCallbacks
  <2>1. CASE NoMoreReplies
    BY <1>2, <2>1 DEF NoMoreReplies, Handled
  <2>2. CASE ReaderFails \/ SpontaneousError
    BY <1>2, <2>2 DEF ReaderFails, SpontaneousError
  <2>3. CASE PushReply \/ AssertionFails
    BY <1>3, <2>3 DEF PushReply, AssertionFails
  <2>4. CASE RegularReply \/ ChannelReply \/ InvalidReply
    <3>1. pc' \in {"process", "reply_cb"}
      BY <2>4 DEF RegularReply, ChannelReply, InvalidReply, __redisRunCallback
    <3> QED
      BY <1>3, <3>1
  <2> QED
    BY <1>4, <2>1, <2>2, <2>3, <2>4 DEF redisProcessCallbacks
<1>5. CASE FreeCallsBack \/ FreeEnds \/ TimeoutCallsBack \/ TimeoutEnds
  BY <1>0, <1>1, <1>2, <1>3, <1>5, FreeTurn, TimeoutTurn DEF FreeEnds, Gone, TimeoutEnds
<1>6. CASE UNCHANGED vars \/ CallbackReturns \/ HandleTimeout
  BY <1>3, <1>6 DEF vars, Handled, CallbackReturns, Callbacks, HandleTimeout
<1>7. CASE redisAsyncDisconnect
  BY <1>2, <1>7 DEF redisAsyncDisconnect, Handled
<1>8. CASE redisAsyncFree \/ \E cmd \in Commands : __redisAsyncCommand(cmd)
  BY <1>8 DEF redisAsyncFree, __redisAsyncCommand, Handled
<1>9. CASE HandleConnect \/ SocketFails
  BY <1>2, <1>9 DEF HandleConnect, SocketFails, Dispatched, Handled
<1>10. CASE ConnectReturns \/ NothingToWrite \/ HandleWrite \/ Notice \/ Reject \/ Close
  BY <1>10 DEF ConnectReturns, NothingToWrite, HandleWrite, Notice, Reject, Close, Dispatched, Handled
<1>11. CASE \E n \in 0 .. Len(wire) : HandleRead(n)
  BY <1>3, <1>11 DEF HandleRead
<1> QED
  BY <1>4, <1>5, <1>6, <1>7, <1>8, <1>9, <1>10, <1>11 DEF Next, Handler

-----------------------------------------------------------------------------
(* A command is sent.                                                      *)

LEMMA OneChannelAdded ==
  ASSUME OneChannel, NEW cmd \in Subscribes
  PROVE  Subscribed(cmd) =
           [c \in DOMAIN channels \cup {Args[cmd][1]} |->
              IF c = Args[cmd][1]
                THEN [fn |-> cmd, pending_subs |-> IF c \in DOMAIN channels
                                                     THEN channels[c].pending_subs + 1 ELSE 1]
                ELSE channels[c]]
<1> DEFINE ch == Args[cmd][1]
<1>1. Len(Args[cmd]) = 1
  BY DEF OneChannel
<1>2. PICK g : Turns(cmd, 1, g) /\ Subscribed(cmd) = g[1].dict
  <2>1. Len(Args[cmd]) \in Nat
    BY <1>1
  <2>2. \E g : Turns(cmd, Len(Args[cmd]), g) /\ Subscribed(cmd) = g[Len(Args[cmd])].dict
    BY <2>1, SubscribedIsLastTurn
  <2> QED
    BY <1>1, <2>2
<1>3. g[0] = [dict |-> channels, pending_subs |-> 1]
  BY <1>2 DEF Turns
<1>4. g[1] = AddSubscription(g[0], ch, cmd)
  BY <1>2 DEF Turns
<1>5. Subscribed(cmd) = AddSubscription([dict |-> channels, pending_subs |-> 1], ch, cmd).dict
  BY <1>2, <1>3, <1>4
<1> QED
  BY <1>5 DEF AddSubscription

LEMMA NoneUnsubscribes ==
  ASSUME Types, Shape, ~Unsubscribing
  PROVE  \A p \in 1 .. Total : Flight[p].what # "unsubscribe"
<1>1. /\ \A cmd \in Unsubscribes : ~Contains(obuf, cmd)
      /\ \A r \in Range(wire \o inbuf) : r.kind # "unsubscribe"
  BY DEF Unsubscribing
<1>2. Range(inbuf \o wire) = Range(wire \o inbuf)
  <2>1. /\ Range(inbuf \o wire) = Range(inbuf) \cup Range(wire)
        /\ Range(wire \o inbuf) = Range(wire) \cup Range(inbuf)
    BY RangeConcat DEF Types
  <2> QED
    BY <2>1
<1>3. Sizes /\ ToRead /\ ToWrite /\ QueueTypes
  BY DEF Shape
<1>4. ASSUME NEW p \in 1 .. Written PROVE Flight[p].what # "unsubscribe"
  <2>1. Input[p] \in Range(Input)
    <3>1. p \in DOMAIN Input
      BY <1>3, LenProperties DEF QueueTypes, Sizes
    <3> QED
      BY <3>1 DEF Range
  <2>2. Input[p].kind # "unsubscribe"
    BY <1>1, <1>2, <2>1 DEF Input
  <2>3. Flight[p] = Answer(Input[p])
    BY <1>3 DEF ToRead
  <2> QED
    BY <2>2, <2>3 DEF Answer, About
<1>5. ASSUME NEW p \in Written + 1 .. Total PROVE Flight[p].what # "unsubscribe"
  <2> DEFINE i == p - Written
  <2>1. i \in 1 .. Len(Output)
    BY <1>3 DEF Sizes
  <2>2. Flight[p] = Asked(Output[i])
    BY <1>3 DEF ToWrite
  <2>3. Output[i] \in Commands
    BY <1>3, <2>1, LenProperties DEF QueueTypes
  <2>4. Output = obuf
    <3>1. server = "closed" => Len(Output) = 0
      BY DEF Output
    <3> QED
      BY <2>1, <3>1 DEF Output
  <2> HIDE DEF i
  <2>5. Output[i] \notin Unsubscribes
    BY <1>1, <2>1, <2>4 DEF Contains
  <2> QED
    BY <2>2, <2>3, <2>5 DEF Asked, About, Commands
<1> QED
  BY <1>3, <1>4, <1>5 DEF Sizes

\* What accepting a command does to what is on its way.
LEMMA CommandSends ==
  ASSUME Types, Types', NEW cmd \in Commands, __redisAsyncCommand(cmd)
  PROVE  /\ Input' = Input /\ Now' = Now /\ server' = server /\ subs' = subs /\ resp3' = resp3
         /\ called' = called /\ issued' = Append(issued, cmd)
         /\ \/ server # "closed" /\ FlightGrows(Asked(cmd))
            \/ server = "closed" /\ FlightSame
<1> USE DEF closeVars, localVars, serverVars
<1>1. /\ Input' = Input /\ Now' = Now /\ server' = server /\ subs' = subs /\ resp3' = resp3
      /\ called' = called /\ issued' = Append(issued, cmd) /\ obuf' = Append(obuf, cmd)
  BY DEF __redisAsyncCommand, Input, Now
<1>2. Shape /\ Shape'
  BY FlightShape, NextFlightShape
<1>3. CASE server = "closed"
  <2>1. Output' = Output
    BY <1>1, <1>3 DEF Output
  <2> QED
    BY <1>1, <1>3, <2>1, FlightStays
<1>4. CASE server # "closed"
  <2>1. Output' = Append(Output, cmd)
    BY <1>1, <1>4 DEF Output
  <2> QED
    BY <1>1, <1>2, <1>4, <2>1, FlightSends
<1> QED
  BY <1>3, <1>4

Kept ==
  /\ Calls' /\ Emptied' /\ Naturals'
  /\ Alive /\ Alive' => Matched' /\ Subscription'

LEMMA PlainKept ==
  ASSUME Patient, Types, Types', Calls, Emptied, Naturals, Alive => Matched /\ Subscription,
         NEW cmd \in Plain, __redisAsyncCommand(cmd)
  PROVE  Kept
<1> USE DEF closeVars, clientVars
<1>0. cmd \in Commands /\ cmd \notin Subscribes /\ cmd \notin Unsubscribes
  BY ClientAssumption DEF Commands
<1>1. /\ Input' = Input /\ Now' = Now /\ server' = server /\ subs' = subs /\ resp3' = resp3
      /\ called' = called /\ issued' = Append(issued, cmd)
      /\ \/ server # "closed" /\ FlightGrows(Asked(cmd))
         \/ server = "closed" /\ FlightSame
  BY <1>0, CommandSends
<1>2. Shape /\ Shape' /\ Bounds
  BY FlightShape, NextFlightShape, ShapeBounds
<1>3. Asked(cmd) = About("plain", cmd)
  BY DEF Asked
<1>4. /\ channels' = channels /\ flags' = flags /\ pc' = pc /\ ~Contains(issued, cmd)
      /\ IF "SUBSCRIBED" \in flags
           THEN invalid' = Append(invalid, cmd) /\ replies' = replies
           ELSE replies' = Append(replies, cmd) /\ invalid' = invalid
  BY <1>0 DEF __redisAsyncCommand, Enlist
<1>5. ~Unsubscribing
  BY <1>0 DEF __redisAsyncCommand, InTurn
<1>6. PendingGrows(cmd)
  BY <1>2, <1>4, PendingAppends DEF Emptied
<1>7. \A i \in 1 .. Len(Pending) : Pending[i] # cmd
  BY <1>4 DEF Calls, Uncalled
<1>8. \A p \in 1 .. Total : Flight[p].what # "unsubscribe"
  BY <1>2, <1>5, NoneUnsubscribes
<1>9. Calls'
  <2>1. \A d \in Plain : Contains(issued', d) <=> (Contains(issued, d) \/ d = cmd)
    BY <1>0, <1>1, IssuedGrows
  <2> QED
    BY <1>1, <1>2, <1>4, <1>6, <2>1, CallsAccept
<1>10. Emptied' /\ Naturals'
  <2>1. pc # "freed"
    BY DEF __redisAsyncCommand, UserCode, Callbacks
  <2> QED
    BY <1>4, <2>1 DEF Emptied, Naturals
<1>11. ASSUME Alive PROVE Matched' /\ Subscription'
  <2>1. Matched /\ Subscription
    BY <1>11
  <2>2. \/ Len(replies') = Len(replies)
        \/ Now = {} /\ \A p \in 1 .. Total : Flight[p].what \notin PubSub
    BY <1>4, <2>1 DEF Subscription, NotSubscribed
  <2>3. SubscriptionsKept
    BY <1>1, <1>4 DEF SubscriptionsKept
  <2>4. CASE server # "closed" /\ FlightGrows(About("plain", cmd))
    <3>1. Matched'
      BY <1>1, <1>2, <1>6, <1>7, <1>8, <2>1, <2>2, <2>4, MatchedCommands
    <3>2. About("plain", cmd).what = "plain"
      BY DEF About
    <3>3. Subscription'
      <4> DEFINE x == About("plain", cmd)
      <4>1. FlightGrows(x) /\ x.what = "plain"
        BY <2>4, <3>2
      <4> HIDE DEF x
      <4> QED
        BY <1>1, <1>2, <2>1, <2>3, <2>4, <4>1, SubscriptionCommands
    <3> QED
      BY <3>1, <3>3
  <2>5. CASE server = "closed" /\ FlightSame
    <3>1. Now' = {} /\ server' = "closed"
      BY <1>1, <2>5 DEF Now
    <3>2. Matched'
      BY <1>2, <1>6, <1>7, <1>8, <2>1, <2>2, <2>5, <3>1, MatchedInVain
    <3>3. Subscription'
      BY <1>1, <2>1, <2>3, <2>5, SubscriptionStays
    <3> QED
      BY <3>2, <3>3
  <2> QED
    BY <1>1, <1>3, <2>4, <2>5
<1> QED
  BY <1>9, <1>10, <1>11 DEF Kept

LEMMA SubscribeKept ==
  ASSUME OneChannel, Types, Types', Calls, Emptied, Naturals, Alive => Matched /\ Subscription,
         NEW cmd \in Subscribes, __redisAsyncCommand(cmd)
  PROVE  Kept
<1> USE DEF closeVars, clientVars
<1>0. cmd \in Commands /\ cmd \notin Plain /\ cmd \notin Unsubscribes
  BY ClientAssumption DEF Commands
<1>1. /\ Input' = Input /\ Now' = Now /\ server' = server /\ subs' = subs /\ resp3' = resp3
      /\ called' = called /\ issued' = Append(issued, cmd)
      /\ \/ server # "closed" /\ FlightGrows(Asked(cmd))
         \/ server = "closed" /\ FlightSame
  BY <1>0, CommandSends
<1>2. Shape /\ Shape' /\ Bounds
  BY FlightShape, NextFlightShape, ShapeBounds
<1>3. Asked(cmd) = About("subscribe", Args[cmd][1])
  BY <1>0 DEF Asked
<1>4. /\ channels' = Subscribed(cmd) /\ flags' = flags \cup {"SUBSCRIBED"} /\ pc' = pc
      /\ replies' = replies /\ invalid' = invalid
  BY <1>0 DEF __redisAsyncCommand, Enlist
<1>5. ChannelAdded(cmd)
  BY <1>4, OneChannelAdded DEF ChannelAdded
<1>6. PendingSame
  BY <1>4, PendingStays
<1>7. Calls'
  <2>1. \A d \in Plain : Contains(issued', d) <=> Contains(issued, d)
    <3>1. \A d : Contains(issued', d) <=> (Contains(issued, d) \/ d = cmd)
      BY <1>0, <1>1, IssuedGrows
    <3> QED
      BY <1>0, <3>1
  <2> QED
    BY <1>1, <1>2, <1>6, <2>1, CallsStay
<1>8. Emptied'
  <2>1. pc # "freed"
    BY DEF __redisAsyncCommand, UserCode, Callbacks
  <2> QED
    BY <1>4, <2>1 DEF Emptied
<1>9. Naturals'
  <2> SUFFICES ASSUME NEW c \in DOMAIN channels' PROVE channels'[c].pending_subs >= 0
    BY DEF Naturals
  <2>1. CASE c # Args[cmd][1]
    BY <1>5, <2>1 DEF ChannelAdded, Naturals
  <2>2. CASE c = Args[cmd][1]
    <3>1. c \in DOMAIN channels => channels[c].pending_subs \in Int /\ channels[c].pending_subs >= 0
      BY DEF Naturals, Types, Entry
    <3>2. channels'[c].pending_subs = IF c \in DOMAIN channels THEN channels[c].pending_subs + 1 ELSE 1
      BY <1>5, <2>2 DEF ChannelAdded
    <3> QED
      BY <3>1, <3>2
  <2> QED
    BY <2>1, <2>2
<1>10. ASSUME Alive PROVE Matched' /\ Subscription'
  <2>1. Matched /\ Subscription
    BY <1>10
  <2>2. Matched'
    <3>1. CASE server = "closed" /\ FlightSame
      BY <1>1, <1>2, <1>6, <2>1, <3>1, MatchedStays
    <3>2. CASE server # "closed" /\ FlightGrows(Asked(cmd))
      <4> DEFINE x == About("subscribe", Args[cmd][1])
      <4>1. FlightGrows(x) /\ x.what \in {"subscribe", "unsubscribe"}
        BY <1>3, <3>2 DEF About
      <4> HIDE DEF x
      <4> QED
        BY <1>1, <1>2, <1>6, <2>1, <3>2, <4>1, MatchedAsks
    <3> QED
      BY <1>1, <3>1, <3>2
  <2>3. "SUBSCRIBED" \in flags'
    BY <1>4
  <2>4. \/ server # "closed" /\ FlightGrows(About("subscribe", Args[cmd][1]))
        \/ server = "closed" /\ FlightSame
    BY <1>1, <1>3
  <2>5. Subscription'
    BY <1>1, <1>2, <1>5, <2>1, <2>3, <2>4, SubscriptionAdds
  <2> QED
    BY <2>2, <2>5
<1> QED
  BY <1>7, <1>8, <1>9, <1>10 DEF Kept

LEMMA UnsubscribeKept ==
  ASSUME Patient, OneChannel, Types, Types', Calls, Emptied, Naturals, Alive => Matched /\ Subscription,
         NEW cmd \in Unsubscribes, __redisAsyncCommand(cmd)
  PROVE  Kept
<1> USE DEF closeVars, clientVars
<1>0. cmd \in Commands /\ cmd \notin Plain /\ cmd \notin Subscribes
  BY ClientAssumption DEF Commands
<1>1. /\ Input' = Input /\ Now' = Now /\ server' = server /\ subs' = subs /\ resp3' = resp3
      /\ called' = called /\ issued' = Append(issued, cmd)
      /\ \/ server # "closed" /\ FlightGrows(Asked(cmd))
         \/ server = "closed" /\ FlightSame
  BY <1>0, CommandSends
<1>2. Shape /\ Shape' /\ Bounds
  BY FlightShape, NextFlightShape, ShapeBounds
<1> DEFINE x == About("unsubscribe", Args[cmd][1])
<1>3. Asked(cmd) = x /\ x.what = "unsubscribe" /\ x.of = Args[cmd][1]
  BY <1>0 DEF Asked, About
<1> HIDE DEF x
<1>4. /\ channels' = channels /\ flags' = flags /\ pc' = pc /\ replies' = replies /\ invalid' = invalid
      /\ "SUBSCRIBED" \in flags
  BY <1>0 DEF __redisAsyncCommand, Enlist, Accepting
<1>5. ~Unsubscribing /\ Range(Args[cmd]) \subseteq DOMAIN channels
  BY <1>0 DEF __redisAsyncCommand, InTurn
<1>6. PendingSame
  BY <1>4, PendingStays
<1>7. Calls'
  <2>1. \A d \in Plain : Contains(issued', d) <=> Contains(issued, d)
    <3>1. \A d : Contains(issued', d) <=> (Contains(issued, d) \/ d = cmd)
      BY <1>0, <1>1, IssuedGrows
    <3> QED
      BY <1>0, <3>1
  <2> QED
    BY <1>1, <1>2, <1>6, <2>1, CallsStay
<1>8. Emptied' /\ Naturals'
  <2>1. pc # "freed"
    BY DEF __redisAsyncCommand, UserCode, Callbacks
  <2> QED
    BY <1>4, <2>1 DEF Emptied, Naturals
<1>9. \A p \in 1 .. Total : Flight[p].what # "unsubscribe"
  BY <1>2, <1>5, NoneUnsubscribes
<1>10. Args[cmd][1] \in DOMAIN channels
  <2>1. 1 \in DOMAIN Args[cmd]
    BY <1>0, ClientAssumption, LenProperties DEF OneChannel
  <2> QED
    BY <1>5, <2>1 DEF Range
<1>11. ASSUME Alive PROVE Matched' /\ Subscription'
  <2>1. Matched /\ Subscription
    BY <1>11
  <2>2. SubscriptionsKept
    BY <1>1, <1>4 DEF SubscriptionsKept
  <2>3. CASE server = "closed" /\ FlightSame
    BY <1>1, <1>2, <1>6, <2>1, <2>2, <2>3, MatchedStays, SubscriptionStays
  <2>4. CASE server # "closed" /\ FlightGrows(x)
    <3>1. Matched'
      BY <1>1, <1>2, <1>3, <1>6, <2>1, <2>4, MatchedAsks
    <3>2. Subscription'
      BY <1>1, <1>2, <1>3, <1>4, <1>9, <1>10, <2>1, <2>2, <2>4, SubscriptionCommands
    <3> QED
      BY <3>1, <3>2
  <2> QED
    BY <1>1, <1>3, <2>3, <2>4
<1> QED
  BY <1>7, <1>8, <1>11 DEF Kept

-----------------------------------------------------------------------------
(* A command is written and answered, and what the server does of its own. *)

LEMMA OneRange ==
  ASSUME OneChannel, NEW cmd \in Subscribes \cup Unsubscribes
  PROVE  Range(Args[cmd]) = {Args[cmd][1]} /\ Args[cmd][1] \in Channels
<1>1. Len(Args[cmd]) = 1 /\ Args[cmd] \in Seq(Channels)
  BY ClientAssumption DEF OneChannel
<1>2. DOMAIN Args[cmd] = {1}
  BY <1>1, LenProperties
<1>3. Args[cmd][1] \in Channels
  BY <1>1, LenProperties
<1> QED
  BY <1>2, <1>3 DEF Range

LEMMA OneAnswer ==
  ASSUME Types, OneChannel, NEW cmd \in Commands, NEW kind \in {"reply", "error"}
  PROVE  \E r \in Item :
           /\ Answers(cmd, kind) = << r >> /\ Answer(r) = Asked(cmd)
           /\ r.kind = "unsubscribe" => r.left = Cardinality(subs \ {r.of})
<1> DEFINE k == IF subs # {} /\ ~resp3 THEN "error" ELSE kind
           a == Answers(cmd, kind)
<1>0. k \in {"reply", "error"} /\ a \in Seq(Item)
  BY AnswersFit
<1> HIDE DEF k
<1>1. CASE cmd \in Plain
  <2>1. a = << Reply(k, cmd, 0) >>
    BY <1>1 DEF Answers, k
  <2>2. Answer(Reply(k, cmd, 0)) = Asked(cmd)
    BY <1>0, <1>1 DEF Answer, Asked, About, Reply
  <2>3. Reply(k, cmd, 0).kind # "unsubscribe"
    BY <1>0 DEF Reply
  <2>4. Reply(k, cmd, 0) \in Item
    BY <1>0, <1>1 DEF Reply, Item
  <2> QED
    BY <2>1, <2>2, <2>3, <2>4
<1>2. CASE cmd \notin Plain
  <2> DEFINE ch == Args[cmd][1]
  <2>0. cmd \in Subscribes \cup Unsubscribes /\ Len(Args[cmd]) = 1
    BY <1>2 DEF Commands, OneChannel
  <2>1. a = [i \in 1 .. Len(Args[cmd]) |->
               LET named == {Args[cmd][j] : j \in 1 .. i}
               IN  IF cmd \in Subscribes
                     THEN Reply("subscribe", Args[cmd][i], Cardinality(subs \cup named))
                     ELSE Reply("unsubscribe", Args[cmd][i], Cardinality(subs \ named))]
    BY <1>2 DEF Answers
  <2>2. {Args[cmd][j] : j \in 1 .. 1} = {ch}
    OBVIOUS
  <2>3. 1 \in 1 .. Len(Args[cmd])
    BY <2>0
  <2>4. a[1] = IF cmd \in Subscribes THEN Reply("subscribe", ch, Cardinality(subs \cup {ch}))
                                     ELSE Reply("unsubscribe", ch, Cardinality(subs \ {ch}))
    BY <2>1, <2>2, <2>3
  <2>5. DOMAIN a = 1 .. 1
    BY <2>0, <2>1
  <2> HIDE DEF a
  <2>6. a = << a[1] >> /\ a[1] \in Item
    <3>1. Len(a) = 1
      BY <1>0, <2>5, LenProperties
    <3>2. a = << a[1] >>
      <4>1. \A S : \A s \in Seq(S) : Len(s) = 1 => s = << s[1] >>
        OBVIOUS
      <4> QED
        BY <1>0, <3>1, <4>1
    <3>3. a[1] \in Item
      BY <1>0, <2>5, ElementOfSeq
    <3> QED
      BY <3>2, <3>3
  <2>7. Answer(a[1]) = Asked(cmd)
    BY <1>2, <2>4 DEF Answer, Asked, About, Reply
  <2>8. a[1].kind = "unsubscribe" => a[1].left = Cardinality(subs \ {a[1].of})
    BY <2>4 DEF Reply
  <2> QED
    BY <2>6, <2>7, <2>8 DEF a
<1> QED
  BY <1>1, <1>2

LEMMA InputGrows ==
  ASSUME Types, NEW r \in Item, inbuf' = inbuf, wire' = wire \o << r >>
  PROVE  Input' = Append(Input, r)
<1>1. inbuf \in Seq(Item) /\ wire \in Seq(Item) /\ << r >> \in Seq(Item)
  BY DEF Types
<1>2. inbuf \o (wire \o << r >>) = (inbuf \o wire) \o << r >>
  BY <1>1, ConcatAssociative
<1>3. Input \in Seq(Item)
  BY <1>1, ConcatProperties DEF Input
<1>4. Input \o << r >> = Append(Input, r)
  BY <1>3, AppendIsConcat
<1> QED
  BY <1>2, <1>4 DEF Input

\* The lists are left alone, whatever happens on the wire.
LEMMA ListsKept ==
  ASSUME Shape, Calls, Naturals, UNCHANGED clientVars, UNCHANGED historyVars
  PROVE  Calls' /\ Naturals'
<1>1. PendingSame
  BY PendingStays DEF clientVars
<1>2. Calls'
  BY <1>1, CallsStay DEF historyVars
<1> QED
  BY <1>2 DEF Naturals, clientVars

LEMMA WriteKept ==
  ASSUME OneChannel, Types, Types', Calls, Emptied, Naturals, Alive => Matched /\ Subscription, HandleWrite
  PROVE  Kept
<1>0. Shape /\ Shape' /\ Bounds
  BY FlightShape, NextFlightShape, ShapeBounds
<1>1. /\ UNCHANGED clientVars /\ UNCHANGED historyVars /\ flags' = flags /\ resp3' = resp3
      /\ replies' = replies /\ invalid' = invalid /\ channels' = channels
      /\ inbuf' = inbuf /\ obuf' = Tail(obuf) /\ obuf # << >> /\ pc' = "loop"
  BY DEF HandleWrite, clientVars
<1>2. Calls' /\ Naturals'
  BY <1>0, <1>1, ListsKept
<1>3. Emptied'
  BY <1>1 DEF Emptied
<1>4. PendingSame
  BY <1>1, PendingStays
<1>5. ASSUME Alive PROVE Matched' /\ Subscription'
  <2>0. Matched /\ Subscription
    BY <1>5
  <2>1. CASE server = "closed"
    <3>1. server' = server /\ subs' = subs /\ wire' = wire
      BY <2>1 DEF HandleWrite
    <3>2. Input' = Input /\ Output' = Output /\ Now' = Now
      BY <1>1, <2>1, <3>1 DEF Input, Output, Now
    <3>3. FlightSame
      BY <3>2, FlightStays
    <3>4. SubscriptionsKept
      BY <1>1, <3>1, <3>2 DEF SubscriptionsKept
    <3> QED
      BY <1>0, <1>4, <2>0, <3>1, <3>2, <3>3, <3>4, MatchedStays, SubscriptionStays
  <2>2. CASE server # "closed"
    <3> DEFINE cmd == Head(obuf)
    <3>1. cmd \in Commands
      BY <1>1, HeadTailProperties DEF Types
    <3>2. PICK kind \in {"reply", "error"} : wire' = wire \o Answers(cmd, kind)
      BY <2>2 DEF HandleWrite
    <3>3. /\ server' = "open"
          /\ subs' = IF cmd \in Subscribes THEN subs \cup Range(Args[cmd])
                     ELSE IF cmd \in Unsubscribes THEN subs \ Range(Args[cmd])
                     ELSE subs
      BY <2>2 DEF HandleWrite
    <3> HIDE DEF cmd
    <3>4. PICK r \in Item : /\ Answers(cmd, kind) = << r >> /\ Answer(r) = Asked(cmd)
                            /\ r.kind = "unsubscribe" => r.left = Cardinality(subs \ {r.of})
      BY <3>1, OneAnswer
    <3>5. Input' = Append(Input, r)
      BY <1>1, <3>2, <3>4, InputGrows
    <3>6. Output # << >> /\ Output' = Tail(Output) /\ Head(Output) = cmd
      BY <1>1, <2>2, <3>3 DEF Output, cmd
    <3>7. /\ FlightWritten /\ Written < Total /\ Flight[Written + 1] = Asked(cmd)
          /\ Input'[Written + 1] = r
      BY <1>0, <3>4, <3>5, <3>6, FlightWrites
    <3> DEFINE x == Asked(cmd)
    <3>8. x.what \in {"plain", "subscribe", "unsubscribe"} /\ x = About(x.what, x.of)
      BY DEF Asked, About
    <3>9. Obeyed(x)
      <4>1. Now = subs /\ Now' = subs'
        BY <2>2, <3>3 DEF Now
      <4>2. CASE cmd \in Plain
        BY <3>3, <4>1, <4>2, ClientAssumption DEF Asked, About, Obeyed
      <4>3. CASE cmd \in Subscribes
        BY <3>3, <4>1, <4>3, OneRange, ClientAssumption DEF Asked, About, Obeyed
      <4>4. CASE cmd \in Unsubscribes
        BY <3>3, <4>1, <4>4, OneRange, ClientAssumption DEF Asked, About, Obeyed
      <4> QED
        BY <3>1, <4>2, <4>3, <4>4 DEF Commands
    <3>10. x = Flight[Written + 1]
      BY <3>7
    <3> HIDE DEF x
    <3>11. Matched'
      <4>1. Now # {} \/ Now' = {} \/ Flight[Written + 1].what = "subscribe"
        BY <3>9, <3>10 DEF Obeyed
      <4> QED
        BY <1>0, <1>4, <2>0, <2>2, <3>7, <4>1, MatchedWrites
    <3>12. Input'[Written + 1].kind = "unsubscribe" /\ Input'[Written + 1].left # 0 =>
             \E c \in Now : c # Input'[Written + 1].of
      <4>1. ASSUME r.kind = "unsubscribe", r.left # 0 PROVE \E c \in Now : c # r.of
        <5>1. Cardinality(subs \ {r.of}) # 0
          BY <3>4, <4>1
        <5>2. Cardinality({}) = 0
          BY FS_EmptySet
        <5>3. subs \ {r.of} # {}
          BY <5>1, <5>2
        <5> QED
          BY <2>2, <5>3 DEF Now
      <4> QED
        BY <3>7, <4>1
    <3>13. Subscription'
      BY <1>0, <1>1, <2>0, <2>2, <3>3, <3>7, <3>8, <3>9, <3>10, <3>12, SubscriptionWrites
    <3> QED
      BY <3>11, <3>13
  <2> QED
    BY <2>1, <2>2
<1> QED
  BY <1>2, <1>3, <1>5 DEF Kept

LEMMA NoticeKept ==
  ASSUME Types, Types', Calls, Emptied, Naturals, Alive => Matched /\ Subscription, Notice
  PROVE  Kept
<1>0. Shape /\ Shape' /\ Bounds
  BY FlightShape, NextFlightShape, ShapeBounds
<1>1. /\ UNCHANGED clientVars /\ UNCHANGED historyVars /\ flags' = flags /\ resp3' = resp3
      /\ replies' = replies /\ invalid' = invalid /\ channels' = channels
      /\ inbuf' = inbuf /\ obuf' = obuf /\ pc' = pc /\ server = "open" /\ server' = server /\ subs' = subs
  BY DEF Notice, clientVars
<1>2. Calls' /\ Naturals'
  BY <1>0, <1>1, ListsKept
<1>3. Emptied'
  BY <1>1 DEF Emptied
<1>4. PendingSame
  BY <1>1, PendingStays
<1>5. PICK r \in Item : /\ wire' = Append(wire, r)
                        /\ r.kind = "push" \/ \E ch \in subs : r = Reply("message", ch, 0)
  <2>1. \A ch \in subs : Reply("message", ch, 0) \in Item
    BY DEF Types, Reply, Item, PubSub
  <2>2. Reply("push", None, 0) \in Item /\ Reply("push", None, 0).kind = "push"
    BY DEF Reply, Item
  <2> QED
    BY <2>1, <2>2 DEF Notice
<1>6. Input' = Append(Input, r)
  <2>1. Append(wire, r) = wire \o << r >>
    BY AppendIsConcat DEF Types
  <2> QED
    BY <1>1, <1>5, <2>1, InputGrows
<1>7. Output' = Output /\ Now' = Now /\ Now = subs
  BY <1>1 DEF Output, Now
<1> DEFINE x == Answer(r)
<1>8. FlightInserted(x) /\ Input'[Written + 1] = r
  BY <1>0, <1>6, <1>7, FlightInserts
<1>9. /\ x.what \in {"message", "push"} /\ (x.what = "message" => Now # {})
      /\ x.what = "push" \/ \E ch \in Now : x = About("message", ch)
      /\ r.kind \in {"push", "message"}
  BY <1>5, <1>7 DEF Answer, About, Reply
<1> HIDE DEF x
<1>10. ASSUME Alive PROVE Matched' /\ Subscription'
  <2>0. Matched /\ Subscription
    BY <1>10
  <2>1. Matched'
    BY <1>0, <1>1, <1>4, <1>7, <1>8, <1>9, <2>0, MatchedSpeaks
  <2>2. SubscriptionsKept
    BY <1>1, <1>7 DEF SubscriptionsKept
  <2>3. Subscription'
    BY <1>0, <1>1, <1>8, <1>9, <2>0, <2>2, SubscriptionSpeaks
  <2> QED
    BY <2>1, <2>3
<1> QED
  BY <1>2, <1>3, <1>10 DEF Kept

LEMMA CloseKept ==
  ASSUME Types, Types', Calls, Emptied, Naturals, Alive => Matched /\ Subscription, Close
  PROVE  Kept
<1>0. Shape /\ Shape' /\ Bounds
  BY FlightShape, NextFlightShape, ShapeBounds
<1>1. /\ UNCHANGED clientVars /\ UNCHANGED historyVars /\ flags' = flags /\ resp3' = resp3
      /\ replies' = replies /\ invalid' = invalid /\ channels' = channels
      /\ inbuf' = inbuf /\ wire' = wire /\ pc' = pc /\ server' = "closed"
  BY DEF Close, clientVars
<1>2. Calls' /\ Naturals'
  BY <1>0, <1>1, ListsKept
<1>3. Emptied'
  BY <1>1 DEF Emptied
<1>4. PendingSame
  BY <1>1, PendingStays
<1>5. Input' = Input /\ Len(Output') = 0 /\ Now' = {}
  BY <1>1 DEF Input, Output, Now
<1>6. FlightCut
  BY <1>0, <1>5, FlightEnds
<1>7. ASSUME Alive PROVE Matched' /\ Subscription'
  <2>0. Matched /\ Subscription
    BY <1>7
  <2>1. Matched'
    BY <1>0, <1>1, <1>4, <1>5, <1>6, <2>0, MatchedEnds
  <2>2. Subscription'
    BY <1>0, <1>1, <1>5, <1>6, <2>0, SubscriptionEnds
  <2> QED
    BY <2>1, <2>2
<1> QED
  BY <1>2, <1>3, <1>7 DEF Kept

LEMMA RejectKept ==
  ASSUME Types, Types', Calls, Emptied, Naturals, Alive => Matched /\ Subscription, Reject
  PROVE  Kept
<1>0. Shape /\ Shape' /\ Bounds
  BY FlightShape, NextFlightShape, ShapeBounds
<1> DEFINE r == Reply("error", None, 0)
<1>1. /\ UNCHANGED clientVars /\ UNCHANGED historyVars /\ flags' = flags /\ resp3' = resp3
      /\ replies' = replies /\ invalid' = invalid /\ channels' = channels
      /\ inbuf' = inbuf /\ wire' = << r >> /\ pc' = pc /\ server = "new" /\ server' = "closed"
  BY DEF Reject, clientVars
<1>2. Calls' /\ Naturals'
  BY <1>0, <1>1, ListsKept
<1>3. Emptied'
  BY <1>1 DEF Emptied
<1>4. ASSUME Alive PROVE Matched' /\ Subscription'
  <2>0. Matched /\ Subscription
    BY <1>4
  <2>1. Written = 0
    BY <1>1, <2>0 DEF Subscription, Silent
  <2>2. inbuf = << >>
    <3>1. Len(inbuf) \in Nat /\ Len(wire) \in Nat /\ Len(inbuf) + Len(wire) = 0
      BY <2>1, LenProperties, ConcatProperties DEF Types, Written, Input
    <3>2. Len(inbuf) = 0
      BY <3>1
    <3> QED
      BY <3>2, EmptySeq DEF Types
  <2>3. Input' = << r >>
    BY <1>1, <2>2 DEF Input
  <2>4. Len(Output') = 0 /\ Now' = {}
    BY <1>1 DEF Output, Now
  <2>5. Written' = 1 /\ Total' = 1 /\ Input'[1] = r
    BY <2>3, <2>4 DEF Written, Total
  <2>6. Flight'[1] = About("refusal", None)
    <3>1. 1 \in 1 .. Written'
      BY <2>5
    <3>2. Flight'[1] = Answer(Input'[1])
      BY <1>0, <3>1 DEF Shape, ToRead
    <3>3. None \notin Plain
      BY ClientAssumption DEF Commands
    <3> QED
      BY <2>5, <3>2, <3>3 DEF Answer, Reply
  <2>7. Input'[1].kind = "error"
    BY <2>5 DEF Reply
  <2>8. Matched'
    <3>1. \A p \in 1 .. Total' : Flight'[p].what = "refusal"
      BY <2>5, <2>6 DEF About
    <3> QED
      BY <1>1, <2>4, <3>1, MatchedRefused
  <2>9. Subscription'
    BY <1>0, <1>1, <2>0, <2>4, <2>5, <2>6, <2>7, SubscriptionRefused
  <2> QED
    BY <2>8, <2>9
<1> QED
  BY <1>2, <1>3, <1>4 DEF Kept

-----------------------------------------------------------------------------
(* A reply is handled.                                                     *)

LEMMA TailOfConcat ==
  ASSUME NEW S, NEW s \in Seq(S), NEW t \in Seq(S), s # << >>
  PROVE  Tail(s) \o t = Tail(s \o t) /\ Head(s \o t) = Head(s) /\ s \o t # << >>
<1> DEFINE u == Tail(s) \o t
           v == Tail(s \o t)
<1>1. /\ Len(s) \in Nat /\ Len(t) \in Nat /\ Len(s) # 0
      /\ Tail(s) \in Seq(S) /\ Len(Tail(s)) = Len(s) - 1
      /\ \A i \in 1 .. Len(s) - 1 : Tail(s)[i] = s[i + 1]
  BY LenProperties, EmptySeq, HeadTailProperties
<1>2. /\ s \o t \in Seq(S) /\ Len(s \o t) = Len(s) + Len(t)
      /\ \A i \in 1 .. Len(s) + Len(t) : (s \o t)[i] = IF i <= Len(s) THEN s[i] ELSE t[i - Len(s)]
  BY ConcatProperties
<1>3. s \o t # << >>
  BY <1>1, <1>2
<1>4. /\ v \in Seq(S) /\ Len(v) = Len(s) + Len(t) - 1
      /\ \A i \in 1 .. Len(s) + Len(t) - 1 : v[i] = (s \o t)[i + 1]
  BY <1>1, <1>2, <1>3, HeadTailProperties
<1>5. /\ u \in Seq(S) /\ Len(u) = Len(s) - 1 + Len(t)
      /\ \A i \in 1 .. Len(s) - 1 + Len(t) :
           u[i] = IF i <= Len(s) - 1 THEN Tail(s)[i] ELSE t[i - (Len(s) - 1)]
  BY <1>1, ConcatProperties
<1> HIDE DEF u, v
<1>6. ASSUME NEW i \in 1 .. Len(u) PROVE u[i] = v[i]
  <2>0. i \in 1 .. Len(s) - 1 + Len(t) /\ i \in 1 .. Len(s) + Len(t) - 1 /\ i + 1 \in 1 .. Len(s) + Len(t)
    BY <1>1, <1>5
  <2>1. v[i] = IF i + 1 <= Len(s) THEN s[i + 1] ELSE t[i + 1 - Len(s)]
    BY <1>2, <1>4, <2>0
  <2>2. CASE i <= Len(s) - 1
    BY <1>1, <1>5, <2>0, <2>1, <2>2
  <2>3. CASE ~(i <= Len(s) - 1)
    <3>1. i - (Len(s) - 1) = i + 1 - Len(s) /\ ~(i + 1 <= Len(s))
      BY <1>1, <2>0, <2>3
    <3> QED
      BY <1>5, <2>0, <2>1, <2>3, <3>1
  <2> QED
    BY <2>2, <2>3
<1>7. u = v
  <2>1. Len(u) = Len(v)
    BY <1>1, <1>4, <1>5
  <2> QED
    BY <1>4, <1>5, <1>6, <2>1, SeqEqual
<1>8. Head(s \o t) = Head(s)
  <2>1. 1 \in 1 .. Len(s) + Len(t) /\ 1 <= Len(s)
    BY <1>1
  <2> QED
    BY <1>2, <2>1
<1> QED
  BY <1>3, <1>7, <1>8 DEF u, v

LEMMA FirstReply ==
  ASSUME Types, Types', NextReply, UNCHANGED << wire, obuf, serverVars >>
  PROVE  /\ FlightTaken /\ Input[1] = reply' /\ Flight[1] = Answer(reply')
         /\ 1 \in 1 .. Written /\ 1 \in 1 .. Total /\ Total > 0
         /\ Now' = Now /\ server' = server /\ subs' = subs /\ resp3' = resp3 /\ reply' \in Item
<1>1. Shape /\ Shape' /\ Bounds
  BY FlightShape, NextFlightShape, ShapeBounds
<1>2. inbuf \in Seq(Item) /\ wire \in Seq(Item) /\ inbuf # << >>
  BY DEF Types, NextReply
<1>3. Input # << >> /\ Input' = Tail(Input) /\ Head(Input) = reply'
  BY <1>2, TailOfConcat DEF NextReply, Input
<1>4. /\ server' = server /\ subs' = subs /\ resp3' = resp3 /\ Output' = Output /\ Now' = Now
  BY DEF serverVars, Output, Now
<1>5. FlightTaken
  BY <1>1, <1>3, <1>4, FlightTakes
<1>6. 1 \in 1 .. Written /\ 1 \in 1 .. Total /\ Total > 0
  BY <1>1, <1>5 DEF FlightTaken, Bounds
<1>7. Input[1] = reply'
  BY <1>3
<1>8. Flight[1] = Answer(Input[1]) /\ Input[1] \in Item
  BY <1>1, <1>6, InputAnswers
<1> QED
  BY <1>4, <1>5, <1>6, <1>7, <1>8

LEMMA RunCounts ==
  ASSUME Types, NEW cmd \in Commands \cup {None}, NEW fl, NEW at, NEW got,
         __redisRunCallback(cmd, fl, at, got)
  PROVE  /\ issued' = issued
         /\ called' = IF cmd \in Plain \ NullFn THEN [called EXCEPT ![cmd] = @ + 1] ELSE called
         /\ "SUBSCRIBED" \in flags' <=> "SUBSCRIBED" \in fl
<1>0. None \notin Plain
  BY ClientAssumption DEF Commands
<1>1. CASE cmd \in NullFn \cup {None}
  BY <1>0, <1>1 DEF __redisRunCallback, historyVars
<1>2. CASE cmd \notin NullFn \cup {None}
  <2>1. flags' = fl \cup {"IN_CALLBACK"} /\ Count(cmd, got)
    BY <1>2 DEF __redisRunCallback
  <2>2. CASE cmd \in Plain
    BY <1>2, <2>1, <2>2 DEF Count
  <2>3. CASE cmd \notin Plain
    BY <1>2, <2>1, <2>3 DEF Count, historyVars
  <2> QED
    BY <2>1, <2>2, <2>3
<1> QED
  BY <1>1, <1>2

\* Where a reply goes, if the first thing on its way is about a command or a channel.
LEMMA FirstPlain ==
  ASSUME Bounds, Shape, Matched, Total > 0, Flight[1].what \in PubSub
  PROVE  /\ Len(replies) = 0
         /\ Flight[1].what = "unsubscribe" => Len(Pending) = 0
<1>1. 1 \in 1 .. Total
  BY DEF Bounds
<1>2. \A i : ~Answered(i, 1 - 1)
  BY DEF Answered
<1>3. \A i \in 1 .. Len(replies) : FALSE
  BY <1>1, <1>2 DEF Matched, RepliesFirst
<1>4. Flight[1].what = "unsubscribe" => \A i \in 1 .. Len(Pending) : FALSE
  BY <1>1, <1>2 DEF Matched, UnsubscribeLast
<1> QED
  BY <1>3, <1>4 DEF Bounds

LEMMA PushKept ==
  ASSUME Types, Types', Calls, Emptied, Naturals, Matched, Subscription, PushReply
  PROVE  Kept /\ RightReply' /\ pc' # "aborted"
<1>0. Shape /\ Shape' /\ Bounds
  BY FlightShape, NextFlightShape, ShapeBounds
<1>1. /\ NextReply /\ UNCHANGED << wire, obuf, serverVars >> /\ UNCHANGED clientVars /\ UNCHANGED historyVars
      /\ flags' = flags \cup {"IN_CALLBACK"} /\ pc' = "push_cb" /\ redisIsSpontaneousPushReply(reply')
      /\ replies' = replies /\ invalid' = invalid /\ channels' = channels
  BY DEF PushReply, clientVars
<1>2. /\ FlightTaken /\ Flight[1] = Answer(reply')
      /\ Now' = Now /\ server' = server /\ subs' = subs /\ resp3' = resp3
  BY <1>1, FirstReply
<1>3. Calls' /\ Naturals'
  BY <1>0, <1>1, ListsKept
<1>4. Emptied'
  BY <1>1 DEF Emptied
<1>5. PendingSame
  BY <1>1, PendingStays
<1>6. /\ Flight[1].what # "plain" /\ Flight[1].what # "subscribe"
      /\ Flight[1].what # "unsubscribe" \/ resp3
  BY <1>1, <1>2 DEF Answer, About, redisIsSpontaneousPushReply, redisIsPushReply,
                    redisIsSubscribeReply, PubSub
<1>7. Matched'
  BY <1>0, <1>2, <1>5, <1>6, MatchedTakes
<1>8. SubscriptionsKept
  BY <1>1, <1>2 DEF SubscriptionsKept
<1>9. Subscription'
  BY <1>0, <1>2, <1>6, <1>8, SubscriptionPasses
<1> QED
  BY <1>1, <1>3, <1>4, <1>7, <1>9 DEF Kept, RightReply

\* The callback that is called is the one whose answer it is.
LEMMA AnswerKept ==
  ASSUME Types, Types', Calls, Emptied, Naturals, Matched, Subscription,
         NextReply, UNCHANGED << wire, obuf, serverVars, channels >>, Flight[1].what = "plain",
         PendingPops, cb' = Pending[1], __redisRunCallback(cb', flags, "process", TRUE),
         "SUBSCRIBED" \notin flags => invalid' = invalid
  PROVE  Kept /\ RightReply' /\ pc' # "aborted"
<1>0. Shape /\ Shape' /\ Bounds
  BY FlightShape, NextFlightShape, ShapeBounds
<1>1. /\ FlightTaken /\ Flight[1] = Answer(reply') /\ Total > 0
      /\ Now' = Now /\ server' = server /\ subs' = subs /\ resp3' = resp3
  BY FirstReply
<1>2. Len(Pending) > 0 /\ Flight[1] = About("plain", Pending[1])
  BY <1>0, <1>1, FirstAnswered
<1>3. Pending[1] \in Plain
  BY <1>0, <1>2, LenProperties DEF Shape, QueueTypes, Bounds
<1>4. reply'.of = cb' /\ cb' \in Plain /\ cb' \in Commands \cup {None}
  BY <1>1, <1>2, <1>3 DEF Answer, About, Commands
<1>5. /\ issued' = issued
      /\ called' = IF cb' \in Plain \ NullFn THEN [called EXCEPT ![cb'] = @ + 1] ELSE called
      /\ "SUBSCRIBED" \in flags' <=> "SUBSCRIBED" \in flags
  BY <1>4, RunCounts
<1>6. called' = IF Pending[1] \in NullFn THEN called ELSE [called EXCEPT ![Pending[1]] = @ + 1]
  BY <1>3, <1>5
<1>7. Calls'
  BY <1>0, <1>5, <1>6, CallsPop
<1>8. pc' \in {"process", "reply_cb"}
  BY DEF __redisRunCallback
<1>9. Emptied' /\ Naturals'
  BY <1>5, <1>8 DEF Emptied, Naturals
<1>10. Matched'
  BY <1>0, <1>1, MatchedAnswers DEF Calls, Distinct
<1>11. SubscriptionsKept
  BY <1>1, <1>5 DEF SubscriptionsKept
<1>12. Subscription'
  BY <1>0, <1>1, <1>11, SubscriptionPasses
<1> QED
  BY <1>4, <1>7, <1>8, <1>9, <1>10, <1>12 DEF Kept, RightReply

LEMMA RegularKept ==
  ASSUME Types, Types', Calls, Emptied, Naturals, Matched, Subscription, RegularReply
  PROVE  Kept /\ RightReply' /\ pc' # "aborted"
<1>0. Shape /\ Shape' /\ Bounds
  BY FlightShape, NextFlightShape, ShapeBounds
<1>1. /\ NextReply /\ UNCHANGED << wire, obuf, serverVars, channels >>
      /\ replies # << >> /\ replies' = Tail(replies) /\ invalid' = invalid /\ channels' = channels
      /\ cb' = Head(replies) /\ ~redisIsSpontaneousPushReply(reply')
      /\ __redisRunCallback(cb', flags, "process", TRUE)
  BY DEF RegularReply
<1>2. /\ FlightTaken /\ Flight[1] = Answer(reply') /\ Total > 0 /\ 1 \in 1 .. Total
      /\ Now' = Now /\ server' = server /\ subs' = subs /\ resp3' = resp3 /\ reply' \in Item
  BY <1>1, FirstReply
<1>3. PendingPops /\ Pending[1] = Head(replies)
  BY <1>0, <1>1, PendingTakes
<1>4. Flight[1].what \notin PubSub
  <2>1. Len(replies) # 0
    BY <1>1, EmptySeq DEF Types
  <2> QED
    BY <1>0, <1>2, <2>1, FirstPlain
<1>5. Flight[1].what \in {"plain", "refusal"}
  <2>1. reply'.kind # "push"
    BY <1>1 DEF redisIsSpontaneousPushReply, redisIsPushReply, redisIsSubscribeReply
  <2> QED
    BY <1>2, <1>4, <2>1 DEF Answer, About, Item
<1>6. CASE Flight[1].what = "plain"
  <2>1. cb' = Pending[1]
    BY <1>1, <1>3
  <2> QED
    BY <1>1, <1>3, <1>6, <2>1, AnswerKept
<1>7. CASE Flight[1].what = "refusal"
  <2>1. Total = 1 /\ server = "closed" /\ reply'.of = None
    BY <1>2, <1>7 DEF Subscription, Silent, Answer, About
  <2>2. cb' \in Plain /\ cb' \in Commands \cup {None}
    BY <1>1, HeadTailProperties DEF Types, Commands
  <2>3. /\ issued' = issued
        /\ called' = IF cb' \in Plain \ NullFn THEN [called EXCEPT ![cb'] = @ + 1] ELSE called
        /\ "SUBSCRIBED" \in flags' <=> "SUBSCRIBED" \in flags
    BY <1>1, <2>2, RunCounts
  <2>4. called' = IF Pending[1] \in NullFn THEN called ELSE [called EXCEPT ![Pending[1]] = @ + 1]
    BY <1>1, <1>3, <2>2, <2>3
  <2>5. Calls'
    BY <1>0, <1>3, <2>3, <2>4, CallsPop
  <2>6. pc' \in {"process", "reply_cb"}
    BY <1>1 DEF __redisRunCallback
  <2>7. Emptied' /\ Naturals'
    BY <1>1, <2>3, <2>6 DEF Emptied, Naturals
  <2>8. Matched'
    <3>1. server' = "closed" /\ Now' = {}
      BY <1>2, <2>1 DEF Now
    <3>2. Total' = 0
      BY <1>2, <2>1 DEF FlightTaken
    <3>3. \A p \in 1 .. Total' : FALSE
      BY <3>2
    <3> QED
      BY <3>1, <3>3, MatchedRefused
  <2>9. SubscriptionsKept
    BY <1>1, <1>2, <2>3 DEF SubscriptionsKept
  <2>10. Subscription'
    BY <1>0, <1>2, <1>7, <2>9, SubscriptionPasses
  <2> QED
    BY <2>1, <2>5, <2>6, <2>7, <2>8, <2>10 DEF Kept, RightReply
<1> QED
  BY <1>5, <1>6, <1>7

LEMMA SpontaneousKept ==
  ASSUME Types, Types', Calls, Emptied, Naturals, SpontaneousError
  PROVE  Kept /\ RightReply' /\ pc' # "aborted"
<1>0. Shape
  BY FlightShape
<1>1. /\ UNCHANGED clientVars /\ UNCHANGED historyVars /\ __redisAsyncDisconnect(flags, TRUE)
      /\ replies' = replies /\ invalid' = invalid
  BY DEF SpontaneousError, clientVars
<1>2. Calls' /\ Naturals'
  BY <1>0, <1>1, ListsKept
<1>3. /\ pc' \in {"loop", "free"} /\ err' = TRUE
      /\ "SUBSCRIBED" \in flags' <=> "SUBSCRIBED" \in flags
  BY <1>1 DEF __redisAsyncDisconnect
<1> QED
  BY <1>1, <1>2, <1>3 DEF Kept, Emptied, RightReply, Alive

LEMMA AssertionHolds ==
  ASSUME Types, Types', Emptied, Matched, Subscription, AssertionFails
  PROVE  FALSE
<1>0. Shape /\ Shape' /\ Bounds
  BY FlightShape, NextFlightShape, ShapeBounds
<1>1. /\ NextReply /\ UNCHANGED << wire, obuf, serverVars >> /\ replies = << >> /\ reply'.kind # "error"
      /\ "SUBSCRIBED" \notin flags /\ ~redisIsSpontaneousPushReply(reply')
  BY DEF AssertionFails, Unexpected
<1>2. /\ Flight[1] = Answer(reply') /\ 1 \in 1 .. Total /\ Total > 0 /\ reply' \in Item
  BY <1>1, FirstReply
<1>3. Flight[1].what \notin PubSub /\ invalid = << >>
  BY <1>1, <1>2 DEF Subscription, NotSubscribed
<1>4. Flight[1].what = "plain"
  <2>1. reply'.kind # "push"
    BY <1>1 DEF redisIsSpontaneousPushReply, redisIsPushReply, redisIsSubscribeReply
  <2> QED
    BY <1>1, <1>2, <1>3, <2>1 DEF Answer, About, Item
<1>5. Len(Pending) > 0
  BY <1>0, <1>2, <1>4, FirstAnswered
<1>6. Len(replies) = 0 /\ Len(invalid) = 0
  BY <1>1, <1>3
<1>7. Len(Pending) = 0
  BY <1>0, <1>6 DEF Shape, Queues
<1> QED
  BY <1>5, <1>7

LEMMA InvalidKept ==
  ASSUME Types, Types', Calls, Emptied, Naturals, Matched, Subscription, InvalidReply
  PROVE  Kept /\ RightReply' /\ pc' # "aborted"
<1>0. Shape /\ Shape' /\ Bounds
  BY FlightShape, NextFlightShape, ShapeBounds
<1>1. /\ NextReply /\ UNCHANGED << wire, obuf, serverVars, channels >> /\ replies = << >> /\ replies' = replies
      /\ reply'.kind = "reply" /\ "SUBSCRIBED" \in flags
      /\ __redisRunCallback(cb', flags, "process", TRUE)
      /\ invalid # << >> => cb' = Head(invalid) /\ invalid' = Tail(invalid)
  BY DEF InvalidReply, Unexpected
<1>2. Flight[1] = Answer(reply') /\ Total > 0 /\ reply' \in Item
  BY <1>1, FirstReply
<1>3. Flight[1].what = "plain"
  BY <1>1, <1>2 DEF Answer, About, Item
<1>4. invalid # << >>
  <2>1. Len(Pending) > 0
    BY <1>0, <1>2, <1>3, FirstAnswered
  <2>2. invalid = << >> => Len(invalid) = 0 /\ Len(replies) = 0
    BY <1>1
  <2> QED
    BY <1>0, <2>1, <2>2 DEF Shape, Queues
<1>5. PendingPops /\ Pending[1] = Head(invalid)
  BY <1>0, <1>1, <1>4, PendingTakes
<1>6. cb' = Pending[1]
  BY <1>1, <1>4, <1>5
<1> QED
  BY <1>1, <1>3, <1>5, <1>6, AnswerKept

LEMMA ChannelKept ==
  ASSUME OneChannel, Types, Types', Calls, Emptied, Naturals, Matched, Subscription, ChannelReply
  PROVE  Kept /\ RightReply' /\ pc' # "aborted"
<1>0. Shape /\ Shape' /\ Bounds
  BY FlightShape, NextFlightShape, ShapeBounds
<1> DEFINE ch == reply'.of
           last == ch \in DOMAIN channels /\ reply'.kind = "unsubscribe" /\ reply'.left = 0
                     /\ DOMAIN channels' = {}
           fl == IF last THEN flags \ {"SUBSCRIBED"} ELSE flags
<1>1. /\ NextReply /\ UNCHANGED << wire, obuf, serverVars >> /\ replies' = replies /\ invalid' = invalid
      /\ reply'.kind \in PubSub /\ "SUBSCRIBED" \in flags /\ ~redisIsSpontaneousPushReply(reply')
      /\ __redisRunCallback(cb', fl, "process", TRUE)
      /\ ch \in DOMAIN channels => cb' = channels[ch].fn /\ channels' = ChannelEntry(reply')
  BY DEF ChannelReply, Unexpected
<1>2. /\ FlightTaken /\ Flight[1] = Answer(reply') /\ Total > 0 /\ 1 \in 1 .. Total /\ 1 \in 1 .. Written
      /\ Input[1] = reply'
      /\ Now' = Now /\ server' = server /\ subs' = subs /\ resp3' = resp3 /\ reply' \in Item
  BY <1>1, FirstReply
<1>3. Flight[1] = About(reply'.kind, ch) /\ Flight[1].what = reply'.kind
  BY <1>1, <1>2 DEF Answer, About, PubSub
<1>4. ch \in DOMAIN channels
  BY <1>1, <1>2, <1>3 DEF Subscription, EntriesFound, About
<1>5. cb' = channels[ch].fn /\ channels' = ChannelEntry(reply')
  BY <1>1, <1>4
<1>6. cb' \in Subscribes /\ cb' \notin Plain /\ cb' \in Commands \cup {None} /\ channels[ch] \in Entry
  BY <1>4, <1>5, ClientAssumption DEF Types, Entry, Commands
<1>7. ch \in Range(Args[cb'])
  BY <1>4, <1>5, <1>6, OneRange DEF Subscription, Counted
<1> HIDE DEF fl
<1>8. /\ issued' = issued /\ called' = called
      /\ "SUBSCRIBED" \in flags' <=> "SUBSCRIBED" \in fl
  BY <1>1, <1>6, RunCounts
<1>9. "SUBSCRIBED" \in flags' <=> ~last
  BY <1>1, <1>8 DEF fl
<1>10. pc' \in {"process", "reply_cb"}
  BY <1>1 DEF __redisRunCallback
<1>11. PendingSame
  BY <1>1, PendingStays
<1>12. Calls'
  BY <1>0, <1>8, <1>11, CallsStay
<1>13. Matched'
  BY <1>0, <1>1, <1>2, <1>3, <1>11, MatchedTakes DEF PubSub
<1>14. reply'.kind = "unsubscribe" => invalid = << >> /\ ~resp3
  <2>1. ASSUME reply'.kind = "unsubscribe" PROVE invalid = << >>
    <3>1. Len(Pending) = 0
      BY <1>0, <1>1, <1>2, <1>3, <2>1, FirstPlain
    <3>2. Len(invalid) = 0
      BY <1>0, <3>1 DEF Shape, Queues
    <3> QED
      BY <3>2, EmptySeq DEF Types
  <2>2. ASSUME reply'.kind = "unsubscribe" PROVE ~resp3
    BY <1>1, <2>2 DEF redisIsSpontaneousPushReply, redisIsPushReply, redisIsSubscribeReply, PubSub
  <2> QED
    BY <2>1, <2>2
<1>15. Emptied'
  BY <1>1, <1>9, <1>10, <1>14 DEF Emptied
<1>16. Naturals' /\ Subscription'
  <2>1. CASE reply'.kind = "subscribe"
    <3>1. channels' = [channels EXCEPT ![ch].pending_subs = @ - 1]
      BY <1>5, <2>1 DEF ChannelEntry
    <3>2. "SUBSCRIBED" \in flags' <=> "SUBSCRIBED" \in flags
      BY <1>1, <1>9, <2>1
    <3>3. Flight[1] = About("subscribe", ch)
      BY <1>3, <2>1
    <3>4. Subscription' /\ channels'[ch].pending_subs >= 0
      <4> HIDE DEF ch
      <4> QED
        BY <1>0, <1>1, <1>2, <1>4, <3>1, <3>2, <3>3, SubscriptionCounts
    <3>5. \A c \in DOMAIN channels' : c \in DOMAIN channels /\ (c # ch => channels'[c] = channels[c])
      BY <3>1
    <3>6. Naturals'
      BY <3>4, <3>5 DEF Naturals
    <3> QED
      BY <3>4, <3>6
  <2>2. CASE reply'.kind = "unsubscribe" /\ channels[ch].pending_subs = 0
    <3>1. channels' = [c \in DOMAIN channels \ {ch} |-> channels[c]]
      BY <1>5, <2>2 DEF ChannelEntry
    <3>2. Naturals'
      BY <3>1 DEF Naturals
    <3>3. "SUBSCRIBED" \in flags' <=> ~(Input[1].left = 0 /\ DOMAIN channels' = {})
      BY <1>2, <1>4, <1>9, <2>2
    <3>4. Flight[1] = About("unsubscribe", ch) /\ Input[1].kind = "unsubscribe" /\ Input[1].of = ch
      BY <1>2, <1>3, <2>2
    <3>5. invalid' = << >>
      BY <1>1, <1>14, <2>2
    <3>6. Subscription'
      <4> HIDE DEF ch, last
      <4> QED
        BY <1>0, <1>2, <1>4, <2>2, <3>1, <3>3, <3>4, <3>5, SubscriptionRemoves
    <3> QED
      BY <3>2, <3>6
  <2>3. CASE \/ reply'.kind = "message"
             \/ reply'.kind = "unsubscribe" /\ channels[ch].pending_subs # 0
    <3>1. channels' = channels
      BY <1>5, <2>3 DEF ChannelEntry
    <3>2. "SUBSCRIBED" \in flags' <=> "SUBSCRIBED" \in flags
      BY <1>1, <1>4, <1>9, <3>1
    <3>3. SubscriptionsKept
      BY <1>1, <1>2, <3>1, <3>2 DEF SubscriptionsKept
    <3>4. /\ Flight[1].what # "subscribe"
          /\ \/ Flight[1].what # "unsubscribe"
             \/ \E c \in DOMAIN channels :
                  Flight[1] = About("unsubscribe", c) /\ channels[c].pending_subs # 0
      BY <1>3, <1>4, <2>3
    <3>5. Subscription'
      BY <1>0, <1>2, <3>3, <3>4, SubscriptionPasses
    <3> QED
      BY <3>1, <3>5 DEF Naturals
  <2> QED
    BY <1>1, <2>1, <2>2, <2>3 DEF PubSub
<1> QED
  BY <1>6, <1>7, <1>10, <1>12, <1>13, <1>15, <1>16 DEF Kept, RightReply

-----------------------------------------------------------------------------
(* The other steps, and the invariant.                                     *)

\* What becomes of it all, and of what the callback that is running was handed.
Sound == Kept /\ RightReply' /\ pc' # "aborted"

LEMMA QuietSound ==
  ASSUME AnyUser, Calls, Emptied, Naturals, Alive => Matched /\ Subscription, RightReply, pc # "aborted",
         \/ UNCHANGED vars \/ CallbackReturns \/ ConnectReturns \/ NothingToWrite \/ TimeoutEnds
         \/ redisAsyncDisconnect \/ redisAsyncFree \/ HandleConnect \/ SocketFails \/ HandleTimeout
         \/ NoMoreReplies \/ ReaderFails \/ \E n \in 0 .. Len(wire) : HandleRead(n)
  PROVE  Sound
<1> USE DEF closeVars, clientVars, localVars, serverVars, historyVars
<1>0. Types /\ Phases /\ Shape
  BY FlightShape DEF AnyUser
<1>1. Quiet
  BY <1>0, QuietActions
<1>2. Calls' /\ Naturals' /\ (Alive /\ Alive' => Matched' /\ Subscription')
  BY <1>0, <1>1, QuietKeeps
<1>3. "SUBSCRIBED" \notin flags' => invalid' = << >>
  BY <1>1 DEF Quiet, Emptied
<1>4. ASSUME NEW fl, NEW e \in BOOLEAN, __redisAsyncDisconnect(fl, e), e \/ replies = << >>
      PROVE  pc' \in {"loop", "free"}
  BY <1>4 DEF __redisAsyncDisconnect
<1>5. \/ pc' \notin {"freed", "reply_cb", "aborted"}
      \/ pc' = pc /\ replies' = replies /\ invalid' = invalid /\ UNCHANGED localVars
  <2>1. CASE UNCHANGED vars
    BY <2>1 DEF vars
  <2>2. CASE CallbackReturns \/ ConnectReturns \/ NothingToWrite \/ HandleTimeout
    BY <2>2 DEF CallbackReturns, Callbacks, ConnectReturns, NothingToWrite, HandleTimeout
  <2>3. CASE TimeoutEnds
    BY <1>0, <1>4, <2>3 DEF TimeoutEnds, Types
  <2>4. CASE redisAsyncDisconnect
    <3>1. CASE "IN_CALLBACK" \notin flags /\ replies = << >>
      <4>1. \E fl : __redisAsyncDisconnect(fl, err)
        BY <2>4, <3>1 DEF redisAsyncDisconnect
      <4> QED
        BY <1>0, <1>4, <3>1, <4>1 DEF Types
    <3>2. CASE ~("IN_CALLBACK" \notin flags /\ replies = << >>)
      BY <2>4, <3>2 DEF redisAsyncDisconnect
    <3> QED
      BY <3>1, <3>2
  <2>5. CASE redisAsyncFree
    BY <2>5 DEF redisAsyncFree
  <2>6. CASE HandleConnect
    BY <1>4, <2>6 DEF HandleConnect
  <2>7. CASE SocketFails \/ ReaderFails
    BY <1>4, <2>7 DEF SocketFails, ReaderFails
  <2>8. CASE NoMoreReplies
    BY <1>0, <1>4, <2>8 DEF NoMoreReplies, Types
  <2>9. CASE \E n \in 0 .. Len(wire) : HandleRead(n)
    BY <2>9 DEF HandleRead
  <2> QED
    BY <2>1, <2>2, <2>3, <2>4, <2>5, <2>6, <2>7, <2>8, <2>9
<1>6. Emptied'
  BY <1>3, <1>5 DEF Emptied
<1>7. RightReply' /\ pc' # "aborted"
  BY <1>5 DEF RightReply
<1> QED
  BY <1>2, <1>6, <1>7 DEF Sound, Kept

LEMMA TimeoutSound ==
  ASSUME AnyUser, AnyUser', Calls, Emptied, Naturals, TimeoutCallsBack
  PROVE  Sound
<1>0. Types /\ Phases /\ Types' /\ Shape /\ Shape'
  BY FlightShape, NextFlightShape DEF AnyUser
<1>1. /\ replies # << >> /\ replies' = Tail(replies) /\ invalid' = invalid /\ channels' = channels
      /\ __redisRunCallback(Head(replies), flags, "timeout", FALSE) /\ err' = err
  BY DEF TimeoutCallsBack, closeVars
<1>2. pc' \in {"timeout", "timeout_cb"} /\ err
  BY <1>0, TimeoutTurn DEF Phases
<1>3. PendingPops /\ Pending[1] = Head(replies)
  BY <1>0, <1>1, PendingTakes
<1>4. Head(replies) \in Plain /\ Head(replies) \in Commands \cup {None}
  BY <1>0, <1>1, HeadTailProperties DEF Types, Commands
<1>5. /\ issued' = issued
      /\ called' = IF Head(replies) \in Plain \ NullFn THEN [called EXCEPT ![Head(replies)] = @ + 1]
                                                       ELSE called
      /\ "SUBSCRIBED" \in flags' <=> "SUBSCRIBED" \in flags
  BY <1>0, <1>1, <1>4, RunCounts
<1>6. called' = IF Pending[1] \in NullFn THEN called ELSE [called EXCEPT ![Pending[1]] = @ + 1]
  BY <1>3, <1>4, <1>5
<1>7. Calls'
  BY <1>0, <1>3, <1>5, <1>6, CallsPop
<1> QED
  BY <1>1, <1>2, <1>5, <1>7 DEF Sound, Kept, Emptied, Naturals, Alive, RightReply

LEMMA FreeSound ==
  ASSUME AnyUser, AnyUser', Calls, Emptied, Naturals, FreeCallsBack
  PROVE  Sound
<1>0. Types /\ Types' /\ Shape /\ Shape'
  BY FlightShape, NextFlightShape DEF AnyUser
<1>1. pc' \in {"free", "free_cb"} /\ flags \subseteq flags'
  BY <1>0, FreeTurn
<1>2. ASSUME PendingPops, Pending[1] \in Plain, __redisRunCallback(Pending[1], flags, "free", FALSE)
      PROVE  Calls'
  <2>1. Pending[1] \in Commands \cup {None}
    BY <1>2 DEF Commands
  <2>2. /\ issued' = issued
        /\ called' = IF Pending[1] \in Plain \ NullFn THEN [called EXCEPT ![Pending[1]] = @ + 1]
                                                      ELSE called
    BY <1>0, <1>2, <2>1, RunCounts
  <2>3. called' = IF Pending[1] \in NullFn THEN called ELSE [called EXCEPT ![Pending[1]] = @ + 1]
    BY <1>2, <2>2
  <2> QED
    BY <1>0, <1>2, <2>2, <2>3, CallsPop
<1>3. CASE /\ replies # << >>
           /\ replies' = Tail(replies)
           /\ __redisRunCallback(Head(replies), flags, "free", FALSE)
           /\ UNCHANGED << invalid, channels >>
  <2>1. PendingPops /\ Pending[1] = Head(replies)
    BY <1>0, <1>3, PendingTakes
  <2>2. Head(replies) \in Plain
    BY <1>0, <1>3, HeadTailProperties DEF Types
  <2>3. Calls'
    BY <1>2, <1>3, <2>1, <2>2
  <2> QED
    BY <1>1, <1>3, <2>3 DEF Sound, Kept, Emptied, Naturals, Alive, RightReply
<1>4. CASE /\ replies = << >> /\ invalid # << >>
           /\ invalid' = Tail(invalid)
           /\ __redisRunCallback(Head(invalid), flags, "free", FALSE)
           /\ UNCHANGED << replies, channels >>
  <2>1. PendingPops /\ Pending[1] = Head(invalid)
    BY <1>0, <1>4, PendingTakes
  <2>2. Head(invalid) \in Plain
    BY <1>0, <1>4, HeadTailProperties DEF Types
  <2>3. Calls'
    BY <1>2, <1>4, <2>1, <2>2
  <2> QED
    BY <1>1, <1>4, <2>3 DEF Sound, Kept, Emptied, Naturals, Alive, RightReply
<1>5. CASE /\ replies = << >> /\ invalid = << >>
           /\ \E ch \in DOMAIN channels :
                /\ channels' = [c \in DOMAIN channels \ {ch} |-> channels[c]]
                /\ __redisRunCallback(channels[ch].fn, flags, "free", FALSE)
           /\ UNCHANGED << replies, invalid >>
  <2>1. PICK ch \in DOMAIN channels :
          /\ channels' = [c \in DOMAIN channels \ {ch} |-> channels[c]]
          /\ __redisRunCallback(channels[ch].fn, flags, "free", FALSE)
    BY <1>5
  <2>2. channels[ch].fn \in Commands \cup {None} /\ channels[ch].fn \notin Plain
    BY <1>0, ClientAssumption DEF Types, Entry, Commands
  <2>3. issued' = issued /\ called' = called
    BY <1>0, <2>1, <2>2, RunCounts
  <2>4. PendingSame
    BY <1>5, PendingStays
  <2>5. Calls'
    BY <1>0, <2>3, <2>4, CallsStay
  <2>6. Naturals'
    BY <2>1 DEF Naturals
  <2> QED
    BY <1>1, <1>5, <2>5, <2>6 DEF Sound, Kept, Emptied, Alive, RightReply
<1> QED
  BY <1>3, <1>4, <1>5 DEF FreeCallsBack

LEMMA FreeEndsSound ==
  ASSUME AnyUser, Calls, Emptied, Naturals, FreeEnds
  PROVE  Sound
<1>0. Types /\ Shape
  BY FlightShape DEF AnyUser
<1>1. /\ UNCHANGED clientVars /\ UNCHANGED historyVars /\ flags' = flags /\ pc' = "freed"
      /\ replies' = << >> /\ invalid' = << >>
  BY DEF FreeEnds, clientVars
<1>2. Calls' /\ Naturals'
  BY <1>0, <1>1, ListsKept
<1> QED
  BY <1>1, <1>2 DEF Sound, Kept, Emptied, Alive, Gone, RightReply

\* The inductive invariant for patient users.
PatientUser ==
  AnyUser /\ Calls /\ Emptied /\ Naturals /\ WhileAlive /\ RightReply /\ ContextMustBeSubscribed

LEMMA InitPatientUser == Init => PatientUser
<1> SUFFICES ASSUME Init PROVE PatientUser
  OBVIOUS
<1>1. AnyUser
  BY InitAnyUser
<1>2. Shape
  BY <1>1, FlightShape DEF AnyUser
<1>3. Written = 0 /\ Total = 0 /\ Len(Pending) = 0
  <2>1. Input = << >> /\ Output = << >> /\ Pending = << >>
    BY EmptySeq, ConcatEmptySeq DEF Init, Input, Output, Pending
  <2> QED
    BY <2>1 DEF Written, Total
<1>4. /\ \A p \in 1 .. Total : FALSE
      /\ \A p \in 1 .. Written : FALSE
      /\ \A i \in 1 .. Len(Pending) : FALSE
      /\ \A i \in 1 .. Len(replies) : FALSE
  BY <1>3 DEF Init
<1>5. DOMAIN channels = {} /\ Now = {} /\ invalid = << >> /\ server = "new" /\ subs = {} /\ inbuf = << >>
  BY DEF Init, Now
<1>6. \A cmd \in Plain : called[cmd] = 0 /\ ~Contains(issued, cmd)
  BY DEF Init, Contains
<1>7. Calls /\ Emptied /\ Naturals
  BY <1>4, <1>5, <1>6 DEF Init, Calls, Distinct, Uncalled, Remembered, Emptied, Naturals
<1>8. Matched
  BY <1>4, <1>5 DEF Matched, Owned, Owed, InOrder, RepliesFirst, UnsubscribeLast
<1>9. Subscription
  <2>1. "SUBSCRIBED" \notin flags
    BY DEF Init
  <2>2. NotSubscribed /\ EntriesFound /\ OneUnsubscribe /\ Resubscribed
    BY <1>4, <1>5 DEF NotSubscribed, EntriesFound, OneUnsubscribe, Resubscribed
  <2>3. EntryNeeded /\ SubscribedStill /\ LastOne /\ Counted
    BY <1>4, <1>5, <2>1 DEF EntryNeeded, SubscribedStill, LastOne, Counted
  <2>4. Silent
    BY <1>3, <1>4, <1>5 DEF Silent
  <2> QED
    BY <2>2, <2>3, <2>4 DEF Subscription
<1>10. Handled /\ RightReply /\ ContextMustBeSubscribed
  BY DEF Init, Handled, RightReply, ContextMustBeSubscribed
<1> QED
  BY <1>1, <1>7, <1>8, <1>9, <1>10 DEF PatientUser, WhileAlive

LEMMA StepPatientUser ==
  ASSUME Patient, OneChannel, PatientUser, [Next]_vars
  PROVE  PatientUser'
<1>1. /\ AnyUser /\ Types /\ Phases /\ Calls /\ Emptied /\ Naturals /\ RightReply /\ pc # "aborted"
      /\ Alive => Matched /\ Subscription /\ Handled
  BY DEF PatientUser, WhileAlive, ContextMustBeSubscribed, AnyUser
<1>2. AnyUser' /\ Types'
  <2>1. AnyUser'
    BY <1>1, StepTypes, StepPhases, StepEarlyWait, StepFreeing DEF AnyUser
  <2> QED
    BY <2>1 DEF AnyUser
<1>3. ASSUME Sound PROVE PatientUser'
  <2>1. Alive' => Alive
    BY <1>1, AliveBefore
  <2>2. Alive' => Handled'
    BY <1>1, <2>1, StepHandled
  <2> QED
    BY <1>2, <1>3, <2>1, <2>2 DEF Sound, Kept, PatientUser, WhileAlive, ContextMustBeSubscribed
<1>4. Alive => Matched /\ Subscription
  BY <1>1
<1>5. CASE \/ UNCHANGED vars \/ CallbackReturns \/ ConnectReturns \/ NothingToWrite \/ TimeoutEnds
           \/ redisAsyncDisconnect \/ redisAsyncFree \/ HandleConnect \/ SocketFails \/ HandleTimeout
           \/ \E n \in 0 .. Len(wire) : HandleRead(n)
  BY <1>1, <1>3, <1>4, <1>5, QuietSound
<1>6. CASE redisProcessCallbacks
  <2>1. Matched /\ Subscription
    <3>1. pc = "process"
      BY <1>6, ProcessRuns
    <3>2. Alive
      BY <1>1, <3>1 DEF Alive, Phases, Gone
    <3> QED
      BY <1>4, <3>2
  <2>2. CASE NoMoreReplies \/ ReaderFails
    BY <1>1, <1>3, <1>4, <2>2, QuietSound
  <2>3. CASE PushReply
    BY <1>1, <1>2, <1>3, <2>1, <2>3, PushKept DEF Sound
  <2>4. CASE RegularReply
    BY <1>1, <1>2, <1>3, <2>1, <2>4, RegularKept DEF Sound
  <2>5. CASE SpontaneousError
    BY <1>1, <1>2, <1>3, <2>5, SpontaneousKept DEF Sound
  <2>6. CASE AssertionFails
    BY <1>1, <1>2, <2>1, <2>6, AssertionHolds
  <2>7. CASE ChannelReply
    BY <1>1, <1>2, <1>3, <2>1, <2>7, ChannelKept DEF Sound
  <2>8. CASE InvalidReply
    BY <1>1, <1>2, <1>3, <2>1, <2>8, InvalidKept DEF Sound
  <2> QED
    BY <1>6, <2>2, <2>3, <2>4, <2>5, <2>6, <2>7, <2>8 DEF redisProcessCallbacks
<1>7. CASE TimeoutCallsBack \/ FreeCallsBack \/ FreeEnds
  BY <1>1, <1>2, <1>3, <1>7, TimeoutSound, FreeSound, FreeEndsSound
<1>8. ASSUME Kept, pc' \in {pc, "loop"}, UNCHANGED localVars PROVE PatientUser'
  BY <1>1, <1>3, <1>8 DEF Sound, RightReply, localVars
<1>9. CASE \E cmd \in Commands : __redisAsyncCommand(cmd)
  <2> PICK cmd \in Commands : __redisAsyncCommand(cmd)
    BY <1>9
  <2>1. pc' = pc /\ UNCHANGED localVars
    BY DEF __redisAsyncCommand
  <2>2. CASE cmd \in Plain
    BY <1>1, <1>2, <1>4, <1>8, <2>1, <2>2, PlainKept
  <2>3. CASE cmd \in Subscribes
    BY <1>1, <1>2, <1>4, <1>8, <2>1, <2>3, SubscribeKept
  <2>4. CASE cmd \in Unsubscribes
    BY <1>1, <1>2, <1>4, <1>8, <2>1, <2>4, UnsubscribeKept
  <2> QED
    BY <2>2, <2>3, <2>4 DEF Commands
<1>10. CASE HandleWrite
  <2>1. pc' = "loop" /\ UNCHANGED localVars
    BY <1>10 DEF HandleWrite
  <2> QED
    BY <1>1, <1>2, <1>4, <1>8, <1>10, <2>1, WriteKept
<1>11. CASE Notice
  <2>1. pc' = pc /\ UNCHANGED localVars
    BY <1>11 DEF Notice
  <2> QED
    BY <1>1, <1>2, <1>4, <1>8, <1>11, <2>1, NoticeKept
<1>12. CASE Reject
  <2>1. pc' = pc /\ UNCHANGED localVars
    BY <1>12 DEF Reject
  <2> QED
    BY <1>1, <1>2, <1>4, <1>8, <1>12, <2>1, RejectKept
<1>13. CASE Close
  <2>1. pc' = pc /\ UNCHANGED localVars
    BY <1>13 DEF Close
  <2> QED
    BY <1>1, <1>2, <1>4, <1>8, <1>13, <2>1, CloseKept
<1> QED
  BY <1>5, <1>6, <1>7, <1>9, <1>10, <1>11, <1>12, <1>13 DEF Next, Handler

\* Patient users who name one channel at a time: the records of the client, the replies on
\* their way and the server's subscriptions stay in step.
THEOREM PatientInvariance ==
  ASSUME Patient, OneChannel
  PROVE  Spec => []PatientUser
<1>1. PatientUser /\ [Next]_vars => PatientUser'
  BY StepPatientUser
<1> QED
  BY InitPatientUser, <1>1, PTL DEF Spec

\* __redisShiftCallback pairs replies with callbacks by their order alone: a callback that is
\* called with a reply is called with the one its command asked for, a message of a channel it
\* subscribed to, or the refusal of the connection.
THEOREM RepliesAreRight ==
  ASSUME Patient, OneChannel
  PROVE  Spec => []RightReply
<1>1. PatientUser => RightReply
  BY DEF PatientUser
<1> QED
  BY PatientInvariance, <1>1, PTL

\* The assertions of redisProcessCallbacks and __redisAsyncDisconnect never fail.
THEOREM AssertionsHold ==
  ASSUME Patient, OneChannel
  PROVE  Spec => []ContextMustBeSubscribed
<1>1. PatientUser => ContextMustBeSubscribed
  BY DEF PatientUser
<1> QED
  BY PatientInvariance, <1>1, PTL

\* No callback is called twice, in replies, sub.invalid or __redisAsyncFree, and when the
\* context is gone none has been left out.
THEOREM CallbacksAreCalledOnce ==
  ASSUME Patient, OneChannel
  PROVE  Spec => []CalledOnce
<1>1. PatientUser => CalledOnce
  <2> SUFFICES ASSUME PatientUser PROVE CalledOnce
    OBVIOUS
  <2>1. Calls /\ Emptied /\ Types
    BY DEF PatientUser, AnyUser
  <2>2. \A cmd \in Plain : called[cmd] <= 1
    BY <2>1 DEF Calls, Remembered
  <2>3. ASSUME pc = "freed", NEW cmd \in Plain \ NullFn
        PROVE  called[cmd] = 1 <=> Contains(issued, cmd)
    <3>1. Len(Pending) = 0
      <4>1. replies = << >> /\ invalid = << >>
        BY <2>1, <2>3 DEF Emptied
      <4>2. Pending = << >>
        BY <4>1, EmptySeq, ConcatEmptySeq DEF Pending
      <4> QED
        BY <4>2
    <3>2. \A i \in 1 .. Len(Pending) : FALSE
      BY <3>1
    <3>3. called[cmd] \in Nat /\ called[cmd] <= 1
      BY <2>1, <2>2 DEF Types
    <3>4. called[cmd] = 0 \/ called[cmd] = 1
      BY <3>3
    <3> QED
      BY <2>1, <3>2, <3>4 DEF Calls, Remembered
  <2> QED
    BY <2>2, <2>3 DEF CalledOnce
<1> QED
  BY PatientInvariance, <1>1, PTL

\* pending_subs never runs below zero, and when all is quiet the entries of sub.channels and
\* REDIS_SUBSCRIBED say what the server says.
THEOREM ModesAgree ==
  ASSUME Patient, OneChannel
  PROVE  Spec => []ModeAgrees
<1>1. PatientUser => TypeOK
  <2> SUFFICES ASSUME PatientUser PROVE TypeOK
    OBVIOUS
  <2>1. Types /\ Naturals
    BY DEF PatientUser, AnyUser
  <2>2. ASSUME NEW ch \in DOMAIN channels
        PROVE  ch \in Channels /\ channels[ch].fn \in Subscribes /\ channels[ch].pending_subs \in Nat
    BY <2>1 DEF Types, Entry, Naturals
  <2> QED
    BY <2>1, <2>2 DEF Types, TypeOK
<1>2. PatientUser => SameMode
  <2> SUFFICES ASSUME PatientUser,
                      ~resp3, server = "open", pc = "loop", ~detached, obuf = << >>, wire = << >>
               PROVE  DOMAIN channels = subs /\ ("SUBSCRIBED" \in flags <=> subs # {})
    BY DEF SameMode
  <2>1. Alive
    BY DEF PatientUser, AnyUser, Phases, Alive, Gone
  <2>2. Subscription /\ inbuf = << >>
    BY <2>1 DEF PatientUser, WhileAlive, Handled
  <2>3. Written = 0 /\ Total = 0
    <3>1. Input = << >> /\ Output = << >>
      BY <2>2, EmptySeq, ConcatEmptySeq DEF Input, Output
    <3> QED
      BY <3>1 DEF Written, Total
  <2>4. Now = subs
    BY DEF Now
  <2>5. (\A p \in Written + 1 .. Total : FALSE) /\ (\A p \in 1 .. Written : FALSE)
    BY <2>3
  <2>6. DOMAIN channels \subseteq subs
    BY <2>2, <2>4, <2>5 DEF Subscription, EntryNeeded
  <2>7. subs \subseteq DOMAIN channels
    BY <2>2, <2>4 DEF Subscription, EntriesFound
  <2>8. "SUBSCRIBED" \in flags => DOMAIN channels # {}
    BY <2>2 DEF Subscription, LastOne
  <2>9. "SUBSCRIBED" \notin flags => subs = {}
    BY <2>2, <2>4 DEF Subscription, NotSubscribed
  <2> QED
    BY <2>6, <2>7, <2>8, <2>9
<1>3. PatientUser => ModeAgrees
  BY <1>1, <1>2 DEF ModeAgrees
<1> QED
  BY PatientInvariance, <1>3, PTL
=============================================================================
