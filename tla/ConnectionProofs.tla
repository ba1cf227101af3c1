--------------------------- MODULE ConnectionProofs ---------------------------
(***************************************************************************)
(* Proofs about Connection, for any set of options, any number of          *)
(* addresses, retries, commands and pushes.  IInv is the inductive         *)
(* invariant: what the runs check, plus what is known at each place of the *)
(* code that connects.                                                     *)
(***************************************************************************)
EXTENDS Connection, FiniteSetTheorems, SequenceTheorems, TLAPS

\* The descriptors: a new socket is asked for only when the context has none, so
\* that none leaks.
Descriptors ==
  /\ IsFiniteSet(open) /\ 0 \notin others
  /\ OwnSocketOnly
  /\ pc \in {"start", "create", "resolve", "socket"} => fd = NoFd
  /\ pc = "params" /\ ctype = "tcp" => fd = NoFd
  /\ pc = "params" /\ ctype = "unix" => fd # NoFd
  /\ pc \in {"bind", "connect", "poll", "finish"} => fd # NoFd
  /\ pc \in {"start", "resolve", "socket", "bind"} => ctype = "tcp"

\* The two counters of the connect loop.
Counters ==
  /\ pc # "tail" => reuses < Retries
  /\ pc \in {"bind", "connect"} /\ ctype = "tcp" => p <= Addrs

\* A socket has no peer until connect(2) is done; what c owns is what was asked for,
\* unless a copy failed.
Unconnected == {"start", "create", "params", "resolve", "socket", "bind", "connect", "poll"}
HostOwned == own.host = "asked" /\ own.deadline # "invalid" /\ ~starved =>
               own.source = opt.source
SocketAsAsked ==
  /\ pc = "start" => own.host = "NULL" /\ sock.bound = FALSE
  /\ sock.to = "asked" \/ starved
  /\ ~starved => sock.bound = (opt.source /\ ctype = "tcp")
AsAsked ==
  /\ pc = "start" => own.host = "NULL" /\ sock.bound = FALSE
  /\ pc \in Unconnected => sock.to = "none"
  /\ pc \in Unconnected \cup {"finish"} => err = "none"
  /\ Online => fd # NoFd
  /\ own.host = "lost" => starved
  /\ pc # "start" => starved \/ own.timed = opt.timed
  /\ HostOwned
  /\ pc \in {"resolve", "socket", "bind", "connect", "poll", "finish"} =>
       own.deadline # "invalid"
  /\ pc \in {"create", "params", "resolve", "socket"} => sock.bound = FALSE
  /\ pc \in {"bind", "connect", "poll"} => (sock.bound => ctype = "tcp")
  /\ pc = "bind" => own.source /\ sock.bound = FALSE
  /\ pc \in {"connect", "poll"} => (ctype = "tcp" => sock.bound = own.source)
  /\ pc = "finish" => SocketAsAsked
  /\ pc \notin Unconnected \cup {"finish"} /\ Online /\ err = "none" =>
       /\ sock.blocking = opt.block
       /\ opt.type # "fd" => SocketAsAsked
       /\ pc # "tail" /\ ~starved /\ opt.timed /\ opt.block => sock.timed

\* The buffer holds what the server has not got, and nothing is in it before the
\* connection is there or while its answer is awaited.
Byte == Nat \X Nat
Buffers ==
  /\ obuf \in Seq(Byte) /\ received \in Seq(Byte) /\ appended \in Seq(Nat)
  /\ received \o obuf = Bytes(appended)
  /\ Connecting => obuf = <<>> /\ appended = <<>> /\ received = <<>>
  /\ pc \in {"read", "reader"} => obuf = <<>>
  /\ pc \in {"write", "read"} => ~HasItem

-----------------------------------------------------------------------------
USE DEF paramVars, loopVars, serverVars, socketVars, bufferVars, historyVars

\* A number that no open descriptor has is found among the first ones.
LEMMA NewFdIsNew ==
  ASSUME IsFiniteSet(open)
  PROVE  NewFd \in Nat /\ NewFd # 0 /\ NewFd \notin open
<1> DEFINE n == Cardinality(open)
<1>1. n \in Nat
  BY FS_CardinalityType
<1>2. \E f \in 1..n + 1 : f \notin open
  <2> SUFFICES ASSUME (1..n + 1) \subseteq open PROVE FALSE
    OBVIOUS
  <2>1. Cardinality(1..n + 1) = n + 1
    BY <1>1, FS_Interval
  <2>2. Cardinality(1..n + 1) <= n
    BY FS_Subset
  <2> QED
    BY <1>1, <2>1, <2>2
<1> QED
  BY <1>1, <1>2 DEF NewFd

\* Updates of the two records keep their types.
LEMMA RecordTypes ==
  /\ NoSock \in Sockets
  /\ \A s \in Sockets, b \in BOOLEAN :
       /\ [s EXCEPT !.blocking = b] \in Sockets
       /\ [s EXCEPT !.bound = b] \in Sockets
       /\ [s EXCEPT !.timed = b] \in Sockets
       /\ [s EXCEPT !.to = "asked", !.blocking = b] \in Sockets
  /\ \A s \in Sockets, t \in {"none", "asked", "loopback"} : [s EXCEPT !.to = t] \in Sockets
  /\ \A c \in Copies, h \in {"asked", "NULL", "lost"}, b \in BOOLEAN :
       /\ [c EXCEPT !.host = h] \in Copies
       /\ [c EXCEPT !.host = h, !.source = b] \in Copies
  /\ \A c \in Copies, d \in {"none", "valid", "invalid"}, b \in BOOLEAN :
       /\ [c EXCEPT !.deadline = d] \in Copies
       /\ [c EXCEPT !.deadline = d, !.timed = b] \in Copies
<1>1. NoSock \in Sockets
  BY DEF NoSock, Sockets
<1>2. ASSUME NEW s \in Sockets, NEW b \in BOOLEAN
      PROVE  /\ [s EXCEPT !.blocking = b] \in Sockets
             /\ [s EXCEPT !.bound = b] \in Sockets
             /\ [s EXCEPT !.timed = b] \in Sockets
             /\ [s EXCEPT !.to = "asked", !.blocking = b] \in Sockets
  BY <1>2 DEF Sockets
<1>3. ASSUME NEW s \in Sockets, NEW t \in {"none", "asked", "loopback"}
      PROVE  [s EXCEPT !.to = t] \in Sockets
  BY <1>3 DEF Sockets
<1>4. ASSUME NEW c \in Copies, NEW h \in {"asked", "NULL", "lost"}, NEW b \in BOOLEAN
      PROVE  /\ [c EXCEPT !.host = h] \in Copies
             /\ [c EXCEPT !.host = h, !.source = b] \in Copies
  BY <1>4 DEF Copies
<1>5. ASSUME NEW c \in Copies, NEW d \in {"none", "valid", "invalid"}, NEW b \in BOOLEAN
      PROVE  /\ [c EXCEPT !.deadline = d] \in Copies
             /\ [c EXCEPT !.deadline = d, !.timed = b] \in Copies
  BY <1>5 DEF Copies
<1> QED
  BY <1>1, <1>2, <1>3, <1>4, <1>5

\* Every step keeps the types; the bounds on the loop's counters need Counters.
LEMMA TypeInductive == TypeOK /\ Descriptors /\ Counters /\ [Next]_vars => TypeOK'
<1> SUFFICES ASSUME TypeOK, Descriptors, Counters, [Next]_vars PROVE TypeOK'
  OBVIOUS
<1> USE DEF TypeOK, GoTo, Fail, FailOpen, FailClosed, Close, Fresh,
        NoFd, Return
<1>o. /\ {opt.block, opt.source, opt.timed} \subseteq BOOLEAN
      /\ opt.deadline \in {"none", "valid", "invalid"}
      /\ Addrs \in Nat /\ Addrs > 0 /\ Retries \in Nat /\ Retries > 0
      /\ MaxCommands \in Nat /\ MaxPushes \in Nat
  BY ConnectionAssumption
<1>f. NewFd \in Nat
  BY NewFdIsNew DEF Descriptors
<1>1. CASE redisConnectWithOptions
  <2>1. own' \in Copies
    <3>1. \/ own' = own
          \/ own' = [own EXCEPT !.deadline = opt.deadline]
          \/ own' = [own EXCEPT !.deadline = opt.deadline, !.timed = opt.timed]
      BY <1>1, Zenon DEF redisConnectWithOptions
    <3>2. own \in Copies /\ opt.deadline \in {"none", "valid", "invalid"} /\ opt.timed \in BOOLEAN
      BY <1>o
    <3>3. [own EXCEPT !.deadline = opt.deadline] \in Copies
      <4> HIDE DEF TypeOK
      <4> QED
        BY <3>2, RecordTypes
    <3>4. [own EXCEPT !.deadline = opt.deadline, !.timed = opt.timed] \in Copies
      <4> HIDE DEF TypeOK
      <4> QED
        BY <3>2, RecordTypes
    <3> HIDE DEF TypeOK
    <3> QED
      BY <3>1, <3>2, <3>3, <3>4
  <2>2. sock' \in Sockets /\ fd' \in Nat /\ open' \subseteq Nat
    <3>1. \/ fd' = fd /\ open' = open /\ sock' = sock
          \/ /\ fd' = NewFd /\ open' = open \cup {NewFd}
             /\ sock' = [NoSock EXCEPT !.to = "asked", !.blocking = opt.block]
      BY <1>1 DEF redisConnectWithOptions, socketVars
    <3>2. NoSock \in Sockets /\ sock \in Sockets /\ opt.block \in BOOLEAN /\ fd \in Nat /\ open \subseteq Nat
      BY <1>o, RecordTypes
    <3>3. [NoSock EXCEPT !.to = "asked", !.blocking = opt.block] \in Sockets
      BY <3>2, RecordTypes
    <3> HIDE DEF TypeOK
    <3> QED
      BY <1>f, <3>1, <3>2, <3>3
  <2>3. starved' \in BOOLEAN
    BY <1>1 DEF redisConnectWithOptions
  <2>4. /\ pc' \in {"idle", "params", "create", "tail"}
        /\ err' \in {"oom", err} /\ ret' \in {"error", ret}
    BY <1>1 DEF redisConnectWithOptions
  <2>5. UNCHANGED <<opt, ctype, p, reuses, others, pushes, issued>>
    BY <1>1 DEF redisConnectWithOptions, loopVars, historyVars
  <2> QED
    BY <2>1, <2>2, <2>3, <2>4, <2>5
<1>2. CASE redisCreateSocket
  BY <1>2, <1>o, <1>f, RecordTypes DEF redisCreateSocket, NewSocket
<1>3. CASE CopyParameters
  <2>1. own' \in Copies
    <3>1. own.host \in {"asked", "NULL", "lost"}
      BY DEF Copies
    <3>2. \A failed \in BOOLEAN : (opt.source /\ ~failed) \in BOOLEAN
      OBVIOUS
    <3>3. \A b \in BOOLEAN : [own EXCEPT !.host = "asked", !.source = b] \in Copies
      BY RecordTypes
    <3>4. \/ own' = own
          \/ own' = [own EXCEPT !.host = "lost"]
          \/ own' = [own EXCEPT !.host = IF CopyHost THEN "asked" ELSE @]
          \/ \E failed \in BOOLEAN :
               own' = [own EXCEPT !.host = "asked", !.source = opt.source /\ ~failed]
      BY <1>3, Zenon DEF CopyParameters
    <3> QED
      BY <3>1, <3>2, <3>3, <3>4, RecordTypes
  <2>2. sock' \in Sockets /\ fd' \in Nat /\ open' \subseteq Nat
    BY <1>3, <1>o DEF CopyParameters
  <2> QED
    BY <1>3, <1>o, <2>1, <2>2 DEF CopyParameters
<1>4. CASE Resolve
  <2>1. p' \in 1..Addrs + 1 /\ reuses' \in 0..Retries
    BY <1>4, <1>o DEF Resolve
  <2> QED
    BY <1>4, <1>o, <2>1 DEF Resolve
<1>5. CASE TryAddress
  <2>1. sock' \in Sockets
    BY <1>5, <1>o, RecordTypes DEF TryAddress, NewSocket
  <2>2. p' \in 1..Addrs + 1 /\ reuses' \in 0..Retries
    BY <1>5, <1>o DEF TryAddress, NewSocket
  <2>3. fd' \in Nat /\ open' \subseteq Nat
    BY <1>5, <1>o, <1>f DEF TryAddress, NewSocket
  <2> QED
    BY <1>5, <1>o, <2>1, <2>2, <2>3 DEF TryAddress, NewSocket
<1>6. CASE Bind
  BY <1>6, <1>o, RecordTypes DEF Bind
<1>7. CASE Connect
  <2>1. sock' \in Sockets
    BY <1>7, <1>o, RecordTypes DEF Connect, Connected, Endpoint, Retry, Counters
  <2>2. p' \in 1..Addrs + 1 /\ reuses' \in 0..Retries
    BY <1>7, <1>o DEF Connect, Connected, Endpoint, Retry, Counters
  <2> QED
    BY <1>7, <1>o, <2>1, <2>2 DEF Connect, Connected, Endpoint, Retry, Counters
<1>8. CASE WaitReady
  <2>1. sock' \in Sockets
    BY <1>8, <1>o, RecordTypes DEF WaitReady, Connected, Endpoint
  <2> QED
    BY <1>8, <1>o, <2>1 DEF WaitReady, Connected, Endpoint
<1>9. CASE ConnectEndsWell
  <2>1. sock' \in Sockets
    BY <1>9, <1>o, RecordTypes DEF ConnectEndsWell
  <2> QED
    BY <1>9, <1>o, <2>1 DEF ConnectEndsWell
<1>10. CASE SetCommandTimeout
  <2>1. sock' \in Sockets
    BY <1>10, <1>o, RecordTypes DEF SetCommandTimeout
  <2>2. p' \in 1..Addrs + 1 /\ reuses' \in 0..Retries
    BY <1>10, <1>o DEF SetCommandTimeout
  <2> QED
    BY <1>10, <1>o, <2>1, <2>2 DEF SetCommandTimeout
<1>11. CASE redisReconnect
  BY <1>11, <1>o, RecordTypes DEF redisReconnect
<1>12. CASE redisFree
  BY <1>12, <1>o, RecordTypes DEF redisFree, Freed
<1>13. CASE redisFreeKeepFd
  BY <1>13, <1>o, RecordTypes DEF redisFreeKeepFd, Freed
<1>14. CASE redisSetTimeout
  BY <1>14, <1>o, RecordTypes DEF redisSetTimeout
<1>15. CASE redisEnableKeepAlive
  BY <1>15, <1>o DEF redisEnableKeepAlive
<1>16. CASE redisAppendCommand
  BY <1>16, <1>o DEF redisAppendCommand
<1>17. CASE redisGetReply
  BY <1>17, <1>o DEF redisGetReply
<1>18. CASE redisBufferWrite
  BY <1>18, <1>o DEF redisBufferWrite, AfterWrite, Written
<1>19. CASE redisBufferRead
  BY <1>19, <1>o DEF redisBufferRead, BufferReads, BufferReadsNothing, AfterRead, Feed
<1>20. CASE ReaderFails
  BY <1>20, <1>o DEF ReaderFails
<1>21. CASE PendingReply
  BY <1>21, <1>o DEF PendingReply, Deliver, TakeItem
<1>22. CASE ReplyRead
  BY <1>22, <1>o DEF ReplyRead, Deliver, TakeItem
<1>23. CASE Push
  BY <1>23, <1>o DEF Push
<1>24. CASE OtherOpens
  BY <1>24, <1>f, <1>o DEF OtherOpens
<1>25. CASE UNCHANGED vars
  BY <1>25, <1>o DEF vars
<1> QED
  BY <1>1, <1>2, <1>3, <1>4, <1>5, <1>6, <1>7, <1>8, <1>9, <1>10, <1>11, <1>12, <1>13,
     <1>14, <1>15, <1>16, <1>17, <1>18, <1>19, <1>20, <1>21, <1>22, <1>23, <1>24, <1>25
     DEF Next, ConnectStep, CallStep

\* Every step leaves the context with one descriptor or none, and closes its own only.
LEMMA DescriptorsInductive == TypeOK /\ Descriptors /\ [Next]_vars => Descriptors'
<1> SUFFICES ASSUME TypeOK, Descriptors, [Next]_vars PROVE Descriptors'
  OBVIOUS
<1>o. /\ fd \in Nat /\ IsFiniteSet(open) /\ 0 \notin others /\ fd \notin others
      /\ open = ({fd} \ {0}) \cup others
      /\ ctype \in {"tcp", "unix"}
  BY DEF Descriptors, OwnSocketOnly, NoFd, TypeOK
<1>f. NewFd \in Nat /\ NewFd # 0 /\ NewFd \notin open
  BY <1>o, NewFdIsNew
<1>s. IsFiniteSet(open \cup {NewFd}) /\ IsFiniteSet(open \ {fd})
  BY <1>o, FS_AddElement, FS_RemoveElement
<1> USE DEF Descriptors, OwnSocketOnly, GoTo, Fail, FailOpen, FailClosed, Close, NoFd,
            NewSocket, Return
<1>1. CASE redisConnectWithOptions
  BY <1>1, <1>o, <1>f, <1>s DEF redisConnectWithOptions
<1>2. CASE redisCreateSocket
  BY <1>2, <1>o, <1>f, <1>s DEF redisCreateSocket
<1>3. CASE CopyParameters
  BY <1>3, <1>o DEF CopyParameters
<1>4. CASE Resolve
  BY <1>4, <1>o DEF Resolve
<1>5. CASE TryAddress
  BY <1>5, <1>o, <1>f, <1>s DEF TryAddress
<1>6. CASE Bind
  BY <1>6, <1>o DEF Bind
<1>7. CASE Connect
  BY <1>7, <1>o, <1>s DEF Connect, Connected, Retry
<1>8. CASE WaitReady
  BY <1>8, <1>o, <1>s DEF WaitReady, Connected
<1>9. CASE ConnectEndsWell
  BY <1>9, <1>o, <1>s DEF ConnectEndsWell
<1>10. CASE SetCommandTimeout
  BY <1>10, <1>o DEF SetCommandTimeout
<1>11. CASE redisReconnect
  BY <1>11, <1>o, <1>s DEF redisReconnect
<1>12. CASE redisFree
  BY <1>12, <1>o, <1>s DEF redisFree, Freed
<1>13. CASE redisFreeKeepFd
  BY <1>13, <1>o DEF redisFreeKeepFd, Freed
<1>14. CASE redisSetTimeout \/ redisEnableKeepAlive \/ redisAppendCommand \/ redisGetReply
  BY <1>14, <1>o DEF redisSetTimeout, redisEnableKeepAlive, redisAppendCommand, redisGetReply
<1>15. CASE redisBufferWrite
  BY <1>15, <1>o DEF redisBufferWrite, AfterWrite
<1>16. CASE redisBufferRead
  BY <1>16, <1>o DEF redisBufferRead, BufferReads, BufferReadsNothing, AfterRead
<1>17. CASE ReaderFails \/ PendingReply \/ ReplyRead
  BY <1>17, <1>o DEF ReaderFails, PendingReply, ReplyRead, Deliver
<1>18. CASE Push
  BY <1>18, <1>o DEF Push
<1>19. CASE OtherOpens
  BY <1>19, <1>o, <1>f, <1>s DEF OtherOpens
<1>20. CASE UNCHANGED vars
  BY <1>20, <1>o DEF vars
<1> QED
  BY <1>1, <1>2, <1>3, <1>4, <1>5, <1>6, <1>7, <1>8, <1>9, <1>10, <1>11, <1>12, <1>13,
     <1>14, <1>15, <1>16, <1>17, <1>18, <1>19, <1>20 DEF Next, ConnectStep, CallStep

\* The loop over the addresses stays in its bounds.
LEMMA CountersInductive == TypeOK /\ Counters /\ [Next]_vars => Counters'
<1> SUFFICES ASSUME TypeOK, Counters, [Next]_vars PROVE Counters'
  OBVIOUS
<1>o. /\ Retries \in Nat /\ Retries > 0 /\ Addrs \in Nat /\ Addrs > 0
      /\ p \in Nat /\ reuses \in Nat
  BY ConnectionAssumption DEF TypeOK
<1> USE DEF Counters, GoTo, Fail, FailOpen, FailClosed, Return
<1>1. CASE redisConnectWithOptions \/ redisCreateSocket \/ CopyParameters
  BY <1>1 DEF redisConnectWithOptions, redisCreateSocket, CopyParameters, NewSocket
<1>2. CASE Resolve \/ TryAddress \/ Bind
  BY <1>2, <1>o DEF Resolve, TryAddress, NewSocket, Bind
<1>3. CASE Connect
  BY <1>3, <1>o DEF Connect, Connected, Retry
<1>4. CASE WaitReady \/ ConnectEndsWell \/ SetCommandTimeout
  BY <1>4, <1>o DEF WaitReady, Connected, ConnectEndsWell, SetCommandTimeout
<1>5. CASE redisReconnect \/ redisFree \/ redisFreeKeepFd
  BY <1>5 DEF redisReconnect, redisFree, redisFreeKeepFd, Freed
<1>6. CASE redisSetTimeout \/ redisEnableKeepAlive \/ redisAppendCommand \/ redisGetReply
  BY <1>6 DEF redisSetTimeout, redisEnableKeepAlive, redisAppendCommand, redisGetReply
<1>7. CASE redisBufferWrite
  BY <1>7 DEF redisBufferWrite, AfterWrite
<1>8. CASE redisBufferRead
  BY <1>8 DEF redisBufferRead, BufferReads, BufferReadsNothing, AfterRead
<1>9. CASE ReaderFails \/ PendingReply \/ ReplyRead
  BY <1>9 DEF ReaderFails, PendingReply, ReplyRead, Deliver
<1>10. CASE Push \/ OtherOpens \/ UNCHANGED vars
  BY <1>10 DEF Push, OtherOpens, vars
<1> QED
  BY <1>1, <1>2, <1>3, <1>4, <1>5, <1>6, <1>7, <1>8, <1>9, <1>10
     DEF Next, ConnectStep, CallStep

\* What the server is to get of the commands so far, when one more is appended.
LEMMA BytesOfNone == Bytes(<<>>) = <<>>
  BY DEF Bytes

LEMMA BytesOfOneMore ==
  ASSUME NEW s \in Seq(Nat), NEW c \in Nat
  PROVE  /\ Bytes(s) \in Seq(Byte) /\ Len(Bytes(s)) = 2 * Len(s)
         /\ Bytes(Append(s, c)) = Bytes(s) \o <<<<c, 1>>, <<c, 2>>>>
<1> DEFINE two == <<<<c, 1>>, <<c, 2>>>>
           L == Len(s)
<1>1. L \in Nat /\ Len(Append(s, c)) = L + 1
  OBVIOUS
<1>2. \A i \in 1..L : s[i] \in Nat /\ Append(s, c)[i] = s[i]
  OBVIOUS
<1>3. Append(s, c)[L + 1] = c
  OBVIOUS
<1>4. \A i \in 1..2 * L : (i + 1) \div 2 \in 1..L
  BY <1>1
<1>5. Bytes(s) \in [1..2 * L -> Byte]
  BY <1>2, <1>4 DEF Bytes, Byte
<1>6. Bytes(s) \in Seq(Byte) /\ Len(Bytes(s)) = 2 * L
  BY <1>1, <1>5
<1>7. two \in Seq(Byte) /\ Len(two) = 2 /\ two[1] = <<c, 1>> /\ two[2] = <<c, 2>>
  BY DEF Byte
<1>8. /\ Bytes(s) \o two \in Seq(Byte)
      /\ Len(Bytes(s) \o two) = 2 * L + 2
      /\ \A i \in 1..2 * L + 2 : (Bytes(s) \o two)[i] =
           IF i <= 2 * L THEN Bytes(s)[i] ELSE two[i - 2 * L]
  <2> DEFINE b == Bytes(s)
  <2>1. b \in Seq(Byte) /\ two \in Seq(Byte) /\ Len(b) = 2 * L /\ Len(two) = 2
    BY <1>6, <1>7
  <2> HIDE DEF two, b
  <2>2. /\ b \o two \in Seq(Byte)
        /\ Len(b \o two) = Len(b) + Len(two)
        /\ \A i \in 1..Len(b) + Len(two) : (b \o two)[i] =
             IF i <= Len(b) THEN b[i] ELSE two[i - Len(b)]
    BY <2>1, ConcatProperties, Zenon
  <2> QED
    BY <2>1, <2>2 DEF b
<1>9. ASSUME NEW i \in 1..2 * L + 2
      PROVE  Bytes(Append(s, c))[i] = (Bytes(s) \o two)[i]
  <2> HIDE DEF two
  <2>5. i \in Nat /\ i <= 2 * L + 2 /\ 1 <= i
    BY <1>1
  <2>0. i \in 1..2 * Len(Append(s, c))
    <3>1. 2 * Len(Append(s, c)) = 2 * L + 2
      BY <1>1
    <3> QED
      BY <3>1
  <2>1. Bytes(Append(s, c))[i]
          = <<Append(s, c)[(i + 1) \div 2], IF i % 2 = 1 THEN 1 ELSE 2>>
    BY <2>0 DEF Bytes
  <2>2. CASE i <= 2 * L
    <3>1. (i + 1) \div 2 \in 1..L
      BY <1>1, <2>2
    <3>2. Bytes(s)[i] = <<s[(i + 1) \div 2], IF i % 2 = 1 THEN 1 ELSE 2>>
      BY <1>1, <2>2 DEF Bytes
    <3> QED
      BY <1>2, <1>8, <2>1, <2>2, <3>1, <3>2
  <2>3. CASE i = 2 * L + 1
    <3>1. (i + 1) \div 2 = L + 1 /\ i % 2 = 1 /\ i - 2 * L = 1
      BY <1>1, <2>3
    <3>2. (Bytes(s) \o two)[i] = two[1] /\ Bytes(Append(s, c))[i] = <<c, 1>>
      BY <1>1, <1>3, <1>8, <2>1, <2>3, <3>1
    <3> QED
      BY <1>7, <3>2
  <2>4. CASE i = 2 * L + 2
    <3>1. (i + 1) \div 2 = L + 1 /\ i % 2 = 0 /\ i - 2 * L = 2
      BY <1>1, <2>4
    <3>2. (Bytes(s) \o two)[i] = two[2] /\ Bytes(Append(s, c))[i] = <<c, 2>>
      BY <1>1, <1>3, <1>8, <2>1, <2>4, <3>1
    <3> QED
      BY <1>7, <3>2
  <2>6. i <= 2 * L \/ i = 2 * L + 1 \/ i = 2 * L + 2
    BY <1>1, <2>5
  <2> QED
    BY <2>2, <2>3, <2>4, <2>6
<1>10. Bytes(Append(s, c)) \in Seq(Byte) /\ Len(Bytes(Append(s, c))) = 2 * L + 2
  <2>1. \A i \in 1..2 * L + 2 : Bytes(Append(s, c))[i] \in Byte
    BY <1>8, <1>9, ElementOfSeq
  <2>2. Bytes(Append(s, c)) = [i \in 1..2 * L + 2 |-> Bytes(Append(s, c))[i]]
    BY <1>1 DEF Bytes
  <2> HIDE DEF two
  <2>3. Bytes(Append(s, c)) \in [1..2 * L + 2 -> Byte]
    BY <2>1, <2>2
  <2> QED
    BY <1>1, <2>3
<1> QED
  <2> HIDE DEF two
  <2>1. Bytes(Append(s, c)) = Bytes(s) \o two
    BY <1>8, <1>9, <1>10, SeqEqual
  <2> QED
    BY <1>6, <2>1 DEF two

\* Concatenation is associative, for sequences of bytes.
LEMMA Associative == \A a, b, c \in Seq(Byte) : (a \o b) \o c = a \o (b \o c)
<1> SUFFICES ASSUME NEW a \in Seq(Byte), NEW b \in Seq(Byte), NEW c \in Seq(Byte)
             PROVE  (a \o b) \o c = a \o (b \o c)
  OBVIOUS
<1> QED
  BY ConcatAssociative

\* A write moves the beginning of the buffer behind what was sent before.
LEMMA WriteMoves ==
  ASSUME NEW r \in Seq(Byte), NEW o \in Seq(Byte), NEW n \in 1..Len(o)
  PROVE  /\ r \o SubSeq(o, 1, n) \in Seq(Byte)
         /\ SubSeq(o, n + 1, Len(o)) \in Seq(Byte)
         /\ (r \o SubSeq(o, 1, n)) \o SubSeq(o, n + 1, Len(o)) = r \o o
         /\ n = Len(o) => SubSeq(o, n + 1, Len(o)) = <<>>
<1>1. /\ SubSeq(o, 1, n) \in Seq(Byte)
      /\ SubSeq(o, n + 1, Len(o)) \in Seq(Byte)
  BY ElementOfSeq, SubSeqProperties
<1>2. SubSeq(o, 1, n) \o SubSeq(o, n + 1, Len(o)) = SubSeq(o, 1, Len(o))
  BY ConcatAdjacentSubSeq
<1>3. SubSeq(o, 1, Len(o)) = o
  BY SubSeqFull
<1> DEFINE sent == SubSeq(o, 1, n)
           rest == SubSeq(o, n + 1, Len(o))
<1> HIDE DEF sent, rest
<1>4. sent \in Seq(Byte) /\ rest \in Seq(Byte) /\ sent \o rest = o
  BY <1>1, <1>2, <1>3 DEF sent, rest
<1>5. r \o sent \in Seq(Byte)
  BY <1>4, ConcatProperties
<1>7. (r \o sent) \o rest = r \o (sent \o rest)
  BY <1>4, Associative, Zenon
<1>6. n = Len(o) => rest = <<>>
  <2> SUFFICES ASSUME n = Len(o) PROVE rest = <<>>
    OBVIOUS
  <2>1. Len(o) \in Nat
    OBVIOUS
  <2> QED
    BY <2>1, SubSeqEmpty DEF rest
<1>8. (r \o sent) \o rest = r \o o
  BY <1>4, <1>7, Zenon
<1> QED
  BY <1>4, <1>5, <1>6, <1>8, Zenon DEF sent, rest

\* Every step leaves what is sent and what is to be sent as it was, or adds to it.
LEMMA BuffersInductive == TypeOK /\ Buffers /\ [Next]_vars => Buffers'
<1> SUFFICES ASSUME TypeOK, Buffers, [Next]_vars PROVE Buffers'
  OBVIOUS
<1>e. /\ Bytes(<<>>) = <<>> /\ <<>> \in Seq(Byte) /\ <<>> \in Seq(Nat)
      /\ <<>> \o <<>> = <<>>
  BY BytesOfNone
<1> USE DEF Buffers, Connecting, HasItem, GoTo, Fail, FailOpen, FailClosed, Close, Fresh,
            Return
<1>1. CASE redisConnectWithOptions \/ redisCreateSocket \/ CopyParameters
  BY <1>1, <1>e DEF redisConnectWithOptions, redisCreateSocket, CopyParameters, NewSocket
<1>2. CASE Resolve \/ TryAddress \/ Bind
  BY <1>2, <1>e DEF Resolve, TryAddress, NewSocket, Bind
<1>3. CASE Connect
  BY <1>3, <1>e DEF Connect, Connected, Retry
<1>4. CASE WaitReady \/ ConnectEndsWell \/ SetCommandTimeout
  BY <1>4, <1>e DEF WaitReady, Connected, ConnectEndsWell, SetCommandTimeout
<1>5. CASE redisReconnect \/ redisFree \/ redisFreeKeepFd
  BY <1>5, <1>e DEF redisReconnect, redisFree, redisFreeKeepFd, Freed
<1>6. CASE redisSetTimeout \/ redisEnableKeepAlive \/ redisGetReply
  BY <1>6 DEF redisSetTimeout, redisEnableKeepAlive, redisGetReply
<1>7. CASE redisAppendCommand
  <2> DEFINE two == <<<<issued + 1, 1>>, <<issued + 1, 2>>>>
  <2>1. issued + 1 \in Nat
    BY DEF TypeOK
  <2>2. two \in Seq(Byte)
    <3>1. \A c \in Nat : <<c, 1>> \in Nat \X Nat /\ <<c, 2>> \in Nat \X Nat
      OBVIOUS
    <3>2. \A S : \A c, d \in S : <<c, d>> \in Seq(S)
      OBVIOUS
    <3> HIDE DEF TypeOK, Buffers, Connecting, HasItem
    <3> QED
      BY <2>1, <3>1, <3>2, Zenon DEF Byte, two
  <2>3. Bytes(Append(appended, issued + 1)) = Bytes(appended) \o two
    BY <2>1, BytesOfOneMore
  <2>4. Append(appended, issued + 1) \in Seq(Nat)
    BY <2>1
  <2>5. CASE /\ obuf' = obuf \o two /\ appended' = Append(appended, issued + 1)
             /\ UNCHANGED <<pc, inbuf, received>>
    <3> HIDE DEF two
    <3>1. obuf \o two \in Seq(Byte)
      BY <2>2, ConcatProperties
    <3>2. received \o (obuf \o two) = (received \o obuf) \o two
      BY <2>2, Associative, Zenon
    <3>3. received' \o obuf' = Bytes(appended')
      BY <2>3, <2>5, <3>2
    <3> QED
      BY <1>7, <2>4, <2>5, <3>1, <3>3 DEF redisAppendCommand
  <2>6. CASE UNCHANGED <<obuf, appended, pc, inbuf, received>>
    BY <2>6
  <2> QED
    BY <1>7, <2>5, <2>6 DEF redisAppendCommand
<1>8. CASE redisBufferWrite
  <2>1. CASE UNCHANGED <<obuf, received, inbuf, appended>> /\ (pc' = "read" => obuf = <<>>)
             /\ pc' \in {"idle", "read", "write"} /\ (pc' # "idle" => pc = "write")
    BY <2>1
  <2>2. ASSUME NEW n \in 1..Len(obuf), Written(n), UNCHANGED <<inbuf, appended>>,
               pc' \in {"idle", "read", "write"}, pc' # "idle" => pc = "write",
               pc' = "read" => n = Len(obuf)
        PROVE  Buffers'
    <3>1. /\ received' \in Seq(Byte) /\ obuf' \in Seq(Byte)
          /\ received' \o obuf' = received \o obuf
          /\ n = Len(obuf) => obuf' = <<>>
      BY <2>2, WriteMoves DEF Written
    <3> QED
      BY <2>2, <3>1
  <2> QED
    BY <1>8, <2>1, <2>2 DEF redisBufferWrite, AfterWrite
<1>9. CASE redisBufferRead
  BY <1>9 DEF redisBufferRead, BufferReads, BufferReadsNothing, AfterRead
<1>10. CASE ReaderFails \/ PendingReply \/ ReplyRead
  BY <1>10 DEF ReaderFails, PendingReply, ReplyRead, Deliver
<1>11. CASE Push \/ OtherOpens \/ UNCHANGED vars
  BY <1>11 DEF Push, OtherOpens, vars
<1> QED
  BY <1>1, <1>2, <1>3, <1>4, <1>5, <1>6, <1>7, <1>8, <1>9, <1>10, <1>11
     DEF Next, ConnectStep, CallStep

\* Every step keeps what is known of the socket and of the parameters at each place.
LEMMA AsAskedInductive ==
  TypeOK /\ Descriptors /\ AsAsked /\ [Next]_vars => AsAsked'
<1> SUFFICES ASSUME TypeOK, Descriptors, AsAsked, [Next]_vars PROVE AsAsked'
  OBVIOUS
<1>o. /\ ctype \in {"tcp", "unix"}
      /\ {opt.block, opt.source, opt.timed, starved} \subseteq BOOLEAN
      /\ own \in Copies /\ sock \in Sockets
  BY ConnectionAssumption DEF TypeOK
<1>f. NewFd # NoFd
  BY NewFdIsNew DEF Descriptors, NoFd
<1> USE DEF AsAsked, Unconnected, HostOwned, SocketAsAsked, Online, GoTo, Fail, FailOpen,
            FailClosed, Close, Fresh, Return, NoSock, Copies, Sockets
<1>1. CASE redisConnectWithOptions
  <2>1. CASE pc' = "idle"
    BY <1>1, <1>o, <2>1 DEF redisConnectWithOptions
  <2>2. CASE pc' = "tail"
    <3>1. /\ fd' # NoFd /\ opt.type = "fd" /\ sock'.blocking = opt.block
          /\ own' = [own EXCEPT !.deadline = opt.deadline, !.timed = opt.timed]
          /\ UNCHANGED <<starved, opt, err>> /\ own.host # "asked"
      BY <1>1, <1>o, <1>f, <2>2 DEF redisConnectWithOptions
    <3> QED
      BY <1>1, <1>o, <2>2, <3>1
  <2>3. CASE pc' \in {"params", "create"}
    <3>1. /\ UNCHANGED <<starved, opt, err, fd, sock, ctype>>
          /\ own' = [own EXCEPT !.deadline = opt.deadline, !.timed = opt.timed]
          /\ own.host = "NULL" /\ sock.to = "none" /\ sock.bound = FALSE /\ err = "none"
      BY <1>1, <1>o, <2>3 DEF redisConnectWithOptions
    <3>2. own'.host = "NULL" /\ own'.timed = opt.timed
      BY <1>o, <3>1
    <3> QED
      BY <1>o, <2>3, <3>1, <3>2
  <2> QED
    BY <1>1, <2>1, <2>2, <2>3 DEF redisConnectWithOptions
<1>2. CASE redisCreateSocket
  BY <1>2, <1>o, <1>f DEF redisCreateSocket, NewSocket
<1>3. CASE CopyParameters
  BY <1>3, <1>o DEF CopyParameters
<1>4. CASE Resolve
  BY <1>4, <1>o DEF Resolve
<1>5. CASE TryAddress
  BY <1>5, <1>o, <1>f DEF TryAddress, NewSocket
<1>6. CASE Bind
  BY <1>6, <1>o DEF Descriptors, Bind
<1>7. CASE Connect
  BY <1>7, <1>o DEF Descriptors, Connect, Connected, Retry, Endpoint
<1>8. CASE WaitReady
  BY <1>8, <1>o DEF Descriptors, WaitReady, Connected, Endpoint
<1>9. CASE ConnectEndsWell
  BY <1>9, <1>o DEF ConnectEndsWell
<1>10. CASE SetCommandTimeout
  BY <1>10, <1>o DEF SetCommandTimeout
<1>11. CASE redisReconnect \/ redisFree \/ redisFreeKeepFd
  BY <1>11, <1>o DEF redisReconnect, redisFree, redisFreeKeepFd, Freed
<1>12. CASE redisSetTimeout
  BY <1>12, <1>o DEF redisSetTimeout
<1>13. CASE redisEnableKeepAlive \/ redisAppendCommand \/ redisGetReply
  BY <1>13 DEF redisEnableKeepAlive, redisAppendCommand, redisGetReply
<1>14. CASE redisBufferWrite
  BY <1>14 DEF redisBufferWrite, AfterWrite
<1>15. CASE redisBufferRead
  BY <1>15 DEF redisBufferRead, BufferReads, BufferReadsNothing, AfterRead
<1>16. CASE ReaderFails \/ PendingReply \/ ReplyRead
  BY <1>16 DEF ReaderFails, PendingReply, ReplyRead, Deliver
<1>17. CASE Push \/ OtherOpens \/ UNCHANGED vars
  BY <1>17 DEF Push, OtherOpens, vars
<1> QED
  BY <1>1, <1>2, <1>3, <1>4, <1>5, <1>6, <1>7, <1>8, <1>9, <1>10, <1>11, <1>12, <1>13,
     <1>14, <1>15, <1>16, <1>17 DEF Next, ConnectStep, CallStep

-----------------------------------------------------------------------------
(* What redisGetReply has returned and what is still to be returned, as one *)
(* line: n numbers of commands, or 0 for a push, while the first m of the   *)
(* commands cmds are answered.                                              *)

Meant(line, n, cmds, m) == \A i \in 1..n : line[i] = 0 \/ \E k \in 1..m : line[i] = cmds[k]
Once(line, n) == \A i, q \in 1..n : i < q /\ line[i] # 0 => line[i] # line[q]
BehindEarlier(line, n, cmds, m) ==
  \A i \in 1..n, k \in 1..m :
    line[i] = cmds[k] => \A l \in 1..k - 1 : \E q \in 1..i - 1 : line[q] = cmds[l]
Complete(line, n, cmds, m) == \A k \in 1..m : \E i \in 1..n : line[i] = cmds[k]

Ordered(line, n, cmds, m) ==
  Meant(line, n, cmds, m) /\ Once(line, n) /\ BehindEarlier(line, n, cmds, m)

\* Commands are told apart by their numbers, and from pushes.
Distinct(cmds, m) ==
  /\ \A k \in 1..m : cmds[k] # 0
  /\ \A k, l \in 1..m : cmds[k] = cmds[l] => k = l

\* A shorter line, and other commands behind those that are answered.
LEMMA OrderedPart ==
  ASSUME NEW line, NEW line2, NEW n \in Nat, NEW n2 \in 0..n, NEW m \in Nat,
         NEW cmds, NEW cmds2,
         \A i \in 1..n2 : line2[i] = line[i], \A k \in 1..m : cmds2[k] = cmds[k],
         Ordered(line, n, cmds, m)
  PROVE  /\ Ordered(line2, n2, cmds2, m)
         /\ n2 = n /\ Complete(line, n, cmds, m) => Complete(line2, n2, cmds2, m)
<1>0. (\A i \in 1..n2 : i \in 1..n) /\ (\A i \in 1..n2 : \A q \in 1..i - 1 : q \in 1..n2)
      /\ (\A k \in 1..m : \A l \in 1..k - 1 : l \in 1..m)
  OBVIOUS
<1>1. Meant(line2, n2, cmds2, m)
  BY <1>0 DEF Ordered, Meant
<1>2. Once(line2, n2)
  BY <1>0 DEF Ordered, Once
<1>3. BehindEarlier(line2, n2, cmds2, m)
  <2> SUFFICES ASSUME NEW i \in 1..n2, NEW k \in 1..m, line2[i] = cmds2[k], NEW l \in 1..k - 1
               PROVE  \E q \in 1..i - 1 : line2[q] = cmds2[l]
    BY DEF BehindEarlier
  <2>1. PICK q \in 1..i - 1 : line[q] = cmds[l]
    BY <1>0 DEF Ordered, BehindEarlier
  <2> QED
    BY <1>0, <2>1
<1>4. n2 = n /\ Complete(line, n, cmds, m) => Complete(line2, n2, cmds2, m)
  BY DEF Complete
<1> QED
  BY <1>1, <1>2, <1>3, <1>4 DEF Ordered

\* A push is put behind the line.
LEMMA OrderedPush ==
  ASSUME NEW line, NEW line2, NEW n \in Nat, NEW m \in Nat, NEW cmds,
         \A i \in 1..n : line2[i] = line[i], line2[n + 1] = 0,
         Distinct(cmds, m), Ordered(line, n, cmds, m), Complete(line, n, cmds, m)
  PROVE  Ordered(line2, n + 1, cmds, m) /\ Complete(line2, n + 1, cmds, m)
<1>0. /\ \A i \in 1..n + 1 : i \in 1..n \/ i = n + 1
      /\ \A i \in 1..n : i \in 1..n + 1 /\ i # n + 1 /\ \A q \in 1..i - 1 : q \in 1..n
      /\ \A i \in 1..n + 1 : ~(n + 1 < i)
  OBVIOUS
<1>1. Meant(line2, n + 1, cmds, m)
  BY <1>0 DEF Ordered, Meant
<1>2. Once(line2, n + 1)
  <2> SUFFICES ASSUME NEW i \in 1..n + 1, NEW q \in 1..n + 1, i < q, line2[i] # 0
               PROVE  line2[i] # line2[q]
    BY DEF Once
  <2> QED
    BY <1>0 DEF Ordered, Once
<1>3. BehindEarlier(line2, n + 1, cmds, m)
  <2> SUFFICES ASSUME NEW i \in 1..n + 1, NEW k \in 1..m, line2[i] = cmds[k], NEW l \in 1..k - 1
               PROVE  \E q \in 1..i - 1 : line2[q] = cmds[l]
    BY DEF BehindEarlier
  <2>1. i \in 1..n
    BY <1>0 DEF Distinct
  <2>2. PICK q \in 1..i - 1 : line[q] = cmds[l]
    BY <2>1 DEF Ordered, BehindEarlier
  <2> QED
    BY <1>0, <2>1, <2>2
<1>4. Complete(line2, n + 1, cmds, m)
  BY <1>0 DEF Complete
<1> QED
  BY <1>1, <1>2, <1>3, <1>4 DEF Ordered

\* The answers to d more commands are put behind the line.
LEMMA OrderedGrows ==
  ASSUME NEW line, NEW line2, NEW n \in Nat, NEW m \in Nat, NEW d \in Nat, NEW cmds,
         \A i \in 1..n : line2[i] = line[i], \A j \in 1..d : line2[n + j] = cmds[m + j],
         Distinct(cmds, m + d), Ordered(line, n, cmds, m), Complete(line, n, cmds, m)
  PROVE  Ordered(line2, n + d, cmds, m + d) /\ Complete(line2, n + d, cmds, m + d)
<1>0. \A i \in 1..n + d : i \in 1..n \/ \E j \in 1..d : i = n + j
  <2> SUFFICES ASSUME NEW i \in 1..n + d, i \notin 1..n PROVE \E j \in 1..d : i = n + j
    OBVIOUS
  <2>1. i - n \in 1..d /\ i = n + (i - n)
    OBVIOUS
  <2> QED
    BY <2>1
<1>1. \A k \in 1..m + d : k \in 1..m \/ \E j \in 1..d : k = m + j
  <2> SUFFICES ASSUME NEW k \in 1..m + d, k \notin 1..m PROVE \E j \in 1..d : k = m + j
    OBVIOUS
  <2>1. k - m \in 1..d /\ k = m + (k - m)
    OBVIOUS
  <2> QED
    BY <2>1
<1>2. /\ \A i \in 1..n : i \in 1..n + d /\ \A j \in 1..d : i < n + j
      /\ \A k \in 1..m : k \in 1..m + d /\ \A j \in 1..d : k # m + j
      /\ \A j \in 1..d : n + j \in 1..n + d /\ m + j \in 1..m + d
      /\ \A g, j \in 1..d : (m + g = m + j => g = j) /\ (n + g < n + j => g # j)
  OBVIOUS
<1>3. Meant(line2, n + d, cmds, m + d)
  BY <1>0, <1>2 DEF Ordered, Meant
\* Nothing in the old line is one of the new answers.
<1>4. ASSUME NEW i \in 1..n, NEW j \in 1..d PROVE line[i] # cmds[m + j]
  BY <1>2 DEF Ordered, Meant, Distinct
<1>5. Once(line2, n + d)
  <2> SUFFICES ASSUME NEW i \in 1..n + d, NEW q \in 1..n + d, i < q, line2[i] # 0
               PROVE  line2[i] # line2[q]
    BY DEF Once
  <2>1. CASE i \in 1..n /\ q \in 1..n
    BY <2>1 DEF Ordered, Once
  <2>2. ASSUME i \in 1..n, NEW j \in 1..d, q = n + j PROVE line2[i] # line2[q]
    BY <2>2, <1>4
  <2>3. ASSUME NEW g \in 1..d, i = n + g, NEW j \in 1..d, q = n + j PROVE line2[i] # line2[q]
    <3>1. m + g \in 1..m + d /\ m + j \in 1..m + d /\ m + g # m + j
      BY <1>2, <2>3
    <3> QED
      BY <2>3, <3>1 DEF Distinct
  <2>4. ASSUME NEW g \in 1..d, i = n + g, q \in 1..n PROVE FALSE
    BY <2>4
  <2> QED
    BY <1>0, <2>1, <2>2, <2>3, <2>4
<1>6. BehindEarlier(line2, n + d, cmds, m + d)
  <2> SUFFICES ASSUME NEW i \in 1..n + d, NEW k \in 1..m + d, line2[i] = cmds[k],
                      NEW l \in 1..k - 1
               PROVE  \E q \in 1..i - 1 : line2[q] = cmds[l]
    BY DEF BehindEarlier
  <2>1. CASE i \in 1..n /\ k \in 1..m
    <3>1. PICK q \in 1..i - 1 : line[q] = cmds[l]
      BY <2>1 DEF Ordered, BehindEarlier
    <3>2. q \in 1..n
      BY <2>1
    <3> QED
      BY <3>1, <3>2
  <2>2. ASSUME i \in 1..n, NEW j \in 1..d, k = m + j PROVE FALSE
    BY <2>2, <1>4
  <2>3. ASSUME NEW g \in 1..d, i = n + g, k \in 1..m PROVE FALSE
    <3>1. cmds[m + g] = cmds[k]
      BY <2>3
    <3> QED
      BY <3>1, <2>3, <1>2 DEF Distinct
  <2>4. ASSUME NEW g \in 1..d, i = n + g, NEW j \in 1..d, k = m + j
        PROVE  \E q \in 1..i - 1 : line2[q] = cmds[l]
    <3>1. g = j
      <4>1. cmds[m + g] = cmds[m + j]
        BY <2>4
      <4> QED
        BY <4>1, <1>2 DEF Distinct
    <3>2. CASE l \in 1..m
      <4>1. PICK q \in 1..n : line[q] = cmds[l]
        BY <3>2 DEF Complete
      <4>2. q \in 1..i - 1
        BY <2>4
      <4> QED
        BY <4>1, <4>2
    <3>3. ASSUME NEW h \in 1..d, l = m + h PROVE \E q \in 1..i - 1 : line2[q] = cmds[l]
      <4>1. n + h \in 1..i - 1 /\ line2[n + h] = cmds[l]
        BY <2>4, <3>1, <3>3
      <4> QED
        BY <4>1
    <3>4. l \in 1..m + d
      OBVIOUS
    <3> QED
      BY <1>1, <3>2, <3>3, <3>4
  <2> QED
    BY <1>0, <1>1, <2>1, <2>2, <2>3, <2>4
<1>7. Complete(line2, n + d, cmds, m + d)
  <2> SUFFICES ASSUME NEW k \in 1..m + d PROVE \E i \in 1..n + d : line2[i] = cmds[k]
    BY DEF Complete
  <2>1. CASE k \in 1..m
    BY <2>1, <1>2 DEF Complete
  <2>2. ASSUME NEW j \in 1..d, k = m + j PROVE \E i \in 1..n + d : line2[i] = cmds[k]
    BY <2>2, <1>2
  <2> QED
    BY <1>1, <2>1, <2>2
<1> QED
  BY <1>3, <1>5, <1>6, <1>7 DEF Ordered

\* A push is taken out of the line.
LEMMA OrderedDrops ==
  ASSUME NEW line, NEW line2, NEW n \in Nat, NEW m \in Nat, NEW cmds,
         NEW x \in 1..n, line[x] = 0,
         \A i \in 1..x - 1 : line2[i] = line[i], \A i \in x..n - 1 : line2[i] = line[i + 1],
         Distinct(cmds, m), Ordered(line, n, cmds, m), Complete(line, n, cmds, m)
  PROVE  Ordered(line2, n - 1, cmds, m) /\ Complete(line2, n - 1, cmds, m)
<1> DEFINE Old(i) == IF i < x THEN i ELSE i + 1
<1>0. ASSUME NEW i \in 1..n - 1
      PROVE  /\ Old(i) \in 1..n /\ line2[i] = line[Old(i)]
             /\ \A q \in 1..n - 1 : i < q => Old(i) < Old(q)
  <2>1. i \in 1..x - 1 \/ i \in x..n - 1
    OBVIOUS
  <2> QED
    BY <2>1
\* Each place but that of the push has a new one.
<1>1. ASSUME NEW i \in 1..n, line[i] # 0
      PROVE  \E q \in 1..n - 1 : Old(q) = i
  <2>1. CASE i < x
    <3>1. i \in 1..n - 1 /\ Old(i) = i
      BY <2>1
    <3> QED
      BY <3>1
  <2>2. CASE i > x
    <3>1. i - 1 \in 1..n - 1 /\ Old(i - 1) = i
      BY <2>2
    <3> QED
      BY <3>1
  <2> QED
    BY <1>1, <2>1, <2>2
<1>2. \A q, i \in 1..n - 1 : Old(q) < Old(i) => q \in 1..i - 1
  OBVIOUS
<1>3. n - 1 \in Nat
  OBVIOUS
<1> HIDE DEF Old
<1>4. Meant(line2, n - 1, cmds, m)
  BY <1>0 DEF Ordered, Meant
<1>5. Once(line2, n - 1)
  BY <1>0 DEF Ordered, Once
<1>6. BehindEarlier(line2, n - 1, cmds, m)
  <2> SUFFICES ASSUME NEW i \in 1..n - 1, NEW k \in 1..m, line2[i] = cmds[k], NEW l \in 1..k - 1
               PROVE  \E q \in 1..i - 1 : line2[q] = cmds[l]
    BY DEF BehindEarlier
  <2>1. PICK r \in 1..Old(i) - 1 : line[r] = cmds[l]
    BY <1>0 DEF Ordered, BehindEarlier
  <2>2. Old(i) \in 1..n /\ l \in 1..m
    BY <1>0
  <2>3. r \in 1..n /\ r < Old(i)
    BY <2>2
  <2>4. line[r] # 0
    BY <2>1, <2>2 DEF Distinct
  <2>5. PICK q \in 1..n - 1 : Old(q) = r
    BY <1>1, <2>3, <2>4
  <2>6. q \in 1..i - 1 /\ line2[q] = cmds[l]
    BY <1>0, <1>2, <2>1, <2>3, <2>5
  <2> QED
    BY <2>6
<1>7. Complete(line2, n - 1, cmds, m)
  <2> SUFFICES ASSUME NEW k \in 1..m PROVE \E i \in 1..n - 1 : line2[i] = cmds[k]
    BY DEF Complete
  <2>1. PICK i \in 1..n : line[i] = cmds[k]
    BY DEF Complete
  <2>2. PICK q \in 1..n - 1 : Old(q) = i
    BY <1>1, <2>1 DEF Distinct
  <2> QED
    BY <1>0, <2>1, <2>2
<1> QED
  BY <1>4, <1>5, <1>6, <1>7 DEF Ordered

\* The bytes from the server that are not handled, and the replies they hold: none for a
\* reader that has failed.  Each has its number in the first of its bytes.
Stream == inbuf \o incoming
Coming == IF broken THEN 0 ELSE Len(Stream) \div 2
End == Len(results) + Coming
Line ==
  [i \in 1..End |-> IF i <= Len(results) THEN results[i] ELSE Stream[2 * (i - Len(results)) - 1][1]]
Answered == Len(received) \div 2

InLine ==
  /\ Ordered(Line, End, appended, Answered)
  /\ ~broken => Complete(Line, End, appended, Answered)

\* The stream begins and ends between two replies, and nothing is in it that was there
\* before the connection.
Replies ==
  /\ inbuf \in Seq(Byte) /\ incoming \in Seq(Byte) /\ results \in Seq(Nat)
  /\ \A k \in 1..Len(appended) : appended[k] \in 1..issued
  /\ Distinct(appended, Len(appended))
  /\ broken \in BOOLEAN /\ (broken => err # "none")
  /\ ~broken => Len(Stream) = Whole(Stream)
  /\ Connecting => inbuf = <<>> /\ results = <<>> /\ ~broken
  /\ InLine

\* The sizes that the steps count with.
Sizes ==
  /\ Stream \in Seq(Byte) /\ Len(Stream) \in Nat /\ Len(results) \in Nat
  /\ Coming \in Nat /\ End \in Nat /\ Answered \in Nat /\ Answered <= Len(appended)
  /\ ~broken => Len(Stream) = 2 * Coming

\* The commands whose bytes the server has.
LEMMA CommandsSent ==
  ASSUME NEW r \in Seq(Byte), NEW o \in Seq(Byte), NEW c \in Seq(Nat), r \o o = Bytes(c)
  PROVE  /\ Len(r) \in Nat /\ Len(r) <= 2 * Len(c)
         /\ \A k \in 1..Len(r) \div 2 : k \in 1..Len(c) /\ r[2 * k - 1][1] = c[k]
<1>1. Len(r) \in Nat /\ Len(o) \in Nat /\ Len(c) \in Nat /\ Len(r) + Len(o) = 2 * Len(c)
  <2>1. Len(r \o o) = Len(r) + Len(o) /\ Len(r) \in Nat /\ Len(o) \in Nat /\ Len(c) \in Nat
    BY ConcatProperties, LenProperties
  <2>2. Len(Bytes(c)) = 2 * Len(c)
    <3>1. 0 \in Nat
      OBVIOUS
    <3> QED
      BY <3>1, BytesOfOneMore
  <2> QED
    BY <2>1, <2>2
<1>2. ASSUME NEW k \in 1..Len(r) \div 2
      PROVE  k \in 1..Len(c) /\ r[2 * k - 1][1] = c[k]
  <2>1. k \in 1..Len(c) /\ 2 * k - 1 \in 1..Len(r) /\ 2 * k - 1 \in 1..2 * Len(c)
    BY <1>1
  <2>2. r[2 * k - 1] = Bytes(c)[2 * k - 1]
    BY <1>1, <2>1, ConcatProperties
  <2>3. Bytes(c)[2 * k - 1] = <<c[(2 * k - 1 + 1) \div 2], IF (2 * k - 1) % 2 = 1 THEN 1 ELSE 2>>
    BY <2>1 DEF Bytes
  <2>4. (2 * k - 1 + 1) \div 2 = k
    BY <2>1
  <2>5. \A y, z : <<y, z>>[1] = y
    OBVIOUS
  <2> QED
    BY <2>1, <2>2, <2>3, <2>4, <2>5
<1> QED
  BY <1>1, <1>2

LEMMA RepliesSizes == Replies /\ Buffers => Sizes
<1> SUFFICES ASSUME Replies, Buffers PROVE Sizes
  OBVIOUS
<1>1. Stream \in Seq(Byte)
  BY ConcatProperties DEF Replies, Stream
<1>2. Len(Stream) \in Nat /\ Len(results) \in Nat /\ Len(received) \in Nat /\ Len(appended) \in Nat
  BY <1>1, LenProperties DEF Replies, Buffers
<1>3. Len(received) <= 2 * Len(appended)
  BY CommandsSent DEF Buffers
<1>4. Coming \in Nat /\ (~broken => Len(Stream) = 2 * Coming)
  BY <1>2 DEF Replies, Coming, Whole
<1> QED
  BY <1>1, <1>2, <1>3, <1>4 DEF Sizes, End, Answered

\* Nothing moves in the line, when the stream is fed to the reader or nothing happens.
LEMMA LineStays ==
  ASSUME Sizes, InLine, results' = results, Stream' = Stream, broken' = broken,
         received' = received, \A k \in 1..Answered : appended'[k] = appended[k]
  PROVE  InLine'
<1>1. End' = End /\ Answered' = Answered /\ Line' = Line
  BY DEF End, Coming, Answered, Line
<1>2. End \in Nat /\ Answered \in Nat /\ End \in 0..End
  BY DEF Sizes
<1> HIDE DEF Sizes, InLine
<1>3. /\ Ordered(Line, End, appended', Answered)
      /\ Complete(Line, End, appended, Answered) => Complete(Line, End, appended', Answered)
  <2>1. Ordered(Line, End, appended, Answered)
    BY DEF InLine
  <2> QED
    BY <1>2, <2>1, OrderedPart
<1> QED
  BY <1>1, <1>3 DEF InLine

\* The stream is lost, with a reader that fails or that had failed.
LEMMA LineEnds ==
  ASSUME Sizes, InLine, results' = results, broken' = TRUE, received' = received,
         appended' = appended
  PROVE  InLine'
<1>1. End' = Len(results) /\ Answered' = Answered
  BY DEF Sizes, End, Coming, Answered
<1>2. End \in Nat /\ Answered \in Nat /\ Len(results) \in 0..End
  BY DEF Sizes, End
<1>3. \A i \in 1..Len(results) : Line'[i] = results[i] /\ Line[i] = results[i]
  BY <1>1, <1>2 DEF Line
<1>4. Ordered(Line, End, appended, Answered)
  BY DEF InLine
<1>5. Ordered(Line', Len(results), appended, Answered)
  BY <1>2, <1>3, <1>4, OrderedPart
<1> QED
  BY <1>1, <1>5 DEF InLine

\* A new connection, or none.
LEMMA LineEmpty ==
  ASSUME results' = <<>>, inbuf' = <<>>, incoming' = <<>>, received' = <<>>
  PROVE  InLine' /\ Len(Stream') = Whole(Stream')
<1>1. Stream' = <<>> /\ Len(Stream') = 0
  BY DEF Stream
<1>2. Coming' = 0 /\ Len(results') = 0 /\ Len(received') = 0
  BY <1>1 DEF Coming
<1>3. End' = 0 /\ Answered' = 0
  BY <1>2 DEF End, Answered
<1> QED
  BY <1>1, <1>3 DEF InLine, Ordered, Meant, Once, BehindEarlier, Complete, Whole

\* Bytes are added to a stream whose replies are whole.
LEMMA LongerStream ==
  ASSUME Sizes, ~broken, NEW w \in Seq(Byte), NEW d \in Nat, Len(w) = 2 * d,
         Stream' = Stream \o w, broken' = broken, results' = results
  PROVE  /\ Len(Stream') = Whole(Stream') /\ End' = End + d
         /\ \A i \in 1..End : Line'[i] = Line[i]
         /\ \A j \in 1..d : Line'[End + j] = w[2 * j - 1][1]
<1>1. /\ Len(Stream) = 2 * Coming /\ Coming \in Nat /\ Len(results) \in Nat
      /\ End = Len(results) + Coming
  BY DEF Sizes, End
<1>2. /\ Len(Stream') = 2 * Coming + 2 * d
      /\ \A x \in 1..2 * Coming + 2 * d :
           Stream'[x] = IF x <= 2 * Coming THEN Stream[x] ELSE w[x - 2 * Coming]
  <2>1. Stream \in Seq(Byte)
    BY DEF Sizes
  <2>2. /\ Len(Stream \o w) = Len(Stream) + Len(w)
        /\ \A x \in 1..Len(Stream) + Len(w) :
             (Stream \o w)[x] = IF x <= Len(Stream) THEN Stream[x] ELSE w[x - Len(Stream)]
    BY <2>1, ConcatProperties
  <2> QED
    BY <1>1, <2>2
<1>3. Coming' = Coming + d /\ Len(Stream') = Whole(Stream')
  <2>1. Coming' = Len(Stream') \div 2 /\ Whole(Stream') = 2 * (Len(Stream') \div 2)
    BY DEF Coming, Whole
  <2>2. \A c, e \in Nat : (2 * c + 2 * e) \div 2 = c + e /\ 2 * c + 2 * e = 2 * (c + e)
    OBVIOUS
  <2>3. Len(Stream') \div 2 = Coming + d /\ Len(Stream') = 2 * (Coming + d)
    BY <1>1, <1>2, <2>2
  <2> QED
    BY <2>1, <2>3
<1>4. End' = End + d
  BY <1>1, <1>3 DEF End
<1>5. ASSUME NEW i \in 1..End PROVE Line'[i] = Line[i]
  <2>1. i \in 1..End' /\ i \in Nat
    BY <1>1, <1>4
  <2>2. CASE i <= Len(results)
    BY <2>1, <2>2 DEF Line
  <2>3. CASE ~(i <= Len(results))
    <3>1. 2 * (i - Len(results)) - 1 \in 1..2 * Coming
      BY <1>1, <2>3
    <3>2. Stream'[2 * (i - Len(results)) - 1] = Stream[2 * (i - Len(results)) - 1]
      BY <1>1, <1>2, <3>1
    <3> QED
      BY <2>1, <2>3, <3>2 DEF Line
  <2> QED
    BY <2>2, <2>3
<1>6. ASSUME NEW j \in 1..d PROVE Line'[End + j] = w[2 * j - 1][1]
  <2>1. \A i \in 1..End' : ~(i <= Len(results)) =>
          Line'[i] = Stream'[2 * (i - Len(results)) - 1][1]
    BY DEF Line
  <2>2. ASSUME NEW i \in Nat, i = End + j PROVE Line'[i] = w[2 * j - 1][1]
    <3>1. i \in 1..End' /\ ~(i <= Len(results))
      BY <1>1, <1>4, <2>2
    <3>2. /\ 2 * (i - Len(results)) - 1 \in 1..2 * Coming + 2 * d
          /\ ~(2 * (i - Len(results)) - 1 <= 2 * Coming)
          /\ 2 * (i - Len(results)) - 1 - 2 * Coming = 2 * j - 1
      BY <1>1, <2>2
    <3>3. Stream'[2 * (i - Len(results)) - 1] = w[2 * j - 1]
      BY <1>2, <3>2
    <3> QED
      BY <2>1, <3>1, <3>3
  <2>3. End + j \in Nat
    BY <1>1
  <2> QED
    BY <2>2, <2>3
<1> QED
  BY <1>3, <1>4, <1>5, <1>6

\* Commands are answered when their last byte has come.
LEMMA LineGrows ==
  ASSUME Sizes, InLine, ~broken, Distinct(appended, Len(appended)), appended \in Seq(Nat),
         received \in Seq(Byte), received' \in Seq(Byte), obuf' \in Seq(Byte),
         received' \o obuf' = Bytes(appended), Len(received) <= Len(received'),
         Stream' = Stream \o SubSeq(received', Whole(received) + 1, Whole(received')),
         broken' = broken, results' = results, appended' = appended
  PROVE  InLine' /\ Len(Stream') = Whole(Stream')
<1> DEFINE w == SubSeq(received', Whole(received) + 1, Whole(received'))
           d == Answered' - Answered
<1>1. /\ Len(received) \in Nat /\ Len(received') \in Nat /\ Len(received') <= 2 * Len(appended)
      /\ \A k \in 1..Answered' : k \in 1..Len(appended) /\ received'[2 * k - 1][1] = appended[k]
  BY CommandsSent, LenProperties DEF Answered
<1>2. /\ Whole(received) = 2 * Answered /\ Whole(received') = 2 * Answered'
      /\ Answered \in Nat /\ Answered' \in Nat /\ d \in Nat /\ Answered' = Answered + d
      /\ 2 * Answered' <= Len(received')
  BY <1>1 DEF Whole, Answered
<1>3. /\ w \in Seq(Byte) /\ Len(w) = 2 * d
      /\ \A x \in 1..2 * d : w[x] = received'[2 * Answered + x]
  <2> DEFINE a == 2 * Answered + 1
             b == 2 * Answered'
  <2>0. \A l, m, e \in Nat : 2 * (m + e) <= l =>
          /\ 2 * m + 1 \in 1..l + 1 /\ 2 * (m + e) \in 2 * m + 1 - 1..l
          /\ 2 * (m + e) - (2 * m + 1) + 1 = 2 * e
    OBVIOUS
  <2>1. a \in 1..Len(received') + 1 /\ b \in a - 1..Len(received') /\ b - a + 1 = 2 * d
    <3> HIDE DEF d
    <3> QED
      BY <1>1, <1>2, <2>0
  <2>2. /\ SubSeq(received', a, b) \in Seq(Byte)
        /\ Len(SubSeq(received', a, b)) = b - a + 1
        /\ \A x \in 1..b - a + 1 : SubSeq(received', a, b)[x] = received'[a + x - 1]
    <3>1. \A s \in Seq(Byte) : \A g \in 1..Len(s) + 1 : \A h \in g - 1..Len(s) :
            /\ SubSeq(s, g, h) \in Seq(Byte)
            /\ Len(SubSeq(s, g, h)) = h - g + 1
            /\ \A x \in 1..h - g + 1 : SubSeq(s, g, h)[x] = s[g + x - 1]
      <4> SUFFICES ASSUME NEW s \in Seq(Byte), NEW g \in 1..Len(s) + 1, NEW h \in g - 1..Len(s)
                   PROVE  /\ SubSeq(s, g, h) \in Seq(Byte)
                          /\ Len(SubSeq(s, g, h)) = h - g + 1
                          /\ \A x \in 1..h - g + 1 : SubSeq(s, g, h)[x] = s[g + x - 1]
        OBVIOUS
      <4>1. g \in Int /\ h \in Int /\ \A x \in g..h : x \in 1..Len(s)
        BY LenProperties
      <4>2. \A x \in g..h : s[x] \in Byte
        BY <4>1, ElementOfSeq
      <4>3. (g <= h \/ g = h + 1) /\ (g = h + 1 => h - g + 1 = 0)
        BY <4>1
      <4>4. /\ SubSeq(s, g, h) \in Seq(Byte)
            /\ Len(SubSeq(s, g, h)) = IF g <= h THEN h - g + 1 ELSE 0
            /\ \A x \in 1..h - g + 1 : SubSeq(s, g, h)[x] = s[g + x - 1]
        BY <4>1, <4>2, SubSeqProperties
      <4> QED
        BY <4>1, <4>3, <4>4
    <3> QED
      BY <2>1, <3>1
  <2>3. w = SubSeq(received', a, b)
    BY <1>2
  <2>4. \A x \in 1..2 * d : a + x - 1 = 2 * Answered + x
    BY <1>2
  <2> QED
    BY <2>1, <2>2, <2>3, <2>4
<1>4. Stream' = Stream \o w
  OBVIOUS
<1>5. ASSUME NEW j \in 1..d PROVE w[2 * j - 1][1] = appended[Answered + j]
  <2>0. \A m, e \in Nat : \A g \in 1..e : 2 * g - 1 \in 1..2 * e /\ m + g \in 1..m + e
    OBVIOUS
  <2>1. 2 * j - 1 \in 1..2 * d /\ Answered + j \in 1..Answered'
    <3> HIDE DEF d
    <3> QED
      BY <1>2, <2>0
  <2>2. w[2 * j - 1] = received'[2 * Answered + (2 * j - 1)]
    BY <1>3, <2>1
  <2>3. 2 * Answered + (2 * j - 1) = 2 * (Answered + j) - 1
    BY <1>2
  <2> QED
    BY <1>1, <2>1, <2>2, <2>3
<1>6. Distinct(appended, Answered + d)
  BY <1>1, <1>2 DEF Distinct
<1>7. Answered \in Nat /\ d \in Nat /\ End \in Nat
  BY <1>2 DEF Sizes
<1> HIDE DEF w, d
<1>8. /\ Len(Stream') = Whole(Stream') /\ End' = End + d
      /\ \A i \in 1..End : Line'[i] = Line[i]
      /\ \A j \in 1..d : Line'[End + j] = appended[Answered + j]
  <2>1. /\ Len(Stream') = Whole(Stream') /\ End' = End + d
        /\ \A i \in 1..End : Line'[i] = Line[i]
        /\ \A j \in 1..d : Line'[End + j] = w[2 * j - 1][1]
    BY <1>3, <1>4, <1>7, LongerStream
  <2> QED
    BY <1>5, <2>1
<1>9. Ordered(Line, End, appended, Answered) /\ Complete(Line, End, appended, Answered)
  BY DEF InLine
<1>10. Ordered(Line', End + d, appended, Answered + d) /\ Complete(Line', End + d, appended, Answered + d)
  BY <1>6, <1>7, <1>8, <1>9, OrderedGrows
<1> QED
  BY <1>2, <1>8, <1>10 DEF InLine

\* The server pushes.
LEMMA LinePushed ==
  ASSUME Sizes, InLine, ~broken, Distinct(appended, Len(appended)),
         Stream' = Stream \o <<<<0, 1>>, <<0, 2>>>>,
         broken' = broken, results' = results, received' = received, appended' = appended
  PROVE  InLine' /\ Len(Stream') = Whole(Stream')
<1> DEFINE w == <<<<0, 1>>, <<0, 2>>>>
<1>1. w \in Seq(Byte) /\ Len(w) = 2 * 1 /\ w[2 * 1 - 1][1] = 0
  BY DEF Byte
<1>2. Stream' = Stream \o w
  OBVIOUS
<1>3. Answered \in Nat /\ End \in Nat /\ 1 \in Nat
  BY DEF Sizes
<1> HIDE DEF w
<1>4. /\ Len(Stream') = Whole(Stream') /\ End' = End + 1
      /\ \A i \in 1..End : Line'[i] = Line[i]
      /\ \A j \in 1..1 : Line'[End + j] = w[2 * j - 1][1]
  BY <1>1, <1>2, <1>3, LongerStream
<1>5. Line'[End + 1] = 0
  BY <1>1, <1>4
<1>6. Distinct(appended, Answered)
  BY DEF Sizes, Distinct
<1>7. Ordered(Line, End, appended, Answered) /\ Complete(Line, End, appended, Answered)
  BY DEF InLine
<1>8. Ordered(Line', End + 1, appended, Answered) /\ Complete(Line', End + 1, appended, Answered)
  BY <1>3, <1>4, <1>5, <1>6, <1>7, OrderedPush
<1>9. Answered' = Answered
  BY DEF Answered
<1> QED
  BY <1>4, <1>8, <1>9 DEF InLine

\* The first reply of the stream is taken by the reader.
LEMMA BytesTaken ==
  ASSUME NEW a \in Seq(Byte), NEW b \in Seq(Byte), Len(a) >= 2
  PROVE  /\ SubSeq(a, 3, Len(a)) \in Seq(Byte)
         /\ Len(SubSeq(a, 3, Len(a)) \o b) = Len(a \o b) - 2
         /\ \A x \in 1..Len(a \o b) - 2 : (SubSeq(a, 3, Len(a)) \o b)[x] = (a \o b)[x + 2]
         /\ (a \o b)[1] = a[1] /\ a[1][1] \in Nat /\ Len(a \o b) >= 2
<1> DEFINE t == SubSeq(a, 3, Len(a))
<1>1. Len(a) \in Nat /\ Len(b) \in Nat
  BY LenProperties
<1>2. t \in Seq(Byte) /\ Len(t) = Len(a) - 2 /\ \A x \in 1..Len(a) - 2 : t[x] = a[x + 2]
  <2>1. 3 \in 1..Len(a) + 1 /\ Len(a) \in 3 - 1..Len(a) /\ Len(a) - 3 + 1 = Len(a) - 2
    BY <1>1
  <2>2. /\ t \in Seq(Byte) /\ Len(t) = Len(a) - 3 + 1
        /\ \A x \in 1..Len(a) - 3 + 1 : t[x] = a[3 + x - 1]
    BY <2>1, SubSeqProperties
  <2>3. \A x \in 1..Len(a) - 2 : 3 + x - 1 = x + 2
    BY <1>1
  <2> QED
    BY <2>1, <2>2, <2>3
<1> HIDE DEF t
<1>3. /\ Len(t \o b) = Len(t) + Len(b) /\ Len(a \o b) = Len(a) + Len(b)
      /\ \A x \in 1..Len(t) + Len(b) : (t \o b)[x] = IF x <= Len(t) THEN t[x] ELSE b[x - Len(t)]
      /\ \A x \in 1..Len(a) + Len(b) : (a \o b)[x] = IF x <= Len(a) THEN a[x] ELSE b[x - Len(a)]
  BY <1>2, ConcatProperties
<1>4. ASSUME NEW x \in 1..Len(a) + Len(b) - 2 PROVE (t \o b)[x] = (a \o b)[x + 2]
  <2>1. x \in 1..Len(t) + Len(b) /\ x \in Nat
    BY <1>1, <1>2
  <2>2. ASSUME NEW y \in Nat, y = x + 2 PROVE (t \o b)[x] = (a \o b)[y]
    <3>1. y \in 1..Len(a) + Len(b) /\ (x <= Len(t) <=> y <= Len(a)) /\ y - Len(a) = x - Len(t)
      BY <1>1, <1>2, <2>2
    <3>2. CASE x <= Len(t)
      <4>1. t[x] = a[y]
        BY <1>1, <1>2, <2>1, <2>2, <3>2
      <4> QED
        BY <1>3, <2>1, <3>1, <3>2, <4>1
    <3>3. CASE ~(x <= Len(t))
      BY <1>3, <2>1, <3>1, <3>3
    <3> QED
      BY <3>2, <3>3
  <2> QED
    BY <2>1, <2>2
<1>5. (a \o b)[1] = a[1] /\ a[1][1] \in Nat
  <2>1. (a \o b)[1] = a[1] /\ 1 \in 1..Len(a)
    BY <1>1, <1>3
  <2>2. a[1] \in Byte
    BY <2>1, ElementOfSeq
  <2> QED
    BY <2>1, <2>2 DEF Byte
<1>6. Len(t \o b) = Len(a \o b) - 2 /\ Len(a \o b) - 2 = Len(a) + Len(b) - 2 /\ Len(a \o b) >= 2
  BY <1>1, <1>2, <1>3
<1> QED
  BY <1>2, <1>4, <1>5, <1>6 DEF t

\* The stream without its first reply.
Shorter ==
  /\ Len(Stream') = Len(Stream) - 2 /\ Len(Stream) >= 2
  /\ \A x \in 1..Len(Stream) - 2 : Stream'[x] = Stream[x + 2]

LEMMA ShorterStream ==
  ASSUME Sizes, ~broken, broken' = broken, Shorter
  PROVE  /\ Len(Stream') = Whole(Stream') /\ Coming' = Coming - 1 /\ Coming >= 1
         /\ \A y \in 1..Coming - 1 : \A z \in Nat : z = y + 1 =>
              Stream'[2 * y - 1] = Stream[2 * z - 1]
<1>1. Len(Stream) = 2 * Coming /\ Coming \in Nat
  BY DEF Sizes
<1>2. Len(Stream') = 2 * Coming - 2 /\ Coming >= 1
  BY <1>1 DEF Shorter
<1>3. Coming' = Coming - 1 /\ Len(Stream') = Whole(Stream')
  BY <1>1, <1>2 DEF Coming, Whole
<1>4. ASSUME NEW y \in 1..Coming - 1, NEW z \in Nat, z = y + 1
      PROVE  Stream'[2 * y - 1] = Stream[2 * z - 1]
  <2>1. 2 * y - 1 \in 1..Len(Stream) - 2 /\ 2 * y - 1 + 2 = 2 * z - 1
    BY <1>1, <1>4
  <2>2. Stream'[2 * y - 1] = Stream[2 * y - 1 + 2]
    BY <2>1 DEF Shorter
  <2> QED
    BY <2>1, <2>2
<1> QED
  BY <1>2, <1>3, <1>4

\* redisGetReply returns it: it changes sides.
LEMMA LineDelivers ==
  ASSUME Sizes, InLine, ~broken, broken' = broken, Shorter, results \in Seq(Nat),
         Stream[1][1] \in Nat, results' = Append(results, Stream[1][1]), received' = received,
         appended' = appended
  PROVE  InLine' /\ Len(Stream') = Whole(Stream')
<1>1. /\ Coming' = Coming - 1 /\ Coming >= 1 /\ Coming \in Nat /\ Len(results) \in Nat
      /\ Len(Stream') = Whole(Stream') /\ Answered' = Answered
  BY ShorterStream DEF Sizes, Answered
<1>2. /\ Len(results') = Len(results) + 1 /\ results'[Len(results) + 1] = Stream[1][1]
      /\ \A i \in 1..Len(results) : results'[i] = results[i]
  BY AppendProperties
<1>3. End' = End /\ End = Len(results) + Coming /\ End \in Nat
  BY <1>1, <1>2 DEF End
<1>4. ASSUME NEW i \in 1..End PROVE Line'[i] = Line[i]
  <2>1. /\ Line'[i] = IF i <= Len(results) + 1 THEN results'[i]
                      ELSE Stream'[2 * (i - (Len(results) + 1)) - 1][1]
        /\ Line[i] = IF i <= Len(results) THEN results[i] ELSE Stream[2 * (i - Len(results)) - 1][1]
    BY <1>2, <1>3 DEF Line
  <2>2. CASE i <= Len(results)
    <3>1. i <= Len(results) + 1 /\ i \in 1..Len(results)
      BY <1>1, <1>3, <2>2
    <3> QED
      BY <1>2, <2>1, <2>2, <3>1
  <2>3. CASE i = Len(results) + 1
    <3>1. i <= Len(results) + 1 /\ ~(i <= Len(results)) /\ 2 * (i - Len(results)) - 1 = 1
      BY <1>1, <2>3
    <3> QED
      BY <1>2, <2>1, <2>3, <3>1
  <2>4. CASE i > Len(results) + 1
    <3>1. ~(i <= Len(results) + 1) /\ ~(i <= Len(results))
      BY <1>1, <1>3, <2>4
    <3>2. /\ i - (Len(results) + 1) \in 1..Coming - 1 /\ i - Len(results) \in Nat
          /\ i - Len(results) = i - (Len(results) + 1) + 1
      BY <1>1, <1>3, <2>4
    <3>3. Stream'[2 * (i - (Len(results) + 1)) - 1] = Stream[2 * (i - Len(results)) - 1]
      BY <3>2, ShorterStream
    <3> QED
      BY <2>1, <3>1, <3>3
  <2> QED
    BY <1>1, <1>3, <2>2, <2>3, <2>4
<1>5. Answered \in Nat /\ End \in 0..End
  BY <1>3 DEF Sizes
<1>6. Ordered(Line, End, appended, Answered) /\ Complete(Line, End, appended, Answered)
  BY DEF InLine
<1>7. Ordered(Line', End, appended, Answered) /\ Complete(Line', End, appended, Answered)
  BY <1>3, <1>4, <1>5, <1>6, OrderedPart
<1> QED
  BY <1>1, <1>3, <1>7 DEF InLine

\* The push handler takes it.
LEMMA LineDrops ==
  ASSUME Sizes, InLine, ~broken, broken' = broken, Shorter, Stream[1][1] = 0,
         results' = results, received' = received, appended' = appended,
         Distinct(appended, Len(appended))
  PROVE  InLine' /\ Len(Stream') = Whole(Stream')
<1> DEFINE x == Len(results) + 1
<1>1. /\ Coming' = Coming - 1 /\ Coming >= 1 /\ Coming \in Nat /\ Len(results) \in Nat
      /\ Len(Stream') = Whole(Stream') /\ Answered' = Answered
  BY ShorterStream DEF Sizes, Answered
<1>2. /\ End' = End - 1 /\ End = Len(results) + Coming /\ End \in Nat /\ x \in 1..End
      /\ x - 1 = Len(results) /\ End' = Len(results) + (Coming - 1)
  BY <1>1 DEF End
<1>3. Line[x] = 0
  <2>1. ~(x <= Len(results)) /\ 2 * (x - Len(results)) - 1 = 1
    BY <1>1
  <2> QED
    BY <1>2, <2>1 DEF Line
<1>4. ASSUME NEW i \in 1..x - 1 PROVE Line'[i] = Line[i]
  <2>1. i \in 1..End /\ i \in 1..End' /\ i <= Len(results)
    BY <1>1, <1>2
  <2> QED
    BY <2>1 DEF Line
<1>5. ASSUME NEW i \in x..End - 1 PROVE Line'[i] = Line[i + 1]
  <2>1. \A z \in 1..End : ~(z <= Len(results)) => Line[z] = Stream[2 * (z - Len(results)) - 1][1]
    BY DEF Line
  <2>2. Line'[i] = Stream'[2 * (i - Len(results)) - 1][1]
    <3>1. i \in 1..End' /\ ~(i <= Len(results))
      BY <1>1, <1>2
    <3> QED
      BY <3>1 DEF Line
  <2>3. ASSUME NEW z \in Nat, z = i + 1 PROVE Line'[i] = Line[z]
    <3>1. z \in 1..End /\ ~(z <= Len(results))
      BY <1>1, <1>2, <2>3
    <3>2. /\ i - Len(results) \in 1..Coming - 1 /\ z - Len(results) \in Nat
          /\ z - Len(results) = i - Len(results) + 1
      BY <1>1, <1>2, <2>3
    <3>3. Stream'[2 * (i - Len(results)) - 1] = Stream[2 * (z - Len(results)) - 1]
      BY <3>2, ShorterStream
    <3> QED
      BY <2>1, <2>2, <3>1, <3>3
  <2>4. i + 1 \in Nat
    BY <1>1, <1>2
  <2> QED
    BY <2>3, <2>4
<1>6. Answered \in Nat /\ Distinct(appended, Answered)
  BY DEF Sizes, Distinct
<1>7. Ordered(Line, End, appended, Answered) /\ Complete(Line, End, appended, Answered)
  BY DEF InLine
<1> HIDE DEF x
<1>8. Ordered(Line', End - 1, appended, Answered) /\ Complete(Line', End - 1, appended, Answered)
  BY <1>2, <1>3, <1>4, <1>5, <1>6, <1>7, OrderedDrops
<1> QED
  BY <1>1, <1>2, <1>8 DEF InLine

\* What the two have in common.
LEMMA TakesItem ==
  ASSUME Replies, Sizes, HasItem, TakeItem, incoming' = incoming
  PROVE  Shorter /\ inbuf' \in Seq(Byte) /\ Stream[1][1] = Item /\ Item \in Nat /\ broken' = broken
<1>1. inbuf \in Seq(Byte) /\ incoming \in Seq(Byte) /\ Len(inbuf) >= 2
  BY DEF Replies, HasItem
<1>2. Stream' = SubSeq(inbuf, 3, Len(inbuf)) \o incoming /\ inbuf' = SubSeq(inbuf, 3, Len(inbuf))
  BY DEF Stream, TakeItem
<1>3. /\ inbuf' \in Seq(Byte)
      /\ Len(Stream') = Len(Stream) - 2
      /\ \A x \in 1..Len(Stream) - 2 : Stream'[x] = Stream[x + 2]
      /\ Stream[1] = inbuf[1] /\ inbuf[1][1] \in Nat /\ Len(Stream) >= 2
  <2> HIDE DEF Replies, Sizes, HasItem, TakeItem
  <2> DEFINE r == SubSeq(inbuf, 3, Len(inbuf))
  <2>1. /\ r \in Seq(Byte)
        /\ Len(r \o incoming) = Len(inbuf \o incoming) - 2
        /\ \A x \in 1..Len(inbuf \o incoming) - 2 : (r \o incoming)[x] = (inbuf \o incoming)[x + 2]
        /\ (inbuf \o incoming)[1] = inbuf[1] /\ inbuf[1][1] \in Nat /\ Len(inbuf \o incoming) >= 2
    BY <1>1, BytesTaken
  <2>2. Stream' = r \o incoming /\ inbuf' = r
    BY <1>2
  <2> HIDE DEF r
  <2> QED
    BY <2>1, <2>2 DEF Stream
<1>4. broken' = broken
  BY DEF TakeItem
<1> QED
  BY <1>3, <1>4 DEF Shorter, Item

\* Most steps do not touch the line.
LEMMA RepliesKept ==
  ASSUME Replies, Sizes, UNCHANGED <<results, appended, broken, issued, received>>,
         inbuf' \in Seq(Byte), incoming' \in Seq(Byte), Stream' = Stream,
         broken => err' # "none", Connecting' => Connecting /\ inbuf' = inbuf
  PROVE  Replies'
<1>1. InLine'
  BY LineStays DEF Replies
<1>2. Len(Stream') = Len(Stream) /\ Whole(Stream') = Whole(Stream)
  OBVIOUS
<1> QED
  BY <1>1, <1>2 DEF Replies

\* Connecting: what has come so far is nothing, or pushes.
LEMMA RepliesConnecting ==
  ASSUME Replies, Sizes, Connecting, UNCHANGED <<results, appended, broken, issued, inbuf>>,
         UNCHANGED <<received, incoming>> \/ (received' = <<>> /\ incoming' = <<>>)
  PROVE  Replies'
<1>0. inbuf' = <<>> /\ results' = <<>> /\ ~broken /\ ~broken'
  BY DEF Replies
<1>1. CASE UNCHANGED <<received, incoming>>
  <2>1. Stream' = Stream
    BY <1>1 DEF Stream
  <2>2. InLine'
    BY <1>1, <2>1, LineStays DEF Replies
  <2>3. Len(Stream') = Len(Stream) /\ Whole(Stream') = Whole(Stream)
    BY <2>1
  <2> QED
    BY <1>0, <1>1, <2>2, <2>3 DEF Replies
<1>2. CASE received' = <<>> /\ incoming' = <<>>
  <2>1. InLine' /\ Len(Stream') = Whole(Stream')
    BY <1>0, <1>2, LineEmpty
  <2>2. incoming' \in Seq(Byte)
    BY <1>2
  <2> QED
    BY <1>0, <2>1, <2>2 DEF Replies
<1> QED
  BY <1>1, <1>2

\* A new beginning, or the end.
LEMMA RepliesFresh ==
  ASSUME Fresh, results' = <<>>, appended' = <<>>, incoming' = <<>>, received' = <<>>
  PROVE  Replies'
<1>1. inbuf' = <<>> /\ broken' = FALSE
  BY DEF Fresh
<1>2. InLine' /\ Len(Stream') = Whole(Stream')
  BY <1>1, LineEmpty
<1>3. inbuf' \in Seq(Byte) /\ incoming' \in Seq(Byte) /\ results' \in Seq(Nat)
  BY <1>1
<1>4. \A k \in 1..Len(appended') : FALSE
  OBVIOUS
<1>5. Distinct(appended', Len(appended'))
  BY <1>4 DEF Distinct
<1> QED
  BY <1>1, <1>2, <1>3, <1>4, <1>5 DEF Replies

\* The reader fails, and what was to come is lost.
LEMMA RepliesLost ==
  ASSUME Replies, Sizes, UNCHANGED <<results, appended, issued, received>>,
         inbuf' = <<>>, incoming' \in Seq(Byte), broken' = TRUE, err' # "none", ~Connecting'
  PROVE  Replies'
<1>1. InLine'
  BY LineEnds DEF Replies
<1> QED
  BY <1>1 DEF Replies

\* Every step keeps replies and pushes in their line.
LEMMA RepliesInductive == TypeOK /\ Buffers /\ Buffers' /\ Replies /\ [Next]_vars => Replies'
<1> SUFFICES ASSUME TypeOK, Buffers, Buffers', Replies, [Next]_vars PROVE Replies'
  OBVIOUS
<1>s. Sizes
  BY RepliesSizes
<1>t. /\ inbuf \in Seq(Byte) /\ incoming \in Seq(Byte) /\ results \in Seq(Nat)
      /\ received \in Seq(Byte) /\ appended \in Seq(Nat) /\ obuf \in Seq(Byte)
  BY DEF Replies, Buffers
<1>b. broken => err # "none"
  BY DEF Replies
<1>1. CASE ConnectStep
  <2>1. Connecting
    BY <1>1 DEF ConnectStep, Connecting, redisConnectWithOptions, redisCreateSocket,
                CopyParameters, Resolve, TryAddress, Bind, Connect, WaitReady,
                ConnectEndsWell, SetCommandTimeout
  <2>2. /\ UNCHANGED <<results, appended, broken, issued, inbuf>>
        /\ UNCHANGED <<received, incoming>> \/ (received' = <<>> /\ incoming' = <<>>)
    <3> USE DEF FailOpen, FailClosed, Close
    <3>1. CASE redisConnectWithOptions \/ redisCreateSocket \/ CopyParameters
      BY <3>1 DEF redisConnectWithOptions, redisCreateSocket, CopyParameters, NewSocket
    <3>2. CASE Resolve \/ TryAddress \/ Bind
      BY <3>2 DEF Resolve, TryAddress, NewSocket, Bind
    <3>3. CASE Connect \/ WaitReady
      BY <3>3 DEF Connect, Connected, Retry, WaitReady
    <3>4. CASE ConnectEndsWell \/ SetCommandTimeout
      BY <3>4 DEF ConnectEndsWell, SetCommandTimeout
    <3> QED
      BY <1>1, <3>1, <3>2, <3>3, <3>4 DEF ConnectStep
  <2> QED
    BY <1>s, <2>1, <2>2, RepliesConnecting
<1>2. CASE redisReconnect \/ redisFree \/ redisFreeKeepFd
  <2>1. Fresh /\ results' = <<>> /\ appended' = <<>> /\ incoming' = <<>> /\ received' = <<>>
    BY <1>2 DEF redisReconnect, redisFree, redisFreeKeepFd, Freed, Close
  <2> QED
    BY <2>1, RepliesFresh
<1>3. CASE redisSetTimeout \/ redisEnableKeepAlive \/ redisGetReply
  <2>1. /\ UNCHANGED <<results, appended, broken, issued, received, inbuf, incoming>>
        /\ pc' \in {"idle", "first"} /\ err' \in {err, "io", "other"}
    BY <1>3 DEF redisSetTimeout, redisEnableKeepAlive, redisGetReply, GoTo
  <2>2. Stream' = Stream /\ ~Connecting' /\ (broken => err' # "none")
    BY <1>b, <2>1 DEF Stream, Connecting
  <2> QED
    BY <1>s, <1>t, <2>1, <2>2, RepliesKept
<1>4. CASE redisAppendCommand
  <2>0. /\ pc = "idle" /\ pc' = "idle" /\ issued' = issued + 1 /\ issued \in Nat /\ ~broken
        /\ UNCHANGED <<results, broken, received, inbuf, incoming>>
        /\ appended' = appended \/ appended' = Append(appended, issued + 1)
    BY <1>4, <1>b DEF redisAppendCommand, TypeOK
  <2>1. Stream' = Stream /\ ~Connecting'
    BY <2>0 DEF Stream, Connecting
  <2>2. Len(appended) \in Nat /\ \A k \in 1..Len(appended) : appended[k] \in 1..issued
    BY <1>t, LenProperties DEF Replies
  <2>3. CASE appended' = appended
    <3>1. \A k \in 1..Len(appended') : appended'[k] \in 1..issued'
      BY <2>0, <2>2, <2>3
    <3>2. Distinct(appended', Len(appended'))
      BY <2>3 DEF Replies
    <3>3. InLine'
      BY <1>s, <2>0, <2>1, <2>3, LineStays DEF Replies
    <3> QED
      BY <1>t, <2>0, <2>1, <3>1, <3>2, <3>3 DEF Replies
  <2>4. CASE appended' = Append(appended, issued + 1)
    <3>1. /\ Len(appended') = Len(appended) + 1 /\ appended'[Len(appended) + 1] = issued + 1
          /\ \A k \in 1..Len(appended) : appended'[k] = appended[k]
      BY <1>t, <2>0, <2>4, AppendProperties
    <3>2. \A k \in 1..Len(appended') : k \in 1..Len(appended) \/ k = Len(appended) + 1
      BY <2>2, <3>1
    <3>3. \A k \in 1..Len(appended') : appended'[k] \in 1..issued'
      BY <2>0, <2>2, <3>1, <3>2
    <3>4. Distinct(appended', Len(appended'))
      <4>1. \A k \in 1..Len(appended') : appended'[k] # 0
        BY <2>0, <3>3
      <4>2. ASSUME NEW k \in 1..Len(appended'), NEW l \in 1..Len(appended'),
                   appended'[k] = appended'[l]
            PROVE  k = l
        <5>1. \A h \in 1..Len(appended) : appended'[h] # issued + 1
          BY <2>0, <2>2, <3>1
        <5>2. CASE k \in 1..Len(appended) /\ l \in 1..Len(appended)
          BY <3>1, <4>2, <5>2 DEF Replies, Distinct
        <5> QED
          BY <3>1, <3>2, <4>2, <5>1, <5>2
      <4> QED
        BY <4>1, <4>2 DEF Distinct
    <3>5. \A k \in 1..Answered : appended'[k] = appended[k]
      BY <1>s, <2>2, <3>1 DEF Sizes
    <3>6. InLine'
      BY <1>s, <2>0, <2>1, <3>5, LineStays DEF Replies
    <3> QED
      BY <1>t, <2>0, <2>1, <3>3, <3>4, <3>6 DEF Replies
  <2> QED
    BY <2>0, <2>3, <2>4
<1>5. CASE redisBufferWrite
  <2>0. /\ UNCHANGED <<results, appended, broken, issued, inbuf>>
        /\ pc' \in {"idle", "read", "write"}
    BY <1>5 DEF redisBufferWrite, AfterWrite, Return
  <2>1. ~Connecting'
    BY <2>0 DEF Connecting
  <2>2. CASE UNCHANGED <<received, incoming>> /\ (broken => err' # "none")
    <3>1. Stream' = Stream
      BY <2>0, <2>2 DEF Stream
    <3> QED
      BY <1>s, <1>t, <2>0, <2>1, <2>2, <3>1, RepliesKept
  <2>3. ASSUME err = "none", NEW n \in 1..Len(obuf), Written(n) PROVE Replies'
    <3>1. received' \in Seq(Byte) /\ obuf' \in Seq(Byte) /\ received' \o obuf' = Bytes(appended)
      BY <2>0 DEF Buffers
    <3>2. Len(received) <= Len(received')
      <4>1. SubSeq(obuf, 1, n) \in Seq(Byte)
        BY <1>t, SubSeqProperties
      <4>2. Len(received') = Len(received) + Len(SubSeq(obuf, 1, n))
        BY <1>t, <2>3, <4>1, ConcatProperties DEF Written
      <4> QED
        BY <1>t, <4>1, <4>2, LenProperties
    <3> DEFINE w == SubSeq(received', Whole(received) + 1, Whole(received'))
    <3>3. w \in Seq(Byte)
      <4>1. Len(received) \in Nat /\ Len(received') \in Nat
        BY <1>t, <3>1, LenProperties
      <4>2. Whole(received) + 1 \in 1..Len(received') + 1 /\ Whole(received') \in Whole(received)..Len(received')
        BY <3>2, <4>1 DEF Whole
      <4>3. Whole(received) \in Nat /\ Whole(received) = Whole(received) + 1 - 1
        BY <4>1 DEF Whole
      <4> QED
        BY <3>1, <4>2, <4>3, SubSeqProperties
    <3>4. incoming' = incoming \o w
      BY <2>3 DEF Written
    <3> HIDE DEF w
    <3>5. incoming' \in Seq(Byte)
      BY <1>t, <3>3, <3>4, ConcatProperties
    <3>6. Stream' = Stream \o w
      <4>1. inbuf \in Seq(Byte) /\ incoming \in Seq(Byte)
        BY <1>t
      <4>2. (inbuf \o incoming) \o w = inbuf \o (incoming \o w)
        BY <3>3, <4>1, Associative, Zenon
      <4> QED
        BY <2>0, <3>4, <4>2 DEF Stream
    <3>7. ~broken
      BY <1>b, <2>3
    <3>8. InLine' /\ Len(Stream') = Whole(Stream')
      <4>1. InLine /\ Distinct(appended, Len(appended))
        BY DEF Replies
      <4> QED
        BY <1>s, <1>t, <2>0, <3>1, <3>2, <3>6, <3>7, <4>1, LineGrows DEF w
    <3> QED
      BY <1>t, <2>0, <2>1, <3>5, <3>7, <3>8 DEF Replies
  <2>4. \/ UNCHANGED <<received, incoming>> /\ (broken => err' # "none")
        \/ err = "none" /\ \E n \in 1..Len(obuf) : Written(n)
    BY <1>5, <1>b DEF redisBufferWrite, AfterWrite, Return
  <2> QED
    BY <2>2, <2>3, <2>4
<1>6. CASE redisBufferRead
  <2>0. UNCHANGED <<results, appended, issued, received>> /\ pc' \in {"idle", "reader"}
    BY <1>6 DEF redisBufferRead, BufferReads, BufferReadsNothing, AfterRead, Return
  <2>1. ~Connecting'
    BY <2>0 DEF Connecting
  <2>2. ASSUME NEW n \in 1..Len(incoming), BufferReads(n) PROVE Replies'
    <3>1. /\ incoming' = SubSeq(incoming, n + 1, Len(incoming))
          /\ inbuf' = inbuf \o SubSeq(incoming, 1, n)
          /\ broken' = broken /\ err = "none"
      BY <2>2 DEF BufferReads, Feed
    <3>2. inbuf' \in Seq(Byte) /\ incoming' \in Seq(Byte) /\ Stream' = Stream
      BY <1>t, <3>1, WriteMoves DEF Stream
    <3> QED
      BY <1>b, <1>s, <2>0, <2>1, <3>1, <3>2, RepliesKept
  <2>3. CASE BufferReadsNothing
    <3>1. CASE UNCHANGED <<inbuf, broken, incoming>> /\ (broken => err' # "none")
      <4>1. Stream' = Stream
        BY <3>1 DEF Stream
      <4> QED
        BY <1>s, <1>t, <2>0, <2>1, <3>1, <4>1, RepliesKept
    <3>2. CASE incoming' = <<>> /\ inbuf' = <<>> /\ broken' = TRUE /\ err' = "reader"
      BY <1>s, <2>0, <2>1, <3>2, RepliesLost
    <3> QED
      BY <1>b, <2>3, <3>1, <3>2 DEF BufferReadsNothing, AfterRead, Return
  <2> QED
    BY <1>6, <2>2, <2>3 DEF redisBufferRead
<1>7. CASE ReaderFails
  <2>1. /\ UNCHANGED <<results, appended, issued, received, incoming>>
        /\ inbuf' = <<>> /\ broken' = TRUE /\ err' = "reader" /\ pc' = "idle"
    BY <1>7 DEF ReaderFails, Return
  <2> QED
    BY <1>s, <1>t, <2>1, RepliesLost DEF Connecting
<1>8. CASE PendingReply \/ ReplyRead
  <2>0. /\ UNCHANGED <<appended, issued, received, incoming>> /\ err' = err /\ ~broken
        /\ pc' \in {"idle", "write", "read", "reader"}
    BY <1>8 DEF PendingReply, ReplyRead, Deliver, GoTo, Return
  <2>1. ~Connecting'
    BY <2>0 DEF Connecting
  <2>2. CASE UNCHANGED <<inbuf, broken, results>>
    <3>1. Stream' = Stream
      BY <2>0, <2>2 DEF Stream
    <3> QED
      BY <1>s, <1>t, <2>0, <2>1, <2>2, <3>1, RepliesKept
  <2>3. CASE HasItem /\ TakeItem /\ results' = Append(results, Item)
    <3>1. Shorter /\ inbuf' \in Seq(Byte) /\ Stream[1][1] = Item /\ Item \in Nat /\ broken' = broken
      BY <1>s, <2>0, <2>3, TakesItem
    <3>2. InLine' /\ Len(Stream') = Whole(Stream')
      BY <1>s, <1>t, <2>0, <2>3, <3>1, LineDelivers DEF Replies
    <3>3. results' \in Seq(Nat)
      BY <1>t, <2>3, <3>1, AppendProperties
    <3> QED
      BY <1>t, <2>0, <2>1, <3>1, <3>2, <3>3 DEF Replies
  <2>4. CASE HasItem /\ TakeItem /\ Item = 0 /\ results' = results
    <3>1. Shorter /\ inbuf' \in Seq(Byte) /\ Stream[1][1] = Item /\ broken' = broken
      BY <1>s, <2>0, <2>4, TakesItem
    <3>2. InLine' /\ Len(Stream') = Whole(Stream')
      BY <1>s, <1>t, <2>0, <2>4, <3>1, LineDrops DEF Replies
    <3> QED
      BY <1>t, <2>0, <2>1, <2>4, <3>1, <3>2 DEF Replies
  <2> QED
    BY <1>8, <2>2, <2>3, <2>4 DEF PendingReply, ReplyRead, Deliver
<1>9. CASE Push
  <2> DEFINE w == <<<<0, 1>>, <<0, 2>>>>
  <2>0. /\ incoming' = incoming \o w
        /\ UNCHANGED <<pc, err, received, inbuf, broken, results, appended, issued>>
    BY <1>9 DEF Push
  <2>1. w \in Seq(Byte)
    BY DEF Byte
  <2> HIDE DEF w
  <2>2. incoming' \in Seq(Byte)
    BY <1>t, <2>0, <2>1, ConcatProperties
  <2>3. Stream' = Stream \o w
    <3>1. inbuf \in Seq(Byte) /\ incoming \in Seq(Byte)
      BY <1>t
    <3>2. (inbuf \o incoming) \o w = inbuf \o (incoming \o w)
      BY <2>1, <3>1, Associative, Zenon
    <3> QED
      BY <2>0, <3>2 DEF Stream
  <2>4. Connecting' <=> Connecting
    BY <2>0 DEF Connecting
  <2>5. CASE ~broken
    <3>1. InLine' /\ Len(Stream') = Whole(Stream')
      BY <1>s, <2>0, <2>3, <2>5, LinePushed DEF Replies, w
    <3> QED
      BY <1>t, <2>0, <2>2, <2>4, <2>5, <3>1 DEF Replies
  <2>6. CASE broken
    <3>1. broken' = TRUE
      BY <2>0, <2>6 DEF Replies
    <3>2. InLine'
      BY <1>s, <2>0, <3>1, LineEnds DEF Replies
    <3> QED
      BY <1>t, <2>0, <2>2, <2>4, <2>6, <3>2 DEF Replies
  <2> QED
    BY <2>5, <2>6
<1>10. CASE OtherOpens \/ UNCHANGED vars
  <2>1. UNCHANGED <<results, appended, broken, issued, received, inbuf, incoming, pc, err>>
    BY <1>10 DEF OtherOpens, vars
  <2>2. Stream' = Stream /\ (Connecting' <=> Connecting)
    BY <2>1 DEF Stream, Connecting
  <2> QED
    BY <1>b, <1>s, <1>t, <2>1, <2>2, RepliesKept
<1> QED
  BY <1>1, <1>2, <1>3, <1>4, <1>5, <1>6, <1>7, <1>8, <1>9, <1>10 DEF Next, CallStep

-----------------------------------------------------------------------------
IInv == TypeOK /\ Descriptors /\ Counters /\ AsAsked /\ Buffers /\ Replies

\* Every step keeps the invariant.
LEMMA Inductive == IInv /\ [Next]_vars => IInv'
  BY TypeInductive, DescriptorsInductive, CountersInductive, AsAskedInductive,
     BuffersInductive, RepliesInductive DEF IInv

\* A context fresh from redisContextInit satisfies it.
LEMMA Initially == Init => IInv
<1> SUFFICES ASSUME Init PROVE IInv
  OBVIOUS
<1> USE DEF Init, NoFd, NoSock
<1>1. TypeOK
  <2>1. own \in Copies /\ sock \in Sockets
    BY DEF Copies, Sockets
  <2>2. /\ Addrs \in Nat /\ Addrs > 0 /\ Retries \in Nat /\ Retries > 0
        /\ MaxCommands \in Nat /\ MaxPushes \in Nat
    BY ConnectionAssumption
  <2>3. p \in 1..Addrs + 1 /\ reuses \in 0..Retries
        /\ pushes \in 0..MaxPushes /\ issued \in 0..MaxCommands
    BY <2>2
  <2> QED
    BY <2>1, <2>3 DEF TypeOK
<1>2. Descriptors
  BY FS_EmptySet DEF Descriptors, OwnSocketOnly
<1>3. Counters
  BY ConnectionAssumption DEF Counters
<1>4. AsAsked
  BY DEF AsAsked, Unconnected, HostOwned, Online
<1>5. Buffers
  BY BytesOfNone DEF Buffers, HasItem
<1>6. Replies
  <2>1. /\ inbuf = <<>> /\ incoming = <<>> /\ received = <<>> /\ results = <<>> /\ appended = <<>>
        /\ broken = FALSE
    OBVIOUS
  <2>2. Stream = <<>> /\ Len(Stream) = 0 /\ Len(appended) = 0 /\ Len(results) = 0 /\ Len(received) = 0
    BY <2>1 DEF Stream
  <2>3. End = 0 /\ Answered = 0
    BY <2>1, <2>2 DEF End, Coming, Answered
  <2>4. InLine
    BY <2>3 DEF InLine, Ordered, Meant, Once, BehindEarlier, Complete
  <2>5. inbuf \in Seq(Byte) /\ incoming \in Seq(Byte) /\ results \in Seq(Nat)
    BY <2>1
  <2>6. \A k \in 1..Len(appended) : FALSE
    BY <2>2
  <2>7. Distinct(appended, Len(appended))
    BY <2>6 DEF Distinct
  <2>8. Len(Stream) = Whole(Stream)
    BY <2>2 DEF Whole
  <2> QED
    BY <2>1, <2>4, <2>5, <2>6, <2>7, <2>8 DEF Replies
<1> QED
  BY <1>1, <1>2, <1>3, <1>4, <1>5, <1>6 DEF IInv

\* The invariant holds throughout every behaviour of a context.
THEOREM Invariance == Spec => []IInv
  BY Initially, Inductive, PTL DEF Spec

\* However connecting, reconnecting and freeing fail, with any number of addresses and
\* retries, the context has one descriptor or none, leaks none and closes no other's.
THEOREM DescriptorsAreSound == Spec => []SocketSound
<1>1. IInv => SocketSound
  BY DEF IInv, Descriptors, SocketSound
<1> QED
  BY <1>1, Invariance, PTL

\* However writes are cut and interrupted, redisBufferWrite skips no byte and sends
\* none twice, and a reconnect starts from nothing, for any number of commands.
THEOREM EveryByteOnce == Spec => []BytesOnce
<1>1. IInv => BytesOnce
  BY DEF IInv, Buffers, BytesOnce
<1> QED
  BY <1>1, Invariance, PTL

\* For any number of commands and pushes, and however the bytes are cut, redisGetReply
\* returns the replies of this connection in the order of their commands, and none twice.
THEOREM RepliesAreInOrder == Spec => []RepliesInOrder
<1>1. IInv => RepliesInOrder
  <2> SUFFICES ASSUME Buffers, Replies, Sizes, NEW i \in DOMAIN results, results[i] # 0
               PROVE  /\ \A j \in 1..i - 1 : results[j] # results[i]
                      /\ \E k \in DOMAIN appended :
                           /\ results[i] = appended[k]
                           /\ \A l \in 1..k - 1 : \E j \in 1..i - 1 : results[j] = appended[l]
    BY RepliesSizes DEF IInv, RepliesInOrder
  <2>1. /\ Len(results) \in Nat /\ End \in Nat /\ Len(results) <= End /\ i \in 1..Len(results)
        /\ \A j \in 1..Len(results) : j \in 1..End /\ Line[j] = results[j]
    <3>1. Len(results) \in Nat /\ End \in Nat /\ Len(results) <= End
      BY DEF Sizes, End
    <3>2. i \in 1..Len(results)
      BY DEF Replies
    <3> QED
      BY <3>1, <3>2 DEF Line
  <2>2. Meant(Line, End, appended, Answered) /\ Once(Line, End)
        /\ BehindEarlier(Line, End, appended, Answered)
    BY DEF Replies, InLine, Ordered
  <2>3. \A j \in 1..i - 1 : j \in 1..Len(results) /\ j < i
    BY <2>1
  <2>4. \A j \in 1..i - 1 : results[j] # results[i]
    <3> SUFFICES ASSUME NEW j \in 1..i - 1, results[j] = results[i] PROVE FALSE
      OBVIOUS
    <3> QED
      BY <2>1, <2>2, <2>3 DEF Once
  <2>5. PICK k \in 1..Answered : results[i] = appended[k]
    BY <2>1, <2>2 DEF Meant
  <2>6. \A l \in 1..k - 1 : \E j \in 1..i - 1 : results[j] = appended[l]
    BY <2>1, <2>2, <2>3, <2>5 DEF BehindEarlier
  <2>7. k \in DOMAIN appended
    <3>1. k \in 1..Len(appended)
      BY DEF Sizes
    <3> QED
      BY <3>1, LenProperties DEF Buffers
  <2> QED
    BY <2>4, <2>5, <2>6, <2>7
<1> QED
  BY <1>1, Invariance, PTL

\* redisGetReply asks the socket for bytes only when everything is sent and no reply is
\* there to be returned.
THEOREM NeverWaitsInVain == Spec => []WaitsOnlyForServer
<1>1. IInv => WaitsOnlyForServer
  BY DEF IInv, Buffers, WaitsOnlyForServer
<1> QED
  BY <1>1, Invariance, PTL

\* A context that is connected without an error is connected as its options say, over
\* any sequence of reconnects and failures.
THEOREM AlwaysAsAsked == Spec => []ConnectedAsAsked
<1>1. IInv => ConnectedAsAsked
  BY DEF IInv, AsAsked, SocketAsAsked, Unconnected, ConnectedAsAsked
<1> QED
  BY <1>1, Invariance, PTL
=============================================================================
