---------------------------- MODULE ReplyReader ----------------------------
(***************************************************************************)
(* The incremental reader of the Redis protocol (read.c) with the reply    *)
(* objects of hiredis.c.  The caller feeds bytes cut anywhere and asks for *)
(* replies; the reader resumes where the last call ran out of bytes, with  *)
(* a stack of tasks, one for each level of nesting.                        *)
(***************************************************************************)
EXTENDS Sds, FiniteSetsExt, SequencesExt

CONSTANTS
  Wires,         \* what a peer may send: see the comment on wire
  StackSize,     \* REDIS_READER_STACK_SIZE
  MaxElements,   \* r->maxelements, 0 for no limit
  MaxBuf,        \* r->maxbuf, 0 for no limit
  CompactAt,     \* consumed bytes that make GetReply drop them (1024)
  IntMax,        \* the largest int
  LLMax,         \* the largest long long
  Doubles        \* the lines strtod converts as a whole, to a number

ASSUME ReaderAssumption ==
  /\ StackSize \in Nat \ {0} /\ MaxElements \in Nat /\ MaxBuf \in Nat
  /\ CompactAt \in Nat /\ IntMax \in Nat /\ LLMax \in Nat

NULL == 0    \* of objects, which are positions in heap
None == [type |-> "none", elements |-> -1, idx |-> -1, obj |-> NULL]

TypeByte ==
  [b \in {"-", "+", ":", ",", "_", "$", "*", "%", "~", "#", "=", ">"} |->
     CASE b = "-" -> "error" [] b = "+" -> "status" [] b = ":" -> "integer"
       [] b = "," -> "double" [] b = "_" -> "nil" [] b = "#" -> "bool"
       [] b = "$" -> "string" [] b = "=" -> "verb" [] b = "*" -> "array"
       [] b = "%" -> "map" [] b = "~" -> "set" [] b = ">" -> "push"]
LineTypes == {"error", "status", "integer", "double", "nil", "bool"}
BulkTypes == {"string", "verb"}
AggregateTypes == {"array", "map", "set", "push"}

VARIABLES
  wire,    \* the bytes the peer sends, with what a reader must make of them:
           \* the replies, the byte each one ends at, and the byte, if not 0,
           \* that is the first to show a protocol error
  fed,     \* how many of them have been fed
  buf,     \* r->buf; its length is r->len
  pos,     \* r->pos
  task,    \* r->task: the allocated part of the stack
  ridx,    \* r->ridx
  heap,    \* the objects of the reply under construction, in order of creation;
           \* parent and idx say which slot of which element array holds them
  reply,   \* r->reply
  err,     \* r->err; "abort": an assertion has ended the process
  pc,      \* "idle", or inside redisReaderGetReply: "items", "done"
  out,     \* history: the replies handed out
  last     \* history: what the last call returned

bufferVars == <<fed, buf, pos>>
stackVars == <<task, ridx>>
objectVars == <<heap, reply>>
callVars == <<err, pc, out, last>>
vars == <<wire, bufferVars, stackVars, objectVars, callVars>>

tasks == Cardinality(DOMAIN task)
len == Len(buf.s)
cur == task[ridx]

\* redisReaderCreateWithFunctions; when it fails there is no reader.
ReaderInit ==
  /\ fed = 0 /\ buf = sdsempty /\ pos = 0
  /\ task = [i \in 0..StackSize - 1 |-> None] /\ ridx = -1
  /\ heap = <<>> /\ reply = NULL
  /\ err = "none" /\ pc = "idle" /\ out = <<>> /\ last = "none"

(* --- scanning ---------------------------------------------------------- *)

AsInt(n) == ((n + IntMax + 1) % (2 * (IntMax + 1))) - (IntMax + 1)

\* Where a CR LF starts, counted from 1: the bytes searched are counted in an int.
Newlines == {p \in pos + 1..len - 1 :
               /\ p - pos <= AsInt(len - pos - 1)
               /\ buf.s[p] = "CR" /\ buf.s[p + 1] = "LF"}
HasLine == Newlines # {}
LineEnd == Min(Newlines)
Line == SubSeq(buf.s, pos + 1, LineEnd - 1)

DigitValue(b) == CHOOSE d \in 0..9 : Digits[d + 1] = b
Magnitude(digits) == FoldLeft(LAMBDA v, b : 10 * v + DigitValue(b), 0, digits)
Negative(s) == s # <<>> /\ s[1] = "-"
Unsigned(s) == IF Negative(s) THEN Tail(s) ELSE s
\* Mutation: overflow is not looked for.
IsLLUnbounded(s) ==
  \/ s = <<"0">>
  \/ /\ Unsigned(s) # <<>> /\ Unsigned(s)[1] # "0"
     /\ \A i \in DOMAIN Unsigned(s) : \E d \in DOMAIN Digits : Unsigned(s)[i] = Digits[d]
\* The strings string2ll accepts, and their value.
IsLL(s) ==
  \/ s = <<"0">>
  \/ /\ Unsigned(s) # <<>> /\ Unsigned(s)[1] # "0"
     /\ \A i \in DOMAIN Unsigned(s) : \E d \in DOMAIN Digits : Unsigned(s)[i] = Digits[d]
     /\ Magnitude(Unsigned(s)) \in 1..(IF Negative(s) THEN LLMax + 1 ELSE LLMax)
string2ll(s) == IF s = <<"0">> THEN 0
                ELSE IF Negative(s) THEN -Magnitude(Unsigned(s)) ELSE Magnitude(s)

(* --- the task stack and the objects ------------------------------------ *)

\* __redisReaderSetError: the reply built so far is freed, and with it every
\* object that a slot of it leads to.
SetError(kind) ==
  /\ err' = kind /\ pc' = "done"
  /\ heap' = <<>> /\ reply' = NULL
  /\ buf' = sdsempty /\ pos' = 0
  /\ ridx' = -1
  /\ UNCHANGED <<wire, fed, task, out, last>>

\* Mutation: an element too late.
UnfinishedLate(t, i) == {j \in 1..i : t[j].idx # t[j - 1].elements}
\* moveToNextTask, from the tasks t with i on top: back to the innermost
\* level that has elements to come, or out of the stack.
Unfinished(t, i) == {j \in 1..i : t[j].idx # t[j - 1].elements - 1}
moveToNextTask(t, i) ==
  IF Unfinished(t, i) = {}
  THEN ridx' = -1 /\ task' = t
  ELSE LET j == Max(Unfinished(t, i))
       IN /\ ridx' = j
          /\ task' = [t EXCEPT ![j].type = "none", ![j].elements = -1,
                               ![j].idx = @ + 1]

ParentObj == IF ridx = 0 THEN NULL ELSE task[ridx - 1].obj

\* create*Object: the new object goes into a slot of its parent.
Create(type, val, elements) ==
  /\ heap' = Append(heap, [type |-> type, val |-> val, elements |-> elements,
                           parent |-> ParentObj, idx |-> cur.idx])
  /\ reply' = IF ridx = 0 THEN Len(heap) + 1 ELSE reply

\* The assertion on the parent's type in the three constructors that forget
\* REDIS_REPLY_PUSH.
AssertionFails(type) ==
  type \in {"nil", "double", "bool"} /\ ridx > 0 /\ task[ridx - 1].type = "push"
Abort == /\ err' = "abort" /\ pc' = "dead"
         /\ UNCHANGED <<wire, bufferVars, stackVars, objectVars, out, last>>

\* An object without elements, complete at byte end: the item is read.
Leaf(type, val, end) ==
  \/ /\ ~AssertionFails(type)
     /\ Create(type, val, 0)
     /\ pos' = end
     /\ moveToNextTask(task, ridx)
     /\ UNCHANGED <<wire, fed, buf, callVars>>
  \/ AssertionFails(type) /\ Abort
  \/ SetError("oom")

(* --- processItem: one turn of the loop in redisReaderGetReply ----------- *)

InItem == pc = "items" /\ ridx >= 0

ReadType ==
  /\ InItem /\ cur.type = "none" /\ pos < len
  /\ IF buf.s[pos + 1] \in DOMAIN TypeByte
     THEN /\ task' = [task EXCEPT ![ridx].type = TypeByte[buf.s[pos + 1]]]
          /\ pos' = pos + 1
          /\ UNCHANGED <<wire, fed, buf, ridx, objectVars, callVars>>
     ELSE SetError("protocol")

BadLine == \/ cur.type = "integer" /\ ~IsLL(Line)
           \/ cur.type = "double" /\ Line \notin Doubles
LineValue ==
  CASE cur.type = "integer" -> <<string2ll(Line)>>
    [] cur.type = "bool" -> <<Line # <<>> /\ Line[1] \in {"t", "T"}>>
    [] cur.type = "nil" -> <<>>
    [] OTHER -> Line

processLineItem ==
  /\ InItem /\ cur.type \in LineTypes /\ HasLine
  /\ IF BadLine THEN SetError("protocol")
     ELSE Leaf(cur.type, LineValue, LineEnd + 1)

\* Of a bulk item: the length its header gives, where it ends, and the bytes.
BulkLen == string2ll(Line)
BulkEndShort == LineEnd + 1 + BulkLen     \* Mutation: without the CR LF behind the bytes.
BulkEnd == LineEnd + 1 + BulkLen + 2
Payload == SubSeq(buf.s, LineEnd + 2, LineEnd + 1 + BulkLen)
BadLength == ~IsLL(Line) \/ BulkLen < -1
BulkComplete == IF BadLength THEN TRUE ELSE BulkLen = -1 \/ BulkEnd <= len
BadVerb == cur.type = "verb" /\ (BulkLen < 4 \/ Payload[4] # ":")

processBulkItem ==
  /\ InItem /\ cur.type \in BulkTypes /\ HasLine /\ BulkComplete
  /\ IF BadLength THEN SetError("protocol")
     ELSE IF BulkLen = -1 THEN Leaf("nil", <<>>, LineEnd + 1)
     ELSE IF BadVerb THEN SetError("protocol")
     ELSE Leaf(cur.type,
               IF cur.type = "verb" THEN SubSeq(Payload, 5, BulkLen) ELSE Payload,
               BulkEnd)

\* redisReaderGrow, when the top task is the last: it comes before the header is
\* known to be there, and is not undone when it is not.
Grown == IF ridx = tasks - 1
         THEN [i \in 0..tasks + StackSize - 1 |-> IF i < tasks THEN task[i] ELSE None]
         ELSE task

Elements == IF cur.type = "map" THEN 2 * string2ll(Line) ELSE string2ll(Line)
BadCount == \/ ~IsLL(Line) \/ string2ll(Line) < -1
            \/ MaxElements > 0 /\ string2ll(Line) > MaxElements

Push(t) ==
  /\ ridx' = ridx + 1
  /\ task' = [t EXCEPT ![ridx].elements = Elements, ![ridx].obj = Len(heap) + 1,
                       ![ridx + 1] = [None EXCEPT !.idx = 0]]

processAggregateItem ==
  /\ InItem /\ cur.type \in AggregateTypes /\ HasLine
  /\ IF BadCount THEN SetError("protocol") ELSE
     \/ SetError("oom")
     \/ string2ll(Line) = -1 /\ AssertionFails("nil") /\ Abort
     \/ /\ string2ll(Line) = -1 /\ ~AssertionFails("nil")
        /\ Create("nil", <<>>, 0) /\ moveToNextTask(Grown, ridx)
        /\ pos' = LineEnd + 1 /\ UNCHANGED <<wire, fed, buf, callVars>>
     \/ /\ string2ll(Line) >= 0
        /\ Create(cur.type, <<>>, Elements)
        /\ IF Elements > 0 THEN Push(Grown) ELSE moveToNextTask(Grown, ridx)
        /\ pos' = LineEnd + 1 /\ UNCHANGED <<wire, fed, buf, callVars>>

\* The item is not complete: the loop is left, the task keeps its type.
NeedMore ==
  /\ InItem
  /\ \/ cur.type = "none" /\ pos = len /\ UNCHANGED task
     \/ cur.type \in LineTypes /\ ~HasLine /\ UNCHANGED task
     \/ cur.type \in BulkTypes /\ ~HasLine /\ UNCHANGED task
     \/ cur.type \in BulkTypes /\ HasLine /\ ~BulkComplete /\ UNCHANGED task
     \/ cur.type \in AggregateTypes /\ ~HasLine /\ task' = Grown
  /\ pc' = "done"
  /\ UNCHANGED <<wire, bufferVars, ridx, objectVars, err, out, last>>

GrowFails ==
  /\ InItem /\ cur.type \in AggregateTypes /\ ~HasLine /\ ridx = tasks - 1
  /\ SetError("oom")

processItem == \/ ReadType \/ processLineItem \/ processBulkItem
               \/ processAggregateItem \/ NeedMore \/ GrowFails

(* --- the calls ---------------------------------------------------------- *)

\* redisReaderFeed with the next n bytes.
Room == IF len = 0 /\ MaxBuf # 0 /\ sdsavail(buf) > MaxBuf THEN sdsempty ELSE buf
redisReaderFeed(n) ==
  /\ pc = "idle" /\ err = "none" /\ n <= Len(wire.bytes) - fed
  /\ fed' = fed + n
  /\ UNCHANGED <<wire, task, pc, out>>
  /\ \/ /\ buf' = sdscatlen(Room, SubSeq(wire.bytes, fed + 1, fed + n))
        /\ pos' = IF Room = buf THEN pos ELSE 0
        /\ last' = "feed"
        /\ UNCHANGED <<ridx, objectVars, err>>
     \/ /\ Room # buf \/ Allocates(buf, n)
        /\ buf' = sdsempty /\ pos' = 0 /\ ridx' = -1
        /\ heap' = <<>> /\ reply' = NULL /\ err' = "oom" /\ last' = "error"

\* redisReaderGetReply up to its loop.
redisReaderGetReply ==
  /\ pc = "idle" /\ err = "none"
  /\ IF len = 0
     THEN last' = "none" /\ UNCHANGED <<wire, bufferVars, stackVars, objectVars, err, pc, out>>
     ELSE /\ pc' = "items"
          /\ IF ridx = -1 THEN ridx' = 0 /\ task' = [task EXCEPT ![0] = None]
             ELSE UNCHANGED stackVars
          /\ UNCHANGED <<wire, bufferVars, objectVars, err, out, last>>

\* After the loop.  A caller without interest in the reply (reply == NULL) has
\* it freed; either way it is the reader's no longer.
Return ==
  /\ pc = "done" \/ (pc = "items" /\ ridx = -1)
  /\ pc' = "idle"
  /\ IF err # "none"
     THEN last' = "error" /\ UNCHANGED <<bufferVars, objectVars, out>>
     ELSE /\ IF pos >= CompactAt
             THEN buf' = sdsrange(buf, pos, -1) /\ pos' = 0
             ELSE UNCHANGED <<buf, pos>>
          /\ IF ridx = -1
             THEN out' = Append(out, heap) /\ heap' = <<>> /\ reply' = NULL
                  /\ last' = "reply"
             ELSE last' = "none" /\ UNCHANGED <<objectVars, out>>
          /\ UNCHANGED fed
  /\ UNCHANGED <<wire, stackVars, err>>

ReaderNext == \/ \E n \in 1..Len(wire.bytes) : redisReaderFeed(n)
              \/ redisReaderGetReply \/ processItem \/ Return

\* The peer sends, when it has sent nothing yet: from here on wire.bytes is bytes.
Arrives(bytes) ==
  /\ wire.bytes = <<>> /\ wire'.bytes = bytes
  /\ UNCHANGED <<bufferVars, stackVars, objectVars, callVars>>

\* The reader by itself, whatever the bytes are.
ReaderSpec ==
  /\ ReaderInit /\ wire.bytes \in Seq(STRING)
  /\ [][ReaderNext \/ \E bytes \in Seq(STRING) : Arrives(bytes)]_vars

(* --- properties --------------------------------------------------------- *)

Tasks == [type : {"none"} \cup Range(TypeByte), elements : Nat \cup {-1},
          idx : Nat \cup {-1}, obj : Nat]

ReaderTypeOK ==
  /\ wire.bytes \in Seq(STRING) /\ fed \in 0..Len(wire.bytes)
  /\ buf \in [s : Seq(STRING), alloc : Nat] /\ pos \in 0..len
  /\ task \in [0..tasks - 1 -> Tasks] /\ ridx \in -1..tasks - 1
  /\ reply \in 0..Len(heap)
  /\ err \in {"none", "protocol", "oom", "abort"}
  /\ pc \in {"idle", "items", "done", "dead"}

\* Every object of the reply being built hangs in a slot of its own within the bounds
\* of its parent's element array, and the first one is held by the reader: so
\* freeReplyObject of r->reply reaches them all, when an item at any depth fails.
NothingLost ==
  /\ reply = NULL <=> heap = <<>>
  /\ \A i \in DOMAIN heap :
       IF i = 1 THEN heap[i].parent = NULL
       ELSE /\ heap[i].parent \in 1..i - 1
            /\ heap[i].idx \in 0..heap[heap[i].parent].elements - 1
  /\ \A i, k \in DOMAIN heap : heap[i].parent = heap[k].parent /\ heap[i].idx = heap[k].idx => i = k

\* The stack of tasks is there when it is used, the position never leaves the buffer,
\* and what the reader builds can be freed.
StackSound == ReaderTypeOK /\ NothingLost
=============================================================================
