--------------------------- MODULE CommandFormat ---------------------------
(***************************************************************************)
(* Commands as bytes (hiredis.c): redisvFormatCommand splits a format at   *)
(* its spaces and puts arguments in for its conversions; the two Argv      *)
(* functions take the words as they are.  All three compute the length of  *)
(* the result before they write it.                                        *)
(***************************************************************************)
EXTENDS Sds, FiniteSets

CONSTANTS Formats,   \* pairs of a format and the arguments for it
          Argvs      \* the words of commands for the Argv functions

\* A format is a sequence of tokens: literal bytes and conversions.  "%d" is any
\* printf conversion that is supported, "%long" the first two bytes of one that
\* does not fit in _format, "%?" an unsupported one.
Conversions == {"%s", "%b", "%%", "%d", "%long", "%?"}
Taking == {"%s", "%b", "%d", "%long"}    \* those that take an argument

\* A caller has an argument for every conversion: va_arg behind the last one is
\* undefined.
ASSUME FormatAssumption ==
  /\ \A f \in Formats :
       /\ f[1] \in Seq(STRING) /\ f[2] \in Seq(Seq(STRING))
       /\ Cardinality({i \in DOMAIN f[1] : f[1][i] \in Taking}) <= Len(f[2])
  /\ Argvs \subseteq Seq(Seq(STRING))

VARIABLES
  how,      \* the function called: "none", "format", "argv", "sds"
  format, c,   \* the format and the token of it that is read next
  ap, va,   \* the arguments and how many of them have been consumed
  curarg, touched, argv, totlen,
  cmd,      \* the result: bytes written, in the room allocated for them
  j,        \* the word that is counted, or written, next
  fpc       \* "parse", "count", "write", "-1", "-2" or, with a result, "ok"

formatVars == <<how, format, c, ap, va, curarg, touched, argv, totlen, cmd, j, fpc>>

countOneDigit(v) == 1     \* Mutation: lengths below ten only.
FourDigits[v \in Nat] ==
  IF v < 10 THEN 1 ELSE IF v < 100 THEN 2 ELSE IF v < 1000 THEN 3 ELSE IF v < 10000 THEN 4
  ELSE 4 + FourDigits[v \div 10000]
countDigits(v) == FourDigits[v]
bulklen(n) == 1 + countDigits(n) + 2 + n + 2

EOL == <<"CR", "LF">>
Header(words) == <<"*">> \o sdsull2str[Len(words)] \o EOL
Bulk(w) == <<"$">> \o sdsull2str[Len(w)] \o EOL \o w \o EOL

FormatInit ==
  /\ format = <<>> /\ ap = <<>> /\ c = 1 /\ va = 0 /\ curarg = <<>> /\ touched = FALSE /\ totlen = 0
  /\ cmd = sdsempty /\ j = 0
  /\ \/ how = "none" /\ argv = <<>> /\ fpc = "ok"
     \/ how \in {"argv", "sds"} /\ argv \in Argvs /\ fpc = "parse"

\* redisvFormatCommand is called.
FormatCall ==
  /\ how = "none" /\ fpc = "ok"
  /\ \E f \in Formats : format' = f[1] /\ ap' = f[2]
  /\ how' = "format" /\ fpc' = "parse"
  /\ UNCHANGED <<c, va, curarg, touched, argv, totlen, cmd, j>>

\* memory_err and format_err: what was allocated is freed.
Fail(code) == /\ fpc' = code
              /\ argv' = <<>> /\ curarg' = <<>> /\ cmd' = sdsempty
              /\ UNCHANGED <<how, format, c, ap, touched, totlen, j>>

Parsing == how = "format" /\ fpc = "parse"
AtEnd == c > Len(format)
AtToken(t) == Parsing /\ ~AtEnd /\ format[c] = t
EndArgument ==
  /\ argv' = Append(argv, curarg)
  /\ totlen' = totlen + bulklen(Len(curarg))
  /\ curarg' = <<>>

Space ==
  /\ AtToken(" ")
  /\ \/ /\ touched /\ EndArgument /\ touched' = FALSE
        /\ c' = c + 1
        /\ UNCHANGED <<how, format, ap, va, cmd, j, fpc>>
     \/ ~touched /\ c' = c + 1
        /\ UNCHANGED <<how, format, ap, va, curarg, touched, argv, totlen, cmd, j, fpc>>
     \/ touched /\ Fail("-1") /\ UNCHANGED va

\* Bytes are added to the current argument; an empty string adds none, but
\* makes an argument too.
AddBytes(bytes) ==
  \/ /\ curarg' = curarg \o bytes /\ touched' = TRUE /\ c' = c + 1
     /\ UNCHANGED <<how, format, ap, argv, totlen, cmd, j, fpc>>
  \/ bytes # <<>> /\ Fail("-1")

Literal == Parsing /\ ~AtEnd /\ format[c] \notin Conversions \cup {" "}
           /\ AddBytes(<<format[c]>>) /\ UNCHANGED va
PercentSign == AtToken("%%") /\ AddBytes(<<"%">>) /\ UNCHANGED va
Argument == /\ \E t \in {"%s", "%b", "%d"} : AtToken(t)
            /\ AddBytes(ap[va + 1]) /\ va' = va + 1
\* A conversion of 14 bytes or more takes its argument and is then copied like
\* literal text, without its first two bytes.
LongConversion == AtToken("%long") /\ AddBytes(<<>>) /\ va' = va + 1
BadConversion == AtToken("%?") /\ Fail("-2") /\ UNCHANGED va

\* The end of the format: the last argument, the length of the result and the
\* memory for it.
EndOfFormat ==
  /\ Parsing /\ AtEnd
  /\ LET words == IF touched THEN Append(argv, curarg) ELSE argv
         last_ == IF touched THEN bulklen(Len(curarg)) ELSE 0
         total == totlen + last_ + 1 + countDigits(Len(words)) + 2
     IN \/ /\ argv' = words /\ totlen' = total /\ curarg' = <<>>
           /\ cmd' = [s |-> Header(words), alloc |-> total]
           /\ j' = 1 /\ fpc' = "write"
           /\ UNCHANGED <<how, format, c, ap, va, touched>>
        \/ Fail("-1") /\ UNCHANGED va

\* redisFormatCommandArgv and redisFormatSdsCommandArgv: the length, word by word,
\* and the memory for it.
ArgvStart ==
  /\ how \in {"argv", "sds"} /\ fpc = "parse"
  /\ totlen' = 1 + countDigits(Len(argv)) + 2
  /\ j' = 1 /\ fpc' = "count"
  /\ UNCHANGED <<how, format, c, ap, va, curarg, touched, argv, cmd>>

CountArgument ==
  /\ fpc = "count" /\ j <= Len(argv)
  /\ totlen' = totlen + bulklen(Len(argv[j]))
  /\ j' = j + 1
  /\ UNCHANGED <<how, format, c, ap, va, curarg, touched, argv, cmd, fpc>>

ArgvAllocates ==
  /\ fpc = "count" /\ j > Len(argv)
  /\ \/ /\ cmd' = [s |-> Header(argv),
                   alloc |-> IF how = "argv" THEN totlen
                             ELSE sdsMakeRoomFor(sdsempty, totlen).alloc]
        /\ j' = 1 /\ fpc' = "write"
     \/ fpc' = "-1" /\ UNCHANGED <<cmd, j>>
  /\ UNCHANGED <<how, format, c, ap, va, curarg, touched, argv, totlen>>

\* One turn of the loop that writes the words.  Nothing looks at the room: what
\* has been computed must do.
WriteArgument ==
  /\ fpc = "write" /\ j <= Len(argv)
  /\ cmd' = [cmd EXCEPT !.s = @ \o Bulk(argv[j])]
  /\ j' = j + 1
  /\ UNCHANGED <<how, format, c, ap, va, curarg, touched, argv, totlen, fpc>>

FormatReturns ==
  /\ fpc = "write" /\ j > Len(argv)
  /\ fpc' = "ok"
  /\ UNCHANGED <<how, format, c, ap, va, curarg, touched, argv, totlen, cmd, j>>

FormatNext ==
  \/ FormatCall \/ Space \/ Literal \/ PercentSign \/ Argument
  \/ LongConversion \/ BadConversion \/ EndOfFormat
  \/ ArgvStart \/ CountArgument \/ ArgvAllocates \/ WriteArgument \/ FormatReturns

\* One call, by itself.
FormatSpec == FormatInit /\ [][FormatNext]_formatVars

(* --- properties --------------------------------------------------------- *)

FormatTypeOK ==
  /\ fpc \in {"parse", "count", "write", "ok", "-1", "-2"}
  /\ totlen \in Nat /\ touched \in BOOLEAN

\* The length computed before a command is written is the length written
\* (assert(pos == totlen)), and the room made for it is never exceeded on the way: the
\* appends of redisFormatSdsCommandArgv, whose failure nobody looks at, allocate nothing.
RoomSuffices ==
  /\ FormatTypeOK
  /\ fpc \in {"write", "ok"} => Len(cmd.s) <= cmd.alloc
  /\ fpc = "ok" => Len(cmd.s) = totlen
=============================================================================
