---------------------------- MODULE MCProtocol ----------------------------
(***************************************************************************)
(* The reader on the bytes of a server, written down reply by reply, and   *)
(* on commands this program has formatted, which a server reads likewise.  *)
(***************************************************************************)
EXTENDS ReplyReader, CommandFormat

vars_ == <<vars, formatVars>>

(* --- what a byte sequence means, from the protocol's definition --------- *)

\* A reply is [type, val, enc, kids]; a leaf has its encoding in enc, an
\* aggregate its header there.
Leaf_(type, val, enc) == [type |-> type, val |-> val, enc |-> enc, kids |-> <<>>]
Node_(type, enc, kids) == [type |-> type, val |-> <<>>, enc |-> enc, kids |-> kids]

RECURSIVE Encode(_)
Encode(r) == FoldLeft(LAMBDA s, k : s \o Encode(k), r.enc, r.kids)

\* The objects in the order in which they are created: parents first.
RECURSIVE Objects(_, _, _, _)
Objects(r, parent, i, before) ==
  LET self == [type |-> r.type, val |-> r.val, elements |-> Len(r.kids),
               parent |-> parent, idx |-> i]
      Add(s, k) == s \o Objects(r.kids[k], before + 1, k - 1, before + Len(s))
  IN FoldLeft(Add, <<self>>, [k \in DOMAIN r.kids |-> k])

\* Replies, then bytes of which the bad-th (if not 0) shows an error.
WireOf(replies, rest, bad, kind) ==
  LET bytes == FoldLeft(LAMBDA s, r : s \o Encode(r), <<>>, replies)
      End(k) == Len(FoldLeft(LAMBDA s, r : s \o Encode(r), <<>>, SubSeq(replies, 1, k)))
  IN [bytes |-> bytes \o rest,
      replies |-> [k \in DOMAIN replies |-> Objects(replies[k], NULL, -1, 0)],
      ends |-> [k \in DOMAIN replies |-> End(k)],
      bad |-> IF bad = 0 THEN 0 ELSE Len(bytes) + bad, kind |-> kind]
Good(replies) == WireOf(replies, <<>>, 0, "none")
Bad(replies, rest) == WireOf(replies, rest, Len(rest), "protocol")
NoWire == Good(<<>>)

ok == Leaf_("status", <<"O", "K">>, <<"+", "O", "K", "CR", "LF">>)
one == Leaf_("integer", <<1>>, <<":", "1", "CR", "LF">>)
least == Leaf_("integer", <<-100>>, <<":", "-", "1", "0", "0", "CR", "LF">>)
crlf == Leaf_("string", <<"a", "CR", "LF">>, <<"$", "3", "CR", "LF", "a", "CR", "LF", "CR", "LF">>)
empty == Leaf_("string", <<>>, <<"$", "0", "CR", "LF", "CR", "LF">>)
nilbulk == Leaf_("nil", <<>>, <<"$", "-", "1", "CR", "LF">>)
nilarray == Leaf_("nil", <<>>, <<"*", "-", "1", "CR", "LF">>)
nothing == Leaf_("nil", <<>>, <<"_", "CR", "LF">>)
no == Leaf_("bool", <<FALSE>>, <<"#", "f", "CR", "LF">>)
half == Leaf_("double", <<".", "5">>, <<",", ".", "5", "CR", "LF">>)
verb == Leaf_("verb", <<"b">>, <<"=", "5", "CR", "LF", "t", "x", "t", ":", "b", "CR", "LF">>)
wrong == Leaf_("error", <<"E">>, <<"-", "E", "CR", "LF">>)
emptyarray == Leaf_("array", <<>>, <<"*", "0", "CR", "LF">>)
Array(kids) == Node_("array", <<"*", Digits[Len(kids) + 1], "CR", "LF">>, kids)
Map_(kids) == Node_("map", <<"%", Digits[(Len(kids) \div 2) + 1], "CR", "LF">>, kids)
Set_(kids) == Node_("set", <<"~", Digits[Len(kids) + 1], "CR", "LF">>, kids)
Push_(kids) == Node_("push", <<">", Digits[Len(kids) + 1], "CR", "LF">>, kids)

mcWires ==
  { Good(<<ok, one, least>>), Good(<<crlf, empty, nilbulk>>), Good(<<nothing, no, half>>),
    Good(<<verb, wrong>>), Good(<<nilarray, emptyarray, one>>),
    Good(<<Array(<<Array(<<Array(<<one, Array(<<no>>)>>)>>)>>), ok>>),
    Good(<<Array(<<nilarray, emptyarray, nothing>>)>>),
    Good(<<Map_(<<ok, Array(<<one, empty>>)>>), one>>),
    Good(<<Map_(<<one, one, no, no>>)>>),
    Good(<<Set_(<<Array(<<one>>), one>>), Push_(<<ok, emptyarray>>)>>),
    Bad(<<one>>, <<"?">>), Bad(<<>>, <<":", "1", "x", "CR", "LF">>),
    Bad(<<>>, <<":", "1", "0", "0", "CR", "LF">>), Bad(<<>>, <<":", "-", "CR", "LF">>),
    Bad(<<>>, <<":", "-", "1", "0", "1", "CR", "LF">>),
    Bad(<<>>, <<",", "x", "CR", "LF">>), Bad(<<>>, <<"$", "0", "1", "CR", "LF">>),
    Bad(<<>>, <<"$", "-", "2", "CR", "LF">>), Bad(<<>>, <<"*", "CR", "LF">>),
    Bad(<<>>, <<"*", "1", "3", "CR", "LF">>), Bad(<<one>>, <<"%", "-", "2", "CR", "LF">>),
    Bad(<<>>, <<"=", "3", "CR", "LF", "t", "x", "t", "CR", "LF">>),
    Bad(<<>>, <<"=", "4", "CR", "LF", "t", "x", "t", "t", "CR", "LF">>),
    Bad(<<ok>>, <<"*", "2", "CR", "LF">> \o Encode(Array(<<one>>)) \o <<"$", "x", "CR", "LF">>),
    Bad(<<ok>>, <<"*", "2", "CR", "LF", "*", "1", "CR", "LF", "$", "x", "CR", "LF">>),
    WireOf(<<>>, Encode(Push_(<<one, nothing>>)), 11, "abort"),
    WireOf(<<>>, Encode(Push_(<<half>>)), 9, "abort"),
    WireOf(<<>>, Encode(Push_(<<nilarray>>)), 9, "abort") }
mcDoubles == {<<".", "5">>, <<"1">>}

(* --- commands ----------------------------------------------------------- *)

long == <<"l", "l", "l", "l", "l", "l", "l", "l", "l", "l">>
mcFormats ==
  { <<<<"a", " ", "b">>, <<>>>>, <<<<" ", " ", "a", " ">>, <<>>>>, <<<<>>, <<>>>>,
    <<<<"a", " ", "%s">>, <<<<>>>>>>, <<<<"%b", "%%", " ", "%d", "x">>, <<<<"CR", "LF">>, <<"7">>>>>>,
    <<<<"a", "%s", "%s", " ", "%s">>, <<long, <<>>, <<"b", " ">>>>>>,
    <<<<"%long", "5", "d", " ", "%s">>, <<<<"7">>, <<"z">>>>>>,
    <<<<"a", " ", "%?">>, <<>>>> }
mcArgvs ==
  { <<>>, <<<<>>>>, <<<<"a">>, <<"CR", "LF">>>>, <<long>>,
    <<<<"a">>, <<"a">>, <<"a">>, <<"a">>, <<"a">>, <<"a">>, <<"a">>, <<"a">>, <<"a">>, long>> }

\* The words of a format: cut at the spaces, the arguments put in afterwards.
RECURSIVE Words(_, _, _, _)
Words(f, args, word, in) ==
  IF f = <<>> THEN IF in THEN <<word>> ELSE <<>>
  ELSE LET t == Head(f)
       IN CASE t = " " -> (IF in THEN <<word>> ELSE <<>>) \o Words(Tail(f), args, <<>>, FALSE)
            [] t \in {"%s", "%b", "%d"} -> Words(Tail(f), Tail(args), word \o Head(args), TRUE)
            [] t = "%long" -> Words(Tail(f), Tail(args), word, TRUE)
            [] t = "%%" -> Words(Tail(f), args, Append(word, "%"), TRUE)
            [] OTHER -> Words(Tail(f), args, Append(word, t), TRUE)
Intended == IF how = "format" THEN Words(format, ap, <<>>, FALSE) ELSE argv

\* What a server that reads the command must get.
CommandReply ==
  LET Bulk_(w) == Leaf_("string", w, Bulk(w))
      kids == [k \in DOMAIN Intended |-> Bulk_(Intended[k])]
  IN Node_("array", Header(Intended), kids)

SendCommand ==
  /\ wire = NoWire /\ how # "none" /\ fpc = "ok"
  /\ wire' = [Good(<<CommandReply>>) EXCEPT !.bytes = cmd.s]
  /\ Arrives(cmd.s) /\ UNCHANGED formatVars

Init == /\ FormatInit /\ ReaderInit
        /\ wire \in {NoWire} \cup (IF how = "none" THEN Wires ELSE {})
Next == \/ ReaderNext /\ UNCHANGED formatVars
        \/ wire = NoWire /\ FormatNext /\ UNCHANGED vars
        \/ SendCommand
Spec == Init /\ [][Next]_vars_

(* --- properties --------------------------------------------------------- *)

\* redisReaderGetReply hands out the replies that were sent, as they were sent,
\* in order, and when it says that there is none, none has arrived that it has not
\* handed out, wherever the bytes were cut: resuming an item does not skip, repeat or
\* misread a byte, and compaction moves nothing that is still to be read.
RepliesAsSent ==
  /\ Len(out) <= Len(wire.replies)
  /\ out = SubSeq(wire.replies, 1, Len(out))
  /\ last = "none" /\ err = "none" =>
       Len(out) = Cardinality({k \in DOMAIN wire.ends : wire.ends[k] <= fed})

\* A protocol error is reported when and only when its byte has arrived, after every
\* reply before it, and the assertions in the object constructors fail for nothing
\* but a nil, a double or a bool directly inside a push.
ErrorsWhereTheyAre ==
  /\ err \in {"protocol", "abort"} =>
       wire.kind = err /\ wire.bad <= fed /\ Len(out) = Len(wire.replies)
  /\ last = "none" /\ err = "none" => wire.bad = 0 \/ fed < wire.bad
=============================================================================
