-------------------------------- MODULE Sds --------------------------------
(***************************************************************************)
(* Dynamic strings (sds.c): bytes and the room allocated for them.  The    *)
(* header types only say how many bytes the two lengths take; no string of *)
(* this program is appended to while it has the header without an alloc    *)
(* field (SDS_TYPE_5), since all that grow start with sdsempty.            *)
(***************************************************************************)
EXTENDS Integers, Sequences

CONSTANT SDS_MAX_PREALLOC   \* above it a string grows by so much, not twofold

ASSUME PreallocAssumption == SDS_MAX_PREALLOC \in Nat

\* A byte is a string: a printable character, or "CR", "LF".
sdsempty == [s |-> <<>>, alloc |-> 0]
sdsavail(x) == x.alloc - Len(x.s)

\* Does sdsMakeRoomFor ask for memory, and can it so fail?
Allocates(x, addlen) == sdsavail(x) < addlen
sdsMakeRoomFor(x, addlen) ==
  LET newlen == Len(x.s) + addlen
  IN IF ~Allocates(x, addlen) THEN x
     ELSE [x EXCEPT !.alloc = IF newlen < SDS_MAX_PREALLOC
                              THEN 2 * newlen ELSE newlen + SDS_MAX_PREALLOC]

sdscatlen(x, t) == [s |-> x.s \o t, alloc |-> sdsMakeRoomFor(x, Len(t)).alloc]

\* The bytes from start to end, both counted from 0, or from the last byte
\* (-1) when negative; what falls outside is cut off.
sdsrange(x, start, end) ==
  LET len == Len(x.s)
      Index(i) == IF i >= 0 THEN i ELSE IF len + i < 0 THEN 0 ELSE len + i
      last == IF Index(end) >= len THEN len - 1 ELSE Index(end)
  IN IF len = 0 THEN x
     ELSE [x EXCEPT !.s = IF Index(start) > last THEN <<>>
                          ELSE SubSeq(x.s, Index(start) + 1, last + 1)]

Digits == <<"0", "1", "2", "3", "4", "5", "6", "7", "8", "9">>
sdsull2str[v \in Nat] ==
  IF v < 10 THEN <<Digits[v + 1]>>
  ELSE Append(sdsull2str[v \div 10], Digits[(v % 10) + 1])
=============================================================================
