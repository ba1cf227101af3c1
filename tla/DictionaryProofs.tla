--------------------------- MODULE DictionaryProofs ---------------------------
(***************************************************************************)
(* Proofs about Dictionary, for any finite set of keys, any hash function  *)
(* and any initial size: the table stays sound, the iterator complete, and *)
(* the whole implements CallbackMap.                                       *)
(***************************************************************************)
EXTENDS Dictionary, FiniteSetTheorems, SequenceTheorems, TLAPS

\* Where dictReplace is: its arguments are there exactly while it runs, the second
\* table exactly while it is filled; and a key is inserted only where there is room.
Calls ==
  /\ pc = "idle" => key = NoKey
  /\ pc # "idle" => key \in Keys /\ value \in Vals /\ iter = NoIter
  /\ pc # "expand" => new = Chains(0)
  /\ pc = "expand" => /\ newUsed = Cardinality(Stored(table) \cup Stored(new))
                      /\ newUsed < Cardinality(DOMAIN new)
  /\ pc = "insert" => used < size

\* What the iterator has returned and what it will return: everything in front of
\* it is seen, up to the saved pointer in the chain it is in.
Behind(c) ==
  IF iter.next = NoKey THEN \A p \in DOMAIN c : c[p] \in seen
  ELSE \E p \in DOMAIN c : c[p] = iter.next /\ \A q \in 1..p - 1 : c[q] \in seen
Iterating ==
  iter # NoIter =>
    /\ iter.index \in 0..size
    /\ iter.index = 0 <=> iter.entry = NoKey
    /\ iter.index = 0 => iter.next = NoKey
    /\ iter.index > 0 => iter.entry # iter.next /\ iter.entry \in seen
    /\ iter.index > 0 => Behind(table[iter.index - 1])
    /\ \A h \in DOMAIN table : h < iter.index - 1 =>
         \A p \in DOMAIN table[h] : table[h][p] \in seen

Sound(t) == IsTable(t) /\ WellPlaced(t) /\ Cardinality(DOMAIN t) \in Nat
Placed == Sound(table) /\ Sound(new)

IInv == TypeOK /\ Placed /\ UsedIsCount /\ MovedOnce /\ Calls /\ Iterating

-----------------------------------------------------------------------------
(* Chains.                                                                 *)

LEMMA IntervalLength ==
  ASSUME NEW m \in Nat, NEW n \in Nat, 1..m = 1..n
  PROVE  m = n
<1>1. Cardinality(1..m) = m /\ Cardinality(1..n) = n
  BY FS_Interval
<1> QED
  BY <1>1

LEMMA ConsProperties ==
  ASSUME NEW k \in Keys, NEW c \in Seq(Keys)
  PROVE  /\ Cons(k, c) \in Seq(Keys)
         /\ DOMAIN Cons(k, c) = 1..Len(c) + 1
         /\ Cons(k, c)[1] = k
         /\ \A p \in DOMAIN Cons(k, c) : p # 1 => p - 1 \in DOMAIN c /\ Cons(k, c)[p] = c[p - 1]
         /\ \A p \in DOMAIN c : p + 1 \in DOMAIN Cons(k, c) /\ Cons(k, c)[p + 1] = c[p]
<1>1. Len(c) \in Nat /\ DOMAIN c = 1..Len(c) /\ \A p \in 1..Len(c) : c[p] \in Keys
  BY LenProperties
<1>2. Cons(k, c) \in [1..Len(c) + 1 -> Keys]
  BY <1>1 DEF Cons
<1> QED
  BY <1>1, <1>2, SeqDef DEF Cons

LEMMA WithoutProperties ==
  ASSUME NEW c \in Seq(Keys), NEW p \in DOMAIN c
  PROVE  /\ Without(c, p) \in Seq(Keys)
         /\ DOMAIN Without(c, p) = 1..Len(c) - 1
         /\ \A q \in DOMAIN Without(c, p) :
              /\ q < p => q \in DOMAIN c /\ Without(c, p)[q] = c[q]
              /\ q >= p => q + 1 \in DOMAIN c /\ Without(c, p)[q] = c[q + 1]
         /\ \A q \in DOMAIN c :
              /\ q < p => q \in DOMAIN Without(c, p) /\ Without(c, p)[q] = c[q]
              /\ q > p => q - 1 \in DOMAIN Without(c, p) /\ Without(c, p)[q - 1] = c[q]
<1>1. Len(c) \in Nat /\ DOMAIN c = 1..Len(c) /\ \A q \in 1..Len(c) : c[q] \in Keys
  BY LenProperties
<1>2. Without(c, p) \in [1..Len(c) - 1 -> Keys] /\ Len(c) - 1 \in Nat
  BY <1>1 DEF Without
<1> QED
  BY <1>1, <1>2, SeqDef DEF Without

LEMMA TailIsWithout ==
  ASSUME NEW c \in Seq(Keys), c # <<>>
  PROVE  1 \in DOMAIN c /\ Head(c) = c[1] /\ Tail(c) = Without(c, 1)
<1>1. Len(c) \in Nat \ {0} /\ DOMAIN c = 1..Len(c)
  BY EmptySeq, LenProperties
<1>2. 1 \in DOMAIN c
  BY <1>1
<1>3. /\ Tail(c) \in Seq(Keys) /\ Len(Tail(c)) = Len(c) - 1
      /\ \A i \in 1..Len(Tail(c)) : Tail(c)[i] = c[i + 1]
  BY HeadTailProperties
<1>4. /\ Without(c, 1) \in Seq(Keys) /\ DOMAIN Without(c, 1) = 1..Len(c) - 1
      /\ \A q \in DOMAIN Without(c, 1) : q >= 1 => Without(c, 1)[q] = c[q + 1]
  BY <1>2, WithoutProperties
<1>5. Len(Without(c, 1)) = Len(c) - 1
  <2>1. Len(Without(c, 1)) \in Nat /\ DOMAIN Without(c, 1) = 1..Len(Without(c, 1))
    BY <1>4, LenProperties
  <2>2. Len(c) - 1 \in Nat
    BY <1>1
  <2> QED
    BY <1>4, <2>1, <2>2, IntervalLength
<1>6. Tail(c) = Without(c, 1)
  BY <1>1, <1>3, <1>4, <1>5, SeqEqual
<1> QED
  BY <1>2, <1>6

-----------------------------------------------------------------------------
(* Tables.                                                                 *)

LEMMA BucketInTable ==
  ASSUME NEW t, Sound(t), DOMAIN t # {}, NEW k \in Keys
  PROVE  Bucket(k, t) \in DOMAIN t
<1> DEFINE n == Cardinality(DOMAIN t)
<1>1. n \in Nat \ {0} /\ DOMAIN t = 0..n - 1
  BY DEF Sound, IsTable
<1>2. Hash[k] \in Nat
  BY DictionaryAssumption
<1>3. ASSUME NEW m \in Nat \ {0}, NEW a \in Nat PROVE a % m \in 0..m - 1
  BY <1>3
<1> QED
  BY <1>1, <1>2, <1>3 DEF Bucket

LEMMA ChainsSound ==
  ASSUME NEW n \in Nat
  PROVE  Sound(Chains(n)) /\ Cardinality(DOMAIN Chains(n)) = n /\ Stored(Chains(n)) = {}
<1>1. DOMAIN Chains(n) = 0..n - 1 /\ \A h \in 0..n - 1 : Chains(n)[h] = <<>>
  BY DEF Chains
<1>2. Cardinality(0..n - 1) = n
  BY FS_Interval
<1>3. <<>> \in Seq(Keys) /\ DOMAIN <<>> = {}
  BY EmptySeq
<1> QED
  BY <1>1, <1>2, <1>3 DEF Sound, IsTable, WellPlaced, Stored, In

\* A key is found where its hash says, and nowhere else.
LEMMA Found ==
  ASSUME NEW t, Sound(t), NEW k \in Keys
  PROVE  k \in Stored(t) <=> DOMAIN t # {} /\ In(k, t[Bucket(k, t)])
<1>1. CASE k \in Stored(t)
  BY <1>1 DEF Stored, In, Sound, WellPlaced
<1>2. CASE DOMAIN t # {} /\ In(k, t[Bucket(k, t)])
  BY <1>2, BucketInTable DEF Stored
<1> QED
  BY <1>1, <1>2

LEMMA Pushed ==
  ASSUME NEW t, Sound(t), NEW k \in Keys, k \notin Stored(t), DOMAIN t # {},
         NEW b, b = Bucket(k, t), NEW u, u = [t EXCEPT ![b] = Cons(k, @)]
  PROVE  Sound(u) /\ DOMAIN u = DOMAIN t /\ Stored(u) = Stored(t) \cup {k}
<1>1. /\ b \in DOMAIN t /\ DOMAIN u = DOMAIN t /\ u[b] = Cons(k, t[b]) /\ t[b] \in Seq(Keys)
      /\ \A h \in DOMAIN t : h # b => u[h] = t[h]
  BY BucketInTable DEF Sound, IsTable
<1>c. /\ u[b] \in Seq(Keys) /\ DOMAIN u[b] = 1..Len(t[b]) + 1 /\ u[b][1] = k
      /\ \A p \in DOMAIN u[b] : p # 1 => p - 1 \in DOMAIN t[b] /\ u[b][p] = t[b][p - 1]
      /\ \A p \in DOMAIN t[b] : p + 1 \in DOMAIN u[b] /\ u[b][p + 1] = t[b][p]
  <2> DEFINE c == t[b]
             d == u[b]
  <2>1. c \in Seq(Keys) /\ d = Cons(k, c)
    BY <1>1
  <2> HIDE DEF c, d
  <2>2. /\ Cons(k, c) \in Seq(Keys)
        /\ DOMAIN Cons(k, c) = 1..Len(c) + 1
        /\ Cons(k, c)[1] = k
        /\ \A p \in DOMAIN Cons(k, c) : p # 1 => p - 1 \in DOMAIN c /\ Cons(k, c)[p] = c[p - 1]
        /\ \A p \in DOMAIN c : p + 1 \in DOMAIN Cons(k, c) /\ Cons(k, c)[p + 1] = c[p]
    BY <2>1, ConsProperties
  <2> QED
    BY <2>1, <2>2 DEF c, d
<1>l. Len(t[b]) \in Nat
  BY <1>1, LenProperties
<1>2. IsTable(u)
  BY <1>1, <1>c DEF IsTable, Sound
<1>3. \A j \in Keys : Bucket(j, u) = Bucket(j, t)
  BY <1>1 DEF Bucket
<1>n. \A h \in DOMAIN t : \A p \in DOMAIN t[h] : t[h][p] \in Keys /\ t[h][p] # k
  BY LenProperties, ElementOfSeq DEF Stored, In, Sound, IsTable
<1>4. ASSUME NEW h \in DOMAIN u, NEW p \in DOMAIN u[h]
      PROVE  Bucket(u[h][p], u) = h /\ \A q \in DOMAIN u[h] : u[h][p] = u[h][q] => p = q
  <2>1. CASE h # b
    <3>1. h \in DOMAIN t /\ p \in DOMAIN t[h] /\ u[h] = t[h]
      BY <1>1, <1>4, <2>1
    <3>2. Bucket(t[h][p], t) = h /\ \A q \in DOMAIN t[h] : t[h][p] = t[h][q] => p = q
      BY <3>1 DEF Sound, WellPlaced
    <3>3. t[h][p] \in Keys
      BY <1>n, <3>1
    <3> QED
      BY <1>3, <3>1, <3>2, <3>3
  <2>2. CASE h = b /\ p = 1
    <3>1. Bucket(u[h][p], u) = h
      BY <1>3, <1>c, <2>2
    <3>2. ASSUME NEW q \in DOMAIN u[b], u[b][q] = k PROVE q = 1
      BY <1>1, <1>c, <1>n, <3>2
    <3> QED
      BY <1>c, <2>2, <3>1, <3>2
  <2>3. CASE h = b /\ p # 1
    <3>1. p - 1 \in DOMAIN t[b] /\ u[b][p] = t[b][p - 1]
      BY <1>c, <1>4, <2>3
    <3>2. Bucket(t[b][p - 1], t) = b /\ \A q \in DOMAIN t[b] : t[b][p - 1] = t[b][q] => p - 1 = q
      BY <1>1, <3>1 DEF Sound, WellPlaced
    <3>3. Bucket(u[h][p], u) = h
      <4>1. t[b][p - 1] \in Keys
        BY <1>1, <1>n, <3>1
      <4>2. u[h][p] = t[b][p - 1]
        BY <2>3, <3>1
      <4> QED
        BY <1>3, <2>3, <3>2, <4>1, <4>2
    <3>4. ASSUME NEW q \in DOMAIN u[b], u[b][p] = u[b][q] PROVE p = q
      <4>1. q # 1
        <5>1. u[b][p] # k
          BY <1>1, <1>n, <3>1
        <5> QED
          BY <1>c, <3>4, <5>1
      <4>2. q - 1 \in DOMAIN t[b] /\ p - 1 = q - 1
        BY <1>c, <3>1, <3>2, <3>4, <4>1
      <4> QED
        BY <1>c, <1>4, <1>l, <2>3, <3>4, <4>2
    <3> QED
      BY <2>3, <3>3, <3>4
  <2> QED
    BY <2>1, <2>2, <2>3
<1>5. \A j \in Keys : (\E h \in DOMAIN u : In(j, u[h])) <=> j = k \/ \E h \in DOMAIN t : In(j, t[h])
  <2>1. 1 \in DOMAIN u[b]
    BY <1>c, <1>l
  <2>2. ASSUME NEW j \in Keys, NEW h \in DOMAIN u, NEW p \in DOMAIN u[h], u[h][p] = j
        PROVE  j = k \/ In(j, t[h])
    <3>1. CASE h = b
      <4>1. CASE p = 1
        BY <1>c, <2>2, <3>1, <4>1
      <4>2. CASE p # 1
        <5>1. p - 1 \in DOMAIN t[b] /\ t[b][p - 1] = j
          BY <1>c, <2>2, <3>1, <4>2
        <5> QED
          BY <3>1, <5>1 DEF In
      <4> QED
        BY <4>1, <4>2
    <3>2. CASE h # b
      <4>1. u[h] = t[h]
        BY <1>1, <3>2
      <4> QED
        BY <2>2, <4>1 DEF In
    <3> QED
      BY <3>1, <3>2
  <2>3. ASSUME NEW j \in Keys, NEW h \in DOMAIN t, NEW p \in DOMAIN t[h], t[h][p] = j
        PROVE  In(j, u[h])
    <3>1. CASE h = b
      <4>1. p + 1 \in DOMAIN u[b] /\ u[b][p + 1] = j
        BY <1>c, <2>3, <3>1
      <4> QED
        BY <3>1, <4>1 DEF In
    <3>2. CASE h # b
      <4>1. u[h] = t[h]
        BY <1>1, <3>2
      <4> QED
        BY <2>3, <4>1 DEF In
    <3> QED
      BY <3>1, <3>2
  <2> QED
    BY <1>1, <1>c, <2>1, <2>2, <2>3 DEF In
<1>6. Stored(u) = Stored(t) \cup {k}
  BY <1>5 DEF Stored
<1> QED
  BY <1>1, <1>2, <1>4, <1>6 DEF Sound, WellPlaced

LEMMA Pulled ==
  ASSUME NEW t, Sound(t), NEW b \in DOMAIN t, NEW i \in DOMAIN t[b],
         NEW u, DOMAIN u = DOMAIN t, u[b] = Without(t[b], i),
         \A h \in DOMAIN t : h # b => u[h] = t[h]
  PROVE  Sound(u) /\ DOMAIN u = DOMAIN t /\ Stored(u) = Stored(t) \ {t[b][i]}
<1>1. /\ DOMAIN u = DOMAIN t /\ u[b] = Without(t[b], i) /\ t[b] \in Seq(Keys)
      /\ \A h \in DOMAIN t : h # b => u[h] = t[h]
  BY DEF Sound, IsTable
<1>l. Len(t[b]) \in Nat /\ DOMAIN t[b] = 1..Len(t[b])
  BY <1>1, LenProperties
<1>c. /\ u[b] \in Seq(Keys) /\ DOMAIN u[b] = 1..Len(t[b]) - 1
      /\ \A q \in DOMAIN u[b] : /\ q < i => q \in DOMAIN t[b] /\ u[b][q] = t[b][q]
                                /\ q >= i => q + 1 \in DOMAIN t[b] /\ u[b][q] = t[b][q + 1]
      /\ \A q \in DOMAIN t[b] : /\ q < i => q \in DOMAIN u[b] /\ u[b][q] = t[b][q]
                                /\ q > i => q - 1 \in DOMAIN u[b] /\ u[b][q - 1] = t[b][q]
  BY <1>1, WithoutProperties
<1>s. ASSUME NEW p \in DOMAIN u[b]
      PROVE  \E r \in DOMAIN t[b] : u[b][p] = t[b][r] /\ r = IF p < i THEN p ELSE p + 1
  <2>1. p \in Int /\ i \in Int
    BY <1>l, <1>c
  <2>2. CASE p < i
    <3>1. p \in DOMAIN t[b] /\ u[b][p] = t[b][p]
      BY <1>c, <2>2
    <3> QED
      BY <2>2, <3>1
  <2>3. CASE p >= i
    <3>1. p + 1 \in DOMAIN t[b] /\ u[b][p] = t[b][p + 1]
      BY <1>c, <2>3
    <3> QED
      BY <2>1, <2>3, <3>1
  <2> QED
    BY <2>1, <2>2, <2>3
<1>2. IsTable(u)
  BY <1>1, <1>c DEF IsTable, Sound
<1>3. \A j \in Keys : Bucket(j, u) = Bucket(j, t)
  BY <1>1 DEF Bucket
<1>n. \A h \in DOMAIN t : \A p \in DOMAIN t[h] : t[h][p] \in Keys
  BY LenProperties, ElementOfSeq DEF Sound, IsTable
<1>w. \A h \in DOMAIN t : \A p \in DOMAIN t[h] :
        Bucket(t[h][p], t) = h /\ \A q \in DOMAIN t[h] : t[h][p] = t[h][q] => p = q
  BY DEF Sound, WellPlaced
<1>4. ASSUME NEW h \in DOMAIN u, NEW p \in DOMAIN u[h]
      PROVE  Bucket(u[h][p], u) = h /\ \A q \in DOMAIN u[h] : u[h][p] = u[h][q] => p = q
  <2>1. CASE h # b
    BY <1>1, <1>3, <1>n, <1>w, <1>4, <2>1
  <2>2. CASE h = b
    <3>1. PICK r \in DOMAIN t[b] : u[b][p] = t[b][r] /\ r = IF p < i THEN p ELSE p + 1
      BY <1>s, <1>4, <2>2
    <3>2. ASSUME NEW q \in DOMAIN u[b], u[b][p] = u[b][q] PROVE p = q
      <4>1. PICK s \in DOMAIN t[b] : u[b][q] = t[b][s] /\ s = IF q < i THEN q ELSE q + 1
        BY <1>s, <3>2
      <4>2. r = s
        BY <1>w, <3>1, <3>2, <4>1
      <4> QED
        BY <1>c, <1>l, <1>4, <2>2, <3>1, <3>2, <4>1, <4>2
    <3>3. Bucket(u[h][p], u) = h
      BY <1>3, <1>n, <1>w, <2>2, <3>1
    <3> QED
      BY <2>2, <3>2, <3>3
  <2> QED
    BY <2>1, <2>2
<1>5. \A j \in Keys : (\E h \in DOMAIN u : In(j, u[h]))
                     <=> j # t[b][i] /\ \E h \in DOMAIN t : In(j, t[h])
  <2>1. ASSUME NEW j \in Keys, NEW h \in DOMAIN t, NEW p \in DOMAIN t[h], t[h][p] = j,
               j # t[b][i]
        PROVE  In(j, u[h])
    <3>1. CASE h # b
      BY <1>1, <2>1, <3>1 DEF In
    <3>2. CASE h = b
      <4>1. p # i /\ p \in Int /\ i \in Int
        BY <1>l, <2>1, <3>2
      <4>3. p \in DOMAIN t[b] /\ t[b][p] = j
        BY <2>1, <3>2
      <4>2. (p < i => p \in DOMAIN u[b] /\ u[b][p] = j)
            /\ (p > i => p - 1 \in DOMAIN u[b] /\ u[b][p - 1] = j)
        BY <1>c, <4>3
      <4> QED
        BY <3>2, <4>1, <4>2 DEF In
    <3> QED
      BY <3>1, <3>2
  <2>2. ASSUME NEW j \in Keys, NEW h \in DOMAIN u, NEW p \in DOMAIN u[h], u[h][p] = j
        PROVE  j # t[b][i] /\ In(j, t[h])
    <3>1. CASE h = b
      <4>1. PICK r \in DOMAIN t[b] : u[b][p] = t[b][r] /\ r = IF p < i THEN p ELSE p + 1
        BY <1>s, <2>2, <3>1
      <4>2. r # i
        BY <1>l, <1>c, <2>2, <3>1, <4>1
      <4> QED
        BY <1>w, <2>2, <3>1, <4>1, <4>2 DEF In
    <3>2. CASE h # b
      BY <1>1, <1>w, <2>2, <3>2 DEF In
    <3> QED
      BY <3>1, <3>2
  <2> QED
    BY <1>1, <2>1, <2>2 DEF In
<1>6. Stored(u) = Stored(t) \ {t[b][i]}
  BY <1>5 DEF Stored
<1> QED
  BY <1>1, <1>2, <1>4, <1>6 DEF Sound, WellPlaced

-----------------------------------------------------------------------------
(* What the steps do to the tables.                                        *)

LEMMA StoredFinite ==
  ASSUME NEW t
  PROVE  /\ Stored(t) \subseteq Keys /\ IsFiniteSet(Stored(t))
         /\ Cardinality(Stored(t)) \in Nat
<1>1. Stored(t) \subseteq Keys
  BY DEF Stored
<1> QED
  BY <1>1, DictionaryAssumption, FS_Subset, FS_CardinalityType

\* dictExpand moves the first entry of a chain.
LEMMA Moves ==
  ASSUME IInv, NEW h \in DOMAIN table, ExpandMove(h)
  PROVE  /\ Sound(table') /\ Sound(new') /\ DOMAIN table' = DOMAIN table
         /\ DOMAIN new' = DOMAIN new
         /\ \E k \in Stored(table) :
              Stored(table') = Stored(table) \ {k} /\ Stored(new') = Stored(new) \cup {k}
<1> DEFINE k == Head(table[h])
<1>1. table[h] \in Seq(Keys) /\ table[h] # <<>>
  BY DEF IInv, TypeOK, IsTable, ExpandMove
<1>2. 1 \in DOMAIN table[h] /\ k = table[h][1] /\ Tail(table[h]) = Without(table[h], 1)
  BY <1>1, TailIsWithout
<1>3. k \in Stored(table) /\ k \in Keys
  BY <1>1, <1>2, HeadTailProperties DEF Stored, In
<1>4. k \notin Stored(new)
  BY <1>3 DEF IInv, MovedOnce
<1>5. DOMAIN new # {}
  <2>1. pc = "expand" /\ newUsed \in Nat /\ newUsed < Cardinality(DOMAIN new)
    BY DEF IInv, TypeOK, Calls, ExpandMove
  <2> QED
    BY <2>1, FS_EmptySet
<1>6. /\ DOMAIN table' = DOMAIN table /\ table'[h] = Without(table[h], 1)
      /\ \A i \in DOMAIN table : i # h => table'[i] = table[i]
  BY <1>2 DEF ExpandMove
<1>7. new' = [new EXCEPT ![Bucket(k, new)] = Cons(k, @)]
  BY DEF ExpandMove
<1>8. Sound(table') /\ DOMAIN table' = DOMAIN table /\ Stored(table') = Stored(table) \ {k}
  BY <1>2, <1>6, Pulled DEF IInv, Placed
<1>9. Sound(new') /\ DOMAIN new' = DOMAIN new /\ Stored(new') = Stored(new) \cup {k}
  <2> HIDE DEF k
  <2> QED
    BY <1>3, <1>4, <1>5, <1>7, Pushed DEF IInv, Placed
<1> QED
  BY <1>3, <1>8, <1>9

\* dictAdd puts an entry at the head of its chain.
LEMMA Inserts ==
  ASSUME IInv, pc = "insert", ~In(key, Chain),
         table' = [table EXCEPT ![Bucket(key, table)] = Cons(key, @)]
  PROVE  /\ Sound(table') /\ DOMAIN table' = DOMAIN table
         /\ key \in Keys \ Stored(table) /\ Stored(table') = Stored(table) \cup {key}
<1>1. key \in Keys /\ Sound(table) /\ used < size /\ used \in Nat
  BY DEF IInv, TypeOK, Calls, Placed
<1>2. DOMAIN table # {}
  BY <1>1, FS_EmptySet DEF size
<1>3. key \notin Stored(table)
  BY <1>1, Found DEF Chain
<1>4. table' = [table EXCEPT ![Bucket(key, table)] = Cons(key, @)]
  OBVIOUS
<1>5. Sound(table') /\ DOMAIN table' = DOMAIN table /\ Stored(table') = Stored(table) \cup {key}
  <2>1. key \in Keys /\ Sound(table)
    BY <1>1
  <2> QED
    BY <2>1, <1>2, <1>3, <1>4, Pushed
<1> QED
  BY <1>1, <1>3, <1>5

LEMMA Finds ==
  ASSUME Sound(table), NEW k \in Keys
  PROVE  /\ dictFind(k) <=> k \in Stored(table)
         /\ dictFind(k) => LET b == Bucket(k, table)
                                p == Position(k, table[b])
                            IN  b \in DOMAIN table /\ p \in DOMAIN table[b] /\ table[b][p] = k
<1>1. size # 0 <=> DOMAIN table # {}
  <2>1. size \in Nat /\ DOMAIN table = 0..size - 1
    BY DEF Sound, IsTable, size
  <2> QED
    BY <2>1
<1>2. dictFind(k) <=> k \in Stored(table)
  BY <1>1, Found DEF dictFind
<1>3. ASSUME dictFind(k)
      PROVE  Bucket(k, table) \in DOMAIN table
  BY <1>1, <1>3, BucketInTable DEF dictFind
<1>4. ASSUME dictFind(k)
      PROVE  LET c == table[Bucket(k, table)]
             IN  Position(k, c) \in DOMAIN c /\ c[Position(k, c)] = k
  BY <1>4 DEF dictFind, In, Position
<1> QED
  BY <1>2, <1>3, <1>4

LEMMA Deletes ==
  ASSUME IInv, NEW k \in Keys, dictDelete(k)
  PROVE  /\ Sound(table') /\ DOMAIN table' = DOMAIN table
         /\ k \in Stored(table) /\ Stored(table') = Stored(table) \ {k}
<1>1. Sound(table) /\ dictFind(k)
  BY DEF IInv, Placed, dictDelete
<1> DEFINE b == Bucket(k, table)
           p == Position(k, table[b])
<1>2. b \in DOMAIN table /\ p \in DOMAIN table[b] /\ table[b][p] = k /\ k \in Stored(table)
  BY <1>1, Finds
<1>3. /\ DOMAIN table' = DOMAIN table /\ table'[b] = Without(table[b], p)
      /\ \A i \in DOMAIN table : i # b => table'[i] = table[i]
  BY <1>2 DEF dictDelete
<1> QED
  <2> HIDE DEF b, p
  <2> QED
    BY <1>1, <1>2, <1>3, Pulled

-----------------------------------------------------------------------------
(* The invariant, action by action.                                        *)

LEMMA InitIInv == Init => IInv
<1> SUFFICES ASSUME Init PROVE IInv
  OBVIOUS
<1>1. /\ Sound(table) /\ size = 0 /\ Stored(table) = {}
      /\ Sound(new) /\ Stored(new) = {}
  BY ChainsSound DEF Init, size
<1>2. Cardinality({}) = 0
  BY FS_EmptySet
<1>3. TypeOK
  BY <1>1, DictionaryAssumption DEF Init, TypeOK, Sound, NoIter
<1> QED
  BY <1>1, <1>2, <1>3 DEF Init, IInv, Placed, UsedIsCount, MovedOnce, Calls, Iterating

LEMMA ReplaceKeeps ==
  ASSUME IInv, NEW k \in Keys, NEW v \in Vals, dictReplace(k, v)
  PROVE  IInv'
<1>1. /\ pc = "idle" /\ iter = NoIter /\ iter' = NoIter /\ key' = k /\ value' = v
      /\ UNCHANGED <<table, val, used, seen>> /\ new = Chains(0) /\ Sound(table)
      /\ used \in Nat /\ size \in Nat /\ used <= size /\ used = Cardinality(Stored(table))
      /\ size' = size
  BY DEF dictReplace, Idle, IInv, Calls, Placed, Sound, tableVars, iterVars, TypeOK, UsedIsCount,
         size
<1>k. k # NoKey
  BY DictionaryAssumption
<1>2. CASE pc' = "expand" /\ (size = 0 \/ used = size) /\ new' = Chains(NewSize) /\ newUsed' = used
  <2>1. NewSize \in Nat /\ used < NewSize
    BY <1>1, <1>2, DictionaryAssumption DEF NewSize
  <2>2. Sound(new') /\ Cardinality(DOMAIN new') = NewSize /\ Stored(new') = {}
    BY <1>2, <2>1, ChainsSound
  <2> QED
    BY <1>1, <1>2, <1>k, <2>1, <2>2
       DEF IInv, TypeOK, Placed, Sound, UsedIsCount, MovedOnce, Calls, Iterating
<1>3. CASE pc' \in {"insert", "update"} /\ (pc' = "insert" => size # 0 /\ used # size)
           /\ UNCHANGED <<new, newUsed>>
  BY <1>1, <1>3, <1>k DEF IInv, TypeOK, Placed, UsedIsCount, MovedOnce, Calls, Iterating
<1> QED
  BY <1>2, <1>3 DEF dictReplace

LEMMA ExpandMoveKeeps ==
  ASSUME IInv, NEW h \in DOMAIN table, ExpandMove(h)
  PROVE  IInv'
<1>1. /\ pc = "expand" /\ UNCHANGED <<val, newUsed, pc, key, value, iter, seen>>
      /\ used \in Nat /\ used' = used - 1 /\ used = Cardinality(Stored(table))
      /\ iter = NoIter /\ Stored(table) \cap Stored(new) = {}
      /\ newUsed = Cardinality(Stored(table) \cup Stored(new))
      /\ newUsed < Cardinality(DOMAIN new)
  BY DEF ExpandMove, IInv, Calls, TypeOK, UsedIsCount, MovedOnce, iterVars
<1>2. PICK k \in Stored(table) :
        Stored(table') = Stored(table) \ {k} /\ Stored(new') = Stored(new) \cup {k}
  BY Moves
<1>3. Sound(table') /\ Sound(new') /\ DOMAIN table' = DOMAIN table /\ DOMAIN new' = DOMAIN new
  BY Moves
<1>4. used' = Cardinality(Stored(table')) /\ used' \in Nat
  <2>1. IsFiniteSet(Stored(table)) /\ Cardinality(Stored(table')) \in Nat
    BY StoredFinite
  <2>2. Cardinality(Stored(table) \ {k}) = Cardinality(Stored(table)) - 1
    BY <2>1, FS_RemoveElement
  <2> QED
    BY <1>1, <1>2, <2>1, <2>2
<1>5. Stored(table') \cup Stored(new') = Stored(table) \cup Stored(new)
  BY <1>2
<1>6. size' = size
  BY <1>3 DEF size
<1>7. TypeOK'
  BY <1>1, <1>3, <1>4, <1>6 DEF IInv, TypeOK, Sound
<1>8. Stored(table') \cap Stored(new') = {}
  BY <1>1, <1>2
<1> QED
  BY <1>1, <1>3, <1>4, <1>5, <1>7, <1>8
     DEF IInv, Placed, UsedIsCount, MovedOnce, Calls, Iterating

LEMMA ExpandEndKeeps ==
  ASSUME IInv, ExpandEnd
  PROVE  IInv'
<1>1. /\ pc = "expand" /\ used = 0 /\ table' = new /\ used' = newUsed /\ new' = Chains(0)
      /\ newUsed' = 0 /\ pc' = "insert" /\ UNCHANGED <<val, key, value, iter, seen>>
      /\ iter = NoIter /\ Sound(new) /\ newUsed \in Nat
      /\ Cardinality(Stored(table)) = 0
      /\ newUsed = Cardinality(Stored(table) \cup Stored(new))
      /\ newUsed < Cardinality(DOMAIN new)
  BY DEF ExpandEnd, IInv, Calls, Placed, TypeOK, UsedIsCount, iterVars
<1>2. Stored(table) = {}
  BY <1>1, StoredFinite, FS_EmptySet
<1>3. used' = Cardinality(Stored(table'))
  BY <1>1, <1>2
<1>4. size' = Cardinality(DOMAIN new) /\ size' \in Nat
  BY <1>1 DEF size, Sound
<1>5. Sound(new') /\ Stored(new') = {}
  BY <1>1, ChainsSound
<1>6. NoIter \in [index : -1..size', entry : Keys \cup {NoKey}, next : Keys \cup {NoKey}]
  BY <1>4 DEF NoIter
<1>7. TypeOK'
  BY <1>1, <1>5, <1>6 DEF IInv, TypeOK, Sound
<1> QED
  BY <1>1, <1>3, <1>4, <1>5, <1>7 DEF IInv, Placed, UsedIsCount, MovedOnce, Calls, Iterating

LEMMA InsertKeeps ==
  ASSUME IInv, Insert
  PROVE  IInv'
<1>1. /\ pc = "insert" /\ UNCHANGED <<new, newUsed, iter, seen>> /\ iter = NoIter
      /\ key \in Keys /\ value \in Vals /\ used \in Nat /\ used < size /\ size \in Nat
      /\ new = Chains(0) /\ used = Cardinality(Stored(table))
  BY DEF Insert, IInv, Calls, Placed, Sound, TypeOK, UsedIsCount, iterVars, size
<1>2. CASE pc' = "update" /\ UNCHANGED <<key, value, table, val, used>>
  <2>1. size' = size
    BY <1>2 DEF size
  <2> QED
    BY <1>1, <1>2, <2>1 DEF IInv, TypeOK, Placed, UsedIsCount, MovedOnce, Calls, Iterating
<1>3. CASE /\ ~In(key, Chain) /\ pc' = "idle" /\ key' = NoKey /\ value' = NoVal
           /\ table' = [table EXCEPT ![Bucket(key, table)] = Cons(key, @)]
           /\ \E v \in {value, NoVal} : val' = [val EXCEPT ![key] = v]
           /\ used' = used + 1
  <2>1. /\ Sound(table') /\ DOMAIN table' = DOMAIN table
        /\ key \in Keys \ Stored(table) /\ Stored(table') = Stored(table) \cup {key}
    BY <1>1, <1>3, Inserts
  <2>2. used' = Cardinality(Stored(table'))
    BY <1>1, <1>3, <2>1, StoredFinite, FS_AddElement
  <2>3. size' = size
    BY <2>1 DEF size
  <2>4. val' \in [Keys -> Vals \cup {NoVal}]
    BY <1>1, <1>3 DEF IInv, TypeOK
  <2>5. Stored(new') = {}
    BY <1>1, ChainsSound
  <2>6. TypeOK'
    BY <1>1, <1>3, <2>1, <2>3, <2>4 DEF IInv, TypeOK, Sound
  <2> QED
    BY <1>1, <1>3, <2>1, <2>2, <2>3, <2>5, <2>6
       DEF IInv, Placed, UsedIsCount, MovedOnce, Calls, Iterating
<1> QED
  BY <1>2, <1>3 DEF Insert, GoOn, Return, tableVars

LEMMA UpdateKeeps ==
  ASSUME IInv, Update
  PROVE  IInv'
<1>1. /\ pc = "update" /\ pc' = "idle" /\ key' = NoKey /\ value' = NoVal
      /\ UNCHANGED <<table, used, new, newUsed, iter, seen>> /\ iter = NoIter
      /\ key \in Keys /\ value \in Vals /\ new = Chains(0)
  BY DEF Update, Return, IInv, Calls, iterVars
<1>2. size' = size
  BY <1>1 DEF size
<1>3. val' \in [Keys -> Vals \cup {NoVal}]
  BY <1>1 DEF Update, IInv, TypeOK
<1> QED
  BY <1>1, <1>2, <1>3 DEF IInv, TypeOK, Placed, UsedIsCount, MovedOnce, Calls, Iterating

LEMMA ReleaseKeeps ==
  ASSUME IInv, dictRelease
  PROVE  IInv'
<1>1. /\ pc = "idle" /\ table' = Chains(0) /\ val' = [k \in Keys |-> NoVal] /\ used' = 0
      /\ UNCHANGED <<new, newUsed, pc, key, value, iter, seen>> /\ iter = NoIter
  BY DEF dictRelease, Idle, callVars, iterVars
<1>2. Sound(table') /\ size' = 0 /\ Stored(table') = {}
  BY <1>1, ChainsSound DEF size
<1>3. Cardinality({}) = 0
  BY FS_EmptySet
<1>4. NoIter \in [index : -1..size', entry : Keys \cup {NoKey}, next : Keys \cup {NoKey}]
  BY <1>2 DEF NoIter
<1>5. TypeOK'
  BY <1>1, <1>2, <1>4 DEF IInv, TypeOK, Sound
<1> QED
  BY <1>1, <1>2, <1>3, <1>5 DEF IInv, Placed, UsedIsCount, MovedOnce, Calls, Iterating

\* An entry can be deleted that the iterator has returned: the one it is going to
\* return next is another, and stays where the saved pointer says.
LEMMA DeleteKeeps ==
  ASSUME IInv, NEW k \in Keys, dictDelete(k)
  PROVE  IInv'
<1>1. /\ pc = "idle" /\ (iter = NoIter \/ iter.entry = k)
      /\ UNCHANGED <<new, newUsed, pc, key, value, iter, seen>>
      /\ used' = used - 1 /\ val' = [val EXCEPT ![k] = NoVal]
      /\ used \in Nat /\ used = Cardinality(Stored(table)) /\ used <= size /\ size \in Nat
  BY DEF dictDelete, callVars, iterVars, IInv, TypeOK, UsedIsCount, Placed, Sound, size
<1>2. /\ Sound(table') /\ DOMAIN table' = DOMAIN table
      /\ k \in Stored(table) /\ Stored(table') = Stored(table) \ {k}
  BY Deletes
<1>3. used' = Cardinality(Stored(table')) /\ used' \in Nat
  <2>1. IsFiniteSet(Stored(table)) /\ Cardinality(Stored(table')) \in Nat
    BY StoredFinite
  <2>2. Cardinality(Stored(table) \ {k}) = Cardinality(Stored(table)) - 1
    BY <1>2, <2>1, FS_RemoveElement
  <2> QED
    BY <1>1, <1>2, <2>1, <2>2
<1>4. size' = size
  BY <1>2 DEF size
<1>5. val' \in [Keys -> Vals \cup {NoVal}]
  BY <1>1 DEF IInv, TypeOK
<1>6. TypeOK'
  BY <1>1, <1>2, <1>3, <1>4, <1>5 DEF IInv, TypeOK, Sound
<1> DEFINE b == Bucket(k, table)
           i == Position(k, table[b])
<1>7. b \in DOMAIN table /\ i \in DOMAIN table[b] /\ table[b][i] = k
  BY Finds DEF IInv, Placed, dictDelete
<1>8. table'[b] = Without(table[b], i) /\ \A h \in DOMAIN table : h # b => table'[h] = table[h]
  BY <1>7 DEF dictDelete
<1> HIDE DEF b, i
<1>c. table[b] \in Seq(Keys)
  BY <1>7 DEF IInv, TypeOK, IsTable
<1>l. Len(table[b]) \in Nat /\ DOMAIN table[b] = 1..Len(table[b])
  BY <1>c, LenProperties
<1>9. /\ DOMAIN table'[b] = 1..Len(table[b]) - 1
      /\ \A q \in DOMAIN table'[b] :
           /\ q < i => q \in DOMAIN table[b] /\ table'[b][q] = table[b][q]
           /\ q >= i => q + 1 \in DOMAIN table[b] /\ table'[b][q] = table[b][q + 1]
      /\ \A q \in DOMAIN table[b] :
           /\ q < i => q \in DOMAIN table'[b] /\ table'[b][q] = table[b][q]
           /\ q > i => q - 1 \in DOMAIN table'[b] /\ table'[b][q - 1] = table[b][q]
  BY <1>7, <1>8, <1>c, WithoutProperties
\* Nothing comes into a chain, and what stays keeps its order.
<1>10. \A h \in DOMAIN table : \A q \in DOMAIN table'[h] : \E p \in DOMAIN table[h] :
         table'[h][q] = table[h][p]
  <2>1. \A q \in DOMAIN table'[b] : q < i \/ q >= i
    BY <1>7, <1>9, <1>l
  <2>2. \A q \in DOMAIN table'[b] : \E p \in DOMAIN table[b] : table'[b][q] = table[b][p]
    BY <1>9, <2>1
  <2> QED
    BY <1>8, <2>2
<1>11. Iterating'
  <2> SUFFICES ASSUME iter # NoIter
               PROVE  /\ iter.index > 0 => Behind(table[iter.index - 1])'
                      /\ \A h \in DOMAIN table : h < iter.index - 1 =>
                           \A p \in DOMAIN table'[h] : table'[h][p] \in seen
    BY <1>1, <1>2, <1>4 DEF IInv, Iterating
  <2>1. \A h \in DOMAIN table : h < iter.index - 1 =>
           \A p \in DOMAIN table'[h] : table'[h][p] \in seen
    BY <1>10 DEF IInv, Iterating
  <2>2. ASSUME iter.index > 0 PROVE Behind(table[iter.index - 1])'
    <3> DEFINE h == iter.index - 1
    <3>1. h \in DOMAIN table /\ iter.next # k /\ Behind(table[h])
      BY <1>1, <2>2 DEF IInv, Iterating, Placed, Sound, IsTable, size
    <3> HIDE DEF h
    <3>2. CASE iter.next = NoKey
      BY <1>1, <1>10, <3>1, <3>2 DEF Behind, h
    <3>3. CASE iter.next # NoKey
      <4>1. PICK p \in DOMAIN table[h] : /\ table[h][p] = iter.next
                                        /\ \A q \in 1..p - 1 : table[h][q] \in seen
        BY <3>1, <3>3 DEF Behind
      <4>2. CASE h # b
        BY <1>1, <1>8, <3>1, <3>3, <4>1, <4>2 DEF Behind, h
      <4>3. CASE h = b
        <5>1. p # i /\ p \in Nat /\ i \in Nat
          BY <1>7, <1>l, <3>1, <4>1, <4>3
        <5>2. CASE p < i
          <6>1. p \in DOMAIN table'[h] /\ table'[h][p] = iter.next
            BY <1>9, <4>1, <4>3, <5>2
          <6>2. ASSUME NEW q \in 1..p - 1 PROVE table'[h][q] \in seen
            <7>1. q \in DOMAIN table[b] /\ q < i
              BY <1>l, <4>1, <4>3, <5>1, <5>2
            <7> QED
              BY <1>9, <4>1, <4>3, <7>1
          <6> QED
            BY <1>1, <3>3, <6>1, <6>2 DEF Behind, h
        <5>3. CASE p > i
          <6>1. p - 1 \in DOMAIN table'[h] /\ table'[h][p - 1] = iter.next
            BY <1>9, <4>1, <4>3, <5>3
          <6>2. ASSUME NEW q \in 1..(p - 1) - 1 PROVE table'[h][q] \in seen
            <7>1. q \in DOMAIN table'[b] /\ q \in 1..p - 1 /\ q + 1 \in 1..p - 1
              BY <1>l, <1>9, <4>1, <4>3, <5>1
            <7>2. table'[b][q] = table[b][q] \/ table'[b][q] = table[b][q + 1]
              BY <1>9, <5>1, <7>1
            <7> QED
              BY <4>1, <4>3, <7>1, <7>2
          <6> QED
            BY <1>1, <3>3, <6>1, <6>2 DEF Behind, h
        <5> QED
          BY <5>1, <5>2, <5>3
      <4> QED
        BY <4>2, <4>3
    <3> QED
      BY <3>2, <3>3
  <2> QED
    BY <2>1, <2>2
<1> QED
  BY <1>1, <1>2, <1>3, <1>4, <1>6, <1>11 DEF IInv, Placed, UsedIsCount, MovedOnce, Calls

\* The key behind the one returned is the next one, and not that one itself.
LEMMA GoKeeps ==
  ASSUME IInv, NEW h \in 1..size, NEW p \in DOMAIN table[h - 1], Go(h, p),
         \A q \in 1..p - 1 : table[h - 1][q] \in seen,
         \A g \in DOMAIN table : g < h - 1 => \A q \in DOMAIN table[g] : table[g][q] \in seen,
         UNCHANGED <<tableVars, callVars>>, pc = "idle"
  PROVE  IInv'
<1> DEFINE c == table[h - 1]
           k == c[p]
<1>1. size \in Nat /\ DOMAIN table = 0..size - 1 /\ h - 1 \in DOMAIN table
  BY DEF IInv, Placed, Sound, IsTable, size
<1>2. c \in Seq(Keys) /\ \A i, j \in DOMAIN c : c[i] = c[j] => i = j
  BY <1>1 DEF IInv, Placed, Sound, IsTable, WellPlaced
<1>3. Len(c) \in Nat /\ DOMAIN c = 1..Len(c) /\ \A i \in DOMAIN c : c[i] \in Keys
  BY <1>2, LenProperties
<1>4. iter' = [index |-> h, entry |-> k, next |-> After(h, p)] /\ seen' = seen \cup {k}
  BY DEF Go
<1>5. UNCHANGED <<table, val, used, new, newUsed, pc, key, value, size>>
  BY DEF tableVars, callVars, size
<1>6. k \in Keys /\ k # NoKey /\ seen \subseteq Keys
  BY <1>3, DictionaryAssumption DEF IInv, TypeOK
<1>7. /\ After(h, p) = IF p < Len(c) THEN c[p + 1] ELSE NoKey
      /\ After(h, p) \in Keys \cup {NoKey} /\ After(h, p) # k
  BY <1>2, <1>3, <1>6 DEF After
<1> HIDE DEF c
<1>8. Behind(c)'
  <2> SUFFICES IF After(h, p) = NoKey THEN \A q \in DOMAIN c : c[q] \in seen'
               ELSE \E q \in DOMAIN c : c[q] = After(h, p) /\ \A r \in 1..q - 1 : c[r] \in seen'
    BY <1>4, <1>5 DEF Behind, c
  <2>1. \A q \in 1..p : c[q] \in seen'
    BY <1>3, <1>4 DEF c
  <2>2. CASE p < Len(c)
    <3>1. p + 1 \in DOMAIN c /\ c[p + 1] = After(h, p) /\ (p + 1) - 1 = p
      BY <1>3, <1>7, <2>2 DEF c
    <3>2. After(h, p) # NoKey
      BY <1>3, <3>1, DictionaryAssumption
    <3> QED
      BY <2>1, <3>1, <3>2
  <2>3. CASE p >= Len(c)
    BY <1>3, <1>7, <2>1, <2>3 DEF c
  <2>4. p < Len(c) \/ p >= Len(c)
    BY <1>3 DEF c
  <2> QED
    BY <2>2, <2>3, <2>4
<1>9. Iterating'
  BY <1>1, <1>4, <1>5, <1>6, <1>7, <1>8 DEF Iterating, c
<1>10. TypeOK'
  BY <1>1, <1>4, <1>5, <1>6, <1>7 DEF IInv, TypeOK
<1> QED
  BY <1>5, <1>9, <1>10 DEF IInv, Placed, UsedIsCount, MovedOnce, Calls

LEMMA dictNextKeeps ==
  ASSUME IInv, dictNext
  PROVE  IInv'
<1>1. /\ pc = "idle" /\ iter # NoIter /\ UNCHANGED <<tableVars, callVars>>
      /\ iter.index \in 0..size /\ size \in Nat /\ DOMAIN table = 0..size - 1
  BY DEF dictNext, IInv, Iterating, Placed, Sound, IsTable, size
<1>c. \A h \in 1..size : h - 1 \in DOMAIN table /\ table[h - 1] \in Seq(Keys)
  BY <1>1 DEF IInv, TypeOK, IsTable
<1>2. CASE /\ iter.entry # NoKey /\ iter.next # NoKey
           /\ Go(iter.index, Position(iter.next, table[iter.index - 1]))
  <2> DEFINE h == iter.index
  <2>1. h \in 1..size /\ Behind(table[h - 1])
    BY <1>1, <1>2 DEF IInv, Iterating
  <2>2. PICK p \in DOMAIN table[h - 1] : /\ table[h - 1][p] = iter.next
                                        /\ \A q \in 1..p - 1 : table[h - 1][q] \in seen
    BY <1>2, <2>1 DEF Behind
  <2>3. \A q \in DOMAIN table[h - 1] : table[h - 1][q] = iter.next => q = p
    BY <1>c, <2>1, <2>2 DEF IInv, Placed, Sound, WellPlaced
  <2>4. Position(iter.next, table[h - 1]) = p
    BY <2>2, <2>3 DEF Position
  <2>5. \A g \in DOMAIN table : g < h - 1 => \A q \in DOMAIN table[g] : table[g][q] \in seen
    BY <1>1 DEF IInv, Iterating
  <2> HIDE DEF h
  <2> QED
    BY <1>1, <1>2, <2>1, <2>2, <2>4, <2>5, GoKeeps DEF h
<1>3. CASE iter.entry = NoKey \/ iter.next = NoKey
  <2>1. PICK h \in iter.index + 1..size :
          /\ table[h - 1] # <<>>
          /\ \A i \in iter.index + 1..h - 1 : table[i - 1] = <<>>
          /\ Go(h, 1)
    BY <1>3 DEF dictNext
  <2>2. h \in 1..size
    BY <1>1, <2>1
  <2>3. 1 \in DOMAIN table[h - 1]
    BY <1>c, <2>1, <2>2, TailIsWithout
  <2>4. ASSUME NEW g \in DOMAIN table, g < h - 1, NEW q \in DOMAIN table[g]
        PROVE  table[g][q] \in seen
    <3>1. CASE g < iter.index - 1
      BY <1>1, <2>4, <3>1 DEF IInv, Iterating
    <3>2. CASE g = iter.index - 1
      <4>1. iter.index > 0 /\ iter.next = NoKey
        BY <1>1, <1>3, <2>4, <3>2 DEF IInv, Iterating
      <4> QED
        BY <1>1, <2>4, <3>2, <4>1 DEF IInv, Iterating, Behind
    <3>3. CASE g >= iter.index
      <4>1. g + 1 \in iter.index + 1..h - 1 /\ (g + 1) - 1 = g
        BY <1>1, <2>2, <2>4, <3>3
      <4>2. table[g] = <<>>
        BY <2>1, <4>1
      <4> QED
        BY <2>4, <4>2, EmptySeq
    <3> QED
      BY <1>1, <2>4, <3>1, <3>2, <3>3
  <2>5. \A q \in 1..1 - 1 : table[h - 1][q] \in seen
    OBVIOUS
  <2> QED
    BY <1>1, <2>1, <2>2, <2>3, <2>4, <2>5, GoKeeps
<1> QED
  BY <1>2, <1>3 DEF dictNext

LEMMA IteratorKeeps ==
  ASSUME IInv, dictGetIterator \/ dictReleaseIterator
  PROVE  IInv'
<1>1. pc = "idle" /\ UNCHANGED <<table, val, used, new, newUsed, pc, key, value, size>>
  BY DEF dictGetIterator, dictReleaseIterator, Idle, AtEnd, tableVars, callVars, size
<1>2. size \in Nat /\ DOMAIN table = 0..size - 1
  BY DEF IInv, Placed, Sound, IsTable, size
<1>3. /\ iter' \in {NewIter, NoIter} /\ seen' \subseteq Keys
      /\ NewIter = [index |-> 0, entry |-> NoKey, next |-> NoKey]
  BY DEF dictGetIterator, dictReleaseIterator, NewIter, NoIter, IInv, TypeOK
<1>4. TypeOK'
  BY <1>1, <1>2, <1>3 DEF IInv, TypeOK, NoIter
<1>5. Iterating'
  BY <1>1, <1>2, <1>3 DEF Iterating
<1> QED
  BY <1>1, <1>4, <1>5 DEF IInv, Placed, UsedIsCount, MovedOnce, Calls

-----------------------------------------------------------------------------
(* The theorems.                                                           *)

LEMMA StepKeeps ==
  ASSUME IInv, [Next]_vars
  PROVE  IInv'
<1>1. CASE UNCHANGED vars
  BY <1>1 DEF vars, tableVars, callVars, iterVars, IInv, TypeOK, Placed, UsedIsCount, MovedOnce,
              Calls, Iterating, Behind, size
<1>2. CASE \E k \in Keys, v \in Vals : dictReplace(k, v)
  BY <1>2, ReplaceKeeps
<1>3. CASE \E h \in DOMAIN table : ExpandMove(h)
  BY <1>3, ExpandMoveKeeps
<1>4. CASE ExpandEnd \/ Insert \/ Update
  BY <1>4, ExpandEndKeeps, InsertKeeps, UpdateKeeps
<1>5. CASE \E k \in Keys : dictDelete(k)
  BY <1>5, DeleteKeeps
<1>6. CASE dictRelease \/ dictGetIterator \/ dictNext \/ dictReleaseIterator
  BY <1>6, ReleaseKeeps, IteratorKeeps, dictNextKeeps
<1> QED
  BY <1>1, <1>2, <1>3, <1>4, <1>5, <1>6 DEF Next

\* The inductive invariant of the hash table holds in every state.
THEOREM Invariance == Spec => []IInv
<1>1. IInv /\ [Next]_vars => IInv'
  BY StepKeeps
<1> QED
  BY InitIInv, <1>1, PTL DEF Spec

\* A key is found again where its hash says, at one place, ht->used counts the entries, and
\* none is in both tables while dictExpand moves them: whatever allocations fail, for
\* any keys and any hash.
THEOREM TableStaysSound == Spec => []TableSound
<1>1. IInv => TableSound
  BY DEF IInv, Placed, Sound, TableSound, KeysFindable
<1> QED
  BY Invariance, <1>1, PTL

\* An iteration that has come to its end has met every entry that is still there, and its
\* saved pointer never leads to one that was freed, although entries are deleted under it.
THEOREM IterationMeetsAll == Spec => []IterationSound
<1> SUFFICES ASSUME IInv PROVE IterationSound
  BY Invariance, PTL
<1>1. size \in Nat /\ DOMAIN table = 0..size - 1 /\ \A h \in DOMAIN table : table[h] \in Seq(Keys)
  BY DEF IInv, Placed, Sound, IsTable, size
<1>2. ASSUME AtEnd, NEW k \in Stored(table) PROVE k \in seen
  <2>1. PICK h \in DOMAIN table : In(k, table[h])
    BY DEF Stored
  <2>2. PICK p \in DOMAIN table[h] : table[h][p] = k
    BY <2>1 DEF In
  <2>3. iter # NoIter /\ iter.index \in 0..size
    BY <1>2 DEF AtEnd, IInv, Iterating
  <2>4. CASE h < iter.index - 1
    BY <2>2, <2>3, <2>4 DEF IInv, Iterating
  <2>5. CASE h = iter.index - 1
    <3>1. iter.index > 0 /\ iter.next = NoKey
      BY <1>1, <1>2, <2>3, <2>5 DEF AtEnd, IInv, Iterating
    <3> QED
      BY <2>2, <2>3, <2>5, <3>1 DEF IInv, Iterating, Behind
  <2>6. CASE h >= iter.index
    <3>1. h + 1 \in iter.index + 1..size /\ (h + 1) - 1 = h
      BY <1>1, <2>3, <2>6
    <3>2. table[h] = <<>>
      BY <1>2, <3>1 DEF AtEnd
    <3> QED
      BY <2>2, <3>2, EmptySeq
  <2> QED
    BY <1>1, <2>3, <2>4, <2>5, <2>6
<1>3. ASSUME iter # NoIter, iter.next # NoKey PROVE iter.next \in Stored(table)
  <2>1. iter.index \in 1..size /\ Behind(table[iter.index - 1])
    BY <1>1, <1>3 DEF IInv, Iterating
  <2>2. iter.index - 1 \in DOMAIN table /\ In(iter.next, table[iter.index - 1])
    BY <1>1, <1>3, <2>1 DEF Behind, In
  <2>3. iter.next \in Keys
    BY <1>3, <1>1, <2>2, LenProperties DEF In
  <2> QED
    BY <2>2, <2>3 DEF Stored
<1> QED
  BY <1>2, <1>3 DEF IterationSound, IterationComplete, NextIsStored

\* The map the table stands for.
Present == Stored(table) \cup Stored(new)

LEMMA MapUnchanged ==
  ASSUME Present' = Present, val' = val
  PROVE  UNCHANGED [k \in Stored(table) \cup Stored(new) |-> val[k]]
BY DEF Present

\* A put, if the key is there afterwards and no other comes or changes.
LEMMA MapPut ==
  ASSUME NEW k \in Keys, NEW v \in Vals \cup {NoVal}, val \in [Keys -> Vals \cup {NoVal}],
         Present' = Present \cup {k}, val' = [val EXCEPT ![k] = v]
  PROVE  Map!Next
<1>1. Present \subseteq Keys
  BY DEF Present, Stored
<1>2. Map!Put(k, v)
  BY <1>1 DEF Map!Put, Present
<1> QED
  BY <1>2 DEF Map!Next

LEMMA StepRefines ==
  ASSUME IInv, [Next]_vars
  PROVE  Map!Next \/ UNCHANGED [k \in Stored(table) \cup Stored(new) |-> val[k]]
<1>1. CASE UNCHANGED vars \/ dictGetIterator \/ dictNext \/ dictReleaseIterator
  <2>1. UNCHANGED <<table, new, val>>
    BY <1>1 DEF vars, tableVars, callVars, dictGetIterator, dictNext, dictReleaseIterator
  <2> QED
    BY <2>1
<1>2. ASSUME NEW k \in Keys, NEW v \in Vals, dictReplace(k, v)
      PROVE  UNCHANGED [i \in Stored(table) \cup Stored(new) |-> val[i]]
  <2>1. UNCHANGED <<table, val, used>> /\ new = Chains(0) /\ size \in Nat
    BY <1>2 DEF dictReplace, Idle, tableVars, IInv, Calls, Placed, Sound, size
  <2>2. CASE new' = new
    BY <2>1, <2>2
  <2>3. CASE new' = Chains(NewSize)
    <3>1. NewSize \in Nat
      BY <2>1, DictionaryAssumption DEF NewSize
    <3>2. Stored(new) = {} /\ Stored(new') = {}
      BY <2>1, <2>3, <3>1, ChainsSound
    <3> QED
      BY <2>1, <3>2, MapUnchanged DEF Present
  <2> QED
    BY <1>2, <2>2, <2>3 DEF dictReplace
<1>3. ASSUME NEW h \in DOMAIN table, ExpandMove(h)
      PROVE  UNCHANGED [i \in Stored(table) \cup Stored(new) |-> val[i]]
  <2>1. val' = val /\ Present' = Present
    BY <1>3, Moves DEF ExpandMove, Present
  <2> QED
    BY <2>1, MapUnchanged
<1>4. CASE ExpandEnd
  <2>1. table' = new /\ new' = Chains(0) /\ val' = val /\ Cardinality(Stored(table)) = 0
    BY <1>4 DEF ExpandEnd, IInv, UsedIsCount
  <2>2. Stored(table) = {} /\ Stored(new') = {}
    BY <2>1, StoredFinite, FS_EmptySet, ChainsSound
  <2> QED
    BY <2>1, <2>2, MapUnchanged DEF Present
<1>5. CASE Insert
  <2>1. /\ pc = "insert" /\ new' = new /\ new = Chains(0) /\ key \in Keys /\ value \in Vals
        /\ val \in [Keys -> Vals \cup {NoVal}]
    BY <1>5 DEF Insert, IInv, Calls, TypeOK
  <2>2. CASE UNCHANGED <<table, val>>
    BY <2>1, <2>2
  <2>3. CASE /\ ~In(key, Chain) /\ table' = [table EXCEPT ![Bucket(key, table)] = Cons(key, @)]
             /\ \E v \in {value, NoVal} : val' = [val EXCEPT ![key] = v]
    <3>1. Stored(table') = Stored(table) \cup {key}
      BY <2>1, <2>3, Inserts
    <3>2. Present' = Present \cup {key}
      BY <2>1, <3>1 DEF Present
    <3> QED
      BY <2>1, <2>3, <3>2, MapPut
  <2> QED
    BY <1>5, <2>2, <2>3 DEF Insert, tableVars
<1>6. CASE Update
  <2>1. /\ new' = new /\ table' = table /\ key \in Keys /\ value \in Vals /\ Sound(table)
        /\ val \in [Keys -> Vals \cup {NoVal}]
    BY <1>6 DEF Update, IInv, Calls, TypeOK, Placed
  <2>2. CASE dictFind(key) /\ \E v \in {value, NoVal} : val' = [val EXCEPT ![key] = v]
    <3>1. key \in Stored(table)
      BY <2>1, <2>2, Finds
    <3>2. Present' = Present \cup {key}
      BY <2>1, <3>1 DEF Present
    <3> QED
      BY <2>1, <2>2, <3>2, MapPut
  <2>3. CASE val' = val
    BY <2>1, <2>3
  <2> QED
    BY <1>6, <2>2, <2>3 DEF Update
<1>7. ASSUME NEW k \in Keys, dictDelete(k)
      PROVE  Map!Next
  <2>1. /\ k \in Stored(table) /\ Stored(table') = Stored(table) \ {k} /\ new' = new
        /\ new = Chains(0) /\ val' = [val EXCEPT ![k] = NoVal]
        /\ val \in [Keys -> Vals \cup {NoVal}]
    BY <1>7, Deletes DEF dictDelete, callVars, IInv, Calls, TypeOK
  <2>2. Stored(new) = {} /\ Stored(table) \subseteq Keys
    BY <2>1, ChainsSound, StoredFinite
  <2>3. Map!Remove(k)
    BY <2>1, <2>2 DEF Map!Remove
  <2> QED
    BY <2>3 DEF Map!Next
<1>8. CASE dictRelease
  <2>1. table' = Chains(0) /\ new' = new /\ new = Chains(0)
    BY <1>8 DEF dictRelease, Idle, callVars, IInv, Calls
  <2>2. Stored(table') = {} /\ Stored(new') = {}
    BY <2>1, ChainsSound
  <2>3. Map!Clear
    BY <2>2 DEF Map!Clear
  <2> QED
    BY <2>3 DEF Map!Next
<1> QED
  BY <1>1, <1>2, <1>3, <1>4, <1>5, <1>6, <1>7, <1>8 DEF Next

\* dict.c, with its chains, its expansion entry by entry and its failing allocations, is
\* what async.c takes it for: a map that changes one key at a time.
THEOREM TableIsMap == Spec => ImplementsMap
<1>1. Init => Map!Init
  <2> SUFFICES ASSUME Init PROVE Map!Init
    OBVIOUS
  <2>1. Stored(table) = {} /\ Stored(new) = {}
    BY ChainsSound DEF Init
  <2> QED
    BY <2>1 DEF Map!Init
<1>2. IInv /\ [Next]_vars => [Map!Next]_([k \in Stored(table) \cup Stored(new) |-> val[k]])
  BY StepRefines
<1> QED
  BY Invariance, <1>1, <1>2, PTL DEF Spec, ImplementsMap, Map!Spec
=============================================================================
