--------------------------- MODULE ProtocolProofs ---------------------------
(***************************************************************************)
(* Proofs about the reader of the protocol, for any bytes, cut anywhere,   *)
(* and any sizes of the stack, the buffer and the integers: the stack of   *)
(* tasks and the objects under construction agree at every step.  And      *)
(* about the formatting of commands, for any format and any words: the     *)
(* length computed beforehand is the length written.                       *)
(***************************************************************************)
EXTENDS ReplyReader, CommandFormat, FiniteSetTheorems, SequenceTheorems, TLAPS

-----------------------------------------------------------------------------
(* Least and greatest.                                                     *)

LEMMA LeastNumber ==
  ASSUME NEW T, T \subseteq Nat, T # {}
  PROVE  \E x \in T : \A y \in T : x <= y
<1> DEFINE R == OpToRel(<, Nat)
<1>1. IsWellFoundedOn(R, Nat)
  BY NatLessThanWellFounded
<1>2. \A x, y \in Nat : x < y => << x, y >> \in R
  BY DEF OpToRel
<1> HIDE DEF R
<1>3. PICK x \in T : \A y \in T : << y, x >> \notin R
  BY <1>1, WFMin
<1>4. ASSUME NEW y \in T PROVE x <= y
  <2>1. x \in Nat /\ y \in Nat
    OBVIOUS
  <2>2. ~(y < x)
    BY <1>2, <1>3, <2>1
  <2> QED
    BY <2>1, <2>2
<1> QED
  BY <1>4

LEMMA MinIsMember ==
  ASSUME NEW T, T \subseteq Nat, T # {}
  PROVE  Min(T) \in T
BY LeastNumber DEF Min

LEMMA MaxIsMember ==
  ASSUME NEW n \in Nat, NEW T, T \subseteq 1..n, T # {}
  PROVE  Max(T) \in T
<1>0. \A x \in T : x \in Nat /\ n - x \in Nat
  OBVIOUS
<1> DEFINE D == {n - x : x \in T}
<1>1. D \subseteq Nat /\ D # {}
  BY <1>0
<1>2. PICK d \in D : \A y \in D : d <= y
  <2> HIDE DEF D
  <2> QED
    BY <1>1, LeastNumber
<1>3. PICK x \in T : d = n - x
  OBVIOUS
<1>4. ASSUME NEW y \in T PROVE x >= y
  <2>1. d <= n - y
    BY <1>2
  <2>2. x \in Nat /\ y \in Nat
    BY <1>0
  <2> QED
    BY <1>3, <2>1, <2>2
<1>5. \E z \in T : \A y \in T : z >= y
  BY <1>4
<1> QED
  BY <1>5 DEF Max

-----------------------------------------------------------------------------
(* The stack t with level r on top, and the objects h it builds.           *)

\* The open aggregates are the objects of the levels below the top, one each, and the
\* element that each level is at is within the bounds of the level below.
Chain(t, r, h) ==
  /\ \A k \in 0..r - 1 :
       /\ t[k].obj \in DOMAIN h
       /\ t[k].elements \in Nat \ {0}
       /\ h[t[k].obj].elements = t[k].elements
  /\ \A k, l \in 0..r - 1 : t[k].obj = t[l].obj => k = l
  /\ \A k \in 1..r : t[k].idx \in 0..t[k - 1].elements - 1

\* An open aggregate has no element behind the one its level is at ...
AtMost(t, r, h) ==
  \A k \in 1..r : \A o \in DOMAIN h : h[o].parent = t[k - 1].obj => h[o].idx <= t[k].idx
\* ... and at the top that one is still to come.
Below(t, r, h) ==
  r >= 1 => \A o \in DOMAIN h : h[o].parent = t[r - 1].obj => h[o].idx < t[r].idx

Levels(t, r, h) == Chain(t, r, h) /\ AtMost(t, r, h) /\ Below(t, r, h)

\* The objects hang in slots of their own, the parents before their elements.
Tree(h) ==
  /\ \E S : h \in Seq(S)
  /\ \A i \in DOMAIN h :
       /\ h[i].elements \in Nat /\ h[i].parent \in Nat /\ h[i].idx \in Int
       /\ IF i = 1 THEN h[i].parent = NULL
          ELSE /\ h[i].parent \in 1..i - 1
               /\ h[i].idx \in 0..h[h[i].parent].elements - 1
  /\ \A i, k \in DOMAIN h : h[i].parent = h[k].parent /\ h[i].idx = h[k].idx => i = k

\* What an object is told by the stack: where it goes.
Goes(x, t, r) ==
  /\ x.parent = (IF r = 0 THEN NULL ELSE t[r - 1].obj)
  /\ x.idx = t[r].idx /\ x.elements \in Nat

LEMMA AppendIs ==
  ASSUME NEW h, \E S : h \in Seq(S), NEW x
  PROVE  /\ \E S : Append(h, x) \in Seq(S)
         /\ Len(h) \in Nat /\ Len(Append(h, x)) = Len(h) + 1
         /\ DOMAIN h = 1..Len(h) /\ DOMAIN Append(h, x) = 1..Len(h) + 1
         /\ \A i \in DOMAIN h : Append(h, x)[i] = h[i]
         /\ Append(h, x)[Len(h) + 1] = x
<1>1. PICK S : h \in Seq(S)
  OBVIOUS
<1> DEFINE T == S \cup {x}
<1>2. h \in Seq(T) /\ x \in T
  BY <1>1
<1> HIDE DEF T
<1>3. /\ Append(h, x) \in Seq(T)
      /\ Len(Append(h, x)) = Len(h) + 1
      /\ \A i \in 1..Len(h) : Append(h, x)[i] = h[i]
      /\ Append(h, x)[Len(h) + 1] = x
  BY <1>2, AppendProperties
<1>4. Len(h) \in Nat /\ DOMAIN h = 1..Len(h)
  BY <1>2
<1>5. DOMAIN Append(h, x) = 1..Len(Append(h, x))
  BY <1>3
<1> QED
  BY <1>3, <1>4, <1>5

\* The stack is there, up to its top.
Stack(t, n, r) == n \in Nat /\ t \in [0..n - 1 -> Tasks] /\ r \in 0..n - 1

LEMMA TasksTyped ==
  ASSUME NEW t, NEW n, NEW r, Stack(t, n, r), NEW k \in 0..r
  PROVE  /\ k \in 0..n - 1 /\ t[k] \in Tasks
         /\ t[k].idx \in Int /\ t[k].elements \in Int /\ t[k].obj \in Nat
BY DEF Stack, Tasks

\* A new object keeps the tree, and takes the slot the top was waiting for.
LEMMA ObjectIsHung ==
  ASSUME NEW t, NEW n, NEW r, Stack(t, n, r), NEW h, Tree(h), Levels(t, r, h),
         r = 0 => h = <<>>, NEW x, Goes(x, t, r)
  PROVE  /\ Tree(Append(h, x)) /\ Chain(t, r, Append(h, x)) /\ AtMost(t, r, Append(h, x))
<1> DEFINE g == Append(h, x)
           m == Len(h) + 1
<1>1. /\ \E S : g \in Seq(S)
      /\ Len(h) \in Nat /\ DOMAIN h = 1..Len(h) /\ DOMAIN g = 1..m
      /\ \A i \in DOMAIN h : g[i] = h[i]
      /\ g[m] = x
  <2>1. \E S : h \in Seq(S)
    BY DEF Tree
  <2>2. /\ \E S : Append(h, x) \in Seq(S)
        /\ Len(h) \in Nat /\ DOMAIN h = 1..Len(h) /\ DOMAIN Append(h, x) = 1..Len(h) + 1
        /\ \A i \in DOMAIN h : Append(h, x)[i] = h[i]
        /\ Append(h, x)[Len(h) + 1] = x
    <3> HIDE DEF g, m
    <3>1. \E S : Append(h, x) \in Seq(S)
      BY <2>1, AppendIs
    <3>2. Len(h) \in Nat /\ DOMAIN h = 1..Len(h) /\ DOMAIN Append(h, x) = 1..Len(h) + 1
      BY <2>1, AppendIs
    <3>3. \A i \in DOMAIN h : Append(h, x)[i] = h[i]
      BY <2>1, AppendIs
    <3>4. Append(h, x)[Len(h) + 1] = x
      BY <2>1, AppendIs
    <3> QED
      BY <3>1, <3>2, <3>3, <3>4
  <2> QED
    BY <2>2
<1>2. m \in Nat /\ DOMAIN g = DOMAIN h \cup {m} /\ m \notin DOMAIN h
  BY <1>1
<1> HIDE DEF g, m
<1>3. CASE r = 0
  <2>1. m = 1 /\ DOMAIN h = {}
    BY <1>1, <1>3 DEF m
  <2>2. x.parent = NULL /\ x.elements \in Nat /\ x.idx \in Int
    BY <1>3, TasksTyped DEF Goes
  <2>3. Tree(g)
    BY <1>1, <1>2, <2>1, <2>2 DEF Tree, NULL
  <2>4. Chain(t, r, g) /\ AtMost(t, r, g)
    BY <1>3 DEF Chain, AtMost
  <2> QED
    BY <2>3, <2>4 DEF g
<1>4. CASE r # 0
  <2>1. r \in Nat /\ r >= 1 /\ r - 1 \in 0..r - 1 /\ r \in 1..r /\ r - 1 \in 0..r /\ r \in 0..r
    BY <1>4 DEF Stack
  <2> DEFINE p == t[r - 1].obj
  <2>2. /\ x.parent = p /\ x.idx = t[r].idx /\ x.elements \in Nat
    BY <1>4 DEF Goes
  <2>3. p \in DOMAIN h /\ x.idx \in 0..h[p].elements - 1 /\ x.idx \in Int
    <3>1. p \in DOMAIN h /\ h[p].elements = t[r - 1].elements
      BY <2>1 DEF Levels, Chain
    <3>2. t[r].idx \in 0..t[r - 1].elements - 1
      BY <2>1 DEF Levels, Chain
    <3>3. t[r].idx \in Int
      BY <2>1, TasksTyped
    <3> QED
      BY <2>2, <3>1, <3>2, <3>3
  <2>4. \A o \in DOMAIN h : h[o].parent = p => h[o].idx < x.idx
    BY <2>1, <2>2 DEF Levels, Below
  <2>5. p \in Nat /\ p # m /\ p \in 1..m - 1 /\ m # 1
    BY <1>1, <2>3 DEF m
  <2> HIDE DEF p
  <2>6. Tree(g)
    <3>1. ASSUME NEW i \in DOMAIN g
          PROVE  /\ g[i].elements \in Nat /\ g[i].parent \in Nat /\ g[i].idx \in Int
                 /\ IF i = 1 THEN g[i].parent = NULL
                    ELSE /\ g[i].parent \in 1..i - 1
                         /\ g[i].idx \in 0..g[g[i].parent].elements - 1
      <4>1. CASE i = m
        <5>1. g[p] = h[p] /\ g[i] = x
          BY <1>1, <2>3, <4>1
        <5> QED
          BY <2>2, <2>3, <2>5, <4>1, <5>1
      <4>2. CASE i \in DOMAIN h
        <5>1. g[i] = h[i]
          BY <1>1, <4>2
        <5>2. /\ h[i].elements \in Nat /\ h[i].parent \in Nat /\ h[i].idx \in Int
              /\ IF i = 1 THEN h[i].parent = NULL
                 ELSE /\ h[i].parent \in 1..i - 1
                      /\ h[i].idx \in 0..h[h[i].parent].elements - 1
          BY <4>2 DEF Tree
        <5>3. CASE i = 1
          BY <5>1, <5>2, <5>3
        <5>4. CASE i # 1
          <6>1. h[i].parent \in DOMAIN h
            BY <1>1, <4>2, <5>2, <5>4
          <6>2. g[h[i].parent] = h[h[i].parent]
            BY <1>1, <6>1
          <6> QED
            BY <5>1, <5>2, <5>4, <6>2
        <5> QED
          BY <5>3, <5>4
      <4> QED
        BY <1>2, <4>1, <4>2
    <3>2. ASSUME NEW i \in DOMAIN h PROVE ~(h[i].parent = x.parent /\ h[i].idx = x.idx)
      <4>1. h[i].idx \in Int
        BY DEF Tree
      <4> QED
        BY <2>2, <2>3, <2>4, <4>1
    <3>3. \A i, k \in DOMAIN g : g[i].parent = g[k].parent /\ g[i].idx = g[k].idx => i = k
      <4>1. \A i, k \in DOMAIN h : h[i].parent = h[k].parent /\ h[i].idx = h[k].idx => i = k
        BY DEF Tree
      <4> QED
        BY <1>1, <1>2, <3>2, <4>1
    <3> QED
      BY <1>1, <3>1, <3>3 DEF Tree
  <2>7. Chain(t, r, g)
    BY <1>1, <1>2 DEF Levels, Chain
  <2>8. AtMost(t, r, g)
    <3> SUFFICES ASSUME NEW k \in 1..r, NEW o \in DOMAIN g, g[o].parent = t[k - 1].obj
                 PROVE  g[o].idx <= t[k].idx
      BY DEF AtMost
    <3>1. CASE o \in DOMAIN h
      BY <1>1, <3>1 DEF Levels, AtMost
    <3>2. CASE o = m
      <4>1. g[o] = x /\ k - 1 \in 0..r - 1 /\ t[k - 1].obj = p
        BY <1>1, <2>1, <2>2, <3>2
      <4>2. k - 1 = r - 1
        BY <2>1, <4>1 DEF Levels, Chain, p
      <4>3. k = r
        BY <2>1, <4>2
      <4> QED
        BY <2>1, <2>2, <2>3, <4>1, <4>3
    <3> QED
      BY <1>2, <3>1, <3>2
  <2> QED
    BY <2>6, <2>7, <2>8 DEF g
<1> QED
  BY <1>3, <1>4

-----------------------------------------------------------------------------
(* The stack moves.                                                        *)

\* moveToNextTask, from the stack t with level r on top to t2 with r2 on top.
Moves(t, r, t2, r2) ==
  \/ r2 = -1 /\ t2 = t
  \/ /\ r2 \in Unfinished(t, r)
     /\ t2 = [t EXCEPT ![r2].type = "none", ![r2].elements = -1, ![r2].idx = @ + 1]

LEMMA UnfinishedIs ==
  ASSUME NEW t, NEW r \in Nat, Unfinished(t, r) # {}
  PROVE  Max(Unfinished(t, r)) \in Unfinished(t, r)
<1>1. Unfinished(t, r) \subseteq 1..r
  BY DEF Unfinished
<1> QED
  BY <1>1, MaxIsMember

\* Below an object that is complete every level is as it should be.
LEMMA MovingKeeps ==
  ASSUME NEW t, NEW n, NEW r, Stack(t, n, r), NEW h, Tree(h), Chain(t, r, h), AtMost(t, r, h),
         NEW t2, NEW r2, Moves(t, r, t2, r2)
  PROVE  /\ t2 \in [0..n - 1 -> Tasks] /\ r2 \in (1..n - 1) \cup {-1} /\ Levels(t2, r2, h)
<1>1. CASE r2 = -1 /\ t2 = t
  <2>1. 0..r2 - 1 = {} /\ 1..r2 = {} /\ ~(r2 >= 1)
    BY <1>1
  <2> QED
    BY <1>1, <2>1 DEF Stack, Levels, Chain, AtMost, Below
<1>2. CASE /\ r2 \in Unfinished(t, r)
           /\ t2 = [t EXCEPT ![r2].type = "none", ![r2].elements = -1, ![r2].idx = @ + 1]
  <2>1. /\ r2 \in 1..r /\ r2 \in Nat /\ r2 \in 1..n - 1 /\ r2 \in 0..n - 1 /\ r2 >= 1
        /\ r \in Nat /\ n \in Nat /\ r <= n - 1 /\ r2 <= r /\ r2 - 1 \in 0..n - 1
    BY <1>2 DEF Unfinished, Stack
  <2>2. /\ t[r2].idx # t[r2 - 1].elements - 1
        /\ t[r2].idx \in 0..t[r2 - 1].elements - 1
    BY <1>2, <2>1 DEF Unfinished, Chain
  <2>3. t[r2] \in Tasks /\ t[r2 - 1] \in Tasks /\ t[r2].idx \in Int /\ t[r2 - 1].elements \in Int
    BY <2>1 DEF Stack, Tasks
  <2>4. t[r2].idx + 1 \in 0..t[r2 - 1].elements - 1 /\ t[r2].idx + 1 \in Nat
    BY <2>2, <2>3
  <2> DEFINE e == [[[t[r2] EXCEPT !.type = "none"] EXCEPT !.elements = -1] EXCEPT !.idx = t[r2].idx + 1]
  <2>5. e \in Tasks /\ e.idx = t[r2].idx + 1
    BY <2>3, <2>4 DEF Tasks
  <2>6. t2 = [t EXCEPT ![r2] = e]
    BY <1>2, <2>1, <2>3 DEF Stack, Tasks
  <2> HIDE DEF e
  <2>7. /\ t2 \in [0..n - 1 -> Tasks] /\ t2[r2] = e
        /\ \A k \in 0..n - 1 : k # r2 => t2[k] = t[k]
    BY <2>1, <2>5, <2>6 DEF Stack
  <2>8. \A k \in 0..r2 - 1 : t2[k] = t[k] /\ k \in 0..r - 1
    BY <2>1, <2>7
  <2>9. Chain(t2, r2, h)
    <3>1. ASSUME NEW k \in 1..r2 PROVE t2[k].idx \in 0..t2[k - 1].elements - 1
      <4>1. k - 1 \in 0..r2 - 1 /\ k \in 1..r
        BY <2>1
      <4>2. t2[k - 1] = t[k - 1] /\ t[k].idx \in 0..t[k - 1].elements - 1
        BY <2>8, <4>1 DEF Chain
      <4>3. CASE k = r2
        BY <2>4, <2>5, <2>7, <4>2, <4>3
      <4>4. CASE k # r2
        <5>1. k \in 0..r2 - 1
          BY <2>1, <4>4
        <5> QED
          BY <2>8, <4>2, <5>1
      <4> QED
        BY <4>3, <4>4
    <3>2. \A k \in 0..r2 - 1 : /\ t2[k].obj \in DOMAIN h
                               /\ t2[k].elements \in Nat \ {0}
                               /\ h[t2[k].obj].elements = t2[k].elements
      BY <2>8 DEF Chain
    <3>3. \A k, l \in 0..r2 - 1 : t2[k].obj = t2[l].obj => k = l
      BY <2>8 DEF Chain
    <3> QED
      BY <3>1, <3>2, <3>3 DEF Chain
  <2>10. ASSUME NEW k \in 1..r2, NEW o \in DOMAIN h, h[o].parent = t2[k - 1].obj
         PROVE  h[o].idx <= t2[k].idx /\ (k = r2 => h[o].idx < t2[k].idx)
    <3>1. k - 1 \in 0..r2 - 1 /\ k \in 1..r
      BY <2>1
    <3>2. h[o].parent = t[k - 1].obj /\ h[o].idx <= t[k].idx /\ h[o].idx \in Int
      BY <2>8, <2>10, <3>1 DEF AtMost, Tree
    <3>3. CASE k = r2
      BY <2>3, <2>5, <2>7, <3>2, <3>3
    <3>4. CASE k # r2
      <4>1. k \in 0..r2 - 1
        BY <2>1, <3>4
      <4> QED
        BY <2>8, <3>2, <3>4, <4>1
    <3> QED
      BY <3>3, <3>4
  <2>11. AtMost(t2, r2, h) /\ Below(t2, r2, h)
    <3>1. r2 \in 1..r2
      BY <2>1
    <3> QED
      BY <2>10, <3>1 DEF AtMost, Below
  <2> QED
    BY <2>1, <2>7, <2>9, <2>11 DEF Levels
<1> QED
  BY <1>1, <1>2 DEF Moves

\* An aggregate with elements: one level more, at its first element.
LEMMA PushingKeeps ==
  ASSUME NEW t, NEW n, NEW r, Stack(t, n, r), r + 1 <= n - 1, NEW h, Tree(h), Levels(t, r, h),
         r = 0 => h = <<>>, NEW x, Goes(x, t, r), x.elements # 0,
         NEW t2, t2 = [t EXCEPT ![r].elements = x.elements, ![r].obj = Len(h) + 1,
                                ![r + 1] = [None EXCEPT !.idx = 0]]
  PROVE  /\ t2 \in [0..n - 1 -> Tasks] /\ Levels(t2, r + 1, Append(h, x))
<1> DEFINE g == Append(h, x)
           m == Len(h) + 1
           e == [[t[r] EXCEPT !.elements = x.elements] EXCEPT !.obj = m]
           f == [None EXCEPT !.idx = 0]
<1>1. /\ r \in Nat /\ n \in Nat /\ r \in 0..n - 1 /\ r + 1 \in 0..n - 1 /\ r + 1 # r /\ r + 1 \in Nat
  BY DEF Stack
<1>2. /\ Len(h) \in Nat /\ DOMAIN h = 1..Len(h) /\ DOMAIN g = 1..m
      /\ \A i \in DOMAIN h : g[i] = h[i]
      /\ g[m] = x
  <2>1. \E S : h \in Seq(S)
    BY DEF Tree
  <2> QED
    BY <2>1, AppendIs
<1>3. /\ m \in Nat /\ m >= 1 /\ DOMAIN g = DOMAIN h \cup {m} /\ m \notin DOMAIN h
      /\ \A i \in DOMAIN h : i < m
  BY <1>2
<1>4. Tree(g) /\ Chain(t, r, g) /\ AtMost(t, r, g)
  BY ObjectIsHung
<1>5. x.elements \in Nat \ {0} /\ x.idx = t[r].idx /\ x.parent = (IF r = 0 THEN NULL ELSE t[r - 1].obj)
  BY DEF Goes
<1>6. t[r] \in Tasks /\ t[r].idx \in Int
  BY <1>1 DEF Stack, Tasks
<1>7. e \in Tasks /\ e.obj = m /\ e.elements = x.elements /\ e.idx = t[r].idx
  BY <1>3, <1>5, <1>6 DEF Tasks
<1>8. f \in Tasks /\ f.idx = 0
  BY DEF Tasks, None, NULL
<1>9. t2 = [[t EXCEPT ![r] = e] EXCEPT ![r + 1] = f]
  BY <1>1, <1>6 DEF Stack, Tasks
<1> HIDE DEF g, m, e, f
<1>10. /\ t2 \in [0..n - 1 -> Tasks] /\ t2[r] = e /\ t2[r + 1] = f
       /\ \A k \in 0..r - 1 : t2[k] = t[k]
  <2>1. \A k \in 0..r - 1 : k \in 0..n - 1 /\ k # r /\ k # r + 1
    BY <1>1
  <2>2. t \in [0..n - 1 -> Tasks]
    BY DEF Stack
  <2> QED
    BY <1>1, <1>7, <1>8, <1>9, <2>1, <2>2
<1>11. \A k \in 0..r : k = r \/ k \in 0..r - 1
  BY <1>1
<1>12. Chain(t2, r + 1, g)
  <2>1. \A k \in 0..r : /\ t2[k].obj \in DOMAIN g
                        /\ t2[k].elements \in Nat \ {0}
                        /\ g[t2[k].obj].elements = t2[k].elements
    <3> SUFFICES ASSUME NEW k \in 0..r
                 PROVE  /\ t2[k].obj \in DOMAIN g
                        /\ t2[k].elements \in Nat \ {0}
                        /\ g[t2[k].obj].elements = t2[k].elements
      OBVIOUS
    <3>1. CASE k = r
      BY <1>2, <1>3, <1>5, <1>7, <1>10, <3>1
    <3>2. CASE k \in 0..r - 1
      <4>1. t2[k] = t[k]
        BY <1>10, <3>2
      <4> QED
        BY <1>4, <3>2, <4>1 DEF Chain
    <3> QED
      BY <1>11, <3>1, <3>2
  <2>2. \A k \in 0..r - 1 : t2[k].obj \in DOMAIN h /\ t2[k].obj = t[k].obj
    BY <1>10 DEF Levels, Chain
  <2>3. \A k, l \in 0..r : t2[k].obj = t2[l].obj => k = l
    <3>1. \A k, l \in 0..r - 1 : t[k].obj = t[l].obj => k = l
      BY DEF Levels, Chain
    <3>2. t2[r].obj = m
      BY <1>7, <1>10
    <3>3. \A k \in 0..r - 1 : t2[k].obj # m
      BY <1>3, <2>2
    <3> QED
      BY <1>11, <2>2, <3>1, <3>2, <3>3
  <2>4. \A k \in 1..r + 1 : t2[k].idx \in 0..t2[k - 1].elements - 1
    <3> SUFFICES ASSUME NEW k \in 1..r + 1
                 PROVE  t2[k].idx \in 0..t2[k - 1].elements - 1
      OBVIOUS
    <3>1. CASE k = r + 1
      <4>1. t2[k - 1] = e /\ t2[k] = f
        BY <1>1, <1>10, <3>1
      <4> QED
        BY <1>5, <1>7, <1>8, <4>1
    <3>2. CASE k # r + 1
      <4>1. k \in 1..r /\ k - 1 \in 0..r - 1 /\ k \in 0..r
        BY <1>1, <3>2
      <4>2. t2[k].idx = t[k].idx /\ t2[k - 1].elements = t[k - 1].elements
        BY <1>7, <1>10, <1>11, <4>1
      <4>3. t[k].idx \in 0..t[k - 1].elements - 1
        BY <4>1 DEF Levels, Chain
      <4> QED
        BY <4>2, <4>3
    <3> QED
      BY <3>1, <3>2
  <2>5. (r + 1) - 1 = r
    BY <1>1
  <2> QED
    BY <2>1, <2>3, <2>4, <2>5 DEF Chain
<1>13. ASSUME NEW o \in DOMAIN g PROVE g[o].parent # m
  <2>1. CASE o \in DOMAIN h
    <3>1. g[o] = h[o] /\ o \in Nat /\ o < m
      BY <1>2, <1>3, <2>1
    <3>2. IF o = 1 THEN h[o].parent = NULL ELSE h[o].parent \in 1..o - 1
      BY <2>1 DEF Tree
    <3> QED
      BY <1>3, <3>1, <3>2 DEF NULL
  <2>2. CASE o = m
    <3>1. CASE r = 0
      BY <1>2, <1>3, <1>5, <2>2, <3>1 DEF NULL
    <3>2. CASE r # 0
      <4>1. r - 1 \in 0..r - 1
        BY <1>1, <3>2
      <4>2. t[r - 1].obj \in DOMAIN h
        BY <4>1 DEF Levels, Chain
      <4> QED
        BY <1>2, <1>3, <1>5, <2>2, <3>2, <4>2
    <3> QED
      BY <3>1, <3>2
  <2> QED
    BY <1>3, <2>1, <2>2
<1>14. AtMost(t2, r + 1, g)
  <2> SUFFICES ASSUME NEW k \in 1..r + 1, NEW o \in DOMAIN g, g[o].parent = t2[k - 1].obj
               PROVE  g[o].idx <= t2[k].idx
    BY DEF AtMost
  <2>1. CASE k = r + 1
    <3>1. k - 1 = r
      BY <1>1, <2>1
    <3> QED
      BY <1>7, <1>10, <1>13, <3>1
  <2>2. CASE k # r + 1
    <3>1. k \in 1..r /\ k - 1 \in 0..r - 1 /\ k \in 0..r
      BY <1>1, <2>2
    <3>2. t2[k].idx = t[k].idx /\ t2[k - 1].obj = t[k - 1].obj
      BY <1>7, <1>10, <1>11, <3>1
    <3> QED
      BY <1>4, <3>1, <3>2 DEF AtMost
  <2> QED
    BY <2>1, <2>2
<1>15. Below(t2, r + 1, g)
  <2>1. (r + 1) - 1 = r
    BY <1>1
  <2> QED
    BY <1>7, <1>10, <1>13, <2>1 DEF Below
<1> QED
  BY <1>10, <1>12, <1>14, <1>15 DEF Levels, g

\* A stack that has grown holds the same levels.
LEMMA GrowingKeeps ==
  ASSUME NEW t, NEW n, NEW r, Stack(t, n, r), NEW h,
         NEW n2 \in Nat, n <= n2,
         NEW t2 \in [0..n2 - 1 -> Tasks], \A k \in 0..n - 1 : t2[k] = t[k]
  PROVE  /\ Stack(t2, n2, r) /\ t2[r] = t[r] /\ (r >= 1 => t2[r - 1] = t[r - 1])
         /\ Levels(t, r, h) => Levels(t2, r, h)
<1>1. /\ r \in Nat /\ n \in Nat /\ r \in 0..n - 1 /\ r \in 0..n2 - 1
      /\ \A k \in 0..r : t2[k] = t[k] /\ k \in 0..n - 1
  BY DEF Stack
<1>2. Stack(t2, n2, r)
  BY <1>1 DEF Stack
<1>3. \A k \in 0..r - 1 : t2[k] = t[k]
  BY <1>1
<1>4. \A k \in 1..r : t2[k] = t[k] /\ t2[k - 1] = t[k - 1]
  BY <1>1
<1>5. t2[r] = t[r] /\ (r >= 1 => t2[r - 1] = t[r - 1])
  BY <1>1
<1>6. Chain(t, r, h) => Chain(t2, r, h)
  BY <1>3, <1>4 DEF Chain
<1>7. AtMost(t, r, h) => AtMost(t2, r, h)
  BY <1>4 DEF AtMost
<1>8. Below(t, r, h) => Below(t2, r, h)
  BY <1>5 DEF Below
<1> QED
  BY <1>2, <1>5, <1>6, <1>7, <1>8 DEF Levels

-----------------------------------------------------------------------------
(* The reader.                                                             *)

\* What the properties need of the bytes, of the stack and the objects, and of the
\* phases in between.
Buffers ==
  /\ wire.bytes \in Seq(STRING) /\ fed \in 0..Len(wire.bytes)
  /\ buf \in [s : Seq(STRING), alloc : Nat] /\ pos \in 0..len
Building ==
  /\ tasks \in Nat \ {0} /\ task \in [0..tasks - 1 -> Tasks] /\ ridx \in -1..tasks - 1
  /\ Tree(heap) /\ Levels(task, ridx, heap)
  /\ ridx = 0 => heap = <<>>
  /\ reply \in 0..Len(heap) /\ (reply = NULL <=> heap = <<>>)
Phases ==
  /\ err \in {"none", "protocol", "oom", "abort"}
  /\ pc \in {"idle", "items", "done", "dead"}
  /\ err = "abort" => pc = "dead"
  /\ ridx = -1 => heap = <<>> \/ pc = "items"
  /\ err \in {"protocol", "oom"} => ridx = -1 /\ heap = <<>>

ReaderInv == Buffers /\ Building /\ Phases

LEMMA TasksAre ==
  ASSUME NEW t, NEW n \in Nat, NEW S, t \in [0..n - 1 -> S]
  PROVE  Cardinality(DOMAIN t) = n
<1>1. DOMAIN t = 0..n - 1 /\ n - 1 \in Int /\ 0 \in Int
  OBVIOUS
<1>2. Cardinality(0..n - 1) = IF 0 > n - 1 THEN 0 ELSE n - 1 - 0 + 1
  BY <1>1, FS_Interval
<1> QED
  BY <1>1, <1>2

LEMMA NothingBuilt ==
  /\ Tree(<<>>) /\ Len(<<>>) = 0 /\ 0 \in 0..Len(<<>>)
  /\ \A t, r : r \in {-1, 0} => Levels(t, r, <<>>)
<1>1. <<>> \in Seq({})
  OBVIOUS
<1>2. DOMAIN <<>> = {} /\ Len(<<>>) = 0
  OBVIOUS
<1>3. Tree(<<>>)
  BY <1>1, <1>2 DEF Tree
<1>4. ASSUME NEW t, NEW r, r \in {-1, 0} PROVE Levels(t, r, <<>>)
  <2>1. 0..r - 1 = {} /\ 1..r = {} /\ ~(r >= 1)
    BY <1>4
  <2> QED
    BY <2>1 DEF Levels, Chain, AtMost, Below
<1> QED
  BY <1>2, <1>3, <1>4

LEMMA LineIs ==
  ASSUME Buffers, HasLine
  PROVE  LineEnd \in Nat /\ LineEnd + 1 \in 0..len
<1>1. pos \in Nat /\ len \in Nat
  BY DEF Buffers, len
<1>2. Newlines \subseteq Nat /\ \A p \in Newlines : p + 1 \in 0..len
  BY <1>1 DEF Newlines
<1>3. Newlines # {}
  BY DEF HasLine
<1>4. Min(Newlines) \in Newlines
  BY <1>2, <1>3, MinIsMember
<1> QED
  BY <1>2, <1>4 DEF LineEnd

LEMMA NumberIs ==
  ASSUME NEW s, IsLL(s)
  PROVE  string2ll(s) \in Int
<1>1. CASE s = <<"0">>
  BY <1>1 DEF string2ll
<1>2. CASE s # <<"0">>
  <2>1. Magnitude(Unsigned(s)) \in Nat
    <3>1. LLMax \in Nat
      BY ReaderAssumption
    <3>2. Magnitude(Unsigned(s)) \in 1..(IF Negative(s) THEN LLMax + 1 ELSE LLMax)
      BY <1>2 DEF IsLL
    <3> QED
      BY <3>1, <3>2
  <2>2. ~Negative(s) => Unsigned(s) = s
    BY DEF Unsigned
  <2>3. string2ll(s) = IF Negative(s) THEN -Magnitude(Unsigned(s)) ELSE Magnitude(s)
    BY <1>2 DEF string2ll
  <2> QED
    BY <2>1, <2>2, <2>3
<1> QED
  BY <1>1, <1>2

LEMMA ErrorKeeps ==
  ASSUME ReaderInv, NEW kind \in {"protocol", "oom"}, SetError(kind)
  PROVE  ReaderInv'
<1> USE DEF SetError
<1>1. Buffers'
  <2>1. /\ wire.bytes \in Seq(STRING) /\ fed \in 0..Len(wire.bytes)
        /\ UNCHANGED <<wire, fed>> /\ buf' = sdsempty /\ pos' = 0
    BY DEF ReaderInv, Buffers
  <2>2. sdsempty \in [s : Seq(STRING), alloc : Nat] /\ 0 \in 0..Len(sdsempty.s)
    BY DEF sdsempty
  <2> QED
    BY <2>1, <2>2 DEF Buffers, len
<1>2. Building'
  <2>1. /\ heap' = <<>> /\ reply' = NULL /\ ridx' = -1 /\ task' = task /\ tasks' = tasks
    BY DEF tasks
  <2>2. tasks \in Nat \ {0} /\ task \in [0..tasks - 1 -> Tasks]
    BY DEF ReaderInv, Building
  <2>3. -1 \in -1..tasks - 1
    BY <2>2
  <2> QED
    BY <2>1, <2>2, <2>3, NothingBuilt DEF Building, NULL
<1>3. Phases'
  BY DEF Phases
<1> QED
  BY <1>1, <1>2, <1>3 DEF ReaderInv

LEMMA AbortKeeps ==
  ASSUME ReaderInv, Abort, InItem
  PROVE  ReaderInv'
<1>1. Buffers'
  BY DEF ReaderInv, Buffers, Abort, bufferVars, len
<1>2. Building'
  BY DEF ReaderInv, Building, Abort, stackVars, objectVars, tasks
<1>3. Phases'
  <2>1. ridx >= 0 /\ ridx \in Int
    BY DEF InItem, ReaderInv, Building
  <2> QED
    BY <2>1 DEF ReaderInv, Phases, Abort, stackVars, objectVars
<1> QED
  BY <1>1, <1>2, <1>3 DEF ReaderInv

-----------------------------------------------------------------------------
(* The items.                                                              *)

LEMMA ItemStack ==
  ASSUME ReaderInv, InItem
  PROVE  /\ Stack(task, tasks, ridx) /\ Tree(heap) /\ Levels(task, ridx, heap)
         /\ ridx = 0 => heap = <<>>
         /\ pc = "items" /\ err \notin {"protocol", "oom", "abort"}
<1>1. tasks \in Nat /\ ridx \in 0..tasks - 1
  BY DEF ReaderInv, Building, InItem
<1>2. err \notin {"protocol", "oom", "abort"}
  BY <1>1 DEF ReaderInv, Phases, InItem
<1> QED
  BY <1>1, <1>2 DEF ReaderInv, Building, InItem, Stack

\* The new object, and who holds the first one.
LEMMA Created ==
  ASSUME ReaderInv, InItem, NEW type, NEW val, NEW elements \in Nat, Create(type, val, elements)
  PROVE  /\ \E x : Goes(x, task, ridx) /\ x.elements = elements /\ heap' = Append(heap, x)
         /\ reply' \in 0..Len(heap') /\ reply' # NULL /\ heap' # <<>>
<1>1. /\ Stack(task, tasks, ridx) /\ Tree(heap) /\ Levels(task, ridx, heap)
      /\ ridx \in Nat
  BY ItemStack DEF Stack
<1> DEFINE x == [type |-> type, val |-> val, elements |-> elements,
                 parent |-> ParentObj, idx |-> cur.idx]
<1>2. heap' = Append(heap, x) /\ reply' = (IF ridx = 0 THEN Len(heap) + 1 ELSE reply)
  BY DEF Create
<1>3. Goes(x, task, ridx) /\ x.elements = elements
  BY DEF Goes, ParentObj, cur
<1> HIDE DEF x
<1>4. Len(heap) \in Nat /\ Len(heap') = Len(heap) + 1 /\ DOMAIN heap = 1..Len(heap)
  <2>1. \E S : heap \in Seq(S)
    BY <1>1 DEF Tree
  <2> QED
    BY <1>2, <2>1, AppendIs
<1>5. heap' # <<>>
  BY <1>4
<1>6. reply' \in 0..Len(heap') /\ reply' # NULL
  <2>1. CASE ridx = 0
    BY <1>2, <1>4, <2>1 DEF NULL
  <2>2. CASE ridx # 0
    <3>1. 0 \in 0..ridx - 1
      BY <1>1, <2>2
    <3>2. DOMAIN heap # {}
      BY <1>1, <3>1 DEF Levels, Chain
    <3>3. heap # <<>>
      BY <3>2
    <3>4. reply \in 0..Len(heap) /\ reply # NULL
      BY <3>3 DEF ReaderInv, Building
    <3> QED
      BY <1>2, <1>4, <2>2, <3>4
  <2> QED
    BY <2>1, <2>2
<1> QED
  BY <1>2, <1>3, <1>5, <1>6

LEMMA MovesOn ==
  ASSUME NEW t, NEW n, Stack(t, n, ridx), moveToNextTask(t, ridx)
  PROVE  Moves(t, ridx, task', ridx')
<1>1. ridx \in Nat
  BY DEF Stack
<1>2. CASE Unfinished(t, ridx) = {}
  BY <1>2 DEF moveToNextTask, Moves
<1>3. CASE Unfinished(t, ridx) # {}
  <2>1. Max(Unfinished(t, ridx)) \in Unfinished(t, ridx)
    BY <1>1, <1>3, UnfinishedIs
  <2> QED
    BY <1>3, <2>1 DEF moveToNextTask, Moves
<1> QED
  BY <1>2, <1>3

\* An object is created and complete, on a stack t that may have grown before.
LEMMA CompleteKeeps ==
  ASSUME ReaderInv, InItem, NEW type, NEW val, Create(type, val, 0),
         NEW n \in Nat, tasks <= n, NEW t \in [0..n - 1 -> Tasks],
         \A k \in 0..tasks - 1 : t[k] = task[k],
         moveToNextTask(t, ridx)
  PROVE  Building' /\ tasks' = n /\ ridx' # 0
<1>1. /\ Stack(task, tasks, ridx) /\ Tree(heap) /\ Levels(task, ridx, heap)
      /\ ridx = 0 => heap = <<>>
  BY ItemStack
<1>2. tasks \in Nat \ {0} /\ n \in Nat \ {0}
  BY DEF ReaderInv, Building
<1>3. PICK x : Goes(x, task, ridx) /\ heap' = Append(heap, x)
  BY Created
<1>4. reply' \in 0..Len(heap') /\ reply' # NULL /\ heap' # <<>>
  BY Created
<1>5. /\ Stack(t, n, ridx) /\ t[ridx] = task[ridx]
      /\ ridx >= 1 => t[ridx - 1] = task[ridx - 1]
      /\ Levels(t, ridx, heap)
  BY <1>1, GrowingKeeps
<1>6. Goes(x, t, ridx)
  <2>1. ridx \in Nat
    BY <1>1 DEF Stack
  <2> QED
    BY <1>3, <1>5, <2>1 DEF Goes
<1>7. Tree(heap') /\ Chain(t, ridx, heap') /\ AtMost(t, ridx, heap')
  BY <1>1, <1>3, <1>5, <1>6, ObjectIsHung
<1>8. Moves(t, ridx, task', ridx')
  BY <1>5, MovesOn
<1>9. /\ task' \in [0..n - 1 -> Tasks] /\ ridx' \in (1..n - 1) \cup {-1}
      /\ Levels(task', ridx', heap')
  BY <1>5, <1>7, <1>8, MovingKeeps
<1>10. tasks' = n
  BY <1>9, TasksAre DEF tasks
<1>11. ridx' \in -1..n - 1 /\ ridx' # 0
  BY <1>2, <1>9
<1> QED
  BY <1>2, <1>4, <1>7, <1>9, <1>10, <1>11 DEF Building

LEMMA LeafKeeps ==
  ASSUME ReaderInv, InItem, NEW type, NEW val, NEW end \in 0..len, Leaf(type, val, end)
  PROVE  ReaderInv'
<1>1. CASE SetError("oom")
  BY <1>1, ErrorKeeps
<1>2. CASE Abort
  BY <1>2, AbortKeeps
<1>3. CASE /\ Create(type, val, 0) /\ pos' = end /\ moveToNextTask(task, ridx)
           /\ UNCHANGED <<wire, fed, buf, callVars>>
  <2>1. Building' /\ ridx' # 0
    <3>1. tasks \in Nat /\ tasks <= tasks /\ task \in [0..tasks - 1 -> Tasks]
      BY DEF ReaderInv, Building
    <3> QED
      BY <1>3, <3>1, CompleteKeeps
  <2>2. Buffers'
    BY <1>3 DEF ReaderInv, Buffers, len
  <2>3. Phases'
    BY <1>3, <2>1, ItemStack DEF Phases, callVars, ReaderInv
  <2> QED
    BY <2>1, <2>2, <2>3 DEF ReaderInv
<1> QED
  BY <1>1, <1>2, <1>3 DEF Leaf

LEMMA TypeKeeps ==
  ASSUME ReaderInv, ReadType
  PROVE  ReaderInv'
<1>1. CASE SetError("protocol")
  BY <1>1, ErrorKeeps
<1>2. CASE /\ buf.s[pos + 1] \in DOMAIN TypeByte
           /\ task' = [task EXCEPT ![ridx].type = TypeByte[buf.s[pos + 1]]]
           /\ pos' = pos + 1
           /\ UNCHANGED <<wire, fed, buf, ridx, objectVars, callVars>>
  <2>1. InItem /\ pos < len
    BY DEF ReadType
  <2>2. Stack(task, tasks, ridx) /\ Levels(task, ridx, heap) /\ task[ridx] \in Tasks
    BY <2>1, ItemStack DEF Stack
  <2> DEFINE b == TypeByte[buf.s[pos + 1]]
             e == [task[ridx] EXCEPT !.type = b]
  <2>3. b \in Range(TypeByte)
    BY <1>2 DEF Range
  <2> HIDE DEF b
  <2>4. e \in Tasks /\ e.idx = task[ridx].idx /\ e.elements = task[ridx].elements /\ e.obj = task[ridx].obj
    BY <2>2, <2>3 DEF Tasks
  <2>5. task' = [task EXCEPT ![ridx] = e]
    BY <1>2, <2>2 DEF Stack, Tasks, b
  <2> HIDE DEF e
  <2>6. /\ task' \in [0..tasks - 1 -> Tasks]
        /\ \A k \in 0..tasks - 1 : /\ task'[k].idx = task[k].idx
                                  /\ task'[k].elements = task[k].elements
                                  /\ task'[k].obj = task[k].obj
    BY <2>2, <2>4, <2>5 DEF Stack
  <2>7. tasks' = tasks
    BY <2>2, <2>6, TasksAre DEF Stack, tasks
  <2>8. Levels(task', ridx, heap)
    <3>1. \A k \in 0..ridx : k \in 0..tasks - 1
      BY <2>2 DEF Stack
    <3>2. \A k \in 0..ridx - 1 : task'[k].obj = task[k].obj /\ task'[k].elements = task[k].elements
      BY <2>2, <2>6, <3>1 DEF Stack
    <3>3. \A k \in 1..ridx : task'[k].idx = task[k].idx /\ k - 1 \in 0..ridx - 1
      BY <2>2, <2>6, <3>1 DEF Stack
    <3>4. ridx >= 1 => task'[ridx].idx = task[ridx].idx /\ task'[ridx - 1].obj = task[ridx - 1].obj
      BY <2>2, <3>2, <3>3 DEF Stack
    <3>5. Chain(task', ridx, heap)
      BY <2>2, <3>2, <3>3 DEF Levels, Chain
    <3>6. AtMost(task', ridx, heap)
      BY <2>2, <3>2, <3>3 DEF Levels, AtMost
    <3>7. Below(task', ridx, heap)
      BY <2>2, <3>4 DEF Levels, Below
    <3> QED
      BY <3>5, <3>6, <3>7 DEF Levels
  <2>9. Building'
    BY <1>2, <2>6, <2>7, <2>8 DEF ReaderInv, Building, objectVars
  <2>10. Buffers'
    BY <1>2, <2>1 DEF ReaderInv, Buffers, len
  <2>11. Phases'
    BY <1>2 DEF ReaderInv, Phases, objectVars, callVars
  <2> QED
    BY <2>9, <2>10, <2>11 DEF ReaderInv
<1> QED
  BY <1>1, <1>2 DEF ReadType

LEMMA LineItemKeeps ==
  ASSUME ReaderInv, processLineItem
  PROVE  ReaderInv'
<1>1. InItem /\ HasLine
  BY DEF processLineItem
<1>2. LineEnd + 1 \in 0..len
  BY <1>1, LineIs DEF ReaderInv
<1>3. CASE SetError("protocol")
  BY <1>3, ErrorKeeps
<1>4. CASE Leaf(cur.type, LineValue, LineEnd + 1)
  BY <1>1, <1>2, <1>4, LeafKeeps
<1> QED
  BY <1>3, <1>4 DEF processLineItem

LEMMA BulkItemKeeps ==
  ASSUME ReaderInv, processBulkItem
  PROVE  ReaderInv'
<1>1. InItem /\ HasLine /\ BulkComplete
  BY DEF processBulkItem
<1>2. LineEnd + 1 \in 0..len /\ LineEnd \in Nat
  BY <1>1, LineIs DEF ReaderInv
<1>3. CASE SetError("protocol")
  BY <1>3, ErrorKeeps
<1>4. CASE Leaf("nil", <<>>, LineEnd + 1)
  BY <1>1, <1>2, <1>4, LeafKeeps
<1>5. ASSUME ~BadLength, BulkLen # -1, NEW val, Leaf(cur.type, val, BulkEnd)
      PROVE  ReaderInv'
  <2>1. BulkLen \in Int /\ BulkLen >= -1
    BY <1>5, NumberIs DEF BadLength, BulkLen
  <2>2. len \in Nat
    BY DEF ReaderInv, Buffers, len
  <2>3. BulkEnd <= len
    BY <1>1, <1>5 DEF BulkComplete
  <2>4. BulkEnd \in 0..len
    BY <1>2, <1>5, <2>1, <2>2, <2>3 DEF BulkEnd
  <2> QED
    BY <1>1, <1>5, <2>4, LeafKeeps
<1>6. \/ SetError("protocol") \/ Leaf("nil", <<>>, LineEnd + 1)
      \/ ~BadLength /\ BulkLen # -1 /\ \E val : Leaf(cur.type, val, BulkEnd)
  BY DEF processBulkItem
<1> QED
  BY <1>3, <1>4, <1>5, <1>6

\* The stack after redisReaderGrow.
LEMMA GrownIs ==
  ASSUME ReaderInv, InItem
  PROVE  \E n \in Nat : /\ tasks <= n /\ ridx + 1 <= n - 1
                        /\ Grown \in [0..n - 1 -> Tasks]
                        /\ \A k \in 0..tasks - 1 : Grown[k] = task[k]
<1>1. tasks \in Nat \ {0} /\ task \in [0..tasks - 1 -> Tasks] /\ ridx \in 0..tasks - 1
  BY ItemStack DEF ReaderInv, Building, Stack
<1>2. StackSize \in Nat \ {0}
  BY ReaderAssumption
<1>3. None \in Tasks
  BY DEF None, Tasks, NULL
<1> QED
  BY <1>1, <1>2, <1>3 DEF Grown

\* An aggregate with elements is created and becomes the level below the top.
LEMMA DescentKeeps ==
  ASSUME ReaderInv, InItem, NEW type, NEW val, Elements \in Nat \ {0},
         Create(type, val, Elements),
         NEW n \in Nat, tasks <= n, ridx + 1 <= n - 1, NEW t \in [0..n - 1 -> Tasks],
         \A k \in 0..tasks - 1 : t[k] = task[k],
         Push(t)
  PROVE  Building' /\ ridx' \in Nat \ {0}
<1>1. /\ Stack(task, tasks, ridx) /\ Tree(heap) /\ Levels(task, ridx, heap)
      /\ ridx = 0 => heap = <<>>
  BY ItemStack
<1>2. ridx \in Nat /\ n \in Nat \ {0}
  BY <1>1 DEF Stack
<1>3. PICK x : Goes(x, task, ridx) /\ x.elements = Elements /\ heap' = Append(heap, x)
  BY Created
<1>4. reply' \in 0..Len(heap') /\ reply' # NULL /\ heap' # <<>>
  BY Created
<1>5. /\ Stack(t, n, ridx) /\ t[ridx] = task[ridx]
      /\ ridx >= 1 => t[ridx - 1] = task[ridx - 1]
      /\ Levels(t, ridx, heap)
  BY <1>1, GrowingKeeps
<1>6. Goes(x, t, ridx)
  BY <1>2, <1>3, <1>5 DEF Goes
<1>7. Tree(heap')
  BY <1>1, <1>3, <1>5, <1>6, ObjectIsHung
<1>8. /\ task' = [t EXCEPT ![ridx].elements = x.elements, ![ridx].obj = Len(heap) + 1,
                           ![ridx + 1] = [None EXCEPT !.idx = 0]]
      /\ ridx' = ridx + 1
  BY <1>3 DEF Push
<1>9. task' \in [0..n - 1 -> Tasks] /\ Levels(task', ridx + 1, Append(heap, x))
  BY <1>1, <1>3, <1>5, <1>6, <1>8, PushingKeeps
<1>10. tasks' = n
  BY <1>9, TasksAre DEF tasks
<1>11. ridx' \in -1..n - 1 /\ ridx' \in Nat \ {0}
  BY <1>2, <1>8
<1> QED
  BY <1>2, <1>3, <1>4, <1>7, <1>8, <1>9, <1>10, <1>11 DEF Building

LEMMA AggregateItemKeeps ==
  ASSUME ReaderInv, processAggregateItem
  PROVE  ReaderInv'
<1>1. InItem /\ HasLine
  BY DEF processAggregateItem
<1>2. LineEnd + 1 \in 0..len
  BY <1>1, LineIs DEF ReaderInv
<1>3. PICK n \in Nat : /\ tasks <= n /\ ridx + 1 <= n - 1
                       /\ Grown \in [0..n - 1 -> Tasks]
                       /\ \A k \in 0..tasks - 1 : Grown[k] = task[k]
  BY <1>1, GrownIs
<1>4. ASSUME Building', ridx' # 0, pos' = LineEnd + 1, UNCHANGED <<wire, fed, buf, callVars>>
      PROVE  ReaderInv'
  <2>1. Buffers'
    BY <1>2, <1>4 DEF ReaderInv, Buffers, len
  <2>2. Phases'
    BY <1>1, <1>4, ItemStack DEF Phases, callVars, ReaderInv
  <2> QED
    BY <1>4, <2>1, <2>2 DEF ReaderInv
<1>5. CASE SetError("protocol") \/ SetError("oom")
  BY <1>5, ErrorKeeps
<1>6. CASE Abort
  BY <1>1, <1>6, AbortKeeps
<1>7. CASE /\ Create("nil", <<>>, 0) /\ moveToNextTask(Grown, ridx)
           /\ pos' = LineEnd + 1 /\ UNCHANGED <<wire, fed, buf, callVars>>
  <2>1. Building' /\ ridx' # 0
    BY <1>1, <1>3, <1>7, CompleteKeeps
  <2> QED
    BY <1>4, <1>7, <2>1
<1>8. CASE /\ ~BadCount /\ string2ll(Line) >= 0
           /\ Create(cur.type, <<>>, Elements)
           /\ IF Elements > 0 THEN Push(Grown) ELSE moveToNextTask(Grown, ridx)
           /\ pos' = LineEnd + 1 /\ UNCHANGED <<wire, fed, buf, callVars>>
  <2>1. string2ll(Line) \in Nat
    BY <1>8, NumberIs DEF BadCount
  <2>2. Elements \in Nat
    BY <2>1 DEF Elements
  <2>3. CASE Elements > 0
    <3>1. Elements \in Nat \ {0} /\ Push(Grown)
      BY <1>8, <2>2, <2>3
    <3>2. Building' /\ ridx' \in Nat \ {0}
      BY <1>1, <1>3, <1>8, <3>1, DescentKeeps
    <3> QED
      BY <1>4, <1>8, <3>2
  <2>4. CASE ~(Elements > 0)
    <3>1. Elements = 0 /\ moveToNextTask(Grown, ridx)
      BY <1>8, <2>2, <2>4
    <3>2. Create(cur.type, <<>>, 0)
      BY <1>8, <3>1
    <3>3. Building' /\ ridx' # 0
      BY <1>1, <1>3, <3>1, <3>2, CompleteKeeps
    <3> QED
      BY <1>4, <1>8, <3>3
  <2> QED
    BY <2>3, <2>4
<1> QED
  BY <1>5, <1>6, <1>7, <1>8 DEF processAggregateItem

LEMMA WaitingKeeps ==
  ASSUME ReaderInv, NeedMore
  PROVE  ReaderInv'
<1>1. /\ InItem
      /\ (task' = task \/ task' = Grown)
      /\ pc' = "done" /\ UNCHANGED <<wire, bufferVars, ridx, objectVars, err, out, last>>
  BY DEF NeedMore
<1>2. /\ Stack(task, tasks, ridx) /\ Levels(task, ridx, heap) /\ tasks \in Nat \ {0} /\ ridx >= 0
  BY <1>1, ItemStack DEF ReaderInv, Building, InItem
<1>3. PICK n \in Nat : /\ tasks <= n /\ ridx + 1 <= n - 1
                       /\ Grown \in [0..n - 1 -> Tasks]
                       /\ \A k \in 0..tasks - 1 : Grown[k] = task[k]
  BY <1>1, GrownIs
<1>4. Buffers'
  BY <1>1 DEF ReaderInv, Buffers, bufferVars, len
<1>5. Phases'
  <2>1. ridx' = ridx /\ heap' = heap /\ err' = err /\ pc' = "done"
    BY <1>1 DEF objectVars
  <2>2. ridx # -1
    BY <1>2
  <2>3. err = "none"
    BY <1>1, ItemStack DEF ReaderInv, Phases
  <2> QED
    BY <2>1, <2>2, <2>3 DEF Phases
<1>6. CASE task' = task
  <2>1. tasks' = tasks
    BY <1>6 DEF tasks
  <2>2. Building'
    BY <1>1, <1>6, <2>1 DEF ReaderInv, Building, objectVars
  <2> QED
    BY <1>4, <1>5, <2>2 DEF ReaderInv
<1>7. CASE task' = Grown
  <2>0. n \in Nat \ {0}
    BY <1>2, <1>3
  <2>1. tasks' = n
    <3>1. task' \in [0..n - 1 -> Tasks]
      BY <1>3, <1>7
    <3> QED
      BY <3>1, TasksAre DEF tasks
  <2>2. Stack(Grown, n, ridx) /\ Levels(Grown, ridx, heap)
    BY <1>2, <1>3, GrowingKeeps
  <2>3. ridx \in -1..n - 1
    BY <2>2 DEF Stack
  <2>4. Building'
    BY <1>1, <1>3, <1>7, <2>0, <2>1, <2>2, <2>3 DEF ReaderInv, Building, objectVars
  <2> QED
    BY <1>4, <1>5, <2>4 DEF ReaderInv
<1> QED
  BY <1>1, <1>6, <1>7

-----------------------------------------------------------------------------
(* The calls.                                                              *)

Strings == [s : Seq(STRING), alloc : Nat]

LEMMA RoomIsMade ==
  ASSUME NEW x \in Strings, NEW n \in Nat
  PROVE  sdsMakeRoomFor(x, n).alloc \in Nat
BY PreallocAssumption DEF sdsMakeRoomFor, Strings

LEMMA RangeIs ==
  ASSUME NEW x \in Strings, NEW start \in Int, NEW end \in Int
  PROVE  sdsrange(x, start, end) \in Strings
<1> DEFINE n == Len(x.s)
           Index(i) == IF i >= 0 THEN i ELSE IF n + i < 0 THEN 0 ELSE n + i
           final == IF Index(end) >= n THEN n - 1 ELSE Index(end)
<1>1. x.s \in Seq(STRING) /\ n \in Nat
  BY DEF Strings
<1>2. sdsrange(x, start, end) =
        IF n = 0 THEN x
        ELSE [x EXCEPT !.s = IF Index(start) > final THEN <<>>
                             ELSE SubSeq(x.s, Index(start) + 1, final + 1)]
  BY DEF sdsrange
<1>3. Index(start) \in Nat /\ final \in Int /\ final + 1 <= n
  BY <1>1
<1> HIDE DEF Index, final
<1>4. SubSeq(x.s, Index(start) + 1, final + 1) \in Seq(STRING)
  <2>1. \A i \in Index(start) + 1..final + 1 : i \in 1..n
    BY <1>1, <1>3
  <2>2. \A i \in Index(start) + 1..final + 1 : x.s[i] \in STRING
    BY <1>1, <2>1
  <2>3. Index(start) + 1 \in Int /\ final + 1 \in Int
    BY <1>3
  <2> QED
    BY <2>2, <2>3, SubSeqProperties
<1>5. <<>> \in Seq(STRING)
  OBVIOUS
<1>6. \A u \in Seq(STRING) : [x EXCEPT !.s = u] \in Strings
  BY DEF Strings
<1> QED
  BY <1>2, <1>4, <1>5, <1>6

LEMMA FeedKeeps ==
  ASSUME ReaderInv, NEW n \in 1..Len(wire.bytes), redisReaderFeed(n)
  PROVE  ReaderInv'
<1> DEFINE more == SubSeq(wire.bytes, fed + 1, fed + n)
<1>1. /\ pc = "idle" /\ err = "none" /\ n <= Len(wire.bytes) - fed /\ fed' = fed + n
      /\ wire' = wire /\ task' = task /\ pc' = pc
  BY DEF redisReaderFeed
<1>2. /\ wire.bytes \in Seq(STRING) /\ Len(wire.bytes) \in Nat /\ fed \in 0..Len(wire.bytes)
      /\ n \in Nat /\ buf \in Strings /\ buf.s \in Seq(STRING) /\ pos \in 0..Len(buf.s)
  BY DEF ReaderInv, Buffers, Strings, len
<1>3. fed' \in 0..Len(wire.bytes)
  BY <1>1, <1>2
<1>4. tasks' = tasks /\ tasks \in Nat \ {0} /\ task \in [0..tasks - 1 -> Tasks]
  BY <1>1 DEF tasks, ReaderInv, Building
<1>5. CASE /\ buf' = sdscatlen(Room, more)
           /\ pos' = IF Room = buf THEN pos ELSE 0
           /\ UNCHANGED <<ridx, objectVars, err>>
  <2>1. more \in Seq(STRING)
    <3>1. \A i \in fed + 1..fed + n : i \in 1..Len(wire.bytes)
      BY <1>1, <1>2
    <3>2. \A i \in fed + 1..fed + n : wire.bytes[i] \in STRING
      BY <1>2, <3>1
    <3>3. fed + 1 \in Int /\ fed + n \in Int
      BY <1>2
    <3> QED
      BY <3>2, <3>3, SubSeqProperties
  <2> HIDE DEF more
  <2>2. Room \in Strings /\ (Room = buf \/ Room = sdsempty)
    <3>1. sdsempty \in Strings
      BY DEF sdsempty, Strings
    <3> QED
      BY <1>2, <3>1 DEF Room
  <2>3. Room.s \in Seq(STRING) /\ Len(more) \in Nat /\ Len(Room.s) \in Nat
    BY <2>1, <2>2 DEF Strings
  <2>4. /\ Room.s \o more \in Seq(STRING)
        /\ Len(Room.s \o more) = Len(Room.s) + Len(more)
    BY <2>1, <2>3, ConcatProperties
  <2>5. sdsMakeRoomFor(Room, Len(more)).alloc \in Nat
    BY <2>2, <2>3, RoomIsMade
  <2>6. buf' \in [s : Seq(STRING), alloc : Nat] /\ Len(buf'.s) = Len(Room.s) + Len(more)
    BY <1>5, <2>4, <2>5 DEF sdscatlen
  <2>7. pos' \in 0..Len(Room.s)
    BY <1>2, <1>5, <2>3
  <2>8. pos' \in 0..Len(buf'.s)
    BY <2>3, <2>6, <2>7
  <2>9. Buffers'
    BY <1>1, <1>2, <1>3, <2>6, <2>8 DEF Buffers, len
  <2>10. Building' /\ Phases'
    BY <1>1, <1>4, <1>5 DEF ReaderInv, Building, Phases, objectVars
  <2> QED
    BY <2>9, <2>10 DEF ReaderInv
<1>6. CASE /\ buf' = sdsempty /\ pos' = 0 /\ ridx' = -1
           /\ heap' = <<>> /\ reply' = NULL /\ err' = "oom"
  <2>1. sdsempty \in [s : Seq(STRING), alloc : Nat] /\ 0 \in 0..Len(sdsempty.s)
    BY DEF sdsempty
  <2>2. Buffers'
    BY <1>1, <1>2, <1>3, <1>6, <2>1 DEF Buffers, len
  <2>3. -1 \in -1..tasks - 1
    BY <1>4
  <2>4. Building'
    BY <1>1, <1>4, <1>6, <2>3, NothingBuilt DEF Building, NULL
  <2>5. Phases'
    BY <1>1, <1>6 DEF Phases
  <2> QED
    BY <2>2, <2>4, <2>5 DEF ReaderInv
<1> QED
  BY <1>5, <1>6 DEF redisReaderFeed

LEMMA CallKeeps ==
  ASSUME ReaderInv, redisReaderGetReply
  PROVE  ReaderInv'
<1>1. pc = "idle" /\ err = "none"
  BY DEF redisReaderGetReply
<1>2. CASE UNCHANGED <<wire, bufferVars, stackVars, objectVars, err, pc, out>>
  BY <1>2 DEF ReaderInv, Buffers, Building, Phases, bufferVars, stackVars, objectVars, len, tasks
<1>3. CASE /\ pc' = "items"
           /\ IF ridx = -1 THEN ridx' = 0 /\ task' = [task EXCEPT ![0] = None]
              ELSE UNCHANGED stackVars
           /\ UNCHANGED <<wire, bufferVars, objectVars, err, out, last>>
  <2>1. Buffers'
    BY <1>3 DEF ReaderInv, Buffers, bufferVars, len
  <2>2. Phases'
    BY <1>1, <1>3 DEF ReaderInv, Phases, objectVars
  <2>3. CASE ridx = -1
    <3>1. heap = <<>> /\ tasks \in Nat \ {0} /\ task \in [0..tasks - 1 -> Tasks] /\ 0 \in 0..tasks - 1
      BY <1>1, <2>3 DEF ReaderInv, Building, Phases
    <3>2. None \in Tasks
      BY DEF None, Tasks, NULL
    <3>3. task' \in [0..tasks - 1 -> Tasks] /\ ridx' = 0 /\ heap' = <<>>
      BY <1>3, <2>3, <3>1, <3>2 DEF objectVars
    <3>4. tasks' = tasks
      BY <3>1, <3>3, TasksAre DEF tasks
    <3>5. ridx' \in -1..tasks - 1
      BY <3>1, <3>3
    <3>6. Building'
      BY <1>3, <3>1, <3>3, <3>4, <3>5, NothingBuilt DEF ReaderInv, Building, objectVars
    <3> QED
      BY <2>1, <2>2, <3>6 DEF ReaderInv
  <2>4. CASE ridx # -1
    <3>1. Building'
      BY <1>3, <2>4 DEF ReaderInv, Building, stackVars, objectVars, tasks
    <3> QED
      BY <2>1, <2>2, <3>1 DEF ReaderInv
  <2> QED
    BY <2>3, <2>4
<1> QED
  BY <1>2, <1>3 DEF redisReaderGetReply

LEMMA ReturnKeeps ==
  ASSUME ReaderInv, Return
  PROVE  ReaderInv'
<1>1. /\ pc' = "idle" /\ UNCHANGED <<wire, stackVars, err>> /\ pc # "dead"
      /\ pc # "done" => ridx = -1
  BY DEF Return
<1>2. err # "abort"
  BY <1>1 DEF ReaderInv, Phases
<1>3. CASE err # "none" /\ UNCHANGED <<bufferVars, objectVars, out>>
  <2>1. ridx = -1 /\ heap = <<>>
    BY <1>2, <1>3 DEF ReaderInv, Phases
  <2>2. Buffers' /\ Building'
    BY <1>1, <1>3 DEF ReaderInv, Buffers, Building, bufferVars, stackVars, objectVars, len, tasks
  <2>3. Phases'
    BY <1>1, <1>2, <1>3, <2>1 DEF ReaderInv, Phases, stackVars, objectVars
  <2> QED
    BY <2>2, <2>3 DEF ReaderInv
<1>4. CASE /\ err = "none"
           /\ IF pos >= CompactAt
              THEN buf' = sdsrange(buf, pos, -1) /\ pos' = 0
              ELSE UNCHANGED <<buf, pos>>
           /\ IF ridx = -1
              THEN heap' = <<>> /\ reply' = NULL
              ELSE UNCHANGED objectVars
           /\ UNCHANGED fed
  <2>1. Buffers'
    <3>1. CASE UNCHANGED <<buf, pos>>
      BY <1>1, <1>4, <3>1 DEF ReaderInv, Buffers, len
    <3>2. CASE buf' = sdsrange(buf, pos, -1) /\ pos' = 0
      <4>1. buf \in Strings /\ pos \in Int /\ -1 \in Int
        BY DEF ReaderInv, Buffers, Strings, len
      <4>2. buf' \in Strings
        BY <3>2, <4>1, RangeIs
      <4>3. buf'.s \in Seq(STRING) /\ 0 \in 0..Len(buf'.s)
        BY <4>2 DEF Strings
      <4> QED
        BY <1>1, <1>4, <3>2, <4>2, <4>3 DEF ReaderInv, Buffers, Strings, len
    <3> QED
      BY <1>4, <3>1, <3>2
  <2>2. tasks' = tasks /\ task' = task /\ ridx' = ridx
    BY <1>1 DEF tasks, stackVars
  <2>3. CASE ridx = -1
    <3>1. Building'
      BY <1>4, <2>2, <2>3, NothingBuilt DEF ReaderInv, Building, NULL
    <3>2. Phases'
      BY <1>1, <1>4, <2>2, <2>3 DEF ReaderInv, Phases
    <3> QED
      BY <2>1, <3>1, <3>2 DEF ReaderInv
  <2>4. CASE ridx # -1
    <3>1. Building'
      BY <1>4, <2>2, <2>4 DEF ReaderInv, Building, objectVars
    <3>2. Phases'
      BY <1>1, <1>4, <2>2, <2>4 DEF ReaderInv, Phases, objectVars
    <3> QED
      BY <2>1, <3>1, <3>2 DEF ReaderInv
  <2> QED
    BY <2>3, <2>4
<1> QED
  BY <1>3, <1>4 DEF Return

-----------------------------------------------------------------------------
(* The theorem.                                                            *)

LEMMA InitReaderInv == ReaderInit /\ wire.bytes \in Seq(STRING) => ReaderInv
<1> SUFFICES ASSUME ReaderInit, wire.bytes \in Seq(STRING) PROVE ReaderInv
  OBVIOUS
<1> USE DEF ReaderInit
<1>1. Buffers
  <2>1. Len(wire.bytes) \in Nat
    OBVIOUS
  <2>2. sdsempty \in [s : Seq(STRING), alloc : Nat] /\ 0 \in 0..Len(sdsempty.s)
    BY DEF sdsempty
  <2> QED
    BY <2>1, <2>2 DEF Buffers, len
<1>2. Building
  <2>1. StackSize \in Nat \ {0}
    BY ReaderAssumption
  <2>2. None \in Tasks
    BY DEF None, Tasks, NULL
  <2>3. task \in [0..StackSize - 1 -> Tasks]
    BY <2>2
  <2>4. tasks = StackSize
    BY <2>1, <2>3, TasksAre DEF tasks
  <2>5. ridx \in -1..StackSize - 1
    BY <2>1
  <2>6. heap = <<>> /\ reply = NULL /\ ridx = -1
    OBVIOUS
  <2> HIDE DEF ReaderInit
  <2> QED
    BY <2>1, <2>3, <2>4, <2>5, <2>6, NothingBuilt DEF Building, NULL
<1>3. Phases
  BY DEF Phases
<1> QED
  BY <1>1, <1>2, <1>3 DEF ReaderInv

LEMMA ArrivalKeeps ==
  ASSUME ReaderInv, NEW bytes \in Seq(STRING), Arrives(bytes)
  PROVE  ReaderInv'
<1>1. /\ wire.bytes = <<>> /\ wire'.bytes = bytes
      /\ UNCHANGED <<bufferVars, stackVars, objectVars, callVars>>
  BY DEF Arrives
<1>2. fed = 0 /\ 0 \in 0..Len(bytes)
  <2>1. fed \in 0..Len(<<>>) /\ Len(<<>>) = 0 /\ Len(bytes) \in Nat
    BY <1>1 DEF ReaderInv, Buffers
  <2> QED
    BY <2>1
<1>3. Buffers'
  BY <1>1, <1>2 DEF ReaderInv, Buffers, bufferVars, len
<1>4. Building'
  BY <1>1 DEF ReaderInv, Building, stackVars, objectVars, tasks
<1>5. Phases'
  BY <1>1 DEF ReaderInv, Phases, stackVars, objectVars, callVars
<1> QED
  BY <1>3, <1>4, <1>5 DEF ReaderInv

LEMMA ReaderInductive ==
  ReaderInv /\ [ReaderNext \/ \E bytes \in Seq(STRING) : Arrives(bytes)]_vars => ReaderInv'
<1> SUFFICES ASSUME ReaderInv, [ReaderNext \/ \E bytes \in Seq(STRING) : Arrives(bytes)]_vars
             PROVE  ReaderInv'
  OBVIOUS
<1>1. CASE \E n \in 1..Len(wire.bytes) : redisReaderFeed(n)
  BY <1>1, FeedKeeps
<1>2. CASE redisReaderGetReply
  BY <1>2, CallKeeps
<1>3. CASE Return
  BY <1>3, ReturnKeeps
<1>4. CASE processItem
  <2>1. CASE ReadType
    BY <2>1, TypeKeeps
  <2>2. CASE processLineItem
    BY <2>2, LineItemKeeps
  <2>3. CASE processBulkItem
    BY <2>3, BulkItemKeeps
  <2>4. CASE processAggregateItem
    BY <2>4, AggregateItemKeeps
  <2>5. CASE NeedMore
    BY <2>5, WaitingKeeps
  <2>6. CASE GrowFails
    BY <2>6, ErrorKeeps DEF GrowFails
  <2> QED
    BY <1>4, <2>1, <2>2, <2>3, <2>4, <2>5, <2>6 DEF processItem
<1>5. CASE \E bytes \in Seq(STRING) : Arrives(bytes)
  BY <1>5, ArrivalKeeps
<1>6. CASE UNCHANGED vars
  <2>1. UNCHANGED <<wire, bufferVars, stackVars, objectVars, callVars>>
    BY <1>6 DEF vars
  <2>2. Buffers'
    BY <2>1 DEF ReaderInv, Buffers, bufferVars, len
  <2>3. Building'
    BY <2>1 DEF ReaderInv, Building, stackVars, objectVars, tasks
  <2>4. Phases'
    BY <2>1 DEF ReaderInv, Phases, stackVars, objectVars, callVars
  <2> QED
    BY <2>2, <2>3, <2>4 DEF ReaderInv
<1> QED
  BY <1>1, <1>2, <1>3, <1>4, <1>5, <1>6 DEF ReaderNext

\* However the bytes are cut, and whatever they are, the reader's stack, position and
\* objects agree: nothing it has built is out of reach of freeReplyObject.
THEOREM NothingIsLost == ReaderSpec => []StackSound
<1>1. ReaderSpec => []ReaderInv
  BY InitReaderInv, ReaderInductive, PTL DEF ReaderSpec
<1>2. ReaderInv => StackSound
  <2> SUFFICES ASSUME ReaderInv PROVE ReaderTypeOK /\ NothingLost
    BY DEF StackSound
  <2>1. ReaderTypeOK
    BY DEF ReaderInv, Buffers, Building, Phases, ReaderTypeOK
  <2>2. NothingLost
    BY DEF ReaderInv, Building, Tree, NothingLost
  <2> QED
    BY <2>1, <2>2
<1> QED
  BY <1>1, <1>2, PTL

-----------------------------------------------------------------------------
(* Functions that recurse to a smaller number: there is one.               *)

Steps(S, b, base, step, prev) ==
  /\ b \in Nat \ {0} /\ base \in [0..b - 1 -> S] /\ step \in [Nat \X S -> S]
  /\ prev \in [Nat -> Nat] /\ \A v \in Nat : v >= b => prev[v] < v

LEMMA Recursion ==
  ASSUME NEW S, NEW b, NEW base, NEW step, NEW prev, Steps(S, b, base, step, prev)
  PROVE  \E f \in [Nat -> S] :
           \A v \in Nat : f[v] = IF v < b THEN base[v] ELSE step[<<v, f[prev[v]]>>]
<1> USE DEF Steps
<1> DEFINE Value(g, v) == IF v < b THEN base[v] ELSE step[<<v, g[prev[v]]>>]
           Part(n, g) == g \in [0..n -> S] /\ \A v \in 0..n : g[v] = Value(g, v)
<1>0. \A v \in Nat : ~(v < b) => v >= b
  OBVIOUS
<1>1. ASSUME NEW n \in Nat, NEW m \in Nat, n <= m, NEW g, NEW h, Part(n, g), Part(m, h)
      PROVE  \A v \in 0..n : g[v] = h[v]
  <2> DEFINE D == {v \in 0..n : g[v] # h[v]}
  <2>1. ASSUME D # {} PROVE FALSE
    <3>1. D \subseteq Nat
      OBVIOUS
    <3>2. PICK v \in D : \A y \in D : v <= y
      <4> HIDE DEF D
      <4> QED
        BY <2>1, <3>1, LeastNumber
    <3>3. v \in Nat /\ v \in 0..n /\ v \in 0..m
      BY <1>1
    <3>4. v >= b => prev[v] \in Nat /\ prev[v] < v
      BY <3>3
    <3>5. v >= b => prev[v] \in 0..n /\ prev[v] \notin D
      <4> HIDE DEF D
      <4> QED
        BY <3>2, <3>3, <3>4
    <3>6. v >= b => g[prev[v]] = h[prev[v]]
      BY <3>5
    <3>7. g[v] = Value(g, v) /\ h[v] = Value(h, v)
      BY <1>1, <3>3
    <3>8. Value(g, v) = Value(h, v)
      <4>1. ~(v < b) => g[prev[v]] = h[prev[v]]
        BY <1>0, <3>3, <3>6
      <4> QED
        BY <4>1
    <3> QED
      BY <3>2, <3>7, <3>8
  <2> QED
    BY <2>1
<1>2. ASSUME NEW n \in Nat PROVE \E g : Part(n, g)
  <2> DEFINE D == {i \in Nat : ~\E g : Part(i, g)}
  <2>1. ASSUME D # {} PROVE FALSE
    <3>1. PICK i \in D : \A y \in D : i <= y
      <4>1. D \subseteq Nat
        OBVIOUS
      <4> HIDE DEF D
      <4> QED
        BY <2>1, <4>1, LeastNumber
    <3>2. i \in Nat /\ ~\E g : Part(i, g)
      OBVIOUS
    <3>3. CASE i = 0
      <4> DEFINE g == [v \in 0..0 |-> base[0]]
      <4>1. 0 < b /\ 0 \in 0..b - 1 /\ 0..0 = {0}
        OBVIOUS
      <4>2. Part(0, g)
        BY <4>1
      <4> QED
        BY <3>2, <3>3, <4>2
    <3>4. CASE i # 0
      <4>1. i - 1 \in Nat /\ i - 1 \notin D
        <5> HIDE DEF D
        <5> QED
          BY <3>1, <3>2, <3>4
      <4>2. PICK g : Part(i - 1, g)
        BY <4>1
      <4> DEFINE h == [v \in 0..i |-> IF v = i THEN Value(g, i) ELSE g[v]]
      <4>3. \A v \in 0..i : v = i \/ v \in 0..i - 1
        BY <3>2
      <4>4. \A v \in 0..i - 1 : v \in 0..i /\ v # i /\ v \in Nat
        BY <3>2
      <4>5. \A v \in 0..i : v >= b => prev[v] \in 0..i - 1
        <5>1. \A v \in 0..i : v \in Nat
          BY <3>2
        <5> QED
          BY <3>2, <5>1
      <4>6. \A v \in 0..i - 1 : g[v] \in S
        BY <4>2
      <4>7. Value(g, i) \in S
        <5>1. i < b => base[i] \in S
          BY <3>2
        <5>2. ~(i < b) => g[prev[i]] \in S
          BY <3>2, <4>5, <4>6
        <5> QED
          BY <3>2, <5>1, <5>2
      <4>8. h \in [0..i -> S] /\ h[i] = Value(g, i) /\ \A v \in 0..i - 1 : h[v] = g[v]
        <5> HIDE DEF Value
        <5> QED
          BY <3>2, <4>3, <4>4, <4>6, <4>7
      <4> HIDE DEF h
      <4>9. ASSUME NEW v \in 0..i PROVE Value(h, v) = Value(g, v)
        <5>1. v >= b => h[prev[v]] = g[prev[v]]
          BY <4>5, <4>8
        <5>2. v \in Nat
          BY <3>2
        <5> QED
          <6>1. ~(v < b) => h[prev[v]] = g[prev[v]]
            BY <1>0, <5>1, <5>2
          <6> QED
            BY <6>1
      <4>10. ASSUME NEW v \in 0..i PROVE h[v] = Value(h, v)
        <5>1. CASE v = i
          BY <4>8, <4>9, <5>1
        <5>2. CASE v \in 0..i - 1
          <6>1. g[v] = Value(g, v)
            BY <4>2, <5>2
          <6> QED
            BY <4>8, <4>9, <5>2, <6>1
        <5> QED
          BY <4>3, <5>1, <5>2
      <4>11. Part(i, h)
        BY <4>8, <4>10
      <4> QED
        BY <3>2, <4>11
    <3> QED
      BY <3>3, <3>4
  <2> QED
    BY <2>1
<1> DEFINE G(n) == CHOOSE g : Part(n, g)
           f == [n \in Nat |-> G(n)[n]]
<1>3. ASSUME NEW n \in Nat PROVE Part(n, G(n))
  <2> HIDE DEF Part
  <2> QED
    BY <1>2
<1> HIDE DEF G
<1>4. ASSUME NEW v \in Nat PROVE f[v] \in S /\ f[v] = Value(f, v)
  <2>1. v \in 0..v
    OBVIOUS
  <2>2. f[v] = G(v)[v] /\ G(v)[v] \in S /\ G(v)[v] = Value(G(v), v)
    BY <1>3, <2>1
  <2>3. v >= b => /\ prev[v] \in Nat /\ prev[v] <= v /\ prev[v] \in 0..prev[v]
                  /\ f[prev[v]] = G(prev[v])[prev[v]]
    OBVIOUS
  <2>4. ASSUME v >= b PROVE G(v)[prev[v]] = G(prev[v])[prev[v]]
    <3>1. prev[v] \in Nat /\ prev[v] <= v /\ prev[v] \in 0..prev[v]
      BY <2>3, <2>4
    <3>2. Part(prev[v], G(prev[v])) /\ Part(v, G(v))
      BY <1>3, <3>1
    <3> HIDE DEF Part
    <3> QED
      BY <1>1, <3>1, <3>2
  <2>5. Value(f, v) = Value(G(v), v)
    <3>1. ~(v < b) => f[prev[v]] = G(v)[prev[v]]
      BY <1>0, <2>3, <2>4
    <3> HIDE DEF f
    <3> QED
      BY <3>1
  <2> QED
    BY <2>2, <2>5
<1>5. f \in [Nat -> S]
  <2>1. \A n \in Nat : G(n)[n] \in S
    BY <1>4
  <2> QED
    BY <2>1
<1>6. \A v \in Nat : f[v] = IF v < b THEN base[v] ELSE step[<<v, f[prev[v]]>>]
  BY <1>4
<1> HIDE DEF f
<1> QED
  BY <1>5, <1>6

-----------------------------------------------------------------------------
(* The digits of a number: sdsull2str writes as many as countDigits says.  *)

\* What a command is made of.
Bytes == STRING \cup {"0", "1", "2", "3", "4", "5", "6", "7", "8", "9",
                     "*", "$", "%", "CR", "LF"}

LEMMA DigitIs ==
  /\ \A v \in 0..9 : <<Digits[v + 1]>> \in Seq(Bytes) /\ Len(<<Digits[v + 1]>>) = 1
  /\ \A v \in Nat : Digits[(v % 10) + 1] \in Bytes
<1>1. \A i \in 1..10 : Digits[i] \in Bytes
  <2>1. /\ Digits[1] = "0" /\ Digits[2] = "1" /\ Digits[3] = "2" /\ Digits[4] = "3"
        /\ Digits[5] = "4" /\ Digits[6] = "5" /\ Digits[7] = "6" /\ Digits[8] = "7"
        /\ Digits[9] = "8" /\ Digits[10] = "9"
    BY DEF Digits
  <2> QED
    BY <2>1 DEF Bytes
<1>2. \A v \in Nat : (v % 10) + 1 \in 1..10
  OBVIOUS
<1>3. \A v \in 0..9 : v + 1 \in 1..10
  OBVIOUS
<1> QED
  BY <1>1, <1>2, <1>3

LEMMA sdsull2strIs ==
  \A v \in Nat : sdsull2str[v] = IF v < 10 THEN <<Digits[v + 1]>>
                                ELSE Append(sdsull2str[v \div 10], Digits[(v % 10) + 1])
<1> DEFINE b == 10
           S == Seq(Bytes)
           base == [v \in 0..b - 1 |-> <<Digits[v + 1]>>]
           step == [p \in Nat \X S |-> Append(p[2], Digits[(p[1] % 10) + 1])]
           prev == [v \in Nat |-> v \div 10]
           F(f) == [v \in Nat |-> IF v < 10 THEN <<Digits[v + 1]>>
                                  ELSE Append(f[v \div 10], Digits[(v % 10) + 1])]
<1>1. base \in [0..b - 1 -> S]
  BY DigitIs
<1>2. step \in [Nat \X S -> S]
  <2>1. \A p \in Nat \X S : Append(p[2], Digits[(p[1] % 10) + 1]) \in S
    BY DigitIs
  <2> QED
    BY <2>1
<1>3. /\ prev \in [Nat -> Nat]
      /\ \A v \in Nat : v >= b => prev[v] < v
  OBVIOUS
<1>4. b \in Nat \ {0}
  OBVIOUS
<1>5. PICK f \in [Nat -> S] :
        \A v \in Nat : f[v] = IF v < b THEN base[v] ELSE step[<<v, f[prev[v]]>>]
  <2>1. Steps(S, b, base, step, prev)
    BY <1>1, <1>2, <1>3, <1>4 DEF Steps
  <2> HIDE DEF b, S, base, step, prev, F
  <2> QED
    BY <2>1, Recursion
<1>6. \A v \in Nat : f[v] = IF v < 10 THEN <<Digits[v + 1]>>
                            ELSE Append(f[v \div 10], Digits[(v % 10) + 1])
  <2>1. \A v \in Nat : v < 10 => v \in 0..10 - 1
    OBVIOUS
  <2>2. \A v \in Nat : v \div 10 \in Nat /\ f[v \div 10] \in S
    <3> HIDE DEF S
    <3> QED
      OBVIOUS
  <2>3. \A v \in Nat : <<v, f[v \div 10]>> \in Nat \X S
    BY <2>2
  <2> QED
    BY <1>5, <2>1, <2>2, <2>3
<1>7. f = F(f)
  BY <1>6
<1>8. sdsull2str = F(sdsull2str)
  BY <1>7 DEF sdsull2str
<1> HIDE DEF S, base, step, prev
<1> QED
  BY <1>8

LEMMA FourDigitsIs ==
  \A v \in Nat : FourDigits[v] =
    IF v < 10 THEN 1 ELSE IF v < 100 THEN 2 ELSE IF v < 1000 THEN 3 ELSE IF v < 10000 THEN 4
    ELSE 4 + FourDigits[v \div 10000]
<1> DEFINE b == 10000
           Few(v) == IF v < 10 THEN 1 ELSE IF v < 100 THEN 2 ELSE IF v < 1000 THEN 3 ELSE 4
           base == [v \in 0..b - 1 |-> Few(v)]
           step == [p \in Nat \X Nat |-> 4 + p[2]]
           prev == [v \in Nat |-> v \div 10000]
           F(f) == [v \in Nat |->
                      IF v < 10 THEN 1 ELSE IF v < 100 THEN 2 ELSE IF v < 1000 THEN 3
                      ELSE IF v < 10000 THEN 4 ELSE 4 + f[v \div 10000]]
<1>1. base \in [0..b - 1 -> Nat]
  OBVIOUS
<1>2. step \in [Nat \X Nat -> Nat]
  OBVIOUS
<1>3. prev \in [Nat -> Nat] /\ \A v \in Nat : v >= b => prev[v] < v
  OBVIOUS
<1>4. b \in Nat \ {0}
  OBVIOUS
<1>5. PICK f \in [Nat -> Nat] :
        \A v \in Nat : f[v] = IF v < b THEN base[v] ELSE step[<<v, f[prev[v]]>>]
  <2>1. Steps(Nat, b, base, step, prev)
    <3> HIDE DEF b, base, step, prev
    <3> QED
      BY <1>1, <1>2, <1>3, <1>4 DEF Steps
  <2> HIDE DEF b, base, step, prev, F
  <2> QED
    BY <2>1, Recursion
<1>6. /\ \A v \in Nat : v < 10000 => base[v] = Few(v)
      /\ \A v, u \in Nat : step[<<v, u>>] = 4 + u
      /\ \A v \in Nat : prev[v] = v \div 10000 /\ prev[v] \in Nat
      /\ b = 10000
  <2>1. ASSUME NEW v \in Nat, v < 10000 PROVE base[v] = Few(v)
    <3>1. v \in 0..b - 1
      <4>1. b \in Nat /\ v < b
        BY <2>1
      <4> HIDE DEF b
      <4> QED
        BY <4>1
    <3> HIDE DEF Few, b
    <3> QED
      BY <3>1
  <2>2. ASSUME NEW v \in Nat, NEW u \in Nat PROVE step[<<v, u>>] = 4 + u
    <3>1. <<v, u>> \in Nat \X Nat
      OBVIOUS
    <3> QED
      BY <3>1
  <2>3. ASSUME NEW v \in Nat PROVE prev[v] = v \div 10000 /\ prev[v] \in Nat
    OBVIOUS
  <2>4. b = 10000
    OBVIOUS
  <2> HIDE DEF b, Few, base, step, prev, F
  <2> QED
    BY <2>1, <2>2, <2>3, <2>4
<1>7. ASSUME NEW v \in Nat
      PROVE  f[v] = IF v < 10 THEN 1 ELSE IF v < 100 THEN 2 ELSE IF v < 1000 THEN 3
                    ELSE IF v < 10000 THEN 4 ELSE 4 + f[v \div 10000]
  <2> HIDE DEF b, base, step, prev, Few, F
  <2>1. CASE v < 10000
    <3>1. f[v] = base[v]
      <4>1. v < b
        BY <1>6, <2>1
      <4> QED
        BY <1>5, <4>1
    <3>2. base[v] = Few(v)
      BY <1>6, <2>1
    <3> QED
      BY <2>1, <3>1, <3>2 DEF Few
  <2>2. CASE ~(v < 10000)
    <3>1. f[v] = step[<<v, f[v \div 10000]>>] /\ v \div 10000 \in Nat
      BY <1>5, <1>6, <2>2
    <3>2. f[v] = 4 + f[v \div 10000]
      BY <1>6, <3>1
    <3> QED
      BY <2>2, <3>2
  <2> QED
    BY <2>1, <2>2
<1>8. f = F(f)
  BY <1>7
<1>9. FourDigits = F(FourDigits)
  BY <1>8 DEF FourDigits
<1> QED
  BY <1>9

\* Induction: what fails somewhere fails first somewhere.
LEMMA sdsull2strType ==
  \A v \in Nat : sdsull2str[v] \in Seq(Bytes)
<1> DEFINE D == {v \in Nat : sdsull2str[v] \notin Seq(Bytes)}
<1>1. ASSUME D # {} PROVE FALSE
  <2>1. PICK v \in D : \A y \in D : v <= y
    <3>1. D \subseteq Nat
      OBVIOUS
    <3> HIDE DEF D
    <3> QED
      BY <1>1, <3>1, LeastNumber
  <2>2. v \in Nat /\ sdsull2str[v] \notin Seq(Bytes)
    OBVIOUS
  <2>3. ~(v < 10)
    <3>1. v < 10 => v \in 0..9
      BY <2>2
    <3> QED
      BY <2>2, <3>1, sdsull2strIs, DigitIs
  <2>4. v \div 10 \in Nat /\ v \div 10 < v
    BY <2>2, <2>3
  <2>5. v \div 10 \notin D
    <3> HIDE DEF D
    <3> QED
      BY <2>1, <2>2, <2>4
  <2>6. sdsull2str[v \div 10] \in Seq(Bytes)
    BY <2>4, <2>5
  <2>7. sdsull2str[v] = Append(sdsull2str[v \div 10], Digits[(v % 10) + 1])
    BY <2>2, <2>3, sdsull2strIs
  <2> QED
    BY <2>2, <2>6, <2>7, DigitIs
<1> QED
  BY <1>1

LEMMA OneDigitMore ==
  \A v \in Nat : /\ Len(sdsull2str[v]) \in Nat
                 /\ v < 10 => Len(sdsull2str[v]) = 1
                 /\ v >= 10 => Len(sdsull2str[v]) = Len(sdsull2str[v \div 10]) + 1
<1> SUFFICES ASSUME NEW v \in Nat
             PROVE  /\ Len(sdsull2str[v]) \in Nat
                    /\ v < 10 => Len(sdsull2str[v]) = 1
                    /\ v >= 10 => Len(sdsull2str[v]) = Len(sdsull2str[v \div 10]) + 1
  OBVIOUS
<1>1. Len(sdsull2str[v]) \in Nat
  BY sdsull2strType
<1>2. CASE v < 10
  <2>1. v \in 0..9 /\ ~(v >= 10)
    BY <1>2
  <2> QED
    BY <1>1, <1>2, <2>1, sdsull2strIs, DigitIs
<1>3. CASE ~(v < 10)
  <2>1. v \div 10 \in Nat
    OBVIOUS
  <2>2. sdsull2str[v \div 10] \in Seq(Bytes) /\ Digits[(v % 10) + 1] \in Bytes
    BY <2>1, sdsull2strType, DigitIs
  <2>3. sdsull2str[v] = Append(sdsull2str[v \div 10], Digits[(v % 10) + 1])
    BY <1>3, sdsull2strIs
  <2>4. Len(sdsull2str[v]) = Len(sdsull2str[v \div 10]) + 1
    BY <2>2, <2>3, AppendProperties
  <2> QED
    BY <1>1, <1>3, <2>4
<1> QED
  BY <1>2, <1>3

\* The division by ten thousand is four divisions by ten.
LEMMA DigitsCounted ==
  \A v \in Nat : countDigits(v) \in Nat /\ Len(sdsull2str[v]) = countDigits(v)
<1> DEFINE L(v) == Len(sdsull2str[v])
           D == {v \in Nat : ~(countDigits(v) \in Nat /\ L(v) = countDigits(v))}
<1>1. ASSUME NEW v \in Nat
      PROVE  /\ L(v) \in Nat /\ v \div 10 \in Nat
             /\ v < 10 => L(v) = 1
             /\ v >= 10 => L(v) = L(v \div 10) + 1
  BY OneDigitMore
<1>2. \A v \in Nat : /\ v \div 100 \in Nat /\ v \div 1000 \in Nat /\ v \div 10000 \in Nat
                     /\ (v \div 10) \div 10 = v \div 100
                     /\ (v \div 100) \div 10 = v \div 1000
                     /\ (v \div 1000) \div 10 = v \div 10000
  OBVIOUS
<1>3. \A v \in Nat : /\ v < 100 => v \div 10 < 10
                     /\ v >= 100 => v \div 10 >= 10
                     /\ v < 1000 => v \div 100 < 10
                     /\ v >= 1000 => v \div 100 >= 10
                     /\ v < 10000 => v \div 1000 < 10
                     /\ v >= 10000 => v \div 1000 >= 10 /\ v \div 10000 < v
  OBVIOUS
<1> HIDE DEF L
<1>4. \A v \in Nat : v >= 10 /\ v < 100 => L(v) = 2
  BY <1>1, <1>3
<1>5. \A v \in Nat : v >= 100 /\ v < 1000 => L(v) = 3
  BY <1>1, <1>2, <1>3
<1>6. \A v \in Nat : v >= 1000 => L(v) = L(v \div 1000) + 3
  <2> SUFFICES ASSUME NEW v \in Nat, v >= 1000 PROVE L(v) = L(v \div 1000) + 3
    OBVIOUS
  <2>1. v >= 10 /\ v >= 100
    OBVIOUS
  <2>2. L(v) = L(v \div 10) + 1
    BY <1>1, <2>1
  <2>3. L(v \div 10) = L(v \div 100) + 1
    BY <1>1, <1>2, <1>3, <2>1
  <2>4. L(v \div 100) = L(v \div 1000) + 1
    BY <1>1, <1>2, <1>3
  <2>5. L(v \div 1000) \in Nat
    BY <1>1, <1>2
  <2> QED
    BY <2>2, <2>3, <2>4, <2>5
<1>7. \A v \in Nat : v >= 1000 /\ v < 10000 => L(v) = 4
  BY <1>1, <1>2, <1>3, <1>6
<1>8. \A v \in Nat : v >= 10000 => L(v) = L(v \div 10000) + 4
  <2> SUFFICES ASSUME NEW v \in Nat, v >= 10000 PROVE L(v) = L(v \div 10000) + 4
    OBVIOUS
  <2>1. L(v \div 1000) = L(v \div 10000) + 1 /\ L(v \div 10000) \in Nat
    BY <1>1, <1>2, <1>3
  <2> QED
    BY <1>6, <2>1
<1>9. ASSUME D # {} PROVE FALSE
  <2>1. PICK v \in D : \A y \in D : v <= y
    <3>1. D \subseteq Nat
      OBVIOUS
    <3> HIDE DEF D
    <3> QED
      BY <1>9, <3>1, LeastNumber
  <2>2. v \in Nat /\ ~(countDigits(v) \in Nat /\ L(v) = countDigits(v))
    OBVIOUS
  <2>3. v >= 10000
    <3>1. CASE v < 10
      BY <1>1, <2>2, <3>1, FourDigitsIs DEF countDigits
    <3>2. CASE v >= 10 /\ v < 100
      BY <1>4, <2>2, <3>2, FourDigitsIs DEF countDigits
    <3>3. CASE v >= 100 /\ v < 1000
      BY <1>5, <2>2, <3>3, FourDigitsIs DEF countDigits
    <3>4. CASE v >= 1000 /\ v < 10000
      BY <1>7, <2>2, <3>4, FourDigitsIs DEF countDigits
    <3> QED
      BY <2>2, <3>1, <3>2, <3>3, <3>4
  <2>4. v \div 10000 \in Nat /\ v \div 10000 < v
    BY <1>2, <1>3, <2>2, <2>3
  <2>5. v \div 10000 \notin D
    <3> HIDE DEF D
    <3> QED
      BY <2>1, <2>2, <2>4
  <2>6. countDigits(v \div 10000) \in Nat /\ L(v \div 10000) = countDigits(v \div 10000)
    BY <2>4, <2>5
  <2>7. countDigits(v) = 4 + countDigits(v \div 10000)
    BY <2>2, <2>3, FourDigitsIs DEF countDigits
  <2> QED
    BY <1>8, <2>2, <2>3, <2>6, <2>7
<1>10. D = {}
  BY <1>9
<1> QED
  BY <1>10 DEF L

-----------------------------------------------------------------------------
(* A command is as long as it was computed to be: what a word adds to it,  *)
(* and the sums of that over the first words of a command.                 *)

Words == Seq(Seq(Bytes))

LEMMA Joined ==
  \A s, t \in Seq(Bytes) : s \o t \in Seq(Bytes) /\ Len(s \o t) = Len(s) + Len(t)
                          /\ Len(s) \in Nat /\ Len(t) \in Nat
<1> SUFFICES ASSUME NEW s \in Seq(Bytes), NEW t \in Seq(Bytes)
             PROVE  s \o t \in Seq(Bytes) /\ Len(s \o t) = Len(s) + Len(t)
                    /\ Len(s) \in Nat /\ Len(t) \in Nat
  OBVIOUS
<1> QED
  BY ConcatProperties

LEMMA BulkLength ==
  \A w \in Seq(Bytes) : /\ bulklen(Len(w)) \in Nat
                        /\ Bulk(w) \in Seq(Bytes) /\ Len(Bulk(w)) = bulklen(Len(w))
<1> SUFFICES ASSUME NEW w \in Seq(Bytes)
             PROVE  /\ bulklen(Len(w)) \in Nat
                    /\ Bulk(w) \in Seq(Bytes) /\ Len(Bulk(w)) = bulklen(Len(w))
  OBVIOUS
<1> DEFINE d == sdsull2str[Len(w)]
           dollar == <<"$">>
<1>1. d \in Seq(Bytes) /\ Len(d) = countDigits(Len(w)) /\ countDigits(Len(w)) \in Nat
      /\ Len(w) \in Nat
  BY sdsull2strType, DigitsCounted
<1>2. EOL \in Seq(Bytes) /\ Len(EOL) = 2 /\ dollar \in Seq(Bytes) /\ Len(dollar) = 1
  BY DEF EOL, Bytes
<1>3. Bulk(w) = dollar \o d \o EOL \o w \o EOL
  BY DEF Bulk
<1> HIDE DEF d, dollar
<1>4. dollar \o d \in Seq(Bytes) /\ Len(dollar \o d) = 1 + countDigits(Len(w))
  <2>1. dollar \o d \in Seq(Bytes) /\ Len(dollar \o d) = Len(dollar) + Len(d)
    BY <1>1, <1>2, Joined
  <2> QED
    BY <1>1, <1>2, <2>1
<1>5. dollar \o d \o EOL \in Seq(Bytes) /\ Len(dollar \o d \o EOL) = 1 + countDigits(Len(w)) + 2
  BY <1>2, <1>4, Joined
<1>6. dollar \o d \o EOL \o w \in Seq(Bytes)
      /\ Len(dollar \o d \o EOL \o w) = 1 + countDigits(Len(w)) + 2 + Len(w)
  BY <1>5, Joined
<1>7. Bulk(w) \in Seq(Bytes) /\ Len(Bulk(w)) = 1 + countDigits(Len(w)) + 2 + Len(w) + 2
  BY <1>2, <1>3, <1>6, Joined
<1> QED
  BY <1>1, <1>7 DEF bulklen

LEMMA HeaderLength ==
  \A a \in Words : /\ countDigits(Len(a)) \in Nat
                   /\ Header(a) \in Seq(Bytes) /\ Len(Header(a)) = 3 + countDigits(Len(a))
<1> SUFFICES ASSUME NEW a \in Words
             PROVE  /\ countDigits(Len(a)) \in Nat
                    /\ Header(a) \in Seq(Bytes) /\ Len(Header(a)) = 3 + countDigits(Len(a))
  OBVIOUS
<1> DEFINE d == sdsull2str[Len(a)]
           star == <<"*">>
<1>0. Len(a) \in Nat
  BY DEF Words
<1>1. d \in Seq(Bytes) /\ Len(d) = countDigits(Len(a)) /\ countDigits(Len(a)) \in Nat
  BY <1>0, sdsull2strType, DigitsCounted
<1>2. EOL \in Seq(Bytes) /\ Len(EOL) = 2 /\ star \in Seq(Bytes) /\ Len(star) = 1
  BY DEF EOL, Bytes
<1>3. Header(a) = star \o d \o EOL
  BY DEF Header
<1> HIDE DEF d, star
<1>4. star \o d \in Seq(Bytes) /\ Len(star \o d) = 1 + countDigits(Len(a))
  <2>1. star \o d \in Seq(Bytes) /\ Len(star \o d) = Len(star) + Len(d)
    BY <1>1, <1>2, Joined
  <2> QED
    BY <1>1, <1>2, <2>1
<1>5. star \o d \o EOL \in Seq(Bytes) /\ Len(star \o d \o EOL) = 1 + countDigits(Len(a)) + 2
  BY <1>2, <1>4, Joined
<1> QED
  BY <1>1, <1>3, <1>5

\* f[i] bytes are the first i words.
Sums(a, f) ==
  /\ f \in [Nat -> Nat] /\ f[0] = 0
  /\ \A i \in 1..Len(a) : f[i] = f[i - 1] + bulklen(Len(a[i]))

LEMMA SumsExist ==
  ASSUME NEW a \in Words PROVE \E f : Sums(a, f)
<1> DEFINE b == 1
           base == [v \in 0..b - 1 |-> 0]
           Adds(v, u) == IF v \in 1..Len(a) THEN u + bulklen(Len(a[v])) ELSE u
           step == [p \in Nat \X Nat |-> Adds(p[1], p[2])]
           prev == [v \in Nat |-> IF v >= 1 THEN v - 1 ELSE 0]
<1>1. base \in [0..b - 1 -> Nat] /\ b \in Nat \ {0} /\ b = 1 /\ base[0] = 0
  OBVIOUS
<1>2. ASSUME NEW v \in Nat, NEW u \in Nat PROVE Adds(v, u) \in Nat
  <2>1. CASE v \in 1..Len(a)
    <3>1. a[v] \in Seq(Bytes)
      BY <2>1 DEF Words
    <3>2. bulklen(Len(a[v])) \in Nat
      BY <3>1, BulkLength
    <3> QED
      BY <2>1, <3>2
  <2>2. CASE v \notin 1..Len(a)
    BY <2>2
  <2> QED
    BY <2>1, <2>2
<1>3. step \in [Nat \X Nat -> Nat]
  <2> HIDE DEF Adds
  <2>1. \A p \in Nat \X Nat : Adds(p[1], p[2]) \in Nat
    BY <1>2
  <2> QED
    BY <2>1
<1>4. /\ prev \in [Nat -> Nat]
      /\ \A v \in Nat : v >= b => prev[v] < v /\ prev[v] = v - 1
  OBVIOUS
<1>5. \A v, u \in Nat : step[<<v, u>>] = Adds(v, u)
  <2> HIDE DEF Adds
  <2> SUFFICES ASSUME NEW v \in Nat, NEW u \in Nat PROVE step[<<v, u>>] = Adds(v, u)
    OBVIOUS
  <2>1. <<v, u>> \in Nat \X Nat
    OBVIOUS
  <2> QED
    BY <2>1
<1> HIDE DEF b, base, step, prev
<1>6. Steps(Nat, b, base, step, prev)
  BY <1>1, <1>3, <1>4 DEF Steps
<1>7. PICK f \in [Nat -> Nat] :
        \A v \in Nat : f[v] = IF v < b THEN base[v] ELSE step[<<v, f[prev[v]]>>]
  BY <1>6, Recursion
<1>8. f[0] = 0
  <2>1. 0 < b
    BY <1>1
  <2> QED
    BY <1>1, <1>7, <2>1
<1>9. ASSUME NEW i \in 1..Len(a) PROVE f[i] = f[i - 1] + bulklen(Len(a[i]))
  <2>1. i \in Nat /\ i >= b /\ ~(i < b) /\ i - 1 \in Nat
    BY <1>1 DEF Words
  <2>2. f[i] = step[<<i, f[i - 1]>>]
    BY <1>4, <1>7, <2>1
  <2>3. f[i] = Adds(i, f[i - 1])
    BY <1>5, <2>1, <2>2
  <2> QED
    BY <2>3
<1> QED
  BY <1>8, <1>9 DEF Sums

LEMMA SumsGrow ==
  ASSUME NEW a \in Words, NEW f, Sums(a, f)
  PROVE  \A i \in 0..Len(a) : f[i] <= f[Len(a)]
<1> DEFINE n == Len(a)
           D == {k \in 0..n : ~(f[n - k] <= f[n])}
<1>0. n \in Nat /\ f \in [Nat -> Nat]
  BY DEF Words, Sums
<1>1. ASSUME NEW i \in 1..n PROVE f[i - 1] <= f[i]
  <2>1. a[i] \in Seq(Bytes)
    BY DEF Words
  <2>2. bulklen(Len(a[i])) \in Nat
    BY <2>1, BulkLength
  <2>3. f[i] = f[i - 1] + bulklen(Len(a[i])) /\ f[i - 1] \in Nat
    BY <1>0 DEF Sums
  <2> QED
    BY <2>2, <2>3
<1> HIDE DEF n
<1>2. ASSUME D # {} PROVE FALSE
  <2>1. PICK k \in D : \A y \in D : k <= y
    <3>1. D \subseteq Nat
      BY <1>0
    <3> HIDE DEF D
    <3> QED
      BY <1>2, <3>1, LeastNumber
  <2>2. k \in 0..n /\ ~(f[n - k] <= f[n]) /\ n - k \in Nat /\ f[n - k] \in Nat /\ f[n] \in Nat
    BY <1>0
  <2>3. k # 0
    <3>1. n - 0 = n
      BY <1>0
    <3> QED
      BY <2>2, <3>1
  <2>4. k - 1 \in 0..n /\ ~(k <= k - 1) /\ n - (k - 1) \in 1..n /\ (n - (k - 1)) - 1 = n - k
    BY <1>0, <2>2, <2>3
  <2>5. k - 1 \notin D
    <3> HIDE DEF D
    <3> QED
      BY <2>1, <2>4
  <2>6. f[n - (k - 1)] <= f[n]
    BY <2>4, <2>5
  <2>7. f[n - k] <= f[n - (k - 1)] /\ f[n - (k - 1)] \in Nat
    BY <1>0, <1>1, <2>4
  <2> QED
    BY <2>2, <2>6, <2>7
<1>3. ASSUME NEW i \in 0..n PROVE f[i] <= f[n]
  <2>1. n - i \in 0..n /\ n - (n - i) = i
    BY <1>0
  <2>2. n - i \notin D
    BY <1>2
  <2> QED
    BY <2>1, <2>2
<1> QED
  BY <1>3 DEF n

LEMMA SumsAppend ==
  ASSUME NEW a \in Words, NEW w \in Seq(Bytes), NEW f, Sums(a, f)
  PROVE  \E g : Sums(Append(a, w), g)
                /\ g[Len(Append(a, w))] = f[Len(a)] + bulklen(Len(w))
<1> DEFINE n == Len(a)
           e == Append(a, w)
           g == [f EXCEPT ![n + 1] = f[n] + bulklen(Len(w))]
<1>1. /\ n \in Nat /\ Len(e) = n + 1 /\ e[n + 1] = w
      /\ \A i \in 1..n : e[i] = a[i]
  BY AppendProperties DEF Words
<1>2. f \in [Nat -> Nat] /\ f[0] = 0 /\ bulklen(Len(w)) \in Nat
      /\ \A i \in 1..n : f[i] = f[i - 1] + bulklen(Len(a[i]))
  BY BulkLength DEF Sums
<1> HIDE DEF n, e
<1>3. /\ g \in [Nat -> Nat] /\ g[n + 1] = f[n] + bulklen(Len(w))
      /\ \A i \in 0..n : g[i] = f[i]
  <2>1. f[n] + bulklen(Len(w)) \in Nat /\ n + 1 \in Nat
    <3> DEFINE b == bulklen(Len(w))
    <3>1. n \in Nat /\ f[n] \in Nat /\ b \in Nat
      BY <1>1, <1>2
    <3> HIDE DEF b
    <3>2. f[n] + b \in Nat /\ n + 1 \in Nat
      BY <3>1
    <3> QED
      BY <3>2 DEF b
  <2>2. \A i \in 0..n : i \in Nat /\ i # n + 1
    BY <1>1
  <2> QED
    BY <1>2, <2>1, <2>2
<1> HIDE DEF g
<1>4. ASSUME NEW i \in 1..Len(e) PROVE g[i] = g[i - 1] + bulklen(Len(e[i]))
  <2>1. CASE i = n + 1
    <3>1. i - 1 = n /\ n \in 0..n
      BY <1>1, <2>1
    <3> QED
      BY <1>1, <1>3, <2>1, <3>1
  <2>2. CASE i # n + 1
    <3>1. i \in 1..n /\ i \in 0..n /\ i - 1 \in 0..n
      BY <1>1, <2>2
    <3> QED
      BY <1>1, <1>2, <1>3, <3>1
  <2> QED
    BY <2>1, <2>2
<1>5. g[0] = 0
  <2>1. 0 \in 0..n
    BY <1>1
  <2> QED
    BY <1>2, <1>3, <2>1
<1>6. Sums(e, g)
  BY <1>3, <1>4, <1>5 DEF Sums
<1>7. g[Len(e)] = f[n] + bulklen(Len(w))
  BY <1>1, <1>3
<1> QED
  BY <1>6, <1>7 DEF e, n

-----------------------------------------------------------------------------
(* The invariant of one formatting call.                                   *)

FormatTypes ==
  /\ how \in {"none", "format", "argv", "sds"}
  /\ fpc \in {"parse", "count", "write", "ok", "-1", "-2"}
  /\ touched \in BOOLEAN /\ totlen \in Nat /\ va \in Nat /\ j \in Nat
  /\ format \in Seq(STRING) /\ ap \in Seq(Seq(STRING))
  /\ c \in 1..Len(format) + 1
  /\ curarg \in Seq(Bytes) /\ argv \in Words
  /\ cmd \in [s : Seq(Bytes), alloc : Nat]

\* The first i tokens of a format that take an argument.
Taken(t, i) == {k \in 1..i : t[k] \in Taking}

\* The arguments taken are those of the tokens read, and there are enough of them.
ArgumentsTaken ==
  /\ Cardinality(Taken(format, Len(format))) <= Len(ap)
  /\ fpc = "parse" /\ how = "format" => va = Cardinality(Taken(format, c - 1))
  /\ how = "none" => /\ fpc = "ok" /\ format = <<>> /\ argv = <<>>
                     /\ c = 1 /\ va = 0 /\ totlen = 0

\* What has been computed, and what has been written, is the sum over the words so far.
Lengths(f) ==
  /\ Sums(argv, f)
  /\ fpc = "parse" /\ how = "format" => totlen = f[Len(argv)]
  /\ fpc = "count" => /\ j \in 1..Len(argv) + 1
                      /\ totlen = 3 + countDigits(Len(argv)) + f[j - 1]
  /\ fpc = "write" => /\ j \in 1..Len(argv) + 1
                      /\ totlen = 3 + countDigits(Len(argv)) + f[Len(argv)]
                      /\ Len(cmd.s) = 3 + countDigits(Len(argv)) + f[j - 1]
                      /\ totlen <= cmd.alloc
  /\ fpc = "ok" => Len(cmd.s) = totlen /\ totlen <= cmd.alloc

FormatInv == FormatTypes /\ ArgumentsTaken /\ \E f : Lengths(f)

LEMMA MoreElements ==
  ASSUME NEW S, NEW T, S \subseteq T, NEW t \in Seq(S)
  PROVE  t \in Seq(T) /\ \A i \in 1..Len(t) : t[i] \in S
<1>1. Len(t) \in Nat /\ t \in [1..Len(t) -> S]
  BY LenProperties
<1>2. t \in [1..Len(t) -> T]
  BY <1>1
<1> QED
  BY <1>1, <1>2, SeqDef

LEMMA BytesOfFormat ==
  /\ \A t \in Seq(STRING) : /\ t \in Seq(Bytes)
                            /\ \A i \in 1..Len(t) : <<t[i]>> \in Seq(Bytes)
  /\ \A a \in Seq(Seq(STRING)) : /\ a \in Words
                                 /\ \A i \in 1..Len(a) : a[i] \in Seq(Bytes)
  /\ <<"%">> \in Seq(Bytes) /\ <<>> \in Seq(Bytes) /\ <<>> \in Words
<1>1. STRING \subseteq Bytes /\ "%" \in Bytes
  BY DEF Bytes
<1>2. ASSUME NEW t \in Seq(STRING) PROVE t \in Seq(Bytes)
  BY <1>1, MoreElements
<1>3. ASSUME NEW t \in Seq(STRING), NEW i \in 1..Len(t) PROVE <<t[i]>> \in Seq(Bytes)
  <2>1. t[i] \in Bytes
    BY <1>1, MoreElements
  <2> QED
    BY <2>1
<1>4. ASSUME NEW a \in Seq(Seq(STRING)) PROVE a \in Words
  <2>1. Seq(STRING) \subseteq Seq(Bytes)
    BY <1>2
  <2> QED
    BY <2>1, MoreElements DEF Words
<1>5. ASSUME NEW a \in Seq(Seq(STRING)), NEW i \in 1..Len(a) PROVE a[i] \in Seq(Bytes)
  <2>1. a[i] \in Seq(STRING)
    OBVIOUS
  <2> QED
    BY <1>2, <2>1
<1>6. <<"%">> \in Seq(Bytes) /\ <<>> \in Seq(Bytes) /\ <<>> \in Words
  BY <1>1 DEF Words
<1> QED
  BY <1>2, <1>3, <1>4, <1>5, <1>6

LEMMA TakenGrows ==
  ASSUME NEW t \in Seq(STRING), NEW i \in 1..Len(t)
  PROVE  /\ Cardinality(Taken(t, i - 1)) \in Nat
         /\ t[i] \notin Taking => Taken(t, i) = Taken(t, i - 1)
         /\ t[i] \in Taking =>
              /\ Cardinality(Taken(t, i)) = Cardinality(Taken(t, i - 1)) + 1
              /\ Cardinality(Taken(t, i)) <= Cardinality(Taken(t, Len(t)))
<1> DEFINE A == Taken(t, i - 1)
           B == Taken(t, i)
           T == Taken(t, Len(t))
<1>0. Len(t) \in Nat /\ i \in Nat /\ i - 1 \in Nat
  OBVIOUS
<1>1. A \subseteq 1..Len(t) /\ B \subseteq T /\ T \subseteq 1..Len(t)
  BY <1>0 DEF Taken
<1>2. IsFiniteSet(A) /\ IsFiniteSet(T)
  <2>1. IsFiniteSet(1..Len(t))
    BY <1>0, FS_Interval
  <2> HIDE DEF A, T
  <2> QED
    BY <1>1, <2>1, FS_Subset
<1>3. Cardinality(A) \in Nat
  <2> HIDE DEF A
  <2> QED
    BY <1>2, FS_CardinalityType
<1>4. ASSUME t[i] \notin Taking PROVE B = A
  <2>1. \A k : k \in 1..i <=> k \in 1..i - 1 \/ k = i
    BY <1>0
  <2> QED
    BY <1>4, <2>1 DEF Taken
<1>5. ASSUME t[i] \in Taking
      PROVE  Cardinality(B) = Cardinality(A) + 1 /\ Cardinality(B) <= Cardinality(T)
  <2>1. \A k : k \in 1..i <=> k \in 1..i - 1 \/ k = i
    BY <1>0
  <2>2. B = A \cup {i} /\ i \notin A
    BY <1>0, <1>5, <2>1 DEF Taken
  <2> HIDE DEF A, B, T
  <2>3. Cardinality(B) = Cardinality(A) + 1
    BY <1>2, <2>2, FS_AddElement
  <2>4. Cardinality(B) <= Cardinality(T)
    BY <1>1, <1>2, FS_Subset
  <2> QED
    BY <2>3, <2>4
<1> QED
  BY <1>3, <1>4, <1>5

LEMMA RoomMade ==
  \A n \in Nat : sdsMakeRoomFor(sdsempty, n).alloc \in Nat
                 /\ n <= sdsMakeRoomFor(sdsempty, n).alloc
<1> SUFFICES ASSUME NEW n \in Nat
             PROVE  sdsMakeRoomFor(sdsempty, n).alloc \in Nat
                    /\ n <= sdsMakeRoomFor(sdsempty, n).alloc
  OBVIOUS
<1>1. sdsempty.alloc = 0 /\ Len(sdsempty.s) = 0 /\ sdsempty = [s |-> <<>>, alloc |-> 0]
  BY DEF sdsempty
<1>2. CASE n = 0
  <2>1. ~Allocates(sdsempty, n)
    BY <1>1, <1>2 DEF Allocates, sdsavail
  <2>2. sdsMakeRoomFor(sdsempty, n) = sdsempty
    BY <2>1 DEF sdsMakeRoomFor
  <2> QED
    BY <1>1, <1>2, <2>2
<1>3. CASE n # 0
  <2>1. Allocates(sdsempty, n)
    BY <1>1, <1>3 DEF Allocates, sdsavail
  <2>2. sdsMakeRoomFor(sdsempty, n).alloc
          = IF n < SDS_MAX_PREALLOC THEN 2 * n ELSE n + SDS_MAX_PREALLOC
    BY <1>1, <2>1 DEF sdsMakeRoomFor
  <2> QED
    BY <2>2, PreallocAssumption
<1> QED
  BY <1>2, <1>3

LEMMA InitFormatInv ==
  ASSUME FormatInit PROVE FormatInv
<1>1. /\ argv \in Words /\ format = <<>> /\ ap = <<>> /\ Len(format) = 0 /\ Len(ap) = 0
  BY BytesOfFormat, FormatAssumption DEF FormatInit
<1>2. FormatTypes
  <2>1. sdsempty \in [s : Seq(Bytes), alloc : Nat]
    BY BytesOfFormat DEF sdsempty
  <2>2. format \in Seq(STRING) /\ ap \in Seq(Seq(STRING)) /\ curarg \in Seq(Bytes)
    BY <1>1, BytesOfFormat DEF FormatInit
  <2>3. c \in 1..Len(format) + 1
    BY <1>1 DEF FormatInit
  <2> QED
    BY <1>1, <2>1, <2>2, <2>3 DEF FormatInit, FormatTypes
<1>3. ArgumentsTaken
  <2>1. Taken(format, Len(format)) = {} /\ Taken(format, c - 1) = {}
    BY <1>1 DEF Taken, FormatInit
  <2>2. Cardinality({}) = 0
    BY FS_EmptySet
  <2>3. Cardinality(Taken(format, Len(format))) <= Len(ap)
    <3>1. Cardinality(Taken(format, Len(format))) = 0 /\ Len(ap) = 0
      BY <1>1, <2>1, <2>2
    <3> QED
      BY <3>1
  <2>4. fpc = "parse" /\ how = "format" => va = Cardinality(Taken(format, c - 1))
    BY DEF FormatInit
  <2> QED
    BY <1>1, <2>3, <2>4 DEF ArgumentsTaken, FormatInit
<1>4. PICK f : Sums(argv, f)
  BY <1>1, SumsExist
<1>5. Lengths(f)
  <2>1. how = "none" => fpc = "ok" /\ Len(cmd.s) = 0 /\ totlen = 0 /\ cmd.alloc = 0
    BY DEF FormatInit, sdsempty
  <2> QED
    BY <1>4, <2>1 DEF FormatInit, Lengths
<1> QED
  BY <1>2, <1>3, <1>5 DEF FormatInv

LEMMA Failing ==
  ASSUME FormatInv, NEW code \in {"-1", "-2"}, Fail(code), how # "none", va' \in Nat
  PROVE  FormatInv'
<1>1. /\ fpc' = code /\ argv' = <<>> /\ curarg' = <<>> /\ cmd' = sdsempty
      /\ how' = how /\ format' = format /\ c' = c /\ ap' = ap
      /\ touched' = touched /\ totlen' = totlen /\ j' = j
  BY DEF Fail
<1>2. FormatTypes'
  <2>1. sdsempty \in [s : Seq(Bytes), alloc : Nat] /\ <<>> \in Words /\ <<>> \in Seq(Bytes)
    BY BytesOfFormat DEF sdsempty
  <2> QED
    BY <1>1, <2>1 DEF FormatInv, FormatTypes
<1>3. ArgumentsTaken'
  <2>1. Cardinality(Taken(format', Len(format'))) <= Len(ap')
    BY <1>1 DEF FormatInv, ArgumentsTaken
  <2> QED
    BY <1>1, <2>1 DEF ArgumentsTaken
<1>4. PICK f : Sums(<<>>, f)
  BY BytesOfFormat, SumsExist
<1>5. Lengths(f)'
  BY <1>1, <1>4 DEF Lengths
<1> QED
  BY <1>2, <1>3, <1>5 DEF FormatInv

LEMMA Adding ==
  ASSUME FormatInv, Parsing, ~AtEnd, NEW bytes \in Seq(Bytes), AddBytes(bytes),
         va' = Cardinality(Taken(format, c)), va' \in Nat
  PROVE  FormatInv'
<1>0. how = "format" /\ fpc = "parse" /\ c \in 1..Len(format) /\ Len(format) \in Nat
  BY DEF Parsing, AtEnd, FormatInv, FormatTypes
<1>1. CASE bytes # <<>> /\ Fail("-1")
  BY <1>0, <1>1, Failing
<1>2. CASE /\ curarg' = curarg \o bytes /\ touched' = TRUE /\ c' = c + 1
           /\ UNCHANGED <<how, format, ap, argv, totlen, cmd, j, fpc>>
  <2>1. FormatTypes'
    <3>1. curarg' \in Seq(Bytes)
      BY <1>2, Joined DEF FormatInv, FormatTypes
    <3>2. c' \in 1..Len(format') + 1
      BY <1>0, <1>2
    <3> QED
      BY <1>2, <3>1, <3>2 DEF FormatInv, FormatTypes
  <2>2. ArgumentsTaken'
    <3>1. c' - 1 = c /\ how' = "format" /\ format' = format /\ ap' = ap
      BY <1>0, <1>2
    <3> QED
      BY <3>1 DEF FormatInv, ArgumentsTaken
  <2>3. PICK f : Lengths(f)
    BY DEF FormatInv
  <2>4. Lengths(f)'
    BY <1>0, <1>2, <2>3 DEF Lengths
  <2> QED
    BY <2>1, <2>2, <2>4 DEF FormatInv
<1> QED
  BY <1>1, <1>2 DEF AddBytes

\* The token read takes no argument, or the one behind those taken.
LEMMA TokenRead ==
  ASSUME FormatInv, Parsing, ~AtEnd
  PROVE  /\ how = "format" /\ fpc = "parse" /\ c \in 1..Len(format)
         /\ va \in Nat
         /\ format[c] \notin Taking => va = Cardinality(Taken(format, c))
         /\ format[c] \in Taking => /\ va + 1 = Cardinality(Taken(format, c))
                                    /\ ap[va + 1] \in Seq(Bytes)
<1>1. /\ how = "format" /\ fpc = "parse" /\ c \in 1..Len(format) /\ va \in Nat
      /\ format \in Seq(STRING) /\ ap \in Seq(Seq(STRING))
  BY DEF Parsing, AtEnd, FormatInv, FormatTypes
<1>2. /\ va = Cardinality(Taken(format, c - 1))
      /\ Cardinality(Taken(format, Len(format))) <= Len(ap)
  BY <1>1 DEF FormatInv, ArgumentsTaken
<1>3. ASSUME format[c] \notin Taking PROVE va = Cardinality(Taken(format, c))
  BY <1>1, <1>2, <1>3, TakenGrows
<1>4. ASSUME format[c] \in Taking
      PROVE  va + 1 = Cardinality(Taken(format, c)) /\ ap[va + 1] \in Seq(Bytes)
  <2>1. /\ Cardinality(Taken(format, c)) = va + 1
        /\ Cardinality(Taken(format, c)) <= Cardinality(Taken(format, Len(format)))
    BY <1>1, <1>2, <1>4, TakenGrows
  <2>2. Cardinality(Taken(format, Len(format))) \in Nat
    <3>1. Len(format) \in 1..Len(format) /\ Len(format) \in Nat
      BY <1>1
    <3>2. IsFiniteSet(1..Len(format)) /\ Taken(format, Len(format)) \subseteq 1..Len(format)
      BY <3>1, FS_Interval DEF Taken
    <3> QED
      BY <3>2, FS_Subset, FS_CardinalityType
  <2>3. va + 1 \in 1..Len(ap)
    BY <1>1, <1>2, <2>1, <2>2
  <2> QED
    BY <1>1, <2>1, <2>3, BytesOfFormat
<1> QED
  BY <1>1, <1>3, <1>4

LEMMA TokensKeepInv ==
  ASSUME FormatInv, Literal \/ PercentSign \/ Argument \/ LongConversion \/ BadConversion
  PROVE  FormatInv'
<1>1. CASE Literal
  <2>1. /\ Parsing /\ ~AtEnd /\ AddBytes(<<format[c]>>) /\ va' = va
        /\ format[c] \notin Conversions
    BY <1>1 DEF Literal
  <2>2. format[c] \notin Taking
    BY <2>1 DEF Conversions, Taking
  <2>3. va' = Cardinality(Taken(format, c)) /\ va' \in Nat /\ c \in 1..Len(format)
    BY <2>1, <2>2, TokenRead
  <2>4. <<format[c]>> \in Seq(Bytes)
    BY <2>3, BytesOfFormat DEF FormatInv, FormatTypes
  <2> QED
    BY <2>1, <2>3, <2>4, Adding
<1>2. CASE PercentSign
  <2>1. Parsing /\ ~AtEnd /\ AddBytes(<<"%">>) /\ va' = va /\ format[c] = "%%"
    BY <1>2 DEF PercentSign, AtToken
  <2>2. format[c] \notin Taking
    BY <2>1 DEF Taking
  <2>3. va' = Cardinality(Taken(format, c)) /\ va' \in Nat
    BY <2>1, <2>2, TokenRead
  <2> QED
    BY <2>1, <2>3, BytesOfFormat, Adding
<1>3. CASE Argument
  <2>1. Parsing /\ ~AtEnd /\ AddBytes(ap[va + 1]) /\ va' = va + 1 /\ format[c] \in Taking
    BY <1>3 DEF Argument, AtToken, Taking
  <2>2. va' = Cardinality(Taken(format, c)) /\ va' \in Nat /\ ap[va + 1] \in Seq(Bytes)
    BY <2>1, TokenRead
  <2> QED
    BY <2>1, <2>2, Adding
<1>4. CASE LongConversion
  <2>1. Parsing /\ ~AtEnd /\ AddBytes(<<>>) /\ va' = va + 1 /\ format[c] \in Taking
    BY <1>4 DEF LongConversion, AtToken, Taking
  <2>2. va' = Cardinality(Taken(format, c)) /\ va' \in Nat
    BY <2>1, TokenRead
  <2> QED
    BY <2>1, <2>2, BytesOfFormat, Adding
<1>5. CASE BadConversion
  <2>1. Parsing /\ ~AtEnd /\ Fail("-2") /\ va' = va
    BY <1>5 DEF BadConversion, AtToken
  <2>2. how # "none" /\ va' \in Nat
    BY <2>1, TokenRead
  <2> QED
    BY <2>1, <2>2, Failing
<1> QED
  BY <1>1, <1>2, <1>3, <1>4, <1>5

LEMMA FormatCallKeepsInv ==
  ASSUME FormatInv, FormatCall PROVE FormatInv'
<1>1. PICK p \in Formats : format' = p[1] /\ ap' = p[2]
  BY DEF FormatCall
<1>2. /\ format' \in Seq(STRING) /\ ap' \in Seq(Seq(STRING))
      /\ Cardinality({i \in DOMAIN format' : format'[i] \in Taking}) <= Len(ap')
  BY <1>1, FormatAssumption
<1>3. /\ how = "none" /\ fpc = "ok" /\ how' = "format" /\ fpc' = "parse"
      /\ UNCHANGED <<c, va, curarg, touched, argv, totlen, cmd, j>>
  BY DEF FormatCall
<1>4. argv = <<>> /\ c = 1 /\ va = 0 /\ totlen = 0
  BY <1>3 DEF FormatInv, ArgumentsTaken
<1>5. FormatTypes'
  <2>1. c' \in 1..Len(format') + 1
    BY <1>2, <1>3, <1>4
  <2> QED
    BY <1>2, <1>3, <2>1 DEF FormatInv, FormatTypes
<1>6. ArgumentsTaken'
  <2>1. Taken(format', Len(format')) = {i \in DOMAIN format' : format'[i] \in Taking}
    <3>1. DOMAIN format' = 1..Len(format')
      BY <1>2
    <3> QED
      BY <3>1 DEF Taken
  <2>2. Taken(format', c' - 1) = {}
    BY <1>3, <1>4 DEF Taken
  <2>3. Cardinality({}) = 0
    BY FS_EmptySet
  <2>4. va' = Cardinality(Taken(format', c' - 1))
    BY <1>3, <1>4, <2>2, <2>3
  <2>5. Cardinality(Taken(format', Len(format'))) <= Len(ap')
    BY <1>2, <2>1
  <2> QED
    BY <1>3, <2>4, <2>5 DEF ArgumentsTaken
<1>7. PICK f : Lengths(f)
  BY DEF FormatInv
<1>8. Lengths(f)'
  <2>1. Sums(argv', f)
    BY <1>3, <1>7 DEF Lengths
  <2>2. totlen' = f[Len(argv')]
    <3>1. Len(argv') = 0 /\ totlen' = 0
      BY <1>3, <1>4
    <3> QED
      BY <2>1, <3>1 DEF Sums
  <2> QED
    BY <1>3, <2>1, <2>2 DEF Lengths
<1> QED
  BY <1>5, <1>6, <1>8 DEF FormatInv

LEMMA SpaceKeepsInv ==
  ASSUME FormatInv, Space PROVE FormatInv'
<1>1. Parsing /\ ~AtEnd /\ format[c] = " "
  BY DEF Space, AtToken
<1>2. format[c] \notin Taking
  BY <1>1 DEF Taking
<1>3. /\ how = "format" /\ fpc = "parse" /\ c \in 1..Len(format) /\ va \in Nat
      /\ va = Cardinality(Taken(format, c))
  BY <1>1, <1>2, TokenRead
<1>4. CASE touched /\ Fail("-1") /\ UNCHANGED va
  BY <1>3, <1>4, Failing
<1>5. ASSUME c' = c + 1, UNCHANGED <<how, format, ap, va, fpc>> PROVE ArgumentsTaken'
  <2>1. c' - 1 = c /\ how' = "format" /\ va' = Cardinality(Taken(format', c))
    BY <1>3, <1>5
  <2>2. Cardinality(Taken(format', Len(format'))) <= Len(ap')
    BY <1>5 DEF FormatInv, ArgumentsTaken
  <2> QED
    BY <2>1, <2>2 DEF ArgumentsTaken
<1>6. ASSUME c' = c + 1, UNCHANGED format PROVE c' \in 1..Len(format') + 1
  BY <1>3, <1>6
<1>7. PICK f : Lengths(f)
  BY DEF FormatInv
<1>8. CASE /\ touched /\ EndArgument /\ touched' = FALSE /\ c' = c + 1
           /\ UNCHANGED <<how, format, ap, va, cmd, j, fpc>>
  <2>1. curarg \in Seq(Bytes) /\ argv \in Words /\ totlen = f[Len(argv)] /\ Sums(argv, f)
    BY <1>3, <1>7 DEF FormatInv, FormatTypes, Lengths
  <2>2. /\ argv' = Append(argv, curarg) /\ curarg' = <<>>
        /\ totlen' = totlen + bulklen(Len(curarg))
    BY <1>8 DEF EndArgument
  <2>3. PICK g : Sums(argv', g) /\ g[Len(argv')] = f[Len(argv)] + bulklen(Len(curarg))
    BY <2>1, <2>2, SumsAppend
  <2>4. argv' \in Words /\ totlen' \in Nat /\ curarg' \in Seq(Bytes)
    <3>1. bulklen(Len(curarg)) \in Nat
      BY <2>1, BulkLength
    <3>2. argv' \in Words
      BY <2>1, <2>2, AppendProperties DEF Words
    <3> QED
      BY <2>2, <3>1, <3>2, BytesOfFormat DEF FormatInv, FormatTypes
  <2>5. FormatTypes'
    BY <1>6, <1>8, <2>4 DEF FormatInv, FormatTypes
  <2>6. Lengths(g)'
    BY <1>3, <1>8, <2>1, <2>2, <2>3 DEF Lengths
  <2> QED
    BY <1>5, <1>8, <2>5, <2>6 DEF FormatInv
<1>9. CASE /\ c' = c + 1
           /\ UNCHANGED <<how, format, ap, va, curarg, touched, argv, totlen, cmd, j, fpc>>
  <2>1. FormatTypes'
    BY <1>6, <1>9 DEF FormatInv, FormatTypes
  <2>2. Lengths(f)'
    BY <1>7, <1>9 DEF Lengths
  <2> QED
    BY <1>5, <1>9, <2>1, <2>2 DEF FormatInv
<1> QED
  BY <1>4, <1>8, <1>9 DEF Space

\* The last argument, and the header, complete the length.
LEMMA EndOfFormatKeepsInv ==
  ASSUME FormatInv, EndOfFormat PROVE FormatInv'
<1> DEFINE words == IF touched THEN Append(argv, curarg) ELSE argv
           last_ == IF touched THEN bulklen(Len(curarg)) ELSE 0
           total == totlen + last_ + 1 + countDigits(Len(words)) + 2
<1>1. Parsing /\ how = "format" /\ fpc = "parse"
  BY DEF EndOfFormat, Parsing
<1>2. PICK f : Lengths(f)
  BY DEF FormatInv
<1>3. /\ curarg \in Seq(Bytes) /\ argv \in Words /\ totlen = f[Len(argv)] /\ Sums(argv, f)
      /\ totlen \in Nat /\ va \in Nat
  BY <1>1, <1>2 DEF FormatInv, FormatTypes, Lengths
<1>4. CASE Fail("-1") /\ UNCHANGED va
  <2>1. how # "none" /\ va' \in Nat
    BY <1>1, <1>3, <1>4
  <2> QED
    BY <1>4, <2>1, Failing
<1>5. CASE /\ argv' = words /\ totlen' = total /\ curarg' = <<>>
           /\ cmd' = [s |-> Header(words), alloc |-> total]
           /\ j' = 1 /\ fpc' = "write"
           /\ UNCHANGED <<how, format, c, ap, va, touched>>
  <2>1. words \in Words /\ last_ \in Nat
    <3>1. bulklen(Len(curarg)) \in Nat
      BY <1>3, BulkLength
    <3>2. Append(argv, curarg) \in Words
      BY <1>3, AppendProperties DEF Words
    <3> QED
      BY <1>3, <3>1, <3>2
  <2>2. PICK g : Sums(words, g) /\ g[Len(words)] = totlen + last_
    <3>1. CASE touched
      <4>1. PICK g : /\ Sums(Append(argv, curarg), g)
                     /\ g[Len(Append(argv, curarg))] = f[Len(argv)] + bulklen(Len(curarg))
        BY <1>3, SumsAppend
      <4> QED
        BY <1>3, <3>1, <4>1
    <3>2. CASE ~touched
      <4>1. words = argv /\ f[Len(argv)] = totlen + last_
        BY <1>3, <3>2
      <4> QED
        BY <1>3, <4>1
    <3> QED
      BY <3>1, <3>2
  <2> HIDE DEF words, last_
  <2>3. /\ countDigits(Len(words)) \in Nat /\ Header(words) \in Seq(Bytes)
        /\ Len(Header(words)) = 3 + countDigits(Len(words)) /\ Len(words) \in Nat
    BY <2>1, HeaderLength DEF Words
  <2>4. total \in Nat /\ total = 3 + countDigits(Len(words)) + g[Len(words)]
    <3> DEFINE m == countDigits(Len(words))
    <3>1. totlen \in Nat /\ last_ \in Nat /\ m \in Nat /\ g[Len(words)] = totlen + last_
      BY <1>3, <2>1, <2>2, <2>3
    <3>2. total = totlen + last_ + 1 + m + 2
      OBVIOUS
    <3> HIDE DEF m, total
    <3>3. total \in Nat /\ total = 3 + m + g[Len(words)]
      BY <3>1, <3>2
    <3> QED
      BY <3>3 DEF m
  <2> HIDE DEF total
  <2>5. cmd'.s = Header(words) /\ cmd'.alloc = total /\ cmd' \in [s : Seq(Bytes), alloc : Nat]
    BY <1>5, <2>3, <2>4
  <2>6. FormatTypes'
    BY <1>5, <2>1, <2>4, <2>5, BytesOfFormat DEF FormatInv, FormatTypes
  <2>7. ArgumentsTaken'
    BY <1>1, <1>5 DEF FormatInv, ArgumentsTaken
  <2>8. Lengths(g)'
    <3>1. j' \in 1..Len(argv') + 1 /\ j' - 1 = 0 /\ g[0] = 0
      BY <1>5, <2>2, <2>3 DEF Sums
    <3>2. /\ totlen' = 3 + countDigits(Len(argv')) + g[Len(argv')]
          /\ Len(cmd'.s) = 3 + countDigits(Len(argv')) + g[j' - 1]
          /\ totlen' <= cmd'.alloc
      BY <1>5, <2>3, <2>4, <2>5, <3>1
    <3> QED
      BY <1>5, <2>2, <3>1, <3>2 DEF Lengths
  <2> QED
    BY <2>6, <2>7, <2>8 DEF FormatInv
<1> QED
  BY <1>4, <1>5 DEF EndOfFormat

LEMMA CountingKeepsInv ==
  ASSUME FormatInv, ArgvStart \/ CountArgument \/ ArgvAllocates PROVE FormatInv'
<1>1. PICK f : Lengths(f)
  BY DEF FormatInv
<1>w. argv \in Words /\ Sums(argv, f) /\ totlen \in Nat /\ j \in Nat
  BY <1>1 DEF FormatInv, FormatTypes, Lengths
<1>f. f \in [Nat -> Nat] /\ f[0] = 0
  BY <1>w DEF Sums
<1>n. Len(argv) \in Nat
  BY <1>w DEF Words
<1>k. countDigits(Len(argv)) \in Nat
  BY <1>w, HeaderLength
<1>2. /\ argv \in Words /\ Sums(argv, f) /\ f \in [Nat -> Nat] /\ f[0] = 0
      /\ Len(argv) \in Nat /\ countDigits(Len(argv)) \in Nat
      /\ totlen \in Nat /\ j \in Nat
  BY <1>w, <1>f, <1>n, <1>k
<1>3. ASSUME UNCHANGED <<how, format, c, ap, va, argv, totlen>>, fpc # "ok",
             fpc' \in {"count", "write", "-1"}
      PROVE  ArgumentsTaken'
  BY <1>3 DEF FormatInv, ArgumentsTaken
<1>4. CASE ArgvStart
  <2>1. /\ how \in {"argv", "sds"} /\ fpc = "parse" /\ fpc' = "count" /\ j' = 1
        /\ totlen' = 1 + countDigits(Len(argv)) + 2
        /\ UNCHANGED <<how, format, c, ap, va, curarg, touched, argv, cmd>>
    BY <1>4 DEF ArgvStart
  <2>2. totlen' = 3 + countDigits(Len(argv)) + f[0] /\ totlen' \in Nat /\ j' - 1 = 0
        /\ j' \in 1..Len(argv') + 1
    <3>1. totlen' = 1 + countDigits(Len(argv)) + 2 /\ j' = 1 /\ argv' = argv
      BY <2>1
    <3>2. totlen' \in Nat /\ totlen' = 3 + countDigits(Len(argv)) + f[0]
      <4> DEFINE k == countDigits(Len(argv))
      <4>1. k \in Nat /\ totlen' = 1 + k + 2 /\ f[0] = 0
        BY <1>f, <1>k, <3>1
      <4> HIDE DEF k
      <4>2. totlen' \in Nat /\ totlen' = 3 + k + f[0]
        BY <4>1
      <4> QED
        BY <4>2 DEF k
    <3> QED
      BY <1>n, <3>1, <3>2
  <2>3. FormatTypes'
    BY <2>1, <2>2 DEF FormatInv, FormatTypes
  <2>4. ArgumentsTaken'
    BY <2>1 DEF FormatInv, ArgumentsTaken
  <2>5. Lengths(f)'
    BY <1>2, <2>1, <2>2 DEF Lengths
  <2> QED
    BY <2>3, <2>4, <2>5 DEF FormatInv
<1>5. CASE CountArgument
  <2>1. /\ fpc = "count" /\ j <= Len(argv) /\ j' = j + 1
        /\ totlen' = totlen + bulklen(Len(argv[j]))
        /\ UNCHANGED <<how, format, c, ap, va, curarg, touched, argv, cmd, fpc>>
    BY <1>5 DEF CountArgument
  <2>2. j \in 1..Len(argv) /\ totlen = 3 + countDigits(Len(argv)) + f[j - 1]
    BY <1>1, <1>2, <2>1 DEF Lengths
  <2>3. f[j] = f[j - 1] + bulklen(Len(argv[j])) /\ f[j] \in Nat /\ f[j - 1] \in Nat
    BY <1>2, <2>2 DEF Sums
  <2>4. bulklen(Len(argv[j])) \in Nat
    <3>1. argv[j] \in Seq(Bytes)
      BY <1>2, <2>2 DEF Words
    <3> QED
      BY <3>1, BulkLength
  <2>5. /\ totlen' = 3 + countDigits(Len(argv)) + f[j] /\ totlen' \in Nat
        /\ j' - 1 = j /\ j' \in 1..Len(argv') + 1 /\ j' \in Nat
    <3> DEFINE k == countDigits(Len(argv))
               b == bulklen(Len(argv[j]))
    <3>1. totlen' = totlen + b /\ totlen = 3 + k + f[j - 1] /\ f[j] = f[j - 1] + b
          /\ k \in Nat /\ b \in Nat /\ f[j] \in Nat /\ f[j - 1] \in Nat
      BY <1>k, <2>1, <2>2, <2>3, <2>4
    <3> HIDE DEF k, b
    <3>2. totlen' = 3 + k + f[j] /\ totlen' \in Nat
      BY <3>1
    <3>3. j' = j + 1 /\ argv' = argv
      BY <2>1
    <3>4. j' - 1 = j /\ j' \in 1..Len(argv') + 1 /\ j' \in Nat
      BY <1>n, <2>2, <3>3
    <3> QED
      BY <3>2, <3>4 DEF k
  <2>6. FormatTypes'
    BY <2>1, <2>5 DEF FormatInv, FormatTypes
  <2>7. ArgumentsTaken'
    BY <2>1 DEF FormatInv, ArgumentsTaken
  <2>8. Lengths(f)'
    BY <1>2, <2>1, <2>5 DEF Lengths
  <2> QED
    BY <2>6, <2>7, <2>8 DEF FormatInv
<1>6. CASE ArgvAllocates
  <2>1. /\ fpc = "count" /\ ~(j <= Len(argv))
        /\ UNCHANGED <<how, format, c, ap, va, curarg, touched, argv, totlen>>
    BY <1>2, <1>6 DEF ArgvAllocates
  <2>2. totlen = 3 + countDigits(Len(argv)) + f[Len(argv)]
    <3>1. j \in 1..Len(argv) + 1 /\ totlen = 3 + countDigits(Len(argv)) + f[j - 1]
      BY <1>1, <2>1 DEF Lengths
    <3>2. j - 1 = Len(argv)
      BY <1>n, <2>1, <3>1
    <3> QED
      BY <3>1, <3>2
  <2>3. CASE fpc' = "-1" /\ UNCHANGED <<cmd, j>>
    <3>1. FormatTypes'
      BY <2>1, <2>3 DEF FormatInv, FormatTypes
    <3>2. ArgumentsTaken'
      BY <1>3, <2>1, <2>3
    <3>3. Lengths(f)'
      BY <1>2, <2>1, <2>3 DEF Lengths
    <3> QED
      BY <3>1, <3>2, <3>3 DEF FormatInv
  <2>4. CASE /\ cmd' = [s |-> Header(argv),
                        alloc |-> IF how = "argv" THEN totlen
                                  ELSE sdsMakeRoomFor(sdsempty, totlen).alloc]
             /\ j' = 1 /\ fpc' = "write"
    <3> DEFINE room == IF how = "argv" THEN totlen ELSE sdsMakeRoomFor(sdsempty, totlen).alloc
    <3>1. room \in Nat /\ totlen <= room
      BY <1>2, RoomMade
    <3>2. cmd'.s = Header(argv) /\ cmd'.alloc = room
      BY <2>4
    <3> HIDE DEF room
    <3>3. Header(argv) \in Seq(Bytes) /\ Len(Header(argv)) = 3 + countDigits(Len(argv))
      BY <1>2, HeaderLength
    <3>4. cmd' \in [s : Seq(Bytes), alloc : Nat]
      BY <2>4, <3>1, <3>3 DEF room
    <3>5. FormatTypes'
      BY <2>1, <2>4, <3>4 DEF FormatInv, FormatTypes
    <3>6. ArgumentsTaken'
      BY <1>3, <2>1, <2>4
    <3>7. Lengths(f)'
      <4>1. j' \in 1..Len(argv') + 1 /\ j' - 1 = 0
        BY <1>2, <2>1, <2>4
      <4>2. Len(cmd'.s) = 3 + countDigits(Len(argv')) + f[j' - 1]
        BY <1>2, <2>1, <3>2, <3>3, <4>1
      <4> QED
        BY <1>2, <2>1, <2>2, <2>4, <3>1, <3>2, <4>1, <4>2 DEF Lengths
    <3> QED
      BY <3>5, <3>6, <3>7 DEF FormatInv
  <2> QED
    BY <1>6, <2>3, <2>4 DEF ArgvAllocates
<1> QED
  BY <1>4, <1>5, <1>6

LEMMA WritingKeepsInv ==
  ASSUME FormatInv, WriteArgument \/ FormatReturns PROVE FormatInv'
<1>1. PICK f : Lengths(f)
  BY DEF FormatInv
<1>w. argv \in Words /\ Sums(argv, f) /\ cmd \in [s : Seq(Bytes), alloc : Nat]
  BY <1>1 DEF FormatInv, FormatTypes, Lengths
<1>n. Len(argv) \in Nat
  BY <1>w DEF Words
<1>k. countDigits(Len(argv)) \in Nat
  BY <1>w, HeaderLength
<1>2. /\ argv \in Words /\ Sums(argv, f) /\ f \in [Nat -> Nat] /\ Len(argv) \in Nat
      /\ countDigits(Len(argv)) \in Nat /\ cmd \in [s : Seq(Bytes), alloc : Nat]
      /\ fpc = "write"
  BY <1>w, <1>n, <1>k DEF Sums, WriteArgument, FormatReturns
<1>3. /\ j \in 1..Len(argv) + 1
      /\ totlen = 3 + countDigits(Len(argv)) + f[Len(argv)]
      /\ Len(cmd.s) = 3 + countDigits(Len(argv)) + f[j - 1]
      /\ totlen <= cmd.alloc
  BY <1>1, <1>2 DEF Lengths
<1>4. CASE WriteArgument
  <2>1. /\ j <= Len(argv) /\ cmd' = [cmd EXCEPT !.s = cmd.s \o Bulk(argv[j])] /\ j' = j + 1
        /\ UNCHANGED <<how, format, c, ap, va, curarg, touched, argv, totlen, fpc>>
    BY <1>4 DEF WriteArgument
  <2>2. j \in 1..Len(argv)
    BY <1>2, <1>3, <2>1
  <2>3. /\ bulklen(Len(argv[j])) \in Nat
        /\ Bulk(argv[j]) \in Seq(Bytes) /\ Len(Bulk(argv[j])) = bulklen(Len(argv[j]))
    <3>1. argv[j] \in Seq(Bytes)
      BY <1>2, <2>2 DEF Words
    <3> QED
      BY <3>1, BulkLength
  <2>4. f[j] = f[j - 1] + bulklen(Len(argv[j])) /\ f[j] \in Nat /\ f[j - 1] \in Nat
    BY <1>2, <2>2 DEF Sums
  <2>5. cmd'.s = cmd.s \o Bulk(argv[j]) /\ cmd'.alloc = cmd.alloc
    BY <1>2, <2>1
  <2>6. /\ cmd.s \in Seq(Bytes) /\ cmd'.s \in Seq(Bytes)
        /\ Len(cmd'.s) = Len(cmd.s) + bulklen(Len(argv[j]))
    BY <1>2, <2>3, <2>5, Joined
  <2>7. cmd' \in [s : Seq(Bytes), alloc : Nat]
    <3> HIDE DEF Bulk
    <3> QED
      BY <1>2, <2>1, <2>5, <2>6
  <2>8. j' \in 1..Len(argv') + 1 /\ j' - 1 = j /\ j' \in Nat
    <3>1. j' = j + 1 /\ argv' = argv
      BY <2>1
    <3> QED
      BY <1>n, <2>2, <3>1
  <2>9. FormatTypes'
    BY <2>1, <2>7, <2>8 DEF FormatInv, FormatTypes
  <2>10. ArgumentsTaken'
    BY <2>1 DEF FormatInv, ArgumentsTaken
  <2>11. Len(cmd'.s) = 3 + countDigits(Len(argv)) + f[j]
    <3> DEFINE k == countDigits(Len(argv))
               b == bulklen(Len(argv[j]))
    <3>1. /\ Len(cmd'.s) = Len(cmd.s) + b /\ Len(cmd.s) = 3 + k + f[j - 1]
          /\ f[j] = f[j - 1] + b
          /\ k \in Nat /\ b \in Nat /\ f[j] \in Nat /\ f[j - 1] \in Nat
      BY <1>3, <1>k, <2>3, <2>4, <2>6
    <3> HIDE DEF k, b
    <3>2. Len(cmd'.s) = 3 + k + f[j]
      BY <3>1
    <3> QED
      BY <3>2 DEF k
  <2>12. Lengths(f)'
    BY <1>2, <1>3, <2>1, <2>5, <2>8, <2>11 DEF Lengths
  <2> QED
    BY <2>9, <2>10, <2>12 DEF FormatInv
<1>5. CASE FormatReturns
  <2>1. /\ ~(j <= Len(argv)) /\ fpc' = "ok"
        /\ UNCHANGED <<how, format, c, ap, va, curarg, touched, argv, totlen, cmd, j>>
    BY <1>2, <1>3, <1>5 DEF FormatReturns
  <2>2. j - 1 = Len(argv)
    <3>1. j \in 1..Len(argv) + 1
      BY <1>3
    <3> QED
      BY <1>n, <2>1, <3>1
  <2>3. FormatTypes'
    BY <2>1 DEF FormatInv, FormatTypes
  <2>4. ArgumentsTaken'
    BY <1>2, <2>1 DEF FormatInv, ArgumentsTaken
  <2>5. Lengths(f)'
    BY <1>2, <1>3, <2>1, <2>2 DEF Lengths
  <2> QED
    BY <2>3, <2>4, <2>5 DEF FormatInv
<1> QED
  BY <1>4, <1>5

LEMMA FormatInductive ==
  ASSUME FormatInv, [FormatNext]_formatVars PROVE FormatInv'
<1>1. CASE UNCHANGED formatVars
  <2>1. /\ UNCHANGED <<how, format, c, ap, va, curarg>>
        /\ UNCHANGED <<touched, argv, totlen, cmd, j, fpc>>
    BY <1>1 DEF formatVars
  <2>2. FormatTypes' /\ ArgumentsTaken'
    BY <2>1 DEF FormatInv, FormatTypes, ArgumentsTaken
  <2>3. PICK f : Lengths(f)
    BY DEF FormatInv
  <2>4. Lengths(f)'
    BY <2>1, <2>3 DEF Lengths
  <2> QED
    BY <2>2, <2>4 DEF FormatInv
<1>2. CASE FormatNext
  BY <1>2, FormatCallKeepsInv, SpaceKeepsInv, TokensKeepInv, EndOfFormatKeepsInv,
     CountingKeepsInv, WritingKeepsInv
     DEF FormatNext
<1> QED
  BY <1>1, <1>2

LEMMA RoomOfInv ==
  ASSUME FormatInv PROVE RoomSuffices
<1>1. FormatTypeOK
  BY DEF FormatInv, FormatTypes, FormatTypeOK
<1>2. PICK f : Lengths(f)
  BY DEF FormatInv
<1>3. argv \in Words /\ Sums(argv, f) /\ Len(argv) \in Nat /\ cmd.alloc \in Nat /\ totlen \in Nat
  BY <1>2 DEF FormatInv, FormatTypes, Lengths, Words
<1>4. ASSUME fpc = "write" PROVE Len(cmd.s) <= cmd.alloc
  <2>1. /\ j \in 1..Len(argv) + 1
        /\ totlen = 3 + countDigits(Len(argv)) + f[Len(argv)]
        /\ Len(cmd.s) = 3 + countDigits(Len(argv)) + f[j - 1]
        /\ totlen <= cmd.alloc
    BY <1>2, <1>4 DEF Lengths
  <2>2. j - 1 \in 0..Len(argv) /\ f[j - 1] \in Nat /\ f[Len(argv)] \in Nat
    BY <1>3, <2>1 DEF Sums
  <2>3. f[j - 1] <= f[Len(argv)]
    BY <1>3, <2>2, SumsGrow
  <2>4. countDigits(Len(argv)) \in Nat
    BY <1>3, HeaderLength
  <2> DEFINE k == countDigits(Len(argv))
  <2>5. /\ k \in Nat /\ f[j - 1] \in Nat /\ f[Len(argv)] \in Nat
        /\ totlen = 3 + k + f[Len(argv)] /\ Len(cmd.s) = 3 + k + f[j - 1]
    BY <2>1, <2>2, <2>4
  <2> HIDE DEF k
  <2>6. Len(cmd.s) <= totlen /\ Len(cmd.s) \in Nat
    BY <2>3, <2>5
  <2> QED
    BY <1>3, <2>1, <2>6
<1>5. ASSUME fpc = "ok" PROVE Len(cmd.s) = totlen /\ totlen <= cmd.alloc
  BY <1>2, <1>5 DEF Lengths
<1> QED
  BY <1>1, <1>4, <1>5 DEF RoomSuffices

\* What a formatting function writes is as long as what it computed before, and it stays
\* in the room it allocated, for every format, every arguments and every memory that runs
\* out (assert(pos == totlen) in redisvFormatCommand and redisFormatCommandArgv, the
\* appends of redisFormatSdsCommandArgv that nobody looks at): RoomSuffices of the
\* protocol's run.
THEOREM LengthsAgree == FormatSpec => []RoomSuffices
<1>1. FormatInit => FormatInv
  BY InitFormatInv
<1>2. FormatInv /\ [FormatNext]_formatVars => FormatInv'
  BY FormatInductive
<1>3. FormatInv => RoomSuffices
  BY RoomOfInv
<1> QED
  BY <1>1, <1>2, <1>3, PTL DEF FormatSpec

=============================================================================
