---------------------------- MODULE Dictionary ----------------------------
(***************************************************************************)
(* The hash table of dict.c as async.c uses it: chains of entries that are *)
(* rehashed into a table of twice the size when there are as many entries  *)
(* as chains, and an iterator under which the entry it has returned may be *)
(* deleted.  Any allocation may fail.                                      *)
(***************************************************************************)
EXTENDS Integers, Sequences, FiniteSets

CONSTANTS
  Keys, Vals,          \* channels, callbacks
  NoKey, NoVal,        \* NULL
  Hash,                \* dictType.hashFunction, before the mask
  InitialSize          \* DICT_HT_INITIAL_SIZE

ASSUME DictionaryAssumption ==
  /\ IsFiniteSet(Keys) /\ NoKey \notin Keys /\ NoVal \notin Vals
  /\ Hash \in [Keys -> Nat] /\ InitialSize \in Nat \ {0}

VARIABLES
  table,   \* ht->table: a chain of keys for each index below ht->size
  val,     \* the value of every key that is in a chain
  used,    \* ht->used
  new, newUsed,   \* n.table and n.used, while dictExpand fills the table
  pc,      \* "idle", or inside dictReplace: "expand", "insert", "update"
  key, value,   \* the arguments of dictReplace
  iter,    \* an iterator [index, entry, next], or NoIter
  seen     \* history: the keys the iterator has returned

tableVars == <<table, val, used>>
callVars == <<new, newUsed, pc, key, value>>
iterVars == <<iter, seen>>
vars == <<tableVars, callVars, iterVars>>

NoIter == [index |-> -1, entry |-> NoKey, next |-> NoKey]
NewIter == [NoIter EXCEPT !.index = 0]     \* not moved yet: indexes count from 1

size == Cardinality(DOMAIN table)
Chains(n) == [h \in 0..n - 1 |-> <<>>]
Bucket(k, t) == Hash[k] % Cardinality(DOMAIN t)     \* hash & sizemask
In(k, c) == \E p \in DOMAIN c : c[p] = k
Stored(t) == {k \in Keys : \E h \in DOMAIN t : In(k, t[h])}
Cons(k, c) == [p \in 1..Len(c) + 1 |-> IF p = 1 THEN k ELSE c[p - 1]]
\* Mutation: prev is not set, and what is in front of the entry goes with it.
WithoutStart(c, p) == [q \in 1..Len(c) - p |-> c[p + q]]
Without(c, p) == [q \in 1..Len(c) - 1 |-> IF q < p THEN c[q] ELSE c[q + 1]]
Position(k, c) == CHOOSE p \in DOMAIN c : c[p] = k

Init == /\ table = Chains(0) /\ val = [k \in Keys |-> NoVal] /\ used = 0
        /\ new = Chains(0) /\ newUsed = 0 /\ pc = "idle" /\ key = NoKey /\ value = NoVal
        /\ iter = NoIter /\ seen = {}

Idle == pc = "idle" /\ iter = NoIter

(* --- dictReplace: dictAdd, and the update if that says no --------------- *)

\* _dictExpandIfNeeded; dictExpand allocates the new table, or fails.
NewSize == IF size = 0 THEN InitialSize ELSE 2 * size
dictReplace(k, v) ==
  /\ Idle
  /\ key' = k /\ value' = v
  /\ \/ size # 0 /\ used # size /\ pc' = "insert" /\ UNCHANGED <<new, newUsed>>
     \/ /\ size = 0 \/ used = size
        /\ \/ pc' = "expand" /\ new' = Chains(NewSize) /\ newUsed' = used
           \/ pc' = "update" /\ UNCHANGED <<new, newUsed>>
  /\ UNCHANGED <<tableVars, iterVars>>

\* Mutation: the index is taken with the old mask.
ExpandMoveOldMask(h) ==
  /\ pc = "expand" /\ used > 0 /\ h \in DOMAIN table /\ table[h] # <<>>
  /\ LET k == Head(table[h])
     IN new' = [new EXCEPT ![Bucket(k, table)] = Cons(k, @)]
  /\ table' = [table EXCEPT ![h] = Tail(@)] /\ used' = used - 1
  /\ UNCHANGED <<val, newUsed, pc, key, value, iterVars>>
\* One turn of the loop in dictExpand: the first entry of the first chain that
\* has one goes to the head of its new chain.
ExpandMove(h) ==
  /\ pc = "expand" /\ used > 0
  /\ h \in DOMAIN table /\ table[h] # <<>>
  /\ \A i \in DOMAIN table : i < h => table[i] = <<>>
  /\ LET k == Head(table[h])
         b == Bucket(k, new)
     IN /\ new' = [new EXCEPT ![b] = Cons(k, @)]
        /\ table' = [table EXCEPT ![h] = Tail(@)]
  /\ used' = used - 1
  /\ UNCHANGED <<val, newUsed, pc, key, value, iterVars>>

\* *ht = n, with the number of entries it got at the start.
ExpandEnd ==
  /\ pc = "expand" /\ used = 0
  /\ table' = new /\ used' = newUsed /\ new' = Chains(0) /\ newUsed' = 0
  /\ pc' = "insert"
  /\ UNCHANGED <<val, key, value, iterVars>>

Chain == table[Bucket(key, table)]

Return == pc' = "idle" /\ key' = NoKey /\ value' = NoVal
GoOn(next) == pc' = next /\ UNCHANGED <<key, value>>

\* The rest of dictAdd.  A copy of the value that cannot be made is stored as NULL.
Insert ==
  /\ pc = "insert"
  /\ \/ In(key, Chain) /\ GoOn("update") /\ UNCHANGED tableVars
     \/ /\ ~In(key, Chain) /\ Return
        /\ table' = [table EXCEPT ![Bucket(key, table)] = Cons(key, @)]
        /\ \E v \in {value, NoVal} : val' = [val EXCEPT ![key] = v]
        /\ used' = used + 1
     \/ ~In(key, Chain) /\ GoOn("update") /\ UNCHANGED tableVars
  /\ UNCHANGED <<new, newUsed, iterVars>>

\* dictAdd has returned DICT_ERR: because the key is there, or because an
\* allocation failed.  dictReplace returns 0 in both cases.
dictFind(k) == size # 0 /\ In(k, table[Bucket(k, table)])
Update ==
  /\ pc = "update" /\ Return
  /\ IF dictFind(key) THEN \E v \in {value, NoVal} : val' = [val EXCEPT ![key] = v]
     ELSE UNCHANGED val
  /\ UNCHANGED <<table, used, new, newUsed, iterVars>>

(* --- deletion ----------------------------------------------------------- *)

\* Under an iterator only the entry it has returned may be deleted.
dictDelete(k) ==
  /\ pc = "idle" /\ (iter = NoIter \/ iter.entry = k)
  /\ dictFind(k)
  /\ LET b == Bucket(k, table)
     IN table' = [table EXCEPT ![b] = Without(@, Position(k, @))]
  /\ val' = [val EXCEPT ![k] = NoVal]
  /\ used' = used - 1
  /\ UNCHANGED <<callVars, iterVars>>

\* _dictClear, by dictRelease.
dictRelease ==
  /\ Idle
  /\ table' = Chains(0) /\ val' = [k \in Keys |-> NoVal] /\ used' = 0
  /\ UNCHANGED <<callVars, iterVars>>

(* --- the iterator ------------------------------------------------------- *)

dictGetIterator == Idle /\ iter' = NewIter /\ seen' = {}
                   /\ UNCHANGED <<tableVars, callVars>>

\* Mutation: only the heads of chains are seen.
AfterNothing(h, p) == NoKey
\* The key behind position p of the chain with index h (counted from 1).
After(h, p) == IF p < Len(table[h - 1]) THEN table[h - 1][p + 1] ELSE NoKey
Go(h, p) == /\ iter' = [index |-> h, entry |-> table[h - 1][p], next |-> After(h, p)]
            /\ seen' = seen \cup {table[h - 1][p]}

\* dictNext: along the chain by the pointer saved before the entry was handed
\* out, or to the next chain that is not empty.
dictNext ==
  /\ pc = "idle" /\ iter # NoIter
  /\ \/ /\ iter.entry # NoKey /\ iter.next # NoKey
        /\ Go(iter.index, Position(iter.next, table[iter.index - 1]))
     \/ /\ iter.entry = NoKey \/ iter.next = NoKey
        /\ \E h \in iter.index + 1..size :
             /\ table[h - 1] # <<>>
             /\ \A i \in iter.index + 1..h - 1 : table[i - 1] = <<>>
             /\ Go(h, 1)
  /\ UNCHANGED <<tableVars, callVars>>

\* dictNext has returned NULL.
AtEnd == /\ pc = "idle" /\ iter # NoIter
         /\ iter.entry = NoKey \/ iter.next = NoKey
         /\ \A h \in iter.index + 1..size : table[h - 1] = <<>>
dictReleaseIterator == AtEnd /\ iter' = NoIter /\ UNCHANGED <<tableVars, callVars, seen>>

Next ==
  \/ \E k \in Keys, v \in Vals : dictReplace(k, v)
  \/ \E h \in DOMAIN table : ExpandMove(h)
  \/ ExpandEnd \/ Insert \/ Update
  \/ \E k \in Keys : dictDelete(k)
  \/ dictRelease \/ dictGetIterator \/ dictNext \/ dictReleaseIterator
Spec == Init /\ [][Next]_vars

(* --- properties --------------------------------------------------------- *)

IsTable(t) == /\ DOMAIN t = 0..Cardinality(DOMAIN t) - 1
              /\ \A h \in DOMAIN t : t[h] \in Seq(Keys)
TypeOK ==
  /\ IsTable(table) /\ IsTable(new)
  /\ val \in [Keys -> Vals \cup {NoVal}] /\ used \in Nat /\ newUsed \in Nat
  /\ pc \in {"idle", "expand", "insert", "update"}
  /\ key \in Keys \cup {NoKey} /\ value \in Vals \cup {NoVal}
  /\ iter \in [index : -1..size, entry : Keys \cup {NoKey}, next : Keys \cup {NoKey}]
  /\ seen \subseteq Keys

\* Every key is in the chain its hash says, and at one place of it: it is found again
\* after any sequence of expansions, failures and deletions, and deleting it once
\* removes it.
WellPlaced(t) ==
  \A h \in DOMAIN t : \A p \in DOMAIN t[h] :
    /\ Bucket(t[h][p], t) = h
    /\ \A q \in DOMAIN t[h] : t[h][p] = t[h][q] => p = q
KeysFindable == WellPlaced(new) /\ (pc # "expand" => WellPlaced(table))

\* ht->used is the number of entries and never more than the number of chains, so that
\* dictSize can be trusted to say that no subscription is left (async.c:464).
UsedIsCount ==
  /\ used = Cardinality(Stored(table))
  /\ pc # "expand" => used <= size

\* While dictExpand moves the entries, each of them is in one of the two tables.
MovedOnce == Stored(table) \cap Stored(new) = {}

\* The table, with these three, stays one that keys can be looked up, counted and
\* deleted in, whatever allocations fail.
TableSound == TypeOK /\ KeysFindable /\ UsedIsCount /\ MovedOnce

\* When the iterator has come to its end it has returned every entry that is still
\* there, although the entries it returned may have been deleted meanwhile.
IterationComplete == AtEnd => Stored(table) \subseteq seen

\* The saved pointer never leads to an entry that has been freed.
NextIsStored == iter # NoIter /\ iter.next # NoKey => iter.next \in Stored(table)

\* Deleting under the iterator neither hides an entry from it nor leads it to memory
\* that has been freed.
IterationSound == IterationComplete /\ NextIsStored

\* The hash table, expansions and all, is a map that changes one key at a time.
Map == INSTANCE CallbackMap
         WITH map <- [k \in Stored(table) \cup Stored(new) |-> val[k]]
ImplementsMap == Map!Spec
=============================================================================
