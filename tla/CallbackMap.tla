---------------------------- MODULE CallbackMap ----------------------------
(***************************************************************************)
(* What async.c takes its dictionaries for: a map from channels to         *)
(* callbacks, changed one channel at a time or emptied.                    *)
(***************************************************************************)
CONSTANTS Keys, Vals, NoVal

VARIABLE map   \* a function from the keys that are present

Init == map = [k \in {} |-> NoVal]

\* NoVal is stored when the copy of the callback cannot be allocated.
Put(k, v) == map' = [i \in DOMAIN map \cup {k} |-> IF i = k THEN v ELSE map[i]]
Remove(k) == k \in DOMAIN map /\ map' = [i \in DOMAIN map \ {k} |-> map[i]]
Clear == map' = [k \in {} |-> NoVal]

Next == \/ \E k \in Keys, v \in Vals \cup {NoVal} : Put(k, v)
        \/ \E k \in Keys : Remove(k)
        \/ Clear
Spec == Init /\ [][Next]_map
=============================================================================
