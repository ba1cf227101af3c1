--------------------------- MODULE MCDictionary ---------------------------
(* Five keys, two of which share every bucket, a third one until the table has
   eight chains; four chains at first, or two. *)
EXTENDS Dictionary
mcHash == [k \in Keys |-> CASE k = "a" -> 1 [] k = "b" -> 1 [] k = "c" -> 5
                            [] k = "d" -> 3 [] OTHER -> 6]
=============================================================================
