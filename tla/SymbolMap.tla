----------------------------- MODULE SymbolMap -----------------------------
(***************************************************************************)
(* What src/lib/hash.h promises: a map from keys to values, with the       *)
(* answer of the last hash_get or hash_contains.  A value may be NULL.     *)
(***************************************************************************)
CONSTANTS Key, Value, NULL

VARIABLES
    map,   \* the keys inserted and not removed, with their latest value
    freed, \* hash_free was called
    ret    \* the latest answer

vars == <<map, freed, ret>>

Init == map = [k \in {} |-> NULL] /\ freed = FALSE /\ ret = NULL

Insert(k, v) ==
    /\ map' = [j \in DOMAIN map \cup {k} |-> IF j = k THEN v ELSE map[j]]
    /\ UNCHANGED <<freed, ret>>

Remove(k) ==
    /\ map' = [j \in DOMAIN map \ {k} |-> map[j]]
    /\ UNCHANGED <<freed, ret>>

\* A key that is absent and one whose value is NULL give the same answer.
Get(k) ==
    /\ ret' = IF k \in DOMAIN map THEN map[k] ELSE NULL
    /\ UNCHANGED <<map, freed>>

Contains(k) ==
    /\ ret' = (k \in DOMAIN map)
    /\ UNCHANGED <<map, freed>>

Free ==
    /\ freed' = TRUE
    /\ map' = [k \in {} |-> NULL]
    /\ UNCHANGED ret

Next ==
    /\ ~freed
    /\ \/ \E k \in Key : Remove(k) \/ Get(k) \/ Contains(k) \/ \E v \in Value : Insert(k, v)
       \/ Free

Spec == Init /\ [][Next]_vars
=============================================================================
