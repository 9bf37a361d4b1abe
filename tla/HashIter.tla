------------------------------ MODULE HashIter ------------------------------
(***************************************************************************)
(* The iterator of src/lib/hash.c on a table that goes on being used.  It  *)
(* points to the association that it returns next, so a caller must stop   *)
(* using it when that association is freed: by hash_remove or hash_free,   *)
(* or by _hash_resize, which replaces every association.  An association   *)
(* is known by its key.  The compiler itself creates no iterator.          *)
(***************************************************************************)
EXTENDS HashTable

VARIABLES
    iter,      \* next and next_idx of the iterator; NULL if there is none
    visited,   \* history: the keys it has returned
    stable,    \* history: the keys that were in the table all the time
    stale      \* history: its next association was freed

iterVars == <<iter, visited, stable, stale>>

\* A null pointer is neither an association nor an iterator.
ASSUME IterAssumption ==
    NULL \notin Key /\ NULL \notin [next : Key \cup {NULL}, idx : Int]

-----------------------------------------------------------------------------
\* _update_hash_iter_next: the rest of the chain, then the next chain that has one.
Successor(key, idx) ==
    IF key = NULL \/ Position(key) = Len(table[idx]) THEN NULL
    ELSE table[idx][Position(key) + 1].key

Later(idx) == {i \in DOMAIN table : i > idx /\ table[i] # <<>>}

\* Mutant: the rest of the chain is skipped.
Updated_SkipsChain(key, idx) ==
    IF Later(idx) = {} THEN [next |-> NULL, idx |-> idx]
    ELSE LET i == Min(Later(idx)) IN [next |-> Head(table[i]).key, idx |-> i]

Updated(key, idx) ==
    IF Successor(key, idx) # NULL THEN [next |-> Successor(key, idx), idx |-> idx]
    ELSE IF Later(idx) = {} THEN [next |-> NULL, idx |-> idx]
    ELSE LET i == Min(Later(idx)) IN [next |-> Head(table[i]).key, idx |-> i]

-----------------------------------------------------------------------------
HashIterCreate ==
    /\ Idle /\ iter = NULL
    /\ iter' = Updated(NULL, -1)
    /\ stable' = KeysOf(table)
    /\ UNCHANGED <<visited, stale, vars>>

\* Guarded by hash_iter_has_next, and by the caller for an association that is freed.
HashIterNext ==
    /\ Idle /\ iter # NULL /\ iter.next # NULL /\ ~stale
    /\ visited' = visited \cup {iter.next}
    /\ iter' = Updated(iter.next, iter.idx)
    /\ UNCHANGED <<stable, stale, vars>>

HashIterFree ==
    /\ calls = <<>> /\ iter # NULL
    /\ iter' = NULL /\ visited' = {} /\ stable' = {} /\ stale' = FALSE
    /\ UNCHANGED vars

\* The step of the table frees, or will have freed, the association of that key.
Frees(key) ==
    key # NULL /\ (~Exists' \/ capacity' # capacity \/ key \notin KeysOf(table'))

\* A call on the table, by a caller that is still iterating or not.  The histories
\* end when the iterator may not be used any more.
TableStep ==
    /\ Next
    /\ stale' = (stale \/ (iter # NULL /\ Frees(iter.next)))
    /\ stable' = IF iter = NULL \/ stale' THEN {} ELSE stable \cap DOMAIN Map'
    /\ visited' = IF stale' THEN {} ELSE visited
    /\ UNCHANGED iter

IterInit == Init /\ iter = NULL /\ visited = {} /\ stable = {} /\ stale = FALSE
IterNext == TableStep \/ HashIterCreate \/ HashIterNext \/ HashIterFree
IterSpec == IterInit /\ [][IterNext]_<<vars, iterVars>> /\ WF_vars(InsertStep)

-----------------------------------------------------------------------------
(* Properties *)

\* Inserts that do not resize the table, and removes of other keys, do not disturb an
\* iterator: its next association is in the table and was not returned before, and
\* at the end every key that was there all the time was returned.
IterVisitsOnce ==
    iter # NULL /\ ~stale =>
        IF iter.next = NULL THEN stable \subseteq visited
        ELSE /\ iter.next \notin visited
             /\ \E a \in ToSet(table[iter.idx]) : a.key = iter.next
=============================================================================
