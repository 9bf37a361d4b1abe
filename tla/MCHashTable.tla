---------------------------- MODULE MCHashTable ----------------------------
(* Four keys, of which three collide in a table of one or two chains and two *)
(* in one of four. *)
EXTENDS HashIter

CONSTANTS A, B, C, D, P

MCHash == A :> 0 @@ B :> 2 @@ C :> 6 @@ D :> 1
\* To bound the instance: while there is an iterator all values are NULL.
OnlyNull ==
    /\ \A i \in DOMAIN calls : calls[i].value = NULL
    /\ \A k \in DOMAIN Map : Map[k] = NULL
MCNext == IterNext /\ (iter' # NULL => OnlyNull')
MCSpec == IterInit /\ [][MCNext]_<<vars, iterVars>> /\ WF_vars(InsertStep)
=============================================================================
