----------------------------- MODULE HashTable -----------------------------
(***************************************************************************)
(* The chained hash table of src/lib/hash.c, which is the compiler's       *)
(* symbol table.  hash_insert may call _hash_resize, which calls           *)
(* hash_insert for every association: the running hash_insert calls are    *)
(* the stack calls (the innermost first), and each association that        *)
(* _hash_resize moves is a step.  A chain is a sequence of associations.   *)
(***************************************************************************)
EXTENDS Integers, FiniteSets, Sequences, SequencesExt, FiniteSetsExt

CONSTANTS
    Key, Value,          \* Value holds the pointers that are stored, NULL among them
    NULL,
    Hash,                \* _djb_hash, as a function on Key
    INITIAL_CAPACITY,
    LOAD_FACTOR_THR

ASSUME TableAssumption ==
    /\ NULL \in Value
    /\ Hash \in [Key -> Nat]
    /\ INITIAL_CAPACITY \in Nat \ {0}
    /\ LOAD_FACTOR_THR \in Nat \ {0}

VARIABLES
    table,      \* hash->table: a chain for every index; none after hash_free
    capacity,   \* hash->capacity
    num_elems,  \* hash->num_elems
    calls,      \* the running calls of hash_insert
    live,       \* number of associations allocated and not freed
    ret         \* the latest answer of hash_get or hash_contains

vars == <<table, capacity, num_elems, calls, live, ret>>

-----------------------------------------------------------------------------
Assoc == [key : Key, value : Value]

Empty(n) == [i \in 0 .. n - 1 |-> <<>>]

\* A call of hash_insert: "enter" until the load factor is tested, "rehash"
\* while its _hash_resize empties the array old, then "put".
Enter(k, v) == [key |-> k, value |-> v, pc |-> "enter", old |-> Empty(0)]

Top == Head(calls)

\* Mutant: the division is one of integers.
Overloaded_IntegerDivision == num_elems \div capacity > LOAD_FACTOR_THR

\* num_elems / (float)capacity > LOAD_FACTOR_THR
Overloaded == num_elems > LOAD_FACTOR_THR * capacity

\* Mutant: the first capacity is used after a resize too.
Index_FirstCapacity(k) == Hash[k] % INITIAL_CAPACITY

Index(k) == Hash[k] % capacity

\* Where the search loop stops in the chain of k; 0 if it reaches the end.
Position(k) == SelectInSeq(table[Index(k)], LAMBDA a : a.key = k)

\* The first association of an array, in the order of the loops of _hash_resize.
FirstIndex(array) == Min({i \in DOMAIN array : array[i] # <<>>})
IsEmpty(array) == \A i \in DOMAIN array : array[i] = <<>>

\* hash_free was not called yet.
Exists == DOMAIN table # {}

Idle == Exists /\ calls = <<>>

-----------------------------------------------------------------------------
(* hash_insert and _hash_resize *)

HashInsert(k, v) ==
    /\ Idle
    /\ calls' = <<Enter(k, v)>>
    /\ UNCHANGED <<table, capacity, num_elems, live, ret>>

\* Mutant: the element count is not reset although hash_insert counts again.
Resize_KeepsCount ==
    /\ calls # <<>> /\ Top.pc = "enter" /\ Overloaded
    /\ calls' = [calls EXCEPT ![1].pc = "rehash", ![1].old = table]
    /\ capacity' = 2 * capacity
    /\ table' = Empty(2 * capacity)
    /\ UNCHANGED <<num_elems, live, ret>>

\* The load factor is over the threshold: _hash_resize starts.
Resize ==
    /\ calls # <<>> /\ Top.pc = "enter" /\ Overloaded
    /\ calls' = [calls EXCEPT ![1].pc = "rehash", ![1].old = table]
    /\ capacity' = 2 * capacity
    /\ table' = Empty(2 * capacity)
    /\ num_elems' = 0
    /\ UNCHANGED <<live, ret>>

\* _hash_resize calls hash_insert for the next association of the old array.
Rehash ==
    /\ calls # <<>> /\ Top.pc = "rehash" /\ ~IsEmpty(Top.old)
    /\ LET a == Head(Top.old[FirstIndex(Top.old)])
       IN calls' = Cons(Enter(a.key, a.value), calls)
    /\ UNCHANGED <<table, capacity, num_elems, live, ret>>

\* Mutant: the loop over the old array does not end with it.
EndResize_Loops ==
    /\ calls # <<>> /\ Top.pc = "rehash" /\ IsEmpty(Top.old)
    /\ UNCHANGED vars

EndResize ==
    /\ calls # <<>> /\ Top.pc = "rehash" /\ IsEmpty(Top.old)
    /\ calls' = [calls EXCEPT ![1].pc = "put"]
    /\ UNCHANGED <<table, capacity, num_elems, live, ret>>

\* hash_insert returns.  Called by _hash_resize, it leaves it to free the
\* association of the old array that it has inserted a copy of.
Return ==
    IF Len(calls) = 1 THEN <<>>
    ELSE LET i == FirstIndex(calls[2].old)
         IN [Tail(calls) EXCEPT ![1].old[i] = Tail(@)]

AtPut == calls # <<>> /\ (Top.pc = "put" \/ (Top.pc = "enter" /\ ~Overloaded))

\* Mutant: _hash_resize does not free the old associations.
Freed_Never == 0

Freed == IF Len(calls) = 1 THEN 0 ELSE 1

\* The key is in its chain: the association gets the new value.
Update ==
    /\ AtPut /\ Position(Top.key) # 0
    /\ table' = [table EXCEPT ![Index(Top.key)][Position(Top.key)].value = Top.value]
    /\ calls' = Return
    /\ live' = live - Freed
    /\ UNCHANGED <<capacity, num_elems, ret>>

\* A new association becomes the head of its chain.
Add ==
    /\ AtPut /\ Position(Top.key) = 0
    /\ table' = [table EXCEPT ![Index(Top.key)] =
                    Cons([key |-> Top.key, value |-> Top.value], @)]
    /\ num_elems' = num_elems + 1
    /\ calls' = Return
    /\ live' = live + 1 - Freed
    /\ UNCHANGED <<capacity, ret>>

InsertStep == Resize \/ Rehash \/ EndResize \/ Update \/ Add

-----------------------------------------------------------------------------
(* The other operations *)

\* Mutant: the count goes down when the key is absent too.
HashRemove_AlwaysCounts(k) ==
    /\ Idle
    /\ IF Position(k) = 0 THEN UNCHANGED <<table, live>>
       ELSE /\ table' = [table EXCEPT ![Index(k)] = RemoveAt(@, Position(k))]
            /\ live' = live - 1
    /\ num_elems' = num_elems - 1
    /\ UNCHANGED <<capacity, calls, ret>>

\* Mutant: the bucket is made to start after the association, wherever it was.
HashRemove_CutsChain(k) ==
    /\ Idle
    /\ IF Position(k) = 0 THEN UNCHANGED <<table, num_elems, live>>
       ELSE /\ table' = [table EXCEPT ![Index(k)] = SubSeq(@, Position(k) + 1, Len(@))]
            /\ num_elems' = num_elems - 1
            /\ live' = live - 1
    /\ UNCHANGED <<capacity, calls, ret>>

HashRemove(k) ==
    /\ Idle
    /\ IF Position(k) = 0 THEN UNCHANGED <<table, num_elems, live>>
       ELSE /\ table' = [table EXCEPT ![Index(k)] = RemoveAt(@, Position(k))]
            /\ num_elems' = num_elems - 1
            /\ live' = live - 1
    /\ UNCHANGED <<capacity, calls, ret>>

HashGet(k) ==
    /\ Idle
    /\ ret' = IF Position(k) = 0 THEN NULL ELSE table[Index(k)][Position(k)].value
    /\ UNCHANGED <<table, capacity, num_elems, calls, live>>

HashContains(k) ==
    /\ Idle
    /\ ret' = (Position(k) # 0)
    /\ UNCHANGED <<table, capacity, num_elems, calls, live>>

\* The places of an array that hold an association, and their number.
Places(array) == UNION {{i} \X DOMAIN array[i] : i \in DOMAIN array}
Total(array) == Cardinality(Places(array))

HashFree ==
    /\ Idle
    /\ table' = Empty(0)
    /\ live' = live - Total(table)
    /\ UNCHANGED <<capacity, num_elems, calls, ret>>

Done == ~Exists /\ UNCHANGED vars

-----------------------------------------------------------------------------
\* hash_create
Init ==
    /\ table = Empty(INITIAL_CAPACITY)
    /\ capacity = INITIAL_CAPACITY
    /\ num_elems = 0
    /\ calls = <<>>
    /\ live = 0
    /\ ret = NULL

Next ==
    \/ \E k \in Key : HashRemove(k) \/ HashGet(k) \/ HashContains(k)
    \/ \E k \in Key, v \in Value : HashInsert(k, v)
    \/ InsertStep
    \/ HashFree
    \/ Done

\* A call that is running goes on: the program is sequential.
Spec == Init /\ [][Next]_vars /\ WF_vars(InsertStep)

-----------------------------------------------------------------------------
(* Properties *)

Chains(n) == [0 .. n - 1 -> Seq(Assoc)]

\* Every variable is of the expected type; the array has capacity chains.
TypeOK ==
    /\ capacity \in Nat \ {0} /\ num_elems \in Nat /\ live \in Nat
    /\ table \in Chains(capacity) \cup Chains(0)
    /\ \A i \in DOMAIN calls :
         /\ calls[i].key \in Key /\ calls[i].value \in Value
         /\ calls[i].pc \in {"enter", "rehash", "put"}
         /\ calls[i].old \in Chains(Cardinality(DOMAIN calls[i].old))
    /\ ret \in Value \cup BOOLEAN

AssocsOf(array) == UNION {ToSet(array[i]) : i \in DOMAIN array}
KeysOf(array) == {a.key : a \in AssocsOf(array)}

\* Every association is in the chain in which a search with the capacity of now
\* looks for its key, no key has two, and num_elems counts them: also between
\* any two steps of a resize, which re-enters hash_insert on the table it builds.
Searchable ==
    Exists =>
        /\ \A i \in DOMAIN table : \A a \in ToSet(table[i]) : Hash[a.key] % capacity = i
        /\ Total(table) = Cardinality(KeysOf(table))
        /\ num_elems = Total(table)

\* "By definition, this will not cause a recursive call to _hash_resize()": a
\* hash_insert that _hash_resize calls never finds the new table overloaded.
ResizeNotRecursive == \A i \in DOMAIN calls : i < Len(calls) => calls[i].pc = "enter"

\* The threshold is tested before an association is added and not after, so a
\* table is over it by one association at most.
LoadBound == num_elems <= LOAD_FACTOR_THR * capacity + 1

\* No association leaks and none is freed twice: those allocated are those that
\* the table or an array under resize links, and hash_free leaves none.
HeapAccounted ==
    live = Total(table)
           + Cardinality(UNION {{i} \X Places(calls[i].old) : i \in DOMAIN calls})

\* What the table and the arrays under resize link.
Linked == AssocsOf(table) \cup UNION {AssocsOf(calls[i].old) : i \in DOMAIN calls}

\* The map that the table represents, in the middle of a resize too.
MapOf(assocs) ==
    [k \in {a.key : a \in assocs} |-> (CHOOSE a \in assocs : a.key = k).value]
Map == MapOf(Linked)

Abstract == INSTANCE SymbolMap WITH map <- Map, freed <- ~Exists

\* The table is a map: an insert takes effect in one step, a resize in none.
IsSymbolMap == Abstract!Spec

\* Every hash_insert returns, whatever it finds to resize.
InsertReturns == calls # <<>> ~> calls = <<>>
=============================================================================
