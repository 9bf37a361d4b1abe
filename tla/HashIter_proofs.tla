-------------------------- MODULE HashIter_proofs --------------------------
(***************************************************************************)
(* The iterator of hash.c misses nothing and repeats nothing, for any      *)
(* keys, hash function, first capacity and threshold, while the table goes *)
(* on being used in every way that leaves its next association in place.   *)
(***************************************************************************)
EXTENDS HashIter, HashTable_proofs

-----------------------------------------------------------------------------
(* The place of the iterator in an array of n chains *)

\* The key k is in chain i at position p, after it, or in a later chain.
Ahead(t, n, i, p, k) ==
    \E h \in 0 .. n - 1 : \E j \in 1 .. Len(t[h]) :
        t[h][j].key = k /\ (h > i \/ (h = i /\ j >= p))

\* What the iterator has returned is in the chains up to its own, and not ahead; what
\* was there all the time and was not returned is ahead.
Stands(t, n, i, p, V, S) ==
    /\ i \in 0 .. n - 1 /\ p \in 1 .. Len(t[i])
    /\ \A k \in V : Hash[k] % n <= i /\ ~Ahead(t, n, i, p, k)
    /\ \A k \in S \ V : Ahead(t, n, i, p, k)

\* What happens to an array: an association gets a value, chain g gets a new head, or
\* it loses its association at position s.
ValueChanged(t, n, r) ==
    \E g \in 0 .. n - 1 : \E q \in 1 .. Len(t[g]) : \E a, c :
        Replaced(t[g], q, a, c) /\ Changed(t, n, g, c, r)
HeadAdded(t, n, g, r) ==
    \E a, c : g = Hash[a.key] % n /\ Pushed(t[g], a, c) /\ Changed(t, n, g, c, r)
CutOut(t, n, g, s, r) ==
    \E c : Without(t[g], s, c) /\ Changed(t, n, g, c, r)

\* Other values.
LEMMA StandsAfterUpdate ==
    ASSUME NEW n \in Nat, NEW t \in Chains(n), NEW r, ValueChanged(t, n, r),
           NEW i, NEW p, NEW V, NEW S, Stands(t, n, i, p, V, S)
    PROVE  Stands(r, n, i, p, V, S) /\ r[i][p].key = t[i][p].key
<1>0. PICK g \in 0 .. n - 1 : \E q \in 1 .. Len(t[g]) : \E a, c :
         Replaced(t[g], q, a, c) /\ Changed(t, n, g, c, r)
    BY DEF ValueChanged
<1>1. \A h \in 0 .. n - 1 : /\ Len(r[h]) = Len(t[h]) /\ Len(t[h]) \in Nat
                            /\ \A j \in 1 .. Len(t[h]) : r[h][j].key = t[h][j].key
    BY <1>0, ChainType DEF Changed, Replaced
<1>2. \A k : Ahead(r, n, i, p, k) <=> Ahead(t, n, i, p, k)
    BY <1>1 DEF Ahead
<1> QED
    BY <1>1, <1>2 DEF Stands

\* The position p of chain i after a push to, or a removal from position s of, chain g.
AfterPush(g, i, p) == IF g = i THEN p + 1 ELSE p
AfterCut(g, s, i, p) == IF g = i /\ s < p THEN p - 1 ELSE p

\* A new head in a chain: its key is not one that was returned, when the chain is later.
LEMMA StandsAfterAdd ==
    ASSUME NEW n \in Nat, NEW t \in Chains(n), NEW g \in 0 .. n - 1,
           NEW r, HeadAdded(t, n, g, r),
           NEW i, NEW p, NEW V, NEW S, Stands(t, n, i, p, V, S),
           NEW q, q = AfterPush(g, i, p)
    PROVE  Stands(r, n, i, q, V, S) /\ r[i][q].key = t[i][p].key
<1>0. q = IF g = i THEN p + 1 ELSE p
    BY DEF AfterPush
<1>. PICK a, c : g = Hash[a.key] % n /\ Pushed(t[g], a, c) /\ Changed(t, n, g, c, r)
    BY DEF HeadAdded
<1>1. \A h \in 0 .. n - 1 : Len(t[h]) \in Nat
    BY ChainType
<1>2. /\ Len(r[g]) = Len(t[g]) + 1 /\ r[g][1] = a
      /\ \A j \in 2 .. Len(t[g]) + 1 : r[g][j] = t[g][j - 1]
      /\ \A h \in 0 .. n - 1 : h # g => r[h] = t[h]
    BY DEF Changed, Pushed
<1>3. i \in 0 .. n - 1 /\ p \in 1 .. Len(t[i])
    BY DEF Stands
<1>4. q \in 1 .. Len(r[i]) /\ r[i][q] = t[i][p]
    BY <1>0, <1>1, <1>2, <1>3
<1>5. ASSUME NEW k, Ahead(t, n, i, p, k) PROVE Ahead(r, n, i, q, k)
    <2>0. PICK h \in 0 .. n - 1 : \E j \in 1 .. Len(t[h]) :
             t[h][j].key = k /\ (h > i \/ (h = i /\ j >= p))
        BY <1>5 DEF Ahead
    <2>1. PICK j \in 1 .. Len(t[h]) :
             t[h][j].key = k /\ (h > i \/ (h = i /\ j >= p))
        BY <2>0
    <2>2. CASE h # g
        BY <1>0, <1>2, <2>1, <2>2 DEF Ahead
    <2>3. CASE h = g
        <3>1. j + 1 \in 2 .. Len(t[g]) + 1 /\ j + 1 \in 1 .. Len(r[g]) /\ (j + 1) - 1 = j
            BY <1>1, <1>2, <2>3
        <3>2. r[h][j + 1].key = k
            BY <1>2, <2>1, <2>3, <3>1
        <3>3. h > i \/ (h = i /\ j + 1 >= q)
            BY <1>0, <1>3, <2>1, <2>3
        <3> QED
            BY <2>3, <3>1, <3>2, <3>3 DEF Ahead
    <2> QED
        BY <2>2, <2>3
<1>6. ASSUME NEW k, Hash[k] % n <= i, Ahead(r, n, i, q, k) PROVE Ahead(t, n, i, p, k)
    <2>0. PICK h \in 0 .. n - 1 : \E j \in 1 .. Len(r[h]) :
             r[h][j].key = k /\ (h > i \/ (h = i /\ j >= q))
        BY <1>6 DEF Ahead
    <2>1. PICK j \in 1 .. Len(r[h]) :
             r[h][j].key = k /\ (h > i \/ (h = i /\ j >= q))
        BY <2>0
    <2>2. CASE h # g
        BY <1>0, <1>2, <2>1, <2>2 DEF Ahead
    <2>3. CASE h = g /\ j # 1
        <3>1. j \in 2 .. Len(t[g]) + 1 /\ j - 1 \in 1 .. Len(t[g])
            BY <1>1, <1>2, <2>3
        <3>2. t[h][j - 1].key = k
            BY <1>2, <2>1, <2>3, <3>1
        <3>3. h > i \/ (h = i /\ j - 1 >= p)
            BY <1>0, <1>3, <2>1, <2>3
        <3> QED
            BY <2>3, <3>1, <3>2, <3>3 DEF Ahead
    <2>4. CASE h = g /\ j = 1
        <3>1. k = a.key
            BY <1>2, <2>1, <2>4
        <3>2. g <= i
            BY <1>6, <3>1
        <3> QED
            BY <1>0, <1>3, <2>1, <2>4, <3>2
    <2> QED
        BY <2>2, <2>3, <2>4
<1> QED
    BY <1>3, <1>4, <1>5, <1>6 DEF Stands

\* Another association is taken out.
LEMMA StandsAfterRemove ==
    ASSUME NEW n \in Nat, NEW t \in Chains(n), NEW g \in 0 .. n - 1,
           NEW s \in 1 .. Len(t[g]), NEW r, CutOut(t, n, g, s, r),
           NEW i, NEW p, NEW V, NEW S, t[g][s].key \notin S,
           Stands(t, n, i, p, V, S), t[i][p].key # t[g][s].key,
           NEW q, q = AfterCut(g, s, i, p)
    PROVE  Stands(r, n, i, q, V, S) /\ r[i][q].key = t[i][p].key
<1>0. q = IF g = i /\ s < p THEN p - 1 ELSE p
    BY DEF AfterCut
<1>. PICK c : Without(t[g], s, c) /\ Changed(t, n, g, c, r)
    BY DEF CutOut
<1>1. \A h \in 0 .. n - 1 : Len(t[h]) \in Nat
    BY ChainType
<1>2. /\ Len(r[g]) = Len(t[g]) - 1
      /\ \A j \in 1 .. Len(r[g]) : r[g][j] = IF j < s THEN t[g][j] ELSE t[g][j + 1]
      /\ \A h \in 0 .. n - 1 : h # g => r[h] = t[h]
    BY DEF Changed, Without
<1>3. i \in 0 .. n - 1 /\ p \in 1 .. Len(t[i])
    BY DEF Stands
<1>4. q \in 1 .. Len(r[i]) /\ r[i][q] = t[i][p]
    <2>1. CASE g # i
        BY <1>0, <1>2, <1>3, <2>1
    <2>2. CASE g = i
        <3>1. s # p /\ Len(t[g]) \in Nat
            BY <1>1, <2>2
        <3> QED
            BY <1>0, <1>2, <1>3, <2>2, <3>1
    <2> QED
        BY <2>1, <2>2
<1>5. ASSUME NEW k \in S, Ahead(t, n, i, p, k) PROVE Ahead(r, n, i, q, k)
    <2>0. PICK h \in 0 .. n - 1 : \E j \in 1 .. Len(t[h]) :
             t[h][j].key = k /\ (h > i \/ (h = i /\ j >= p))
        BY <1>5 DEF Ahead
    <2>1. PICK j \in 1 .. Len(t[h]) :
             t[h][j].key = k /\ (h > i \/ (h = i /\ j >= p))
        BY <2>0
    <2>2. CASE h # g
        BY <1>0, <1>2, <2>1, <2>2 DEF Ahead
    <2>3. CASE h = g
        <3>1. j # s /\ Len(t[g]) \in Nat
            BY <1>1, <2>1, <2>3
        <3>2. PICK m : m = IF j < s THEN j ELSE j - 1
            OBVIOUS
        <3>3. m \in 1 .. Len(r[g]) /\ r[g][m] = t[g][j]
            BY <1>2, <2>3, <3>1, <3>2
        <3>4. h > i \/ (h = i /\ m >= q)
            <4>1. CASE h > i
                BY <1>0, <4>1
            <4>2. CASE h = i /\ j >= p
                <5>1. s # p
                    BY <2>3, <4>2
                <5> QED
                    BY <1>0, <1>3, <2>3, <3>1, <3>2, <4>2, <5>1
            <4> QED
                BY <2>1, <4>1, <4>2
        <3> QED
            BY <2>1, <2>3, <3>3, <3>4 DEF Ahead
    <2> QED
        BY <2>2, <2>3
<1>6. ASSUME NEW k, Ahead(r, n, i, q, k) PROVE Ahead(t, n, i, p, k)
    <2>0. PICK h \in 0 .. n - 1 : \E j \in 1 .. Len(r[h]) :
             r[h][j].key = k /\ (h > i \/ (h = i /\ j >= q))
        BY <1>6 DEF Ahead
    <2>1. PICK j \in 1 .. Len(r[h]) :
             r[h][j].key = k /\ (h > i \/ (h = i /\ j >= q))
        BY <2>0
    <2>2. CASE h # g
        BY <1>0, <1>2, <2>1, <2>2 DEF Ahead
    <2>3. CASE h = g
        <3>1. PICK m : m = IF j < s THEN j ELSE j + 1
            OBVIOUS
        <3>2. m \in 1 .. Len(t[g]) /\ r[g][j] = t[g][m]
            BY <1>1, <1>2, <2>3, <3>1
        <3>3. h > i \/ (h = i /\ m >= p)
            BY <1>0, <1>1, <1>3, <2>1, <2>3, <3>1
        <3> QED
            BY <2>1, <2>3, <3>2, <3>3 DEF Ahead
    <2> QED
        BY <2>2, <2>3
<1> QED
    BY <1>3, <1>4, <1>5, <1>6 DEF Stands

-----------------------------------------------------------------------------
(* What _update_hash_iter_next finds *)

\* The iterator stands at the association of k in chain i.
StandsFor(k, i, V, S) ==
    \E p \in 1 .. Len(table[i]) :
        table[i][p].key = k /\ Stands(table, capacity, i, p, V, S)

\* The iterator u stands where it should, or has nothing left to return.
Reaches(u, V, S) ==
    IF u.next = NULL THEN S \subseteq V ELSE StandsFor(u.next, u.idx, V, S)

IterType == [next : Key \cup {NULL}, idx : Int]

\* The first chain after a given one that is not empty, or none.
LEMMA LaterChain ==
    ASSUME capacity \in Nat, table \in Chains(capacity), NEW i \in Int
    PROVE  IF Later(i) = {} THEN \A h \in 0 .. capacity - 1 : h > i => Len(table[h]) = 0
           ELSE /\ Min(Later(i)) \in 0 .. capacity - 1 /\ Min(Later(i)) > i
                /\ 1 \in 1 .. Len(table[Min(Later(i))])
                /\ Head(table[Min(Later(i))]) = table[Min(Later(i))][1]
                /\ \A h \in 0 .. capacity - 1 :
                      h > i /\ h < Min(Later(i)) => Len(table[h]) = 0
<1>1. DOMAIN table = 0 .. capacity - 1 /\ \A h \in 0 .. capacity - 1 : table[h] \in Seq(Assoc)
    BY DEF Chains
<1>2. \A h : h \in Later(i) <=> h \in 0 .. capacity - 1 /\ h > i /\ table[h] # <<>>
    BY <1>1 DEF Later
<1>3. \A h \in 0 .. capacity - 1 : table[h] = <<>> <=> Len(table[h]) = 0
    BY <1>1, EmptySeq
<1>4. CASE Later(i) = {}
    BY <1>2, <1>3, <1>4
<1>5. CASE Later(i) # {}
    <2>1. PICK L : L = Later(i)
        OBVIOUS
    <2>2. L \in SUBSET Nat /\ L # {}
        BY <1>2, <1>5, <2>1
    <2>3. Min(L) \in L /\ \A h \in L : Min(L) <= h
        BY <2>2, MinOfNats
    <2>4. PICK m : m = Min(L)
        OBVIOUS
    <2>5. m \in 0 .. capacity - 1 /\ m > i /\ table[m] # <<>>
        BY <1>2, <2>1, <2>3, <2>4
    <2>6. 1 \in 1 .. Len(table[m]) /\ Head(table[m]) = table[m][1]
        BY <1>1, <2>5, TailChain
    <2>7. \A h \in 0 .. capacity - 1 : h > i /\ h < m => Len(table[h]) = 0
        BY <1>2, <1>3, <2>1, <2>3, <2>4
    <2> QED
        BY <1>5, <2>1, <2>4, <2>5, <2>6, <2>7
<1> QED
    BY <1>4, <1>5

\* A new iterator stands at the first association of all.
LEMMA FirstOfAll ==
    ASSUME capacity \in Nat, table \in Chains(capacity), NEW u, u = Updated(NULL, -1)
    PROVE  /\ u \in IterType
           /\ Reaches(u, {}, KeysOf(table))
<1>1. Successor(NULL, -1) = NULL
    BY DEF Successor
<1>2. \A k : k \in KeysOf(table) <=>
          \E h \in 0 .. capacity - 1 : \E j \in 1 .. Len(table[h]) : table[h][j].key = k
    BY InAssocs DEF KeysOf
<1>3. CASE Later(-1) = {}
    <2>1. u = [next |-> NULL, idx |-> -1]
        BY <1>1, <1>3 DEF Updated
    <2>2. \A h \in 0 .. capacity - 1 : Len(table[h]) = 0
        BY <1>3, LaterChain
    <2>3. KeysOf(table) = {}
        BY <1>2, <2>2
    <2> QED
        BY <2>1, <2>3 DEF IterType, Reaches
<1>4. CASE Later(-1) # {}
    <2>1. PICK m : m = Min(Later(-1))
        OBVIOUS
    <2>2. /\ m \in 0 .. capacity - 1 /\ 1 \in 1 .. Len(table[m]) /\ Head(table[m]) = table[m][1]
          /\ \A h \in 0 .. capacity - 1 : h < m => Len(table[h]) = 0
        BY <1>4, <2>1, LaterChain
    <2>3. u = [next |-> table[m][1].key, idx |-> m]
        BY <1>1, <1>4, <2>1, <2>2 DEF Updated
    <2>4. table[m][1].key \in Key
        BY <2>2, ChainType
    <2>5. u \in IterType /\ u.next # NULL /\ u.idx = m /\ u.next = table[m][1].key
        BY <2>2, <2>3, <2>4, IterAssumption DEF IterType
    <2>6. ASSUME NEW k \in KeysOf(table) PROVE Ahead(table, capacity, m, 1, k)
        <3>1. PICK h \in 0 .. capacity - 1 : \E j \in 1 .. Len(table[h]) : table[h][j].key = k
            BY <1>2
        <3>2. PICK j \in 1 .. Len(table[h]) : table[h][j].key = k
            BY <3>1
        <3>3. h >= m
            BY <2>2, <3>2
        <3> QED
            BY <2>2, <3>2, <3>3 DEF Ahead
    <2>7. Stands(table, capacity, m, 1, {}, KeysOf(table))
        BY <2>2, <2>6 DEF Stands
    <2> QED
        BY <2>2, <2>5, <2>7 DEF Reaches, StandsFor
<1> QED
    BY <1>3, <1>4

\* A search for the key finds the place where the iterator stands.
LEMMA PlaceOfKey ==
    ASSUME capacity \in Nat \ {0}, Placed(table, capacity),
           NEW i \in 0 .. capacity - 1, NEW p \in 1 .. Len(table[i]),
           NEW k, k = table[i][p].key
    PROVE  k \in Key /\ Hash[k] % capacity = i /\ Index(k) = i /\ Position(k) = p
<1>1. table \in Chains(capacity) /\ k \in Key /\ Index(k) = i /\ Hash[k] % capacity = i
    BY ChainType DEF Placed, Index
<1>2. table[i][p] \in AssocsOf(table)
    BY <1>1, InAssocs
<1>3. k \in KeysOf(table)
    BY <1>2 DEF KeysOf
<1>4. Position(k) \in 1 .. Len(table[i]) /\ table[i][Position(k)].key = k
    BY <1>1, <1>3, Search
<1> QED
    BY <1>1, <1>4 DEF Placed

\* hash_iter_next moves to the next association in the chain, or to the next chain.
LEMMA NextOfAll ==
    ASSUME capacity \in Nat \ {0}, Placed(table, capacity),
           NEW i, NEW p, NEW V \in SUBSET Key, NEW S, Stands(table, capacity, i, p, V, S),
           NEW k, k = table[i][p].key, NEW u, u = Updated(k, i), NEW W, W = V \cup {k}
    PROVE  u \in IterType /\ k \in Key /\ Reaches(u, W, S)
<1>0. /\ i \in 0 .. capacity - 1 /\ p \in 1 .. Len(table[i]) /\ table \in Chains(capacity)
      /\ \A h \in 0 .. capacity - 1 : Len(table[h]) \in Nat
    BY ChainType DEF Stands, Placed
<1>1. k \in Key /\ Hash[k] % capacity = i /\ Position(k) = p /\ k # NULL
    BY <1>0, PlaceOfKey, IterAssumption
<1>2. \A l \in V : Hash[l] % capacity <= i /\ ~Ahead(table, capacity, i, p, l)
    BY DEF Stands
<1>3. \A l \in S \ V : Ahead(table, capacity, i, p, l)
    BY DEF Stands
<1>4. \A h \in 0 .. capacity - 1 : \A j \in 1 .. Len(table[h]) :
         table[h][j].key = k => h = i /\ j = p
    BY <1>0, <1>1 DEF Placed
<1>5. CASE p # Len(table[i])
    <2>1. p + 1 \in 1 .. Len(table[i])
        BY <1>0, <1>5
    <2>2. table[i][p + 1].key \in Key
        BY <1>0, <2>1, ChainType
    <2>3. Successor(k, i) = table[i][p + 1].key /\ Successor(k, i) # NULL
        BY <1>1, <1>5, <2>2, IterAssumption DEF Successor
    <2>4. u = [next |-> table[i][p + 1].key, idx |-> i]
        BY <2>3 DEF Updated
    <2>5. u \in IterType /\ u.next = table[i][p + 1].key /\ u.idx = i /\ u.next # NULL
        BY <1>0, <2>2, <2>4, IterAssumption DEF IterType
    <2>6. ASSUME NEW l \in V \cup {k}
          PROVE  Hash[l] % capacity <= i /\ ~Ahead(table, capacity, i, p + 1, l)
        <3>1. CASE l \in V
            <4>1. Hash[l] % capacity <= i
                BY <1>2, <3>1
            <4>2. ~Ahead(table, capacity, i, p, l)
                BY <1>2, <3>1
            <4>3. \A h, j : j \in 1 .. Len(table[h]) /\ j >= p + 1 /\ h = i => j >= p
                BY <1>0
            <4>4. ~Ahead(table, capacity, i, p + 1, l)
                BY <4>2, <4>3 DEF Ahead
            <4> QED
                BY <4>1, <4>4
        <3>2. CASE l = k
            BY <1>0, <1>1, <1>4, <3>2 DEF Ahead
        <3> QED
            BY <3>1, <3>2
    <2>7. ASSUME NEW l \in S \ (V \cup {k}) PROVE Ahead(table, capacity, i, p + 1, l)
        <3>1. PICK h \in 0 .. capacity - 1 : \E j \in 1 .. Len(table[h]) :
                 table[h][j].key = l /\ (h > i \/ (h = i /\ j >= p))
            BY <1>3 DEF Ahead
        <3>2. PICK j \in 1 .. Len(table[h]) :
                 table[h][j].key = l /\ (h > i \/ (h = i /\ j >= p))
            BY <3>1
        <3>3. h > i \/ (h = i /\ j >= p + 1)
            BY <1>0, <3>2
        <3> QED
            BY <3>2, <3>3 DEF Ahead
    <2>8. Stands(table, capacity, i, p + 1, V \cup {k}, S)
        BY <1>0, <2>1, <2>6, <2>7 DEF Stands
    <2> QED
        BY <1>1, <2>1, <2>5, <2>8 DEF Reaches, StandsFor
<1>6. CASE p = Len(table[i]) /\ Later(i) = {}
    <2>1. Successor(k, i) = NULL
        BY <1>1, <1>6 DEF Successor
    <2>2. u = [next |-> NULL, idx |-> i]
        BY <1>6, <2>1 DEF Updated
    <2>3. \A h \in 0 .. capacity - 1 : h > i => Len(table[h]) = 0
        BY <1>0, <1>6, LaterChain
    <2>4. \A l : Ahead(table, capacity, i, p, l) => l = k
        BY <1>0, <1>6, <2>3 DEF Ahead
    <2>5. S \subseteq V \cup {k}
        BY <1>3, <2>4
    <2> QED
        BY <1>0, <1>1, <2>2, <2>5 DEF IterType, Reaches
<1>7. CASE p = Len(table[i]) /\ Later(i) # {}
    <2>1. Successor(k, i) = NULL
        BY <1>1, <1>7 DEF Successor
    <2>2. PICK m : m = Min(Later(i))
        OBVIOUS
    <2>3. /\ m \in 0 .. capacity - 1 /\ m > i /\ 1 \in 1 .. Len(table[m])
          /\ Head(table[m]) = table[m][1]
          /\ \A h \in 0 .. capacity - 1 : h > i /\ h < m => Len(table[h]) = 0
        BY <1>0, <1>7, <2>2, LaterChain
    <2>4. u = [next |-> table[m][1].key, idx |-> m]
        BY <1>7, <2>1, <2>2, <2>3 DEF Updated
    <2>5. table[m][1].key \in Key
        BY <1>0, <2>3, ChainType
    <2>6. u \in IterType /\ u.next = table[m][1].key /\ u.idx = m /\ u.next # NULL
        BY <2>3, <2>4, <2>5, IterAssumption DEF IterType
    <2>7. ASSUME NEW l \in V \cup {k}
          PROVE  Hash[l] % capacity <= m /\ ~Ahead(table, capacity, m, 1, l)
        <3>1. CASE l \in V
            <4>1. Hash[l] % capacity <= i
                BY <1>2, <3>1
            <4>2. \A h \in 0 .. capacity - 1 : \A j \in 1 .. Len(table[h]) :
                     table[h][j].key = l => Hash[l] % capacity = h
                BY DEF Placed
            <4>3. ~Ahead(table, capacity, m, 1, l)
                BY <1>0, <2>3, <4>1, <4>2 DEF Ahead
            <4>4. \A h \in 0 .. capacity - 1 : h <= i => h <= m
                BY <1>0, <2>3
            <4>5. Hash[l] % capacity <= m
                <5>1. Hash[l] % capacity \in 0 .. capacity - 1
                    BY <3>1, IndexType
                <5> QED
                    BY <1>0, <2>3, <4>1, <5>1
            <4> QED
                BY <4>3, <4>5
        <3>2. CASE l = k
            BY <1>0, <1>1, <1>4, <2>3, <3>2 DEF Ahead
        <3> QED
            BY <3>1, <3>2
    <2>8. ASSUME NEW l \in S \ (V \cup {k}) PROVE Ahead(table, capacity, m, 1, l)
        <3>1. PICK h \in 0 .. capacity - 1 : \E j \in 1 .. Len(table[h]) :
                 table[h][j].key = l /\ (h > i \/ (h = i /\ j >= p))
            BY <1>3 DEF Ahead
        <3>2. PICK j \in 1 .. Len(table[h]) :
                 table[h][j].key = l /\ (h > i \/ (h = i /\ j >= p))
            BY <3>1
        <3>3. h > i
            BY <1>0, <1>7, <3>2
        <3>4. h >= m
            BY <1>0, <2>3, <3>2, <3>3
        <3> QED
            BY <2>3, <3>2, <3>4 DEF Ahead
    <2>9. Stands(table, capacity, m, 1, V \cup {k}, S)
        BY <2>3, <2>7, <2>8 DEF Stands
    <2> QED
        BY <1>1, <2>3, <2>6, <2>9 DEF Reaches, StandsFor
<1> QED
    BY <1>5, <1>6, <1>7

-----------------------------------------------------------------------------
(* Steps of the table *)

LEMMA StandsInSame ==
    ASSUME NEW k, NEW i, NEW V, NEW S, NEW T, T \subseteq S, StandsFor(k, i, V, S),
           table' = table, capacity' = capacity
    PROVE  StandsFor(k, i, V, T)'
<1>1. PICK p \in 1 .. Len(table[i]) :
         table[i][p].key = k /\ Stands(table, capacity, i, p, V, S)
    BY DEF StandsFor
<1>2. Stands(table, capacity, i, p, V, T)
    BY <1>1 DEF Stands
<1> QED
    BY <1>1, <1>2 DEF StandsFor

LEMMA StandsInUpdate ==
    ASSUME IInv, ~Rehashing, Update,
           NEW k, NEW i, NEW V \in SUBSET Key, NEW S, NEW T, T \subseteq S, StandsFor(k, i, V, S)
    PROVE  StandsFor(k, i, V, T)' /\ ~Rehashing'
<1>1. calls # <<>> /\ AtPut
    BY DEF Update, AtPut
<1>2. Len(calls) = 1
    BY <1>1, CallsLength
<1>3. Top.key \in Key /\ Top.value \in Value /\ Return = <<>>
    BY <1>1, <1>2, CallerPuts
<1>4. /\ capacity \in Nat \ {0} /\ Placed(table, capacity) /\ Position(Top.key) # 0
      /\ table' = [table EXCEPT ![Index(Top.key)][Position(Top.key)].value = Top.value]
      /\ capacity' = capacity /\ calls' = <<>>
    BY <1>1, <1>3, Running DEF Update, IInv, BaseInv
<1>5. PICK g : g = Index(Top.key)
    OBVIOUS
<1>6. PICK q : q = Position(Top.key)
    OBVIOUS
<1>7. PICK a : a = [key |-> Top.key, value |-> Top.value]
    OBVIOUS
<1>8. PICK c : Replaced(table[g], q, a, c) /\ Changed(table, capacity, g, c, table')
    BY <1>3, <1>4, <1>5, <1>6, <1>7, PutOver
<1>9. g \in 0 .. capacity - 1 /\ q \in 1 .. Len(table[g]) /\ table \in Chains(capacity)
    BY <1>3, <1>4, <1>5, <1>6, Search DEF Placed
<1>10. PICK p \in 1 .. Len(table[i]) :
         table[i][p].key = k /\ Stands(table, capacity, i, p, V, S)
    BY DEF StandsFor
<1>11. PICK n \in Nat : n = capacity
    BY <1>4
<1>12. PICK t \in Chains(n) : t = table
    BY <1>9, <1>11
<1>13. PICK r : r = table'
    OBVIOUS
<1>14. ValueChanged(t, n, r) /\ Stands(t, n, i, p, V, S)
    BY <1>8, <1>9, <1>10, <1>11, <1>12, <1>13 DEF ValueChanged
<1>15. Stands(r, n, i, p, V, S)
    BY <1>14, StandsAfterUpdate
<1>16. r[i][p].key = t[i][p].key
    BY <1>14, StandsAfterUpdate
<1>17. Stands(table', capacity, i, p, V, T)
    BY <1>11, <1>13, <1>15 DEF Stands
<1>18. table'[i][p].key = k
    BY <1>10, <1>12, <1>13, <1>16
<1>19. p \in 1 .. Len(table'[i])
    BY <1>17 DEF Stands
<1> QED
    BY <1>4, <1>17, <1>18, <1>19 DEF StandsFor, Rehashing

LEMMA StandsInAdd ==
    ASSUME IInv, ~Rehashing, Add,
           NEW k, NEW i, NEW V \in SUBSET Key, NEW S, NEW T, T \subseteq S, StandsFor(k, i, V, S)
    PROVE  StandsFor(k, i, V, T)' /\ ~Rehashing'
<1>1. calls # <<>> /\ AtPut
    BY DEF Add, AtPut
<1>2. Len(calls) = 1
    BY <1>1, CallsLength
<1>3. Top.key \in Key /\ Top.value \in Value /\ Return = <<>>
    BY <1>1, <1>2, CallerPuts
<1>4. /\ capacity \in Nat \ {0} /\ Placed(table, capacity) /\ Position(Top.key) = 0
      /\ table' = [table EXCEPT ![Index(Top.key)] =
                      Cons([key |-> Top.key, value |-> Top.value], @)]
      /\ capacity' = capacity /\ calls' = <<>>
    BY <1>1, <1>3, Running DEF Add, IInv, BaseInv
<1>5. PICK g : g = Index(Top.key)
    OBVIOUS
<1>6. PICK a : a = [key |-> Top.key, value |-> Top.value]
    OBVIOUS
<1>7. PICK c : Pushed(table[g], a, c) /\ Changed(table, capacity, g, c, table')
    BY <1>3, <1>4, <1>5, <1>6, PutNew
<1>8. g \in 0 .. capacity - 1 /\ table \in Chains(capacity) /\ g = Hash[a.key] % capacity
    BY <1>3, <1>4, <1>5, <1>6, Search DEF Placed, Index
<1>9. PICK p \in 1 .. Len(table[i]) :
         table[i][p].key = k /\ Stands(table, capacity, i, p, V, S)
    BY DEF StandsFor
<1>10. PICK q : q = AfterPush(g, i, p)
    OBVIOUS
<1>11. PICK n \in Nat : n = capacity
    BY <1>4
<1>12. PICK t \in Chains(n) : t = table
    BY <1>8, <1>11
<1>13. PICK r : r = table'
    OBVIOUS
<1>14. /\ g \in 0 .. n - 1 /\ HeadAdded(t, n, g, r)
       /\ Stands(t, n, i, p, V, S) /\ q = AfterPush(g, i, p)
    BY <1>7, <1>8, <1>9, <1>10, <1>11, <1>12, <1>13 DEF HeadAdded
<1>15. Stands(r, n, i, q, V, S)
    BY <1>14, StandsAfterAdd
<1>16. r[i][q].key = t[i][p].key
    BY <1>14, StandsAfterAdd
<1>17. Stands(table', capacity, i, q, V, T)
    BY <1>11, <1>13, <1>15 DEF Stands
<1>18. table'[i][q].key = k
    BY <1>9, <1>12, <1>13, <1>16
<1>19. q \in 1 .. Len(table'[i])
    BY <1>17 DEF Stands
<1> QED
    BY <1>4, <1>17, <1>18, <1>19 DEF StandsFor, Rehashing

LEMMA StandsInRemove ==
    ASSUME IInv, NEW l \in Key, HashRemove(l), NEW k, k \in KeysOf(table)',
           NEW i, NEW V \in SUBSET Key, NEW S, NEW T, T \subseteq S, T \subseteq KeysOf(table)',
           StandsFor(k, i, V, S)
    PROVE  StandsFor(k, i, V, T)' /\ ~Rehashing'
<1>1. /\ calls = <<>> /\ capacity \in Nat \ {0} /\ Placed(table, capacity)
      /\ calls' = calls /\ capacity' = capacity
    BY AtRest DEF HashRemove
<1>2. ~Rehashing'
    BY <1>1 DEF Rehashing
<1>3. CASE Position(l) = 0
    BY <1>1, <1>2, <1>3, StandsInSame DEF HashRemove
<1>4. CASE Position(l) # 0
    <2>1. table' = [table EXCEPT ![Index(l)] = RemoveAt(@, Position(l))]
        BY <1>4 DEF HashRemove
    <2>2. PICK g : g = Index(l)
        OBVIOUS
    <2>3. PICK s : s = Position(l)
        OBVIOUS
    <2>4. PICK c : Without(table[g], s, c) /\ Changed(table, capacity, g, c, table')
        BY <1>1, <1>4, <2>1, <2>2, <2>3, TakeOut
    <2>5. /\ g \in 0 .. capacity - 1 /\ s \in 1 .. Len(table[g]) /\ table \in Chains(capacity)
          /\ table[g][s].key = l
        BY <1>1, <1>4, <2>2, <2>3, Search DEF Placed
    <2>6. l \notin KeysOf(table')
        <3>1. Removed(AssocsOf(table), l, AssocsOf(table'))
            BY <1>1, <1>4, <2>1, TakeOut
        <3> QED
            BY <3>1 DEF Removed, KeysOf
    <2>7. l \notin T /\ k # l
        BY <2>6
    <2>8. PICK p \in 1 .. Len(table[i]) :
             table[i][p].key = k /\ Stands(table, capacity, i, p, V, S)
        BY DEF StandsFor
    <2>9. Stands(table, capacity, i, p, V, T)
        BY <2>8 DEF Stands
    <2>10. PICK q : q = AfterCut(g, s, i, p)
        OBVIOUS
    <2>11. PICK n \in Nat : n = capacity
        BY <1>1
    <2>12. PICK t \in Chains(n) : t = table
        BY <2>5, <2>11
    <2>13. PICK r : r = table'
        OBVIOUS
    <2>14. /\ g \in 0 .. n - 1 /\ s \in 1 .. Len(t[g]) /\ CutOut(t, n, g, s, r)
           /\ t[g][s].key \notin T /\ t[i][p].key # t[g][s].key
           /\ Stands(t, n, i, p, V, T) /\ q = AfterCut(g, s, i, p)
        BY <2>4, <2>5, <2>7, <2>8, <2>9, <2>10, <2>11, <2>12, <2>13 DEF CutOut
    <2>15. Stands(r, n, i, q, V, T)
        BY <2>14, StandsAfterRemove
    <2>16. r[i][q].key = t[i][p].key
        BY <2>14, StandsAfterRemove
    <2>17. Stands(table', capacity, i, q, V, T)
        BY <2>11, <2>13, <2>15
    <2>18. table'[i][q].key = k
        BY <2>8, <2>12, <2>13, <2>16
    <2>19. q \in 1 .. Len(table'[i])
        BY <2>17 DEF Stands
    <2> QED
        BY <1>1, <1>2, <2>17, <2>18, <2>19 DEF StandsFor
<1> QED
    BY <1>3, <1>4

\* A call that does not free the association of k leaves the iterator at it.
LEMMA StandsInStep ==
    ASSUME IInv, ~Rehashing, Next, Exists, Exists', capacity' = capacity,
           NEW k, k \in KeysOf(table)', NEW i, NEW V \in SUBSET Key,
           NEW S, NEW T, T \subseteq S, T \cap KeysOf(table)' = T \/ Rehashing',
           StandsFor(k, i, V, S)
    PROVE  StandsFor(k, i, V, T)' /\ ~Rehashing'
<1>1. CASE \E l \in Key : HashRemove(l)
    <2>1. PICK l \in Key : HashRemove(l)
        BY <1>1
    <2>2. ~Rehashing'
        BY <2>1, AtRest DEF HashRemove, Rehashing
    <2>3. T \subseteq KeysOf(table)'
        BY <2>2
    <2> QED
        BY <2>1, <2>3, StandsInRemove
<1>2. CASE \E l \in Key : HashGet(l) \/ HashContains(l)
    BY <1>2, StandsInSame DEF HashGet, HashContains, Rehashing
<1>3. CASE \E l \in Key, v \in Value : HashInsert(l, v)
    <2>1. PICK l \in Key, v \in Value : HashInsert(l, v)
        BY <1>3
    <2>2. calls' = <<Enter(l, v)>> /\ Enter(l, v).pc = "enter" /\ table' = table
        BY <2>1, EnterCall DEF HashInsert
    <2>3. ~Rehashing'
        BY <2>2, CallTuples DEF Rehashing
    <2> QED
        BY <2>2, <2>3, StandsInSame
<1>4. CASE Resize
    <2>1. capacity' = 2 * capacity /\ capacity \in Nat \ {0}
        BY <1>4 DEF Resize, IInv, BaseInv
    <2> QED
        BY <2>1
<1>5. CASE Rehash \/ EndResize
    <2>1. calls # <<>> /\ Top.pc = "rehash"
        BY <1>5 DEF Rehash, EndResize
    <2> QED
        BY <2>1, Running
<1>6. CASE Update
    BY <1>6, StandsInUpdate
<1>7. CASE Add
    BY <1>7, StandsInAdd
<1>8. CASE HashFree
    <2>1. ~Exists'
        BY <1>8, HashFreeStep
    <2> QED
        BY <2>1
<1>9. CASE Done
    BY <1>9 DEF Done
<1> QED
    BY <1>1, <1>2, <1>3, <1>4, <1>5, <1>6, <1>7, <1>8, <1>9 DEF Next, InsertStep

-----------------------------------------------------------------------------
(* The inductive invariant *)

IterInv ==
    /\ stale \in BOOLEAN /\ visited \subseteq Key
    /\ iter = NULL => visited = {} /\ ~stale
    /\ iter # NULL => iter \in IterType
    /\ iter # NULL /\ ~stale =>
          /\ Reaches(iter, visited, stable)
          /\ iter.next # NULL => Exists /\ ~Rehashing

\* Outside a resize the keys of the map are those of the table.
MapKeys == ~Rehashing => DOMAIN Map = KeysOf(table)

LEMMA KeysOfMap == IInv => MapKeys
<1> SUFFICES ASSUME IInv, ~Rehashing PROVE DOMAIN Map = KeysOf(table)
    BY DEF MapKeys
<1>1. Linked = Both
    BY LinkedIsBoth
<1>2. AssocsOf(Old) = {}
    BY NothingOld DEF IInv
<1> QED
    BY <1>1, <1>2 DEF Both, Map, MapOf, KeysOf

LEMMA CallStep ==
    ASSUME IInv, IterInv, MapKeys', TableStep
    PROVE  IterInv'
<1>1. stale' \in BOOLEAN /\ visited' \subseteq Key
    BY DEF TableStep, IterInv
<1>2. iter' = iter
    BY DEF TableStep
<1>3. CASE iter = NULL
    <2>1. ~stale' /\ visited' = {}
        BY <1>3 DEF TableStep, IterInv
    <2> QED
        BY <1>1, <1>2, <1>3, <2>1 DEF IterInv, Reaches
<1>4. CASE iter # NULL /\ stale'
    BY <1>1, <1>2, <1>4 DEF IterInv, Reaches
<1>5. CASE iter # NULL /\ ~stale'
    <2>1. ~stale /\ ~Frees(iter.next) /\ visited' = visited /\ stable' = stable \cap DOMAIN Map'
        BY <1>5 DEF TableStep
    <2>2. CASE iter.next = NULL
        <3>1. stable' \subseteq visited'
            BY <1>5, <2>1, <2>2 DEF IterInv, Reaches
        <3> QED
            BY <1>1, <1>2, <1>5, <2>2, <3>1 DEF IterInv, Reaches
    <2>3. CASE iter.next # NULL
        <3>1. Exists' /\ capacity' = capacity /\ iter.next \in KeysOf(table)'
            BY <2>1, <2>3 DEF Frees
        <3>2. /\ Exists /\ ~Rehashing /\ StandsFor(iter.next, iter.idx, visited, stable)
              /\ visited \in SUBSET Key
            BY <1>5, <2>1, <2>3 DEF IterInv, Reaches
        <3>3. stable' \subseteq stable /\ (stable' \cap KeysOf(table)' = stable' \/ Rehashing')
            BY <2>1 DEF MapKeys
        <3>4. PICK k : k = iter.next
            OBVIOUS
        <3>5. PICK i : i = iter.idx
            OBVIOUS
        <3>6. PICK V : V = visited
            OBVIOUS
        <3>7. PICK T : T = stable'
            OBVIOUS
        <3>8. Next
            BY DEF TableStep
        <3>9. StandsFor(k, i, V, T)' /\ ~Rehashing'
            BY <3>1, <3>2, <3>3, <3>4, <3>5, <3>6, <3>7, <3>8, StandsInStep
        <3>10. StandsFor(iter.next, iter.idx, visited, stable)'
            BY <1>2, <2>1, <3>4, <3>5, <3>6, <3>7, <3>9
        <3> QED
            BY <1>1, <1>2, <1>5, <2>3, <3>1, <3>9, <3>10 DEF IterInv, Reaches
    <2> QED
        BY <2>2, <2>3
<1> QED
    BY <1>3, <1>4, <1>5

LEMMA CreateStep ==
    ASSUME IInv, IterInv, HashIterCreate
    PROVE  IterInv'
<1>1. /\ calls = <<>> /\ Exists /\ ~Rehashing /\ capacity \in Nat /\ table \in Chains(capacity)
      /\ visited = {} /\ ~stale /\ stale \in BOOLEAN
    BY AtRest DEF HashIterCreate, IterInv, Placed
<1>2. /\ iter' = Updated(NULL, -1) /\ stable' = KeysOf(table) /\ visited' = {} /\ ~stale'
      /\ UNCHANGED vars
    BY <1>1 DEF HashIterCreate
<1>3. /\ iter' \in IterType
      /\ Reaches(iter', {}, KeysOf(table))
    BY <1>1, <1>2, FirstOfAll
<1>4. Exists' /\ ~Rehashing'
    BY <1>1, <1>2 DEF vars, Exists, Rehashing
<1>5. Reaches(iter, visited, stable)'
    BY <1>2, <1>3 DEF vars, Reaches, StandsFor
<1>6. stale' = FALSE
    BY <1>1 DEF HashIterCreate
<1> QED
    BY <1>1, <1>2, <1>3, <1>4, <1>5, <1>6, IterAssumption DEF IterInv, IterType

LEMMA NextStep ==
    ASSUME IInv, IterInv, HashIterNext
    PROVE  IterInv'
<1>1. /\ iter \in IterType /\ ~stale /\ stale' = stale /\ stale \in BOOLEAN
      /\ Exists /\ ~Rehashing /\ visited \in SUBSET Key
      /\ capacity \in Nat \ {0} /\ Placed(table, capacity)
      /\ StandsFor(iter.next, iter.idx, visited, stable)
    BY AtRest DEF HashIterNext, IterInv, Reaches
<1>2. /\ visited' = visited \cup {iter.next} /\ iter' = Updated(iter.next, iter.idx)
      /\ stable' = stable /\ UNCHANGED vars
    BY DEF HashIterNext
<1>3. PICK p \in 1 .. Len(table[iter.idx]) :
         /\ table[iter.idx][p].key = iter.next
         /\ Stands(table, capacity, iter.idx, p, visited, stable)
    BY <1>1 DEF StandsFor
<1>4. PICK k : k = iter.next
    OBVIOUS
<1>5. PICK i : i = iter.idx
    OBVIOUS
<1>6. PICK u : u = iter'
    OBVIOUS
<1>7. PICK W : W = visited \cup {k}
    OBVIOUS
<1>8. /\ capacity \in Nat \ {0} /\ Placed(table, capacity) /\ visited \in SUBSET Key
      /\ Stands(table, capacity, i, p, visited, stable)
      /\ k = table[i][p].key /\ u = Updated(k, i) /\ W = visited \cup {k}
    BY <1>1, <1>2, <1>3, <1>4, <1>5, <1>6, <1>7
<1>9. u \in IterType /\ k \in Key
    BY <1>8, NextOfAll
<1>10. Reaches(u, W, stable)
    BY ONLY <1>8, NextOfAll, IterAssumption, TableAssumption
<1>11. Exists' /\ ~Rehashing'
    BY <1>1, <1>2 DEF vars, Exists, Rehashing
<1>12. Reaches(iter, visited, stable)'
    BY <1>2, <1>4, <1>6, <1>7, <1>10 DEF vars, Reaches, StandsFor
<1>13. iter' # NULL /\ iter' \in IterType /\ visited' \subseteq Key
    BY <1>1, <1>2, <1>4, <1>6, <1>9, IterAssumption DEF IterType
<1> QED
    BY <1>1, <1>11, <1>12, <1>13 DEF IterInv, Reaches

LEMMA IterStep ==
    ASSUME IInv, IterInv, MapKeys', [IterNext]_<<vars, iterVars>>
    PROVE  IterInv' /\ [Next]_vars
<1>1. CASE TableStep
    BY <1>1, CallStep DEF TableStep
<1>2. CASE HashIterCreate
    BY <1>2, CreateStep DEF HashIterCreate
<1>3. CASE HashIterNext
    BY <1>3, NextStep DEF HashIterNext
<1>4. CASE HashIterFree
    BY <1>4 DEF HashIterFree, IterInv
<1>5. CASE UNCHANGED <<vars, iterVars>>
    BY <1>5 DEF vars, iterVars, IterInv, Exists, Rehashing, StandsFor, Reaches
<1> QED
    BY <1>1, <1>2, <1>3, <1>4, <1>5 DEF IterNext

LEMMA IterInvariance == IterSpec => [](IInv /\ IterInv)
<1>1. IterInit => IInv /\ IterInv
    BY Initially DEF IterInit, IterInv
<1>2. IInv => MapKeys
    BY KeysOfMap
<1>3. IInv /\ [Next]_vars => IInv'
    BY StepMeaning
<1>4. IInv /\ IterInv /\ [IterNext]_<<vars, iterVars>> => [Next]_vars
    BY DEF IterNext, TableStep, HashIterCreate, HashIterNext, HashIterFree, vars, iterVars
<1>5. IInv /\ IterInv /\ MapKeys' /\ [IterNext]_<<vars, iterVars>> => IterInv'
    BY IterStep
<1> QED
    BY <1>1, <1>2, <1>3, <1>4, <1>5, PTL DEF IterSpec

\* The next association of an iterator that may be used is in the table and was not
\* returned before; when there is none, every key that was there all the time was
\* returned: whatever else was inserted and removed, and however the keys collide.
THEOREM VisitsOnce == IterSpec => []IterVisitsOnce
<1>1. IInv /\ IterInv => IterVisitsOnce
    <2> SUFFICES ASSUME IInv, IterInv, iter # NULL, ~stale
                 PROVE  IF iter.next = NULL THEN stable \subseteq visited
                        ELSE /\ iter.next \notin visited
                             /\ \E a \in ToSet(table[iter.idx]) : a.key = iter.next
        BY DEF IterVisitsOnce
    <2>1. CASE iter.next = NULL
        BY <2>1 DEF IterInv, Reaches
    <2>2. CASE iter.next # NULL
        <3>1. Exists /\ StandsFor(iter.next, iter.idx, visited, stable)
            BY <2>2 DEF IterInv, Reaches
        <3>2. PICK p \in 1 .. Len(table[iter.idx]) :
                 /\ table[iter.idx][p].key = iter.next
                 /\ Stands(table, capacity, iter.idx, p, visited, stable)
            BY <3>1 DEF StandsFor
        <3>3. iter.idx \in 0 .. capacity - 1 /\ table \in Chains(capacity) /\ capacity \in Nat
            BY <3>1, <3>2 DEF Stands, IInv, TableInv, Placed, BaseInv
        <3>4. DOMAIN table[iter.idx] = 1 .. Len(table[iter.idx])
            BY <3>3, ChainType
        <3>5. Ahead(table, capacity, iter.idx, p, iter.next)
            BY <3>2, <3>3, <3>4, ChainType DEF Ahead
        <3>6. iter.next \notin visited
            BY <3>2, <3>5 DEF Stands
        <3>7. table[iter.idx][p] \in ToSet(table[iter.idx])
            BY <3>2, <3>4 DEF ToSet
        <3> QED
            BY <2>2, <3>2, <3>6, <3>7
    <2> QED
        BY <2>1, <2>2
<1> QED
    BY <1>1, IterInvariance, PTL
=============================================================================
