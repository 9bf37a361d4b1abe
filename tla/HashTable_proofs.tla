-------------------------- MODULE HashTable_proofs --------------------------
(***************************************************************************)
(* For any keys, values, hash function, first capacity and threshold: the  *)
(* table is a map, a resize never resizes again, its load is bounded, its  *)
(* count is right, and nothing leaks.                                      *)
(***************************************************************************)
EXTENDS HashTable, FiniteSetTheorems, SequenceTheorems, WellFoundedInduction, TLAPS

-----------------------------------------------------------------------------
(* Chains *)

\* The association at position p of a chain is taken out.
Without(s, p, r) ==
    /\ r \in Seq(Assoc) /\ Len(r) = Len(s) - 1
    /\ \A j \in 1 .. Len(r) : r[j] = IF j < p THEN s[j] ELSE s[j + 1]

\* The association a, of the same key, takes its place.
Replaced(s, p, a, r) ==
    /\ r \in Seq(Assoc) /\ Len(r) = Len(s) /\ r[p] = a /\ a.key = s[p].key
    /\ \A j \in (1 .. Len(s)) \ {p} : r[j] = s[j]

\* The association a becomes the head.
Pushed(s, a, r) ==
    /\ r \in Seq(Assoc) /\ Len(r) = Len(s) + 1
    /\ r[1] = a /\ \A j \in 2 .. Len(s) + 1 : r[j] = s[j - 1]

LEMMA RemoveAtChain ==
    ASSUME NEW s \in Seq(Assoc), NEW p \in 1 .. Len(s)
    PROVE  Without(s, p, RemoveAt(s, p))
<1> DEFINE b == SubSeq(s, 1, p - 1)
           e == SubSeq(s, p + 1, Len(s))
<1>1. b \in Seq(Assoc) /\ Len(b) = p - 1 /\ \A j \in 1 .. p - 1 : b[j] = s[j]
    OBVIOUS
<1>2. e \in Seq(Assoc) /\ Len(e) = Len(s) - p /\ \A j \in 1 .. Len(s) - p : e[j] = s[p + j]
    OBVIOUS
<1> HIDE DEF b, e
<1>3. b \o e \in Seq(Assoc) /\ Len(b \o e) = Len(s) - 1
    <2>1. b \o e \in Seq(Assoc) /\ Len(b \o e) = Len(b) + Len(e)
        BY <1>1, <1>2, ConcatProperties
    <2> QED
        BY <1>1, <1>2, <2>1
<1>4. ASSUME NEW j \in 1 .. Len(s) - 1
      PROVE  (b \o e)[j] = IF j < p THEN s[j] ELSE s[j + 1]
    <2>1. CASE j < p
        BY <1>1, <1>2, <2>1
    <2>2. CASE ~(j < p)
        <3>1. j - (p - 1) \in 1 .. Len(s) - p /\ p + (j - (p - 1)) = j + 1
            BY <2>2
        <3>2. (b \o e)[j] = e[j - (p - 1)]
            BY <1>1, <1>2, <2>2
        <3> QED
            BY <1>2, <2>2, <3>1, <3>2
    <2> QED
        BY <2>1, <2>2
<1> QED
    BY <1>3, <1>4 DEF RemoveAt, Without, b, e

LEMMA TailChain ==
    ASSUME NEW s \in Seq(Assoc), s # <<>>
    PROVE  Without(s, 1, Tail(s)) /\ Len(s) >= 1 /\ Head(s) = s[1]
BY DEF Without

LEMMA ConsChain ==
    ASSUME NEW s \in Seq(Assoc), NEW a \in Assoc
    PROVE  Pushed(s, a, Cons(a, s))
<1>1. <<a>> \in Seq(Assoc) /\ Len(<<a>>) = 1 /\ <<a>>[1] = a
    OBVIOUS
<1> DEFINE u == <<a>>
<1>2. u \in Seq(Assoc) /\ Len(u) = 1 /\ u[1] = a
    BY <1>1
<1> HIDE DEF u
<1>3. /\ u \o s \in Seq(Assoc) /\ Len(u \o s) = Len(s) + 1
      /\ (u \o s)[1] = a /\ \A j \in 2 .. Len(s) + 1 : (u \o s)[j] = s[j - 1]
    <2>0. /\ u \o s \in Seq(Assoc) /\ Len(u \o s) = Len(u) + Len(s)
          /\ \A j \in 1 .. Len(u) + Len(s) : (u \o s)[j] = IF j <= Len(u) THEN u[j] ELSE s[j - Len(u)]
        BY <1>2, ConcatProperties
    <2>1. /\ u \o s \in Seq(Assoc) /\ Len(u \o s) = 1 + Len(s)
          /\ \A j \in 1 .. 1 + Len(s) : (u \o s)[j] = IF j <= 1 THEN u[j] ELSE s[j - 1]
        BY <1>2, <2>0
    <2>2. Len(s) \in Nat
        OBVIOUS
    <2> QED
        BY <1>2, <2>1, <2>2
<1> QED
    BY <1>3 DEF Cons, Pushed, u

LEMMA ExceptChain ==
    ASSUME NEW s \in Seq(Assoc), NEW p \in 1 .. Len(s), NEW v \in Value
    PROVE  Replaced(s, p, [key |-> s[p].key, value |-> v], [s EXCEPT ![p].value = v])
<1> DEFINE a == [key |-> s[p].key, value |-> v]
<1>1. s[p] \in Assoc /\ a \in Assoc /\ [s[p] EXCEPT !.value = v] = a
    <2>1. PICK x : x = s[p]
        OBVIOUS
    <2>2. x \in Assoc
        BY <2>1
    <2>3. [key |-> x.key, value |-> v] \in Assoc /\ [x EXCEPT !.value = v] = [key |-> x.key, value |-> v]
        BY <2>2 DEF Assoc
    <2> QED
        BY <2>1, <2>2, <2>3
<1>2. [s EXCEPT ![p].value = v] = [s EXCEPT ![p] = a]
    BY <1>1
<1> HIDE DEF a
<1>3. /\ [s EXCEPT ![p] = a] \in Seq(Assoc) /\ Len([s EXCEPT ![p] = a]) = Len(s)
      /\ [s EXCEPT ![p] = a][p] = a
      /\ \A j \in (1 .. Len(s)) \ {p} : [s EXCEPT ![p] = a][j] = s[j]
    BY <1>1
<1> QED
    BY <1>2, <1>3 DEF Replaced, a

-----------------------------------------------------------------------------
(* Arrays of chains *)

\* Each association is in the chain of its key, and no key has two.
Placed(array, n) ==
    /\ array \in Chains(n)
    /\ \A i \in 0 .. n - 1 : \A j \in 1 .. Len(array[i]) : Hash[array[i][j].key] % n = i
    /\ \A i \in 0 .. n - 1 : \A j, k \in 1 .. Len(array[i]) :
          array[i][j].key = array[i][k].key => j = k

\* The chain i of an array is replaced by c.
Changed(array, n, i, c, r) ==
    /\ r \in Chains(n) /\ r[i] = c
    /\ \A h \in (0 .. n - 1) \ {i} : r[h] = array[h]

LEMMA ArrayChange ==
    ASSUME NEW n \in Nat, NEW array \in Chains(n), NEW i \in 0 .. n - 1, NEW c \in Seq(Assoc)
    PROVE  Changed(array, n, i, c, [array EXCEPT ![i] = c])
BY DEF Changed, Chains

\* R has, in the place of what S has for the key of a, the association a; it lacks
\* what S has for the key k.
Inserted(S, a, R) == \A x : x \in R <=> (x \in S /\ x.key # a.key) \/ x = a
Removed(S, k, R) == \A x : x \in R <=> x \in S /\ x.key # k

LEMMA ChainType ==
    ASSUME NEW n \in Nat, NEW array \in Chains(n), NEW i \in 0 .. n - 1
    PROVE  /\ array[i] \in Seq(Assoc) /\ Len(array[i]) \in Nat /\ DOMAIN array = 0 .. n - 1
           /\ DOMAIN array[i] = 1 .. Len(array[i])
           /\ \A j \in 1 .. Len(array[i]) : array[i][j] \in Assoc /\ array[i][j].key \in Key
<1>1. array[i] \in Seq(Assoc) /\ DOMAIN array = 0 .. n - 1
    BY DEF Chains
<1>2. \A j \in 1 .. Len(array[i]) : array[i][j] \in Assoc
    BY <1>1
<1> QED
    BY <1>1, <1>2 DEF Assoc

LEMMA InPlaces ==
    ASSUME NEW n \in Nat, NEW array \in Chains(n)
    PROVE  \A x : x \in Places(array) <=>
             \E i \in 0 .. n - 1 : \E j \in 1 .. Len(array[i]) : x = <<i, j>>
<1>1. DOMAIN array = 0 .. n - 1 /\ \A i \in 0 .. n - 1 : DOMAIN array[i] = 1 .. Len(array[i])
    BY ChainType DEF Chains
<1> QED
    BY <1>1 DEF Places

LEMMA InAssocs ==
    ASSUME NEW n \in Nat, NEW array \in Chains(n)
    PROVE  \A x : x \in AssocsOf(array) <=>
             \E i \in 0 .. n - 1 : \E j \in 1 .. Len(array[i]) : x = array[i][j]
<1>1. DOMAIN array = 0 .. n - 1 /\ \A i \in 0 .. n - 1 : DOMAIN array[i] = 1 .. Len(array[i])
    BY ChainType DEF Chains
<1> QED
    BY <1>1 DEF AssocsOf, ToSet

LEMMA PlacesFinite ==
    ASSUME NEW n \in Nat, NEW array \in Chains(n)
    PROVE  IsFiniteSet(Places(array)) /\ Total(array) \in Nat
<1>1. DOMAIN array = 0 .. n - 1 /\ IsFiniteSet(0 .. n - 1)
    BY FS_Interval DEF Chains
<1> DEFINE S == {{i} \X DOMAIN array[i] : i \in 0 .. n - 1}
<1>2. \A T \in S : IsFiniteSet(T)
    <2>1. ASSUME NEW i \in 0 .. n - 1 PROVE IsFiniteSet({i} \X DOMAIN array[i])
        <3>1. IsFiniteSet(DOMAIN array[i])
            <4>1. DOMAIN array[i] = 1 .. Len(array[i]) /\ Len(array[i]) \in Int
                BY ChainType
            <4>2. \A m \in Int : IsFiniteSet(1 .. m)
                BY FS_Interval
            <4> QED
                BY <4>1, <4>2
        <3>2. IsFiniteSet({i})
            BY FS_Singleton
        <3> QED
            BY <3>1, <3>2, FS_Product
    <2> QED
        BY <2>1
<1>3. IsFiniteSet(S)
    <2> DEFINE f == [i \in 0 .. n - 1 |-> {i} \X DOMAIN array[i]]
    <2>1. f \in Surjection(0 .. n - 1, S)
        BY DEF Surjection
    <2> QED
        BY <1>1, <2>1, FS_Surjection
<1>4. IsFiniteSet(UNION S)
    BY <1>2, <1>3, FS_UNION
<1>5. IsFiniteSet(Places(array))
    BY <1>1, <1>4 DEF Places
<1> QED
    BY <1>5, FS_CardinalityType DEF Total

LEMMA EmptyArray ==
    ASSUME NEW n \in Nat
    PROVE  /\ Placed(Empty(n), n) /\ Empty(n) \in Chains(n)
           /\ AssocsOf(Empty(n)) = {} /\ Places(Empty(n)) = {} /\ Total(Empty(n)) = 0
           /\ DOMAIN Empty(n) = 0 .. n - 1 /\ IsEmpty(Empty(n))
<1>1. Empty(n) \in Chains(n) /\ DOMAIN Empty(n) = 0 .. n - 1 /\ IsEmpty(Empty(n))
    BY DEF Empty, Chains, IsEmpty
<1>2. \A i \in 0 .. n - 1 : Empty(n)[i] = <<>> /\ Len(Empty(n)[i]) = 0
    BY DEF Empty
<1>3. Placed(Empty(n), n)
    BY <1>1, <1>2 DEF Placed
<1>4. AssocsOf(Empty(n)) = {} /\ Places(Empty(n)) = {}
    BY <1>1, <1>2, InAssocs, InPlaces
<1> QED
    BY <1>1, <1>3, <1>4, FS_EmptySet DEF Total

\* An array without associations has no place that is taken.
LEMMA NothingLeft ==
    ASSUME NEW n \in Nat, NEW array \in Chains(n), IsEmpty(array)
    PROVE  AssocsOf(array) = {} /\ Places(array) = {} /\ Total(array) = 0
<1>1. \A i \in 0 .. n - 1 : Len(array[i]) = 0
    BY DEF IsEmpty, Chains
<1>2. AssocsOf(array) = {} /\ Places(array) = {}
    BY <1>1, InAssocs, InPlaces
<1> QED
    BY <1>2, FS_EmptySet DEF Total

\* A chain whose length grows by one adds one place.
LEMMA PlacesGrow ==
    ASSUME NEW n \in Nat, NEW array \in Chains(n), NEW r \in Chains(n), NEW i \in 0 .. n - 1,
           Len(r[i]) = Len(array[i]) + 1, \A h \in (0 .. n - 1) \ {i} : r[h] = array[h]
    PROVE  Total(r) = Total(array) + 1
<1> DEFINE x == <<i, Len(array[i]) + 1>>
<1>1. Len(array[i]) \in Nat
    BY ChainType
<1>2. \A j : j \in 1 .. Len(array[i]) + 1 <=> j \in 1 .. Len(array[i]) \/ j = Len(array[i]) + 1
    BY <1>1
<1>3. x \notin Places(array)
    BY <1>1, InPlaces
<1>4. ASSUME NEW y \in Places(r) PROVE y \in Places(array) \cup {x}
    <2>0. PICK h \in 0 .. n - 1 : \E j \in 1 .. Len(r[h]) : y = <<h, j>>
        BY InPlaces
    <2>1. PICK j \in 1 .. Len(r[h]) : y = <<h, j>>
        BY <2>0
    <2>2. CASE h = i
        BY <1>2, <2>1, <2>2, InPlaces
    <2>3. CASE h # i
        BY <2>1, <2>3, InPlaces
    <2> QED
        BY <2>2, <2>3
<1>5. ASSUME NEW y \in Places(array) PROVE y \in Places(r)
    <2>0. PICK h \in 0 .. n - 1 : \E j \in 1 .. Len(array[h]) : y = <<h, j>>
        BY InPlaces
    <2>1. PICK j \in 1 .. Len(array[h]) : y = <<h, j>>
        BY <2>0
    <2>2. j \in 1 .. Len(r[h])
        BY <1>2, <2>1
    <2> QED
        BY <2>1, <2>2, InPlaces
<1>6. x \in Places(r)
    BY <1>1, <1>2, InPlaces
<1>7. Places(r) = Places(array) \cup {x}
    BY <1>4, <1>5, <1>6
<1> HIDE DEF x
<1> QED
    BY <1>3, <1>7, PlacesFinite, FS_AddElement DEF Total

LEMMA SamePlaces ==
    ASSUME NEW n \in Nat, NEW array \in Chains(n), NEW r \in Chains(n),
           \A i \in 0 .. n - 1 : Len(r[i]) = Len(array[i])
    PROVE  Total(r) = Total(array)
<1>1. Places(r) = Places(array)
    BY InPlaces
<1> QED
    BY <1>1 DEF Total

LEMMA IndexType ==
    ASSUME NEW k \in Key, NEW n \in Nat \ {0}
    PROVE  Hash[k] % n \in 0 .. n - 1
<1>1. Hash[k] \in Nat
    BY TableAssumption
<1> QED
    BY <1>1

\* A new association at the head of its chain.
LEMMA ArrayCons ==
    ASSUME NEW n \in Nat \ {0}, NEW array, Placed(array, n), NEW k \in Key, NEW v \in Value,
           k \notin KeysOf(array), NEW i, i = Hash[k] % n,
           NEW a, a = [key |-> k, value |-> v], NEW c, Pushed(array[i], a, c),
           NEW r, Changed(array, n, i, c, r)
    PROVE  /\ Placed(r, n) /\ Total(r) = Total(array) + 1
           /\ AssocsOf(r) = AssocsOf(array) \cup {a}
<1> DEFINE s == array[i]
<1>1. a \in Assoc /\ a.key = k
    BY DEF Assoc
<1>2. i \in 0 .. n - 1 /\ array \in Chains(n)
    BY IndexType DEF Placed
<1>3. s \in Seq(Assoc) /\ Len(s) \in Nat
    BY <1>2, ChainType
<1>4. c \in Seq(Assoc) /\ Len(c) = Len(s) + 1 /\ c[1] = a /\ \A j \in 2 .. Len(s) + 1 : c[j] = s[j - 1]
    BY DEF Pushed
<1> HIDE DEF s
<1>5. r[i] = c /\ (\A h \in (0 .. n - 1) \ {i} : r[h] = array[h]) /\ r \in Chains(n)
    BY DEF Changed
<1>6. Total(r) = Total(array) + 1
    BY <1>2, <1>4, <1>5, PlacesGrow DEF s
<1>7. AssocsOf(r) = AssocsOf(array) \cup {a}
    <2>1. ASSUME NEW x \in AssocsOf(r) PROVE x \in AssocsOf(array) \cup {a}
        <3>0. n \in Nat /\ r \in Chains(n) /\ x \in AssocsOf(r)
            BY <1>5, <2>1
        <3>e. \E h \in 0 .. n - 1 : \E j \in 1 .. Len(r[h]) : x = r[h][j]
            BY ONLY <3>0, InAssocs
        <3>d. PICK h \in 0 .. n - 1 : \E j \in 1 .. Len(r[h]) : x = r[h][j]
            BY <3>e
        <3>1. PICK j \in 1 .. Len(r[h]) : x = r[h][j]
            BY <3>d
        <3>2. CASE h # i
            BY <1>2, <1>5, <3>1, <3>2, InAssocs
        <3>3. CASE h = i /\ j = 1
            BY <1>4, <1>5, <3>1, <3>3
        <3>4. CASE h = i /\ j # 1
            <4>1. x = s[j - 1] /\ j - 1 \in 1 .. Len(s)
                BY <1>3, <1>4, <1>5, <3>1, <3>4
            <4> QED
                BY <1>2, <4>1, InAssocs DEF s
        <3> QED
            BY <3>2, <3>3, <3>4
    <2>2. ASSUME NEW x \in AssocsOf(array) PROVE x \in AssocsOf(r)
        <3>d. PICK h \in 0 .. n - 1 : \E j \in 1 .. Len(array[h]) : x = array[h][j]
            BY <1>2, InAssocs
        <3>1. PICK j \in 1 .. Len(array[h]) : x = array[h][j]
            BY <3>d
        <3>2. CASE h # i
            BY <1>5, <3>1, <3>2, InAssocs
        <3>3. CASE h = i
            <4>1. j + 1 \in 1 .. Len(r[i]) /\ r[i][j + 1] = x
                BY <1>3, <1>4, <1>5, <3>1, <3>3 DEF s
            <4> QED
                BY <1>2, <1>5, <4>1, InAssocs
        <3> QED
            BY <3>2, <3>3
    <2>3. a \in AssocsOf(r)
        <3>1. r \in Chains(n) /\ 1 \in 1 .. Len(r[i]) /\ a = r[i][1]
            BY <1>3, <1>4, <1>5
        <3> QED
            BY <1>2, <3>1, InAssocs
    <2> QED
        BY <2>1, <2>2, <2>3
<1>8. Placed(r, n)
    <2>1. \A j \in 1 .. Len(s) : s[j].key # k
        BY <1>2, InAssocs DEF KeysOf, s
    <2>2. \A j \in 1 .. Len(c) : j = 1 \/ (j - 1 \in 1 .. Len(s) /\ c[j] = s[j - 1])
        <3>1. ASSUME NEW j \in 1 .. Len(c), j # 1 PROVE j - 1 \in 1 .. Len(s) /\ c[j] = s[j - 1]
            <4>1. j \in 2 .. Len(s) + 1
                BY <1>3, <1>4, <3>1
            <4> QED
                BY <1>3, <1>4, <4>1
        <3> QED
            BY <3>1
    <2>3. /\ \A j \in 1 .. Len(s) : Hash[s[j].key] % n = i
          /\ \A j, l \in 1 .. Len(s) : s[j].key = s[l].key => j = l
        BY <1>2 DEF Placed, s
    <2>4. \A j \in 1 .. Len(c) : Hash[c[j].key] % n = i
        <3>1. Hash[c[1].key] % n = i
            BY <1>1, <1>4
        <3>2. ASSUME NEW j \in 1 .. Len(c), j # 1 PROVE Hash[c[j].key] % n = i
            <4>1. PICK l \in 1 .. Len(s) : c[j] = s[l]
                BY <2>2, <3>2
            <4> QED
                BY <2>3, <4>1
        <3> QED
            BY <3>1, <3>2
    <2>5. \A j, l \in 1 .. Len(c) : c[j].key = c[l].key => j = l
        <3> SUFFICES ASSUME NEW j \in 1 .. Len(c), NEW l \in 1 .. Len(c), c[j].key = c[l].key
                     PROVE  j = l
            OBVIOUS
        <3>1. CASE j = 1
            BY <1>1, <1>4, <2>1, <2>2, <3>1
        <3>2. CASE l = 1
            BY <1>1, <1>4, <2>1, <2>2, <3>2
        <3>3. CASE j # 1 /\ l # 1
            <4>1. j - 1 = l - 1
                BY <2>2, <2>3, <3>3
            <4> QED
                BY <4>1
        <3> QED
            BY <3>1, <3>2, <3>3
    <2> QED
        BY <1>5, <2>4, <2>5 DEF Placed
<1> QED
    BY <1>6, <1>7, <1>8

\* The association of k at position p of its chain gets another value.
LEMMA ArrayUpdate ==
    ASSUME NEW n \in Nat \ {0}, NEW array, Placed(array, n), NEW i \in 0 .. n - 1,
           NEW p \in 1 .. Len(array[i]), NEW a, NEW c, Replaced(array[i], p, a, c),
           NEW r, Changed(array, n, i, c, r)
    PROVE  /\ Placed(r, n) /\ Total(r) = Total(array)
           /\ Inserted(AssocsOf(array), a, AssocsOf(r))
<1> DEFINE s == array[i]
           k == a.key
<1>1. array \in Chains(n) /\ s \in Seq(Assoc) /\ Len(s) \in Nat /\ DOMAIN s = 1 .. Len(s)
    BY ChainType DEF Placed
<1>2. s[p].key = k
    BY DEF Replaced
<1>3. a.key = k /\ array[i][p].key = k
    BY DEF Replaced
<1> HIDE DEF k
<1>5. /\ c \in Seq(Assoc) /\ Len(c) = Len(s) /\ c[p] = a
      /\ \A j \in (1 .. Len(s)) \ {p} : c[j] = s[j]
    BY <1>2 DEF Replaced
<1> HIDE DEF s
<1>6. r[i] = c /\ (\A h \in (0 .. n - 1) \ {i} : r[h] = array[h]) /\ r \in Chains(n)
    BY DEF Changed
<1>7. Total(r) = Total(array)
    BY <1>1, <1>5, <1>6, SamePlaces DEF s
<1>8. \A h \in 0 .. n - 1 : Len(r[h]) = Len(array[h]) /\
        \A j \in 1 .. Len(r[h]) : r[h][j].key = array[h][j].key
    BY <1>2, <1>3, <1>5, <1>6 DEF s
<1>9. Placed(r, n)
    <2>1. \A h \in 0 .. n - 1 : \A j \in 1 .. Len(r[h]) : Hash[r[h][j].key] % n = h
        <3> SUFFICES ASSUME NEW h \in 0 .. n - 1, NEW j \in 1 .. Len(r[h])
                     PROVE  Hash[r[h][j].key] % n = h
            OBVIOUS
        <3>1. j \in 1 .. Len(array[h]) /\ r[h][j].key = array[h][j].key
            BY <1>8
        <3>2. Hash[array[h][j].key] % n = h
            BY <3>1 DEF Placed
        <3> QED
            BY <3>1, <3>2
    <2>2. \A h \in 0 .. n - 1 : \A j, l \in 1 .. Len(r[h]) :
             r[h][j].key = r[h][l].key => j = l
        <3> SUFFICES ASSUME NEW h \in 0 .. n - 1, NEW j \in 1 .. Len(r[h]),
                            NEW l \in 1 .. Len(r[h]), r[h][j].key = r[h][l].key
                     PROVE  j = l
            OBVIOUS
        <3>1. /\ j \in 1 .. Len(array[h]) /\ l \in 1 .. Len(array[h])
              /\ array[h][j].key = array[h][l].key
            BY <1>8
        <3> QED
            BY <3>1 DEF Placed
    <2> QED
        BY <1>6, <2>1, <2>2 DEF Placed
<1>10. ASSUME NEW x \in AssocsOf(r) PROVE (x \in AssocsOf(array) /\ x.key # k) \/ x = a
    <2>e. \E h \in 0 .. n - 1 : \E j \in 1 .. Len(r[h]) : x = r[h][j]
        <3>1. n \in Nat /\ r \in Chains(n) /\ x \in AssocsOf(r)
            BY <1>6, <1>10
        <3> QED
            BY ONLY <3>1, InAssocs
    <2>d. PICK h \in 0 .. n - 1 : \E j \in 1 .. Len(r[h]) : x = r[h][j]
        BY <2>e
    <2>1. PICK j \in 1 .. Len(r[h]) : x = r[h][j]
        BY <2>d
    <2>2. CASE h = i /\ j = p
        BY <1>5, <1>6, <2>1, <2>2
    <2>3. CASE ~(h = i /\ j = p)
        <3>1. x = array[h][j] /\ j \in 1 .. Len(array[h])
            BY <1>5, <1>6, <1>8, <2>1, <2>3 DEF s
        <3>2. x.key # k
            <4>1. CASE x.key = k
                <5>1. Hash[k] % n = h
                    BY <3>1, <4>1 DEF Placed
                <5>2. Hash[k] % n = i
                    BY <1>3 DEF Placed
                <5> QED
                    BY <1>3, <2>3, <3>1, <4>1, <5>1, <5>2 DEF Placed
            <4> QED
                BY <4>1
        <3> QED
            BY <1>1, <3>1, <3>2, InAssocs
    <2> QED
        BY <2>2, <2>3
<1>11. ASSUME NEW x \in AssocsOf(array), x.key # k PROVE x \in AssocsOf(r)
    <2>d. PICK h \in 0 .. n - 1 : \E j \in 1 .. Len(array[h]) : x = array[h][j]
        BY <1>1, InAssocs
    <2>1. PICK j \in 1 .. Len(array[h]) : x = array[h][j]
        BY <2>d
    <2>2. ~(h = i /\ j = p)
        BY <1>3, <1>11, <2>1
    <2>3. r[h][j] = x /\ j \in 1 .. Len(r[h])
        BY <1>5, <1>6, <1>8, <2>1, <2>2 DEF s
    <2> QED
        BY <1>6, <2>3, InAssocs
<1>12. a \in AssocsOf(r)
    <2>1. n \in Nat /\ r \in Chains(n) /\ i \in 0 .. n - 1 /\ p \in 1 .. Len(r[i]) /\ a = r[i][p]
        BY <1>5, <1>6 DEF s
    <2> QED
        BY ONLY <2>1, InAssocs
<1> QED
    BY <1>3, <1>7, <1>9, <1>10, <1>11, <1>12 DEF Inserted

\* The association at position p of the chain i is taken out.
LEMMA ArrayDrop ==
    ASSUME NEW n \in Nat \ {0}, NEW array, Placed(array, n), NEW i \in 0 .. n - 1,
           NEW p \in 1 .. Len(array[i]), NEW c, Without(array[i], p, c),
           NEW r, Changed(array, n, i, c, r)
    PROVE  /\ Placed(r, n) /\ Total(r) = Total(array) - 1
           /\ Removed(AssocsOf(array), array[i][p].key, AssocsOf(r))
<1> DEFINE s == array[i]
           k == s[p].key
<1>1. array \in Chains(n) /\ s \in Seq(Assoc) /\ Len(s) \in Nat /\ DOMAIN s = 1 .. Len(s)
    BY ChainType DEF Placed
<1>2. /\ c \in Seq(Assoc) /\ Len(c) \in Nat /\ Len(s) = Len(c) + 1
      /\ \A j \in 1 .. Len(c) : c[j] = IF j < p THEN s[j] ELSE s[j + 1]
    BY <1>1 DEF Without
<1> HIDE DEF s, k
<1>3. r[i] = c /\ (\A h \in (0 .. n - 1) \ {i} : r[h] = array[h]) /\ r \in Chains(n)
    BY DEF Changed
<1>4. Total(r) = Total(array) - 1
    <2>1. Len(array[i]) = Len(r[i]) + 1 /\ \A h \in (0 .. n - 1) \ {i} : array[h] = r[h]
        BY <1>2, <1>3 DEF s
    <2>2. Total(array) = Total(r) + 1
        BY <1>1, <1>3, <2>1, PlacesGrow
    <2> QED
        BY <1>3, <2>2, PlacesFinite
<1>5. p \in 1 .. Len(s)
    BY DEF s
<1>6. \A j \in 1 .. Len(c) : \E l \in 1 .. Len(s) : l # p /\ c[j] = s[l] /\ l = IF j < p THEN j ELSE j + 1
    BY <1>1, <1>2, <1>5
<1>7. \A l \in 1 .. Len(s) : l # p => \E j \in 1 .. Len(c) : c[j] = s[l]
    <2> SUFFICES ASSUME NEW l \in 1 .. Len(s), l # p PROVE \E j \in 1 .. Len(c) : c[j] = s[l]
        OBVIOUS
    <2>1. CASE l < p
        <3>1. l \in 1 .. Len(c) /\ c[l] = s[l]
            BY <1>2, <1>5, <2>1
        <3> QED
            BY <3>1
    <2>2. CASE ~(l < p)
        <3>1. l - 1 \in 1 .. Len(c) /\ ~(l - 1 < p) /\ (l - 1) + 1 = l
            BY <1>2, <1>5, <2>2
        <3>2. c[l - 1] = s[l]
            BY <1>2, <3>1
        <3> QED
            BY <3>1, <3>2
    <2> QED
        BY <2>1, <2>2
<1>8. /\ \A j \in 1 .. Len(s) : Hash[s[j].key] % n = i
      /\ \A j, l \in 1 .. Len(s) : s[j].key = s[l].key => j = l
    BY DEF Placed, s
<1>9. Placed(r, n)
    <2>1. \A j \in 1 .. Len(c) : Hash[c[j].key] % n = i
        BY <1>6, <1>8
    <2>2. \A j, l \in 1 .. Len(c) : c[j].key = c[l].key => j = l
        <3> SUFFICES ASSUME NEW j \in 1 .. Len(c), NEW l \in 1 .. Len(c), c[j].key = c[l].key
                     PROVE  j = l
            OBVIOUS
        <3>1. PICK u \in 1 .. Len(s) : c[j] = s[u] /\ u = IF j < p THEN j ELSE j + 1
            BY <1>6
        <3>2. PICK w \in 1 .. Len(s) : c[l] = s[w] /\ w = IF l < p THEN l ELSE l + 1
            BY <1>6
        <3>3. u = w
            BY <1>8, <3>1, <3>2
        <3> QED
            BY <1>2, <1>5, <3>1, <3>2, <3>3
    <2> QED
        BY <1>3, <2>1, <2>2 DEF Placed
<1>10. ASSUME NEW x \in AssocsOf(r) PROVE x \in AssocsOf(array) /\ x.key # k
    <2>e. \E h \in 0 .. n - 1 : \E j \in 1 .. Len(r[h]) : x = r[h][j]
        <3>1. n \in Nat /\ r \in Chains(n) /\ x \in AssocsOf(r)
            BY <1>3, <1>10
        <3> QED
            BY ONLY <3>1, InAssocs
    <2>d. PICK h \in 0 .. n - 1 : \E j \in 1 .. Len(r[h]) : x = r[h][j]
        BY <2>e
    <2>1. PICK j \in 1 .. Len(r[h]) : x = r[h][j]
        BY <2>d
    <2>2. CASE h = i
        <3>1. PICK l \in 1 .. Len(s) : l # p /\ c[j] = s[l]
            BY <1>3, <1>6, <2>1, <2>2
        <3>2. x = s[l] /\ x.key # k
            BY <1>3, <1>5, <1>8, <2>1, <2>2, <3>1 DEF k
        <3> QED
            BY <1>1, <3>2, InAssocs DEF s
    <2>3. CASE h # i
        <3>1. x = array[h][j] /\ j \in 1 .. Len(array[h])
            BY <1>3, <2>1, <2>3
        <3>2. Hash[x.key] % n = h /\ Hash[k] % n = i
            BY <1>5, <1>8, <3>1 DEF Placed, k
        <3> QED
            BY <1>1, <2>3, <3>1, <3>2, InAssocs
    <2> QED
        BY <2>2, <2>3
<1>11. ASSUME NEW x \in AssocsOf(array), x.key # k PROVE x \in AssocsOf(r)
    <2>d. PICK h \in 0 .. n - 1 : \E j \in 1 .. Len(array[h]) : x = array[h][j]
        BY <1>1, InAssocs
    <2>1. PICK j \in 1 .. Len(array[h]) : x = array[h][j]
        BY <2>d
    <2>2. CASE h = i
        <3>1. j \in 1 .. Len(s) /\ x = s[j] /\ j # p
            BY <1>11, <2>1, <2>2 DEF s, k
        <3>2. PICK l \in 1 .. Len(c) : c[l] = s[j]
            BY <1>7, <3>1
        <3>3. l \in 1 .. Len(r[i]) /\ x = r[i][l]
            BY <1>3, <3>1, <3>2
        <3> QED
            BY <1>3, <3>3, InAssocs
    <2>3. CASE h # i
        <3>1. j \in 1 .. Len(r[h]) /\ x = r[h][j]
            BY <1>3, <2>1, <2>3
        <3> QED
            BY <1>3, <3>1, InAssocs
    <2> QED
        BY <2>2, <2>3
<1> QED
    BY <1>4, <1>9, <1>10, <1>11 DEF s, k, Removed

\* As many keys as associations.
LEMMA KeysCount ==
    ASSUME NEW n \in Nat \ {0}, NEW array, Placed(array, n)
    PROVE  Cardinality(KeysOf(array)) = Total(array)
<1> DEFINE f == [x \in Places(array) |-> array[x[1]][x[2]].key]
<1>1. array \in Chains(n)
    BY DEF Placed
<1>2. ASSUME NEW x \in Places(array)
      PROVE  /\ x = <<x[1], x[2]>> /\ x[1] \in 0 .. n - 1 /\ x[2] \in 1 .. Len(array[x[1]])
             /\ f[x] \in KeysOf(array) /\ Hash[f[x]] % n = x[1]
    <2>d. PICK i \in 0 .. n - 1 : \E j \in 1 .. Len(array[i]) : x = <<i, j>>
        BY <1>1, InPlaces
    <2>1. PICK j \in 1 .. Len(array[i]) : x = <<i, j>>
        BY <2>d
    <2>2. x[1] = i /\ x[2] = j /\ f[x] = array[i][j].key
        BY <2>1
    <2>3. array[i][j] \in AssocsOf(array)
        BY <1>1, InAssocs
    <2> QED
        BY <2>1, <2>2, <2>3 DEF Placed, KeysOf
<1>3. f \in [Places(array) -> KeysOf(array)]
    BY <1>2
<1>4. ASSUME NEW x \in Places(array), NEW y \in Places(array), f[x] = f[y]
      PROVE  x = y
    <2>1. x[1] = y[1]
        BY <1>2, <1>4
    <2>2. array[x[1]][x[2]].key = array[x[1]][y[2]].key
        BY <1>4, <2>1
    <2>3. x[1] \in 0 .. n - 1 /\ x[2] \in 1 .. Len(array[x[1]]) /\ y[2] \in 1 .. Len(array[x[1]])
        BY <1>2, <2>1
    <2>4. x[2] = y[2]
        BY <2>2, <2>3 DEF Placed
    <2> QED
        BY <1>2, <2>1, <2>4
<1>5. ASSUME NEW k \in KeysOf(array) PROVE \E x \in Places(array) : f[x] = k
    <2>1. PICK a \in AssocsOf(array) : a.key = k
        BY DEF KeysOf
    <2>2. PICK i \in 0 .. n - 1 : \E j \in 1 .. Len(array[i]) : a = array[i][j]
        BY <1>1, InAssocs
    <2>3. PICK j \in 1 .. Len(array[i]) : a = array[i][j]
        BY <2>2
    <2>4. <<i, j>> \in Places(array)
        BY <1>1, InPlaces
    <2>5. f[<<i, j>>] = k
        BY <2>1, <2>3, <2>4
    <2> QED
        BY <2>4, <2>5
<1>6. f \in Bijection(Places(array), KeysOf(array))
    BY <1>3, <1>4, <1>5 DEF Bijection, Injection, Surjection, IsInjective
<1>7. ExistsBijection(Places(array), KeysOf(array)) /\ IsFiniteSet(Places(array))
    BY <1>1, <1>6, PlacesFinite DEF ExistsBijection
<1> QED
    BY <1>7, FS_Bijection DEF Total

LEMMA MinOfNats ==
    ASSUME NEW S \in SUBSET Nat, S # {}
    PROVE  Min(S) \in S /\ \A x \in S : Min(S) <= x
<1> DEFINE R == {x \in Nat \X Nat : x[1] < x[2]}
<1>1. IsWellFoundedOn(R, Nat)
    BY NatLessThanWellFounded DEF OpToRel
<1>2. PICK m \in S : \A y \in S : ~(<<y, m>> \in R)
    <2> HIDE DEF R
    <2> QED
        BY <1>1, WFMin
<1>3. ASSUME NEW y \in S PROVE m <= y
    <2>1. ~(<<y, m>> \in R) /\ <<y, m>> \in Nat \X Nat /\ <<y, m>>[1] = y /\ <<y, m>>[2] = m
        BY <1>2
    <2>2. ~(<<y, m>>[1] < <<y, m>>[2])
        BY ONLY <2>1
    <2>3. ~(y < m) /\ y \in Nat /\ m \in Nat
        BY ONLY <2>1, <2>2
    <2> QED
        BY ONLY <2>3
<1> QED
    BY <1>3 DEF Min

\* The array is not empty: the index is that of a chain with an association.
LEMMA FirstFound ==
    ASSUME NEW n \in Nat, NEW array \in Chains(n), ~IsEmpty(array)
    PROVE  /\ FirstIndex(array) \in 0 .. n - 1 /\ array[FirstIndex(array)] # <<>>
           /\ n # 0
<1> DEFINE S == {i \in DOMAIN array : array[i] # <<>>}
<1>1. S \in SUBSET (0 .. n - 1) /\ S # {}
    BY DEF Chains, IsEmpty
<1>2. S \in SUBSET Nat
    BY <1>1
<1>3. Min(S) \in S
    <2> HIDE DEF S
    <2> QED
        BY <1>1, <1>2, MinOfNats
<1>4. FirstIndex(array) \in S
    BY <1>3 DEF FirstIndex
<1> QED
    BY <1>1, <1>4

\* The search stops at the association of the key, or finds none.
LEMMA Search ==
    ASSUME NEW k \in Key, capacity \in Nat \ {0}, Placed(table, capacity)
    PROVE  /\ Index(k) \in 0 .. capacity - 1
           /\ Position(k) = 0 => k \notin KeysOf(table)
           /\ Position(k) # 0 => /\ Position(k) \in 1 .. Len(table[Index(k)])
                                 /\ table[Index(k)][Position(k)].key = k
<1> DEFINE s == table[Index(k)]
           I == {j \in 1 .. Len(s) : s[j].key = k}
<1>1. Index(k) \in 0 .. capacity - 1
    BY IndexType DEF Index
<1>2. Len(s) \in Nat /\ table \in Chains(capacity)
    BY <1>1, ChainType DEF Placed
<1>3. Position(k) = IF I # {} THEN Min(I) ELSE 0
    BY DEF Position, SelectInSeq
<1>4. CASE I # {}
    <2>1. I \in SUBSET Nat
        BY <1>2
    <2>2. Min(I) \in I
        <3> HIDE DEF I
        <3> QED
            BY <1>4, <2>1, MinOfNats
    <2>3. Position(k) \in I
        BY <1>3, <1>4, <2>2
    <2>4. Position(k) # 0
        BY <1>2, <2>3
    <2> QED
        BY <1>1, <2>3, <2>4
<1>5. CASE I = {}
    <2>1. Position(k) = 0
        BY <1>3, <1>5
    <2>2. ASSUME k \in KeysOf(table) PROVE FALSE
        <3>1. PICK a \in AssocsOf(table) : a.key = k
            BY <2>2 DEF KeysOf
        <3>2. PICK i \in 0 .. capacity - 1 : \E j \in 1 .. Len(table[i]) : a = table[i][j]
            BY <1>2, InAssocs
        <3>3. PICK j \in 1 .. Len(table[i]) : a = table[i][j]
            BY <3>2
        <3>4. i = Index(k)
            BY <3>1, <3>3 DEF Placed, Index
        <3> QED
            BY <1>5, <3>1, <3>3, <3>4
    <2> QED
        BY <1>1, <2>1, <2>2
<1> QED
    BY <1>4, <1>5

\* The association that the resize moves next.
First(array) == Head(array[FirstIndex(array)])

\* The resize has moved the first association of the old array.
LEMMA DropFirst ==
    ASSUME NEW n \in Nat \ {0}, NEW array, Placed(array, n), ~IsEmpty(array),
           NEW r, r = [array EXCEPT ![FirstIndex(array)] = Tail(@)]
    PROVE  /\ Placed(r, n) /\ Total(r) = Total(array) - 1 /\ Total(array) \in Nat \ {0}
           /\ First(array) \in Assoc /\ First(array) \in AssocsOf(array)
           /\ Removed(AssocsOf(array), First(array).key, AssocsOf(r))
<1>0. PICK i : i = FirstIndex(array)
    OBVIOUS
<1>1. array \in Chains(n)
    BY DEF Placed
<1>2. i \in 0 .. n - 1 /\ array[i] # <<>>
    BY <1>0, <1>1, FirstFound
<1>3. array[i] \in Seq(Assoc)
    BY <1>1, <1>2, ChainType
<1>4. PICK c : c = Tail(array[i])
    OBVIOUS
<1>5. PICK p : p = 1
    OBVIOUS
<1>6. /\ Without(array[i], p, c) /\ p \in 1 .. Len(array[i]) /\ c \in Seq(Assoc)
      /\ First(array) = array[i][p] /\ array[i][p] \in Assoc
    <2>1. /\ Without(array[i], 1, Tail(array[i])) /\ Len(array[i]) >= 1
          /\ Head(array[i]) = array[i][1]
        BY <1>2, <1>3, TailChain
    <2>2. 1 \in 1 .. Len(array[i]) /\ array[i][1] \in Assoc
        BY <1>3, <2>1
    <2> QED
        BY <1>0, <1>4, <1>5, <2>1, <2>2 DEF First, Without
<1>7. Changed(array, n, i, c, r)
    <2>1. r = [array EXCEPT ![i] = c]
        BY <1>0, <1>4
    <2> QED
        BY <1>1, <1>2, <1>6, <2>1 DEF Changed, Chains
<1>8. /\ Placed(r, n) /\ Total(r) = Total(array) - 1
      /\ Removed(AssocsOf(array), array[i][p].key, AssocsOf(r))
    <2>1. /\ n \in Nat \ {0} /\ Placed(array, n) /\ i \in 0 .. n - 1
          /\ p \in 1 .. Len(array[i]) /\ Without(array[i], p, c) /\ Changed(array, n, i, c, r)
        BY <1>2, <1>6, <1>7
    <2>2. Placed(r, n)
        BY ONLY <2>1, ArrayDrop
    <2>3. Total(r) = Total(array) - 1
        BY ONLY <2>1, ArrayDrop
    <2>4. Removed(AssocsOf(array), array[i][p].key, AssocsOf(r))
        BY ONLY <2>1, ArrayDrop
    <2> QED
        BY <2>2, <2>3, <2>4
<1>9. array[i][p] \in AssocsOf(array)
    BY <1>1, <1>2, <1>6, InAssocs
<1>10. Total(array) \in Nat \ {0}
    <2>1. Total(r) \in Nat /\ Total(array) \in Nat
        BY <1>1, <1>8, PlacesFinite DEF Placed
    <2> QED
        BY <1>8, <2>1
<1> QED
    BY <1>6, <1>8, <1>9, <1>10

LEMMA Product ==
    ASSUME NEW t \in Nat \ {0}, NEW n \in Nat \ {0}
    PROVE  t * n \in Nat /\ t * n >= 1 /\ t * (2 * n) = 2 * (t * n)
<1>1. t * n \in Nat /\ t * (2 * n) = 2 * (t * n)
    OBVIOUS
<1>2. t * n # 0
    OBVIOUS
<1> QED
    BY <1>1, <1>2

-----------------------------------------------------------------------------
(* The map of a set of associations *)

UniqueKeys(S) == \A a, b \in S : a.key = b.key => a = b

LEMMA PlacedUnique ==
    ASSUME NEW n \in Nat \ {0}, NEW array, Placed(array, n)
    PROVE  UniqueKeys(AssocsOf(array))
<1> SUFFICES ASSUME NEW a \in AssocsOf(array), NEW b \in AssocsOf(array), a.key = b.key
             PROVE  a = b
    BY DEF UniqueKeys
<1>1. array \in Chains(n)
    BY DEF Placed
<1>2. PICK i \in 0 .. n - 1 : \E j \in 1 .. Len(array[i]) : a = array[i][j]
    BY <1>1, InAssocs
<1>3. PICK j \in 1 .. Len(array[i]) : a = array[i][j]
    BY <1>2
<1>4. PICK h \in 0 .. n - 1 : \E l \in 1 .. Len(array[h]) : b = array[h][l]
    BY <1>1, InAssocs
<1>5. PICK l \in 1 .. Len(array[h]) : b = array[h][l]
    BY <1>4
<1>6. i = h
    BY <1>3, <1>5 DEF Placed
<1>7. j = l
    BY <1>3, <1>5, <1>6 DEF Placed
<1> QED
    BY <1>3, <1>5, <1>6, <1>7

LEMMA MapFacts ==
    ASSUME NEW S, UniqueKeys(S)
    PROVE  /\ \A k : k \in DOMAIN MapOf(S) <=> \E a \in S : a.key = k
           /\ \A a \in S : MapOf(S)[a.key] = a.value
           /\ MapOf(S) = [k \in DOMAIN MapOf(S) |-> MapOf(S)[k]]
<1>1. DOMAIN MapOf(S) = {a.key : a \in S}
    BY DEF MapOf
<1>2. MapOf(S) = [k \in DOMAIN MapOf(S) |-> MapOf(S)[k]]
    BY DEF MapOf
<1>3. ASSUME NEW a \in S PROVE MapOf(S)[a.key] = a.value
    <2>1. MapOf(S)[a.key] = (CHOOSE b \in S : b.key = a.key).value
        BY DEF MapOf
    <2>2. (CHOOSE b \in S : b.key = a.key) \in S /\ (CHOOSE b \in S : b.key = a.key).key = a.key
        OBVIOUS
    <2>3. (CHOOSE b \in S : b.key = a.key) = a
        BY <2>2 DEF UniqueKeys
    <2> QED
        BY <2>1, <2>3
<1> QED
    BY <1>1, <1>2, <1>3

LEMMA MapInsert ==
    ASSUME NEW S, UniqueKeys(S), NEW k, NEW v, NEW R, Inserted(S, [key |-> k, value |-> v], R)
    PROVE  MapOf(R) = [j \in DOMAIN MapOf(S) \cup {k} |-> IF j = k THEN v ELSE MapOf(S)[j]]
<1> DEFINE a == [key |-> k, value |-> v]
           F == [j \in DOMAIN MapOf(S) \cup {k} |-> IF j = k THEN v ELSE MapOf(S)[j]]
<1>1. a.key = k /\ a.value = v /\ \A x : x \in R <=> (x \in S /\ x.key # k) \/ x = a
    BY DEF Inserted
<1> HIDE DEF a
<1>2. UniqueKeys(R)
    BY <1>1 DEF UniqueKeys
<1>3. DOMAIN MapOf(R) = DOMAIN F
    <2>1. ASSUME NEW j \in DOMAIN MapOf(R) PROVE j \in DOMAIN MapOf(S) \cup {k}
        BY <1>1, <1>2, MapFacts
    <2>2. ASSUME NEW j \in DOMAIN MapOf(S) \cup {k} PROVE j \in DOMAIN MapOf(R)
        <3>1. CASE j = k
            BY <1>1, <1>2, <3>1, MapFacts
        <3>2. CASE j # k
            BY <1>1, <1>2, <3>2, MapFacts
        <3> QED
            BY <3>1, <3>2
    <2> QED
        BY <2>1, <2>2
<1>4. ASSUME NEW j \in DOMAIN MapOf(R) PROVE MapOf(R)[j] = F[j]
    <2>1. PICK x \in R : x.key = j
        BY <1>2, MapFacts
    <2>2. MapOf(R)[j] = x.value
        BY <1>2, <2>1, MapFacts
    <2>3. j \in DOMAIN F
        BY <1>3
    <2>4. CASE j = k
        BY <1>1, <2>1, <2>2, <2>3, <2>4
    <2>5. CASE j # k
        <3>1. x \in S /\ F[j] = MapOf(S)[j]
            BY <1>1, <2>1, <2>3, <2>5
        <3>2. MapOf(S)[j] = x.value
            BY <2>1, <3>1, MapFacts
        <3> QED
            BY <2>2, <3>1, <3>2
    <2> QED
        BY <2>4, <2>5
<1> QED
    BY <1>2, <1>3, <1>4, MapFacts

LEMMA MapRemove ==
    ASSUME NEW S, UniqueKeys(S), NEW k, NEW R, Removed(S, k, R)
    PROVE  MapOf(R) = [j \in DOMAIN MapOf(S) \ {k} |-> MapOf(S)[j]]
<1> DEFINE F == [j \in DOMAIN MapOf(S) \ {k} |-> MapOf(S)[j]]
<1>0. \A x : x \in R <=> x \in S /\ x.key # k
    BY DEF Removed
<1>1. UniqueKeys(R)
    BY <1>0 DEF UniqueKeys
<1>2. DOMAIN MapOf(R) = DOMAIN F
    <2>1. ASSUME NEW j \in DOMAIN MapOf(R) PROVE j \in DOMAIN MapOf(S) \ {k}
        BY <1>0, <1>1, MapFacts
    <2>2. ASSUME NEW j \in DOMAIN MapOf(S) \ {k} PROVE j \in DOMAIN MapOf(R)
        BY <1>0, <1>1, MapFacts
    <2> QED
        BY <2>1, <2>2
<1>3. ASSUME NEW j \in DOMAIN MapOf(R) PROVE MapOf(R)[j] = F[j]
    <2>1. PICK x \in R : x.key = j
        BY <1>0, <1>1, MapFacts
    <2>2. MapOf(R)[j] = x.value /\ MapOf(S)[j] = x.value
        BY <1>0, <1>1, <2>1, MapFacts
    <2> QED
        BY <1>2, <2>2
<1> QED
    BY <1>1, <1>2, <1>3, MapFacts

-----------------------------------------------------------------------------
(* What a step does to the table *)

LEMMA PutNew ==
    ASSUME NEW k \in Key, NEW v \in Value, capacity \in Nat \ {0}, Placed(table, capacity),
           Position(k) = 0,
           NEW r, r = [table EXCEPT ![Index(k)] = Cons([key |-> k, value |-> v], @)]
    PROVE  /\ Placed(r, capacity) /\ Total(r) = Total(table) + 1 /\ k \notin KeysOf(table)
           /\ AssocsOf(r) = AssocsOf(table) \cup {[key |-> k, value |-> v]}
           /\ \E c : /\ Pushed(table[Index(k)], [key |-> k, value |-> v], c)
                    /\ Changed(table, capacity, Index(k), c, r)
<1>1. PICK n \in Nat \ {0} : n = capacity
    OBVIOUS
<1>2. PICK array : array = table
    OBVIOUS
<1>3. PICK i : i = Hash[k] % n
    OBVIOUS
<1>4. PICK a : a = [key |-> k, value |-> v]
    OBVIOUS
<1>5. PICK c : c = Cons(a, array[i])
    OBVIOUS
<1>6. k \notin KeysOf(array) /\ i \in 0 .. n - 1 /\ Placed(array, n) /\ array \in Chains(n)
    BY <1>1, <1>2, <1>3, Search DEF Index, Placed
<1>7. Pushed(array[i], a, c) /\ c \in Seq(Assoc)
    <2>1. array[i] \in Seq(Assoc) /\ a \in Assoc
        BY <1>4, <1>6, ChainType DEF Assoc
    <2>2. Pushed(array[i], a, Cons(a, array[i]))
        BY ONLY <2>1, ConsChain
    <2> QED
        BY <1>5, <2>2 DEF Pushed
<1>8. Changed(array, n, i, c, r)
    <2>1. r = [array EXCEPT ![i] = c]
        BY <1>1, <1>2, <1>3, <1>4, <1>5 DEF Index
    <2> QED
        BY <1>6, <1>7, <2>1 DEF Changed, Chains
<1>9. /\ n \in Nat \ {0} /\ Placed(array, n) /\ k \in Key /\ v \in Value /\ k \notin KeysOf(array)
      /\ i = Hash[k] % n /\ a = [key |-> k, value |-> v]
      /\ Pushed(array[i], a, c) /\ Changed(array, n, i, c, r)
    BY <1>3, <1>4, <1>6, <1>7, <1>8
<1>10. Placed(r, n)
    BY ONLY <1>9, ArrayCons
<1>11. Total(r) = Total(array) + 1
    BY ONLY <1>9, ArrayCons
<1>12. AssocsOf(r) = AssocsOf(array) \cup {a}
    BY ONLY <1>9, ArrayCons
<1>13. i = Index(k)
    BY <1>1, <1>3 DEF Index
<1>14. Pushed(table[Index(k)], a, c) /\ Changed(table, capacity, Index(k), c, r)
    BY <1>1, <1>2, <1>7, <1>8, <1>13
<1> QED
    BY <1>1, <1>2, <1>4, <1>6, <1>10, <1>11, <1>12, <1>14

LEMMA PutOver ==
    ASSUME NEW k \in Key, NEW v \in Value, capacity \in Nat \ {0}, Placed(table, capacity),
           Position(k) # 0,
           NEW r, r = [table EXCEPT ![Index(k)][Position(k)].value = v]
    PROVE  /\ Placed(r, capacity) /\ Total(r) = Total(table)
           /\ Inserted(AssocsOf(table), [key |-> k, value |-> v], AssocsOf(r))
           /\ \E c : /\ Replaced(table[Index(k)], Position(k), [key |-> k, value |-> v], c)
                    /\ Changed(table, capacity, Index(k), c, r)
<1>0. PICK a : a = [key |-> k, value |-> v]
    OBVIOUS
<1>1. PICK n \in Nat \ {0} : n = capacity
    OBVIOUS
<1>2. PICK array : array = table
    OBVIOUS
<1>3. PICK i : i = Index(k)
    OBVIOUS
<1>4. PICK p : p = Position(k)
    OBVIOUS
<1>5. PICK c : c = [array[i] EXCEPT ![p].value = v]
    OBVIOUS
<1>6. /\ i \in 0 .. n - 1 /\ Placed(array, n) /\ array \in Chains(n)
      /\ p \in 1 .. Len(array[i]) /\ array[i][p].key = k
    <2>1. /\ Index(k) \in 0 .. capacity - 1 /\ Position(k) \in 1 .. Len(table[Index(k)])
          /\ table[Index(k)][Position(k)].key = k
        BY Search
    <2>2. array \in Chains(n)
        BY <1>1, <1>2 DEF Placed
    <2> QED
        BY <1>1, <1>2, <1>3, <1>4, <2>1, <2>2
<1>7. Replaced(array[i], p, a, c) /\ c \in Seq(Assoc)
    <2>1. array[i] \in Seq(Assoc)
        BY <1>6, ChainType
    <2> QED
        BY <1>0, <1>5, <1>6, <2>1, ExceptChain DEF Replaced
<1>8. Changed(array, n, i, c, r)
    <2>1. r = [array EXCEPT ![i] = c]
        BY <1>2, <1>3, <1>4, <1>5
    <2> QED
        BY <1>6, <1>7, <2>1 DEF Changed, Chains
<1>9. /\ n \in Nat \ {0} /\ Placed(array, n) /\ i \in 0 .. n - 1 /\ p \in 1 .. Len(array[i])
      /\ Replaced(array[i], p, a, c) /\ Changed(array, n, i, c, r)
    BY <1>0, <1>6, <1>7, <1>8
<1>10. Placed(r, n)
    BY ONLY <1>9, ArrayUpdate
<1>11. Total(r) = Total(array)
    BY ONLY <1>9, ArrayUpdate
<1>12. Inserted(AssocsOf(array), a, AssocsOf(r))
    BY ONLY <1>9, ArrayUpdate
<1>13. /\ Replaced(table[Index(k)], Position(k), a, c)
       /\ Changed(table, capacity, Index(k), c, r)
    BY <1>1, <1>2, <1>3, <1>4, <1>7, <1>8
<1> QED
    BY <1>0, <1>1, <1>2, <1>10, <1>11, <1>12, <1>13

LEMMA TakeOut ==
    ASSUME NEW k \in Key, capacity \in Nat \ {0}, Placed(table, capacity), Position(k) # 0,
           NEW r, r = [table EXCEPT ![Index(k)] = RemoveAt(@, Position(k))]
    PROVE  /\ Placed(r, capacity) /\ Total(r) = Total(table) - 1
           /\ Removed(AssocsOf(table), k, AssocsOf(r))
           /\ \E c : /\ Without(table[Index(k)], Position(k), c)
                    /\ Changed(table, capacity, Index(k), c, r)
<1>1. PICK n \in Nat \ {0} : n = capacity
    OBVIOUS
<1>2. PICK array : array = table
    OBVIOUS
<1>3. PICK i : i = Index(k)
    OBVIOUS
<1>4. PICK p : p = Position(k)
    OBVIOUS
<1>5. PICK c : c = RemoveAt(array[i], p)
    OBVIOUS
<1>6. /\ i \in 0 .. n - 1 /\ Placed(array, n) /\ array \in Chains(n)
      /\ p \in 1 .. Len(array[i]) /\ array[i][p].key = k
    <2>1. /\ Index(k) \in 0 .. capacity - 1 /\ Position(k) \in 1 .. Len(table[Index(k)])
          /\ table[Index(k)][Position(k)].key = k
        BY Search
    <2>2. array \in Chains(n)
        BY <1>1, <1>2 DEF Placed
    <2> QED
        BY <1>1, <1>2, <1>3, <1>4, <2>1, <2>2
<1>7. Without(array[i], p, c) /\ c \in Seq(Assoc)
    <2>1. array[i] \in Seq(Assoc)
        BY <1>6, ChainType
    <2> QED
        BY <1>5, <1>6, <2>1, RemoveAtChain DEF Without
<1>8. Changed(array, n, i, c, r)
    <2>1. r = [array EXCEPT ![i] = c]
        BY <1>2, <1>3, <1>4, <1>5
    <2> QED
        BY <1>6, <1>7, <2>1 DEF Changed, Chains
<1>9. /\ n \in Nat \ {0} /\ Placed(array, n) /\ i \in 0 .. n - 1 /\ p \in 1 .. Len(array[i])
      /\ Without(array[i], p, c) /\ Changed(array, n, i, c, r)
    BY <1>6, <1>7, <1>8
<1>10. Placed(r, n)
    BY ONLY <1>9, ArrayDrop
<1>11. Total(r) = Total(array) - 1
    BY ONLY <1>9, ArrayDrop
<1>12. Removed(AssocsOf(array), array[i][p].key, AssocsOf(r))
    BY ONLY <1>9, ArrayDrop
<1>13. Without(table[Index(k)], Position(k), c) /\ Changed(table, capacity, Index(k), c, r)
    BY <1>1, <1>2, <1>3, <1>4, <1>7, <1>8
<1> QED
    BY <1>1, <1>2, <1>6, <1>10, <1>11, <1>12, <1>13

-----------------------------------------------------------------------------
(* The inductive invariant *)

Call == [key : Key, value : Value, pc : {"enter", "rehash", "put"},
         old : UNION {Chains(n) : n \in Nat}]

\* The array that a resize has not emptied yet.
Old == IF calls = <<>> THEN Empty(0) ELSE calls[Len(calls)].old

\* A hash_insert of a caller, alone or with the one that its _hash_resize calls
\* for the first association of the old array.
ShapeInv ==
    \/ calls = <<>>
    \/ /\ Exists
       /\ \E d \in Call :
            \/ calls = <<d>> /\ d.pc = "enter" /\ d.old = Empty(0)
            \/ calls = <<d>> /\ d.pc = "rehash"
            \/ calls = <<d>> /\ d.pc = "put" /\ IsEmpty(d.old) /\ ~Overloaded
            \/ /\ d.pc = "rehash" /\ ~IsEmpty(d.old)
               /\ calls = <<Enter(First(d.old).key, First(d.old).value), d>>

\* The table is a legal array.
TableInv ==
    IF Exists THEN Placed(table, capacity) /\ num_elems = Total(table) ELSE table = Empty(0)

\* So is the array under resize, of half the capacity; and what is moved and what is
\* not moved yet are together what the table was allowed to hold before.
OldInv ==
    /\ calls # <<>> /\ calls[Len(calls)].pc = "rehash" =>
         \E n \in Nat \ {0} :
            /\ capacity = 2 * n /\ Placed(Old, n)
            /\ num_elems + Total(Old) <= LOAD_FACTOR_THR * n + 1
    /\ KeysOf(table) \cap KeysOf(Old) = {}

LiveInv == live = Total(table) + Total(Old)

BaseInv ==
    /\ capacity \in Nat \ {0} /\ num_elems \in Nat
    /\ ret \in Value \cup BOOLEAN

IInv == BaseInv /\ ShapeInv /\ TableInv /\ OldInv /\ LoadBound /\ LiveInv

Rehashing == calls # <<>> /\ calls[Len(calls)].pc = "rehash"

\* What the table and the array under resize link.
Both == AssocsOf(table) \cup AssocsOf(Old)

LEMMA CallTuples ==
    ASSUME NEW c, NEW d
    PROVE  /\ <<d>> # <<>> /\ Len(<<d>>) = 1 /\ Head(<<d>>) = d /\ <<d>>[1] = d /\ DOMAIN <<d>> = {1}
           /\ <<c, d>> # <<>> /\ Len(<<c, d>>) = 2 /\ Head(<<c, d>>) = c /\ Tail(<<c, d>>) = <<d>>
           /\ <<c, d>>[1] = c /\ <<c, d>>[2] = d /\ DOMAIN <<c, d>> = {1, 2}
           /\ Cons(c, <<d>>) = <<c, d>>
<1>1. <<c>> \o <<d>> = <<c, d>>
    <2>0. PICK S : c \in S /\ d \in S
        <3>1. c \in {c, d} /\ d \in {c, d}
            OBVIOUS
        <3> QED
            BY <3>1
    <2>1. <<c>> \in Seq(S) /\ Len(<<c>>) = 1 /\ <<c>>[1] = c
        BY <2>0
    <2>2. <<d>> \in Seq(S) /\ Len(<<d>>) = 1 /\ <<d>>[1] = d
        BY <2>0
    <2>3. <<c, d>> \in Seq(S) /\ Len(<<c, d>>) = 2 /\ <<c, d>>[1] = c /\ <<c, d>>[2] = d
        BY <2>0
    <2>4. PICK u \in Seq(S) : u = <<c>>
        BY <2>1
    <2>5. PICK w \in Seq(S) : w = <<d>>
        BY <2>2
    <2>6. u \o w \in Seq(S) /\ Len(u \o w) = 2 /\ (u \o w)[1] = c /\ (u \o w)[2] = d
        <3>1. /\ u \o w \in Seq(S) /\ Len(u \o w) = Len(u) + Len(w)
              /\ \A i \in 1 .. Len(u) + Len(w) :
                    (u \o w)[i] = IF i <= Len(u) THEN u[i] ELSE w[i - Len(u)]
            BY ConcatProperties
        <3> QED
            BY <2>1, <2>2, <2>4, <2>5, <3>1
    <2>7. Len(u \o w) = Len(<<c, d>>) /\ \A i \in 1 .. Len(u \o w) : (u \o w)[i] = <<c, d>>[i]
        <3>1. \A i \in 1 .. Len(u \o w) : i = 1 \/ i = 2
            BY <2>6
        <3> QED
            BY <2>3, <2>6, <3>1
    <2>8. u \o w = <<c, d>>
        BY <2>3, <2>6, <2>7, SeqEqual
    <2> QED
        BY <2>4, <2>5, <2>8
<1>2. Cons(c, <<d>>) = <<c, d>>
    BY <1>1 DEF Cons
<1>3. /\ <<d>> # <<>> /\ Len(<<d>>) = 1 /\ Head(<<d>>) = d /\ <<d>>[1] = d /\ DOMAIN <<d>> = {1}
      /\ <<c, d>> # <<>> /\ Len(<<c, d>>) = 2 /\ Head(<<c, d>>) = c
      /\ <<c, d>>[1] = c /\ <<c, d>>[2] = d
    OBVIOUS
<1>4. Tail(<<c, d>>) = <<d>>
    OBVIOUS
<1>5. DOMAIN <<c, d>> = {1, 2}
    OBVIOUS
<1> QED
    BY <1>2, <1>3, <1>4, <1>5

LEMMA CallType ==
    ASSUME NEW d \in Call
    PROVE  /\ d.key \in Key /\ d.value \in Value /\ d.pc \in {"enter", "rehash", "put"}
           /\ \E n \in Nat : d.old \in Chains(n)
BY DEF Call

LEMMA EnterCall ==
    ASSUME NEW k \in Key, NEW v \in Value
    PROVE  /\ Enter(k, v) \in Call /\ Enter(k, v).pc = "enter" /\ Enter(k, v).old = Empty(0)
           /\ Enter(k, v).key = k /\ Enter(k, v).value = v
<1>1. Empty(0) \in Chains(0)
    BY EmptyArray
<1> QED
    BY <1>1 DEF Enter, Call

\* A caller's hash_insert, or none: nothing is left in an array under resize.
LEMMA NothingOld ==
    ASSUME BaseInv, ShapeInv, ~Rehashing
    PROVE  AssocsOf(Old) = {} /\ Total(Old) = 0 /\ KeysOf(Old) = {}
<1>1. AssocsOf(Old) = {} /\ Total(Old) = 0
    <2>1. CASE calls = <<>>
        BY <2>1, EmptyArray DEF Old
    <2>2. ASSUME NEW d \in Call, calls = <<d>>, d.old = Empty(0) \/ IsEmpty(d.old)
          PROVE  AssocsOf(Old) = {} /\ Total(Old) = 0
        <3>1. Old = d.old
            BY <2>2, CallTuples DEF Old
        <3>2. PICK n \in Nat : d.old \in Chains(n)
            BY CallType
        <3> QED
            BY <2>2, <3>1, <3>2, EmptyArray, NothingLeft
    <2>3. CASE calls # <<>>
        <3>1. PICK d \in Call :
                 \/ calls = <<d>> /\ (d.old = Empty(0) \/ IsEmpty(d.old))
                 \/ calls = <<d>> /\ d.pc = "rehash"
                 \/ \E c : calls = <<c, d>> /\ d.pc = "rehash"
            BY <2>3 DEF ShapeInv
        <3>2. d.pc = "rehash" => calls = <<d>> /\ (d.old = Empty(0) \/ IsEmpty(d.old))
            BY <3>1, CallTuples DEF Rehashing
        <3> QED
            BY <2>2, <3>1, <3>2
    <2> QED
        BY <2>1, <2>3
<1> QED
    BY <1>1 DEF KeysOf

\* The state between two steps, by what is running.
LEMMA Running ==
    ASSUME IInv, calls # <<>>
    PROVE  /\ Exists /\ Placed(table, capacity) /\ num_elems = Total(table)
           /\ \E d \in Call :
                /\ Old = d.old
                /\ \/ calls = <<d>> /\ Top = d /\ ~Rehashing /\ d.pc = "enter"
                   \/ calls = <<d>> /\ Top = d /\ Rehashing /\ d.pc = "rehash"
                   \/ calls = <<d>> /\ Top = d /\ ~Rehashing /\ d.pc = "put" /\ ~Overloaded
                   \/ /\ calls = <<Enter(First(d.old).key, First(d.old).value), d>>
                      /\ Top = Enter(First(d.old).key, First(d.old).value)
                      /\ Rehashing /\ d.pc = "rehash" /\ ~IsEmpty(d.old)
<1>1. Exists /\ Placed(table, capacity) /\ num_elems = Total(table)
    BY DEF IInv, ShapeInv, TableInv
<1>2. PICK d \in Call :
            \/ calls = <<d>> /\ d.pc = "enter" /\ d.old = Empty(0)
            \/ calls = <<d>> /\ d.pc = "rehash"
            \/ calls = <<d>> /\ d.pc = "put" /\ IsEmpty(d.old) /\ ~Overloaded
            \/ /\ d.pc = "rehash" /\ ~IsEmpty(d.old)
               /\ calls = <<Enter(First(d.old).key, First(d.old).value), d>>
    BY DEF IInv, ShapeInv
<1>3. CASE calls = <<d>>
    BY <1>1, <1>2, <1>3, CallTuples DEF Top, Old, Rehashing
<1>4. CASE calls = <<Enter(First(d.old).key, First(d.old).value), d>>
    BY <1>1, <1>2, <1>4, CallTuples DEF Top, Old, Rehashing
<1> QED
    BY <1>2, <1>3, <1>4

\* A resize is going on: nothing that it inserts overloads the new table.
LEMMA Moving ==
    ASSUME IInv, Rehashing, ~IsEmpty(Old)
    PROVE  ~Overloaded
<1>1. PICK n \in Nat \ {0} :
            /\ capacity = 2 * n /\ Placed(Old, n)
            /\ num_elems + Total(Old) <= LOAD_FACTOR_THR * n + 1
    BY DEF IInv, OldInv, Rehashing
<1>2. PICK r : r = [Old EXCEPT ![FirstIndex(Old)] = Tail(@)]
    OBVIOUS
<1>3. Total(Old) \in Nat \ {0}
    BY <1>1, <1>2, DropFirst
<1>4. PICK m : m = LOAD_FACTOR_THR * n
    OBVIOUS
<1>5. m \in Nat /\ m >= 1 /\ LOAD_FACTOR_THR * capacity = 2 * m
    BY <1>1, <1>4, Product, TableAssumption
<1>6. num_elems \in Nat /\ num_elems + Total(Old) <= m + 1
    BY <1>1, <1>4 DEF IInv, BaseInv
<1> QED
    BY <1>3, <1>5, <1>6 DEF Overloaded

\* The steps that leave the table and the array under resize alone.
LEMMA SameTable ==
    ASSUME IInv, UNCHANGED <<table, capacity, num_elems, live>>, Old' = Old, ShapeInv',
           ret' \in Value \cup BOOLEAN, Rehashing' => Rehashing
    PROVE  IInv' /\ Both' = Both
<1>1. BaseInv'
    BY DEF IInv, BaseInv
<1>2. TableInv'
    BY DEF IInv, TableInv, Exists
<1>3. OldInv'
    BY DEF IInv, OldInv, Rehashing
<1>4. LoadBound'
    BY DEF IInv, LoadBound
<1>5. LiveInv'
    BY DEF IInv, LiveInv
<1>6. Both' = Both
    BY DEF Both
<1> QED
    BY <1>1, <1>2, <1>3, <1>4, <1>5, <1>6 DEF IInv

-----------------------------------------------------------------------------
(* One lemma for each action: the invariant, and what the step does to what is linked *)

LEMMA HashInsertStep ==
    ASSUME IInv, NEW k \in Key, NEW v \in Value, HashInsert(k, v)
    PROVE  IInv' /\ Both' = Both
<1> DEFINE d == Enter(k, v)
<1>1. d \in Call /\ d.pc = "enter" /\ d.old = Empty(0)
    BY EnterCall
<1>2. calls' = <<d>> /\ calls = <<>> /\ UNCHANGED <<table, capacity, num_elems, live, ret>> /\ Exists
    BY DEF HashInsert, Idle
<1> HIDE DEF d
<1>3. Old' = Old
    BY <1>1, <1>2, CallTuples DEF Old
<1>4. ShapeInv'
    BY <1>1, <1>2 DEF ShapeInv, Exists
<1>5. Rehashing' => Rehashing
    BY <1>1, <1>2, CallTuples DEF Rehashing
<1>6. ret' \in Value \cup BOOLEAN
    BY <1>2 DEF IInv, BaseInv
<1> QED
    BY <1>2, <1>3, <1>4, <1>5, <1>6, SameTable

LEMMA RehashStep ==
    ASSUME IInv, Rehash
    PROVE  IInv' /\ Both' = Both
<1>1. PICK d \in Call :
        /\ Exists /\ Old = d.old /\ Rehashing /\ ~IsEmpty(d.old)
        /\ calls = <<d>> /\ d.pc = "rehash" /\ Top = d
    <2>1. calls # <<>> /\ Top.pc = "rehash" /\ ~IsEmpty(Top.old)
        BY DEF Rehash
    <2>2. \A k, v : Enter(k, v).pc = "enter"
        BY DEF Enter
    <2> QED
        BY <2>1, <2>2, Running
<1>2. PICK c : c = Enter(First(d.old).key, First(d.old).value)
    OBVIOUS
<1>3. /\ calls' = <<c, d>> /\ UNCHANGED <<table, capacity, num_elems, live, ret>>
    <2>1. calls' = Cons(c, calls) /\ UNCHANGED <<table, capacity, num_elems, live, ret>>
        BY <1>1, <1>2 DEF Rehash, First
    <2> QED
        BY <1>1, <2>1, CallTuples
<1>4. Old' = Old
    BY <1>1, <1>3, CallTuples DEF Old
<1>5. ShapeInv'
    BY <1>1, <1>2, <1>3 DEF ShapeInv, Exists
<1>6. ret' \in Value \cup BOOLEAN
    BY <1>3 DEF IInv, BaseInv
<1> QED
    BY <1>1, <1>3, <1>4, <1>5, <1>6, SameTable

LEMMA EndResizeStep ==
    ASSUME IInv, EndResize
    PROVE  IInv' /\ Both' = Both
<1>1. PICK d \in Call :
        /\ Exists /\ Old = d.old /\ Rehashing /\ IsEmpty(d.old)
        /\ calls = <<d>> /\ d.pc = "rehash" /\ Top = d
    <2>1. calls # <<>> /\ Top.pc = "rehash" /\ IsEmpty(Top.old)
        BY DEF EndResize
    <2>2. \A k, v : Enter(k, v).pc = "enter"
        BY DEF Enter
    <2> QED
        BY <2>1, <2>2, Running
<1>2. PICK e \in Call : e = [d EXCEPT !.pc = "put"] /\ e.old = d.old /\ e.pc = "put"
    <2>1. [d EXCEPT !.pc = "put"] \in Call /\ [d EXCEPT !.pc = "put"].old = d.old
          /\ [d EXCEPT !.pc = "put"].pc = "put"
        BY DEF Call
    <2> QED
        BY <2>1
<1>3. calls' = <<e>> /\ UNCHANGED <<table, capacity, num_elems, live, ret>>
    <2>1. calls' = [calls EXCEPT ![1].pc = "put"] /\ UNCHANGED <<table, capacity, num_elems, live, ret>>
        BY DEF EndResize
    <2>2. [<<d>> EXCEPT ![1].pc = "put"] = <<[d EXCEPT !.pc = "put"]>>
        OBVIOUS
    <2> QED
        BY <1>1, <1>2, <2>1, <2>2
<1>4. Old' = Old
    BY <1>1, <1>2, <1>3, CallTuples DEF Old
<1>5. ~Overloaded
    <2>1. PICK n \in Nat \ {0} :
            /\ capacity = 2 * n /\ Placed(Old, n)
            /\ num_elems + Total(Old) <= LOAD_FACTOR_THR * n + 1
        BY <1>1 DEF IInv, OldInv, Rehashing
    <2>2. Total(Old) = 0
        BY <1>1, <2>1, NothingLeft DEF Placed
    <2>3. PICK m : m = LOAD_FACTOR_THR * n
        OBVIOUS
    <2>4. m \in Nat /\ m >= 1 /\ LOAD_FACTOR_THR * capacity = 2 * m
        BY <2>1, <2>3, Product, TableAssumption
    <2>5. num_elems \in Nat /\ num_elems <= m + 1
        BY <2>1, <2>2, <2>3 DEF IInv, BaseInv
    <2> QED
        BY <2>4, <2>5 DEF Overloaded
<1>6. ShapeInv'
    <2>1. ~Overloaded'
        BY <1>3, <1>5 DEF Overloaded
    <2> QED
        BY <1>1, <1>2, <1>3, <2>1 DEF ShapeInv, Exists
<1>7. ret' \in Value \cup BOOLEAN
    BY <1>3 DEF IInv, BaseInv
<1> QED
    BY <1>1, <1>3, <1>4, <1>6, <1>7, SameTable

LEMMA ResizeStep ==
    ASSUME IInv, Resize
    PROVE  IInv' /\ Both' = Both
<1>1. calls # <<>> /\ Top.pc = "enter" /\ Overloaded
    BY DEF Resize
<1>2. PICK d \in Call :
        calls = <<d>> /\ Top = d /\ ~Rehashing /\ d.pc = "enter" /\ Old = d.old
    BY <1>1, Running, Moving
<1>3. PICK n \in Nat \ {0} : n = capacity
    BY DEF IInv, BaseInv
<1>4. 2 * n \in Nat \ {0}
    OBVIOUS
<1>5. Exists /\ Placed(table, n) /\ table \in Chains(n) /\ num_elems = Total(table)
    BY <1>1, <1>3, Running DEF Placed
<1>6. PICK e \in Call : e = [d EXCEPT !.pc = "rehash", !.old = table] /\ e.old = table /\ e.pc = "rehash"
    <2>1. table \in UNION {Chains(i) : i \in Nat}
        BY <1>5
    <2>2. [d EXCEPT !.pc = "rehash", !.old = table] \in Call
          /\ [d EXCEPT !.pc = "rehash", !.old = table].old = table
          /\ [d EXCEPT !.pc = "rehash", !.old = table].pc = "rehash"
        BY <2>1 DEF Call
    <2> QED
        BY <2>2
<1>7. /\ calls' = <<e>> /\ capacity' = 2 * n /\ table' = Empty(2 * n) /\ num_elems' = 0
      /\ UNCHANGED <<live, ret>>
    <2>1. /\ calls' = [calls EXCEPT ![1].pc = "rehash", ![1].old = table]
          /\ capacity' = 2 * n /\ table' = Empty(2 * n) /\ num_elems' = 0
          /\ UNCHANGED <<live, ret>>
        BY <1>3 DEF Resize
    <2>2. [<<d>> EXCEPT ![1].pc = "rehash", ![1].old = table]
              = <<[d EXCEPT !.pc = "rehash", !.old = table]>>
        OBVIOUS
    <2> QED
        BY <1>2, <1>6, <2>1, <2>2
<1>8. Old' = table /\ Rehashing'
    BY <1>6, <1>7, CallTuples DEF Old, Rehashing
<1>9. /\ Placed(table', 2 * n) /\ AssocsOf(table') = {} /\ Total(table') = 0
      /\ DOMAIN table' = 0 .. 2 * n - 1
    BY <1>4, <1>7, EmptyArray
<1>10. Exists'
    <2>1. 0 \in 0 .. 2 * n - 1
        BY <1>4
    <2> QED
        BY <1>9, <2>1 DEF Exists
<1>11. BaseInv'
    BY <1>4, <1>7 DEF IInv, BaseInv
<1>12. ShapeInv'
    BY <1>6, <1>7, <1>10 DEF ShapeInv
<1>13. TableInv'
    BY <1>7, <1>9, <1>10 DEF TableInv
<1>14. OldInv'
    <2>1. num_elems' + Total(Old') <= LOAD_FACTOR_THR * n + 1
        BY <1>3, <1>5, <1>7, <1>8, TableAssumption DEF IInv, BaseInv, LoadBound
    <2>2. KeysOf(table') = {}
        BY <1>9 DEF KeysOf
    <2> QED
        BY <1>5, <1>7, <1>8, <2>1, <2>2 DEF OldInv
<1>15. LoadBound'
    <2>1. PICK t \in Nat : t = LOAD_FACTOR_THR
        BY TableAssumption
    <2>2. 0 <= t * (2 * n) + 1
        <3>1. t * (2 * n) \in Nat
            BY <1>4
        <3> QED
            BY <3>1
    <2> QED
        BY <1>7, <2>1, <2>2 DEF LoadBound
<1>16. LiveInv'
    <2>1. live = Total(table) /\ Total(table) \in Nat
        BY <1>2, <1>5, NothingOld, PlacesFinite DEF IInv, LiveInv
    <2> QED
        BY <1>7, <1>8, <1>9, <2>1 DEF LiveInv
<1>17. Both' = Both
    <2>1. AssocsOf(Old) = {}
        BY <1>2, NothingOld DEF IInv
    <2> QED
        BY <1>8, <1>9, <2>1 DEF Both
<1> QED
    BY <1>11, <1>12, <1>13, <1>14, <1>15, <1>16, <1>17 DEF IInv

\* No hash_insert runs.
LEMMA AtRest ==
    ASSUME IInv, Idle
    PROVE  /\ calls = <<>> /\ Exists /\ ~Rehashing /\ Both = AssocsOf(table) /\ live = Total(table)
           /\ capacity \in Nat \ {0} /\ Placed(table, capacity) /\ num_elems = Total(table)
           /\ Total(table) \in Nat /\ UniqueKeys(Both)
<1>1. calls = <<>> /\ Exists
    BY DEF Idle
<1>2. ~Rehashing
    BY <1>1 DEF Rehashing
<1>3. capacity \in Nat \ {0} /\ Placed(table, capacity) /\ num_elems = Total(table)
    BY <1>1 DEF IInv, BaseInv, TableInv
<1>4. Total(table) \in Nat /\ UniqueKeys(AssocsOf(table))
    <2>1. Total(table) \in Nat
        BY <1>3, PlacesFinite DEF Placed
    <2>2. UniqueKeys(AssocsOf(table))
        BY <1>3, PlacedUnique
    <2> QED
        BY <2>1, <2>2
<1>5. Both = AssocsOf(table)
    BY <1>2, NothingOld DEF IInv, Both
<1>6. live = Total(table)
    BY <1>2, <1>4, NothingOld DEF IInv, LiveInv
<1> QED
    BY <1>1, <1>2, <1>3, <1>4, <1>5, <1>6

\* The steps between two calls that leave the table whole or link less.
LEMMA RestToRest ==
    ASSUME IInv, Idle, NEW r, table' = r, Placed(r, capacity),
           calls' = calls, capacity' = capacity, num_elems' = Total(r), live' = Total(r),
           num_elems' \in Nat, num_elems' <= num_elems, ret' \in Value \cup BOOLEAN
    PROVE  IInv' /\ Both' = AssocsOf(r)
<1>1. calls' = <<>> /\ ~Rehashing' /\ Old' = Empty(0) /\ capacity \in Nat \ {0}
    BY AtRest DEF Rehashing, Old
<1>2. Exists'
    <2>1. 0 \in 0 .. capacity - 1
        BY <1>1
    <2> QED
        BY <2>1 DEF Placed, Chains, Exists
<1>3. AssocsOf(Old') = {} /\ Total(Old') = 0
    BY <1>1, EmptyArray
<1>4. BaseInv'
    BY <1>1 DEF BaseInv
<1>5. ShapeInv'
    BY <1>1 DEF ShapeInv
<1>6. TableInv'
    BY <1>2 DEF TableInv
<1>7. OldInv'
    <2>1. KeysOf(Old') = {}
        BY <1>3 DEF KeysOf
    <2> QED
        BY <1>1, <2>1 DEF OldInv
<1>8. LoadBound'
    <2>1. PICK m \in Nat : m = LOAD_FACTOR_THR * capacity
        BY <1>1, TableAssumption
    <2>2. num_elems \in Nat /\ num_elems <= m + 1
        BY <2>1 DEF IInv, BaseInv, LoadBound
    <2>3. num_elems' <= m + 1
        BY <2>2
    <2> QED
        BY <2>1, <2>3 DEF LoadBound
<1>9. LiveInv'
    BY <1>3 DEF LiveInv
<1>10. Both' = AssocsOf(r)
    BY <1>3 DEF Both
<1> QED
    BY <1>4, <1>5, <1>6, <1>7, <1>8, <1>9, <1>10 DEF IInv

LEMMA HashRemoveStep ==
    ASSUME IInv, NEW k \in Key, HashRemove(k)
    PROVE  IInv' /\ Removed(Both, k, Both') /\ ret' = ret /\ Exists'
<1>1. Idle /\ UNCHANGED <<capacity, calls, ret>>
    BY DEF HashRemove
<1>2. ret' \in Value \cup BOOLEAN
    BY <1>1 DEF IInv, BaseInv
<1>3. CASE Position(k) = 0
    <2>1. UNCHANGED <<table, num_elems, live>>
        BY <1>3 DEF HashRemove
    <2>2. IInv' /\ Both' = AssocsOf(table)
        <3>1. PICK r : r = table
            OBVIOUS
        <3>2. /\ table' = r /\ Placed(r, capacity) /\ calls' = calls /\ capacity' = capacity
              /\ num_elems' = Total(r) /\ live' = Total(r) /\ num_elems' \in Nat
              /\ num_elems' <= num_elems
            BY <1>1, <2>1, <3>1, AtRest
        <3>3. IInv' /\ Both' = AssocsOf(r)
            BY ONLY <1>1, <1>2, <3>2, IInv, RestToRest
        <3> QED
            BY <3>1, <3>3
    <2>3. k \notin KeysOf(table)
        BY <1>1, <1>3, AtRest, Search
    <2>4. Removed(Both, k, Both')
        BY <1>1, <2>2, <2>3, AtRest DEF Removed, KeysOf
    <2> QED
        BY <1>1, <2>1, <2>2, <2>4, AtRest DEF Exists
<1>4. CASE Position(k) # 0
    <2>1. PICK r : r = [table EXCEPT ![Index(k)] = RemoveAt(@, Position(k))]
        OBVIOUS
    <2>2. table' = r /\ num_elems' = num_elems - 1 /\ live' = live - 1
        BY <1>4, <2>1 DEF HashRemove
    <2>3. Placed(r, capacity) /\ Total(r) = Total(table) - 1 /\ Removed(AssocsOf(table), k, AssocsOf(r))
        BY <1>1, <1>4, <2>1, AtRest, TakeOut
    <2>4. Total(r) \in Nat
        BY <1>1, <2>3, AtRest, PlacesFinite DEF Placed
    <2>5. /\ Placed(r, capacity) /\ calls' = calls /\ capacity' = capacity
          /\ num_elems' = Total(r) /\ live' = Total(r) /\ num_elems' \in Nat
          /\ num_elems' <= num_elems
        BY <1>1, <2>2, <2>3, <2>4, AtRest
    <2>6. IInv' /\ Both' = AssocsOf(r)
        BY ONLY <1>1, <1>2, <2>2, <2>5, IInv, RestToRest
    <2>7. Exists'
        <3>1. capacity \in Nat \ {0} /\ 0 \in 0 .. capacity - 1
            BY <1>1, AtRest
        <3> QED
            BY <2>2, <2>3, <3>1 DEF Placed, Chains, Exists
    <2> QED
        BY <1>1, <2>3, <2>6, <2>7, AtRest
<1> QED
    BY <1>3, <1>4

LEMMA ReadStep ==
    ASSUME IInv, NEW k \in Key, HashGet(k) \/ HashContains(k)
    PROVE  /\ IInv' /\ Both' = Both /\ Exists /\ Exists'
           /\ \/ ret' = IF k \in DOMAIN MapOf(Both) THEN MapOf(Both)[k] ELSE NULL
              \/ ret' = (k \in DOMAIN MapOf(Both))
<1>1. Idle /\ UNCHANGED <<table, capacity, num_elems, calls, live>>
    BY DEF HashGet, HashContains
<1>2. Position(k) = 0 => k \notin DOMAIN MapOf(Both)
    <2>1. Position(k) = 0 => k \notin KeysOf(table)
        BY <1>1, AtRest, Search
    <2> QED
        BY <1>1, <2>1, AtRest, MapFacts DEF KeysOf
<1>3. Position(k) # 0 => /\ k \in DOMAIN MapOf(Both)
                         /\ MapOf(Both)[k] = table[Index(k)][Position(k)].value
                         /\ table[Index(k)][Position(k)].value \in Value
    <2> SUFFICES ASSUME Position(k) # 0
                 PROVE  /\ k \in DOMAIN MapOf(Both)
                        /\ MapOf(Both)[k] = table[Index(k)][Position(k)].value
                        /\ table[Index(k)][Position(k)].value \in Value
        OBVIOUS
    <2>1. PICK i : i = Index(k)
        OBVIOUS
    <2>2. PICK p : p = Position(k)
        OBVIOUS
    <2>3. PICK n \in Nat \ {0} : n = capacity
        BY <1>1, AtRest
    <2>4. /\ table \in Chains(n) /\ i \in 0 .. n - 1 /\ p \in 1 .. Len(table[i])
          /\ table[i][p].key = k
        BY <1>1, <2>1, <2>2, <2>3, AtRest, Search DEF Placed
    <2>5. table[i][p] \in AssocsOf(table)
        BY <2>4, InAssocs
    <2>6. table[i][p] \in Assoc
        BY <2>4, ChainType
    <2>7. table[i][p].value \in Value
        BY <2>6 DEF Assoc
    <2>8. table[i][p] \in Both /\ UniqueKeys(Both)
        BY <1>1, <2>5, AtRest
    <2> QED
        BY <2>1, <2>2, <2>4, <2>7, <2>8, MapFacts
<1>4. /\ ret' \in Value \cup BOOLEAN
      /\ \/ ret' = IF k \in DOMAIN MapOf(Both) THEN MapOf(Both)[k] ELSE NULL
         \/ ret' = (k \in DOMAIN MapOf(Both))
    <2>1. CASE HashGet(k)
        <3>1. ret' = IF Position(k) = 0 THEN NULL ELSE table[Index(k)][Position(k)].value
            BY <2>1 DEF HashGet
        <3> QED
            BY <1>2, <1>3, <3>1, TableAssumption
    <2>2. CASE HashContains(k)
        <3>1. ret' = (Position(k) # 0)
            BY <2>2 DEF HashContains
        <3>2. (Position(k) # 0) = (k \in DOMAIN MapOf(Both))
            BY <1>2, <1>3
        <3>3. (Position(k) # 0) \in BOOLEAN
            OBVIOUS
        <3> QED
            BY ONLY <3>1, <3>2, <3>3
    <2> QED
        BY <2>1, <2>2
<1>5. Old' = Old /\ Rehashing' = Rehashing
    BY <1>1 DEF Old, Rehashing
<1>6. ShapeInv' /\ Exists /\ Exists'
    BY <1>1 DEF IInv, ShapeInv, Idle, Exists
<1>7. IInv' /\ Both' = Both
    BY <1>1, <1>4, <1>5, <1>6, SameTable
<1> QED
    BY <1>4, <1>6, <1>7

LEMMA HashFreeStep ==
    ASSUME IInv, HashFree
    PROVE  IInv' /\ Both' = {} /\ Exists /\ ~Exists' /\ ret' = ret
<1>1. /\ Idle /\ table' = Empty(0) /\ live' = live - Total(table)
      /\ UNCHANGED <<capacity, num_elems, calls, ret>>
    BY DEF HashFree
<1>2. /\ DOMAIN table' = 0 .. 0 - 1 /\ AssocsOf(table') = {} /\ Total(table') = 0
    BY <1>1, EmptyArray
<1>3. ~Exists'
    BY <1>2 DEF Exists
<1>4. calls' = <<>> /\ Old' = Empty(0)
    BY <1>1 DEF Idle, Old
<1>5. AssocsOf(Old') = {} /\ Total(Old') = 0
    BY <1>4, EmptyArray
<1>6. BaseInv'
    BY <1>1 DEF IInv, BaseInv
<1>7. ShapeInv'
    BY <1>4 DEF ShapeInv
<1>8. TableInv'
    BY <1>1, <1>3 DEF TableInv
<1>9. OldInv'
    BY <1>2, <1>4 DEF OldInv, KeysOf
<1>10. LoadBound'
    BY <1>1 DEF IInv, LoadBound
<1>11. LiveInv'
    <2>1. live' = 0
        BY <1>1, AtRest
    <2> QED
        BY <1>2, <1>5, <2>1 DEF LiveInv
<1>12. Both' = {}
    BY <1>2, <1>5 DEF Both
<1> QED
    BY <1>1, <1>3, <1>6, <1>7, <1>8, <1>9, <1>10, <1>11, <1>12 DEF IInv, Idle

\* An association is put into the table by the hash_insert of a caller.
LEMMA CallerPuts ==
    ASSUME IInv, AtPut, Len(calls) = 1
    PROVE  /\ ~Rehashing /\ ~Overloaded /\ Exists /\ Both = AssocsOf(table) /\ live = Total(table)
           /\ Top.key \in Key /\ Top.value \in Value /\ Return = <<>> /\ Freed = 0
<1>1. calls # <<>> /\ (Top.pc = "put" \/ (Top.pc = "enter" /\ ~Overloaded))
    BY DEF AtPut
<1>2. PICK d \in Call :
        /\ Old = d.old /\ Exists /\ Top = d /\ ~Rehashing
        /\ d.pc = "put" => ~Overloaded
    BY <1>1, Running, CallTuples
<1>3. AssocsOf(Old) = {} /\ Total(Old) = 0
    BY <1>2, NothingOld DEF IInv
<1>4. Total(table) \in Nat
    BY <1>1, Running, PlacesFinite DEF Placed, IInv, BaseInv
<1>5. Both = AssocsOf(table) /\ live = Total(table)
    BY <1>3, <1>4 DEF Both, IInv, LiveInv
<1> QED
    BY <1>1, <1>2, <1>5, CallType DEF Return, Freed

\* The state after the hash_insert of a caller has returned.
LEMMA CallerPut ==
    ASSUME IInv, AtPut, Len(calls) = 1, NEW r, table' = r, Placed(r, capacity),
           calls' = <<>>, UNCHANGED <<capacity, ret>>, num_elems' = Total(r), live' = Total(r),
           Total(r) <= num_elems + 1
    PROVE  IInv' /\ Both' = AssocsOf(r) /\ Exists'
<1>1. ~Rehashing' /\ Old' = Empty(0) /\ capacity \in Nat \ {0}
    BY DEF Rehashing, Old, IInv, BaseInv
<1>2. Exists'
    <2>1. 0 \in 0 .. capacity - 1
        BY <1>1
    <2> QED
        BY <2>1 DEF Placed, Chains, Exists
<1>3. AssocsOf(Old') = {} /\ Total(Old') = 0
    BY <1>1, EmptyArray
<1>4. Total(r) \in Nat
    BY <1>1, PlacesFinite DEF Placed
<1>5. BaseInv'
    BY <1>1, <1>4 DEF IInv, BaseInv
<1>6. ShapeInv'
    BY DEF ShapeInv
<1>7. TableInv'
    BY <1>2 DEF TableInv
<1>8. OldInv'
    <2>1. KeysOf(Old') = {}
        BY <1>3 DEF KeysOf
    <2> QED
        BY <2>1 DEF OldInv
<1>9. LoadBound'
    <2>1. PICK m \in Nat : m = LOAD_FACTOR_THR * capacity
        BY <1>1, TableAssumption
    <2>2. num_elems \in Nat /\ num_elems <= m
        BY <2>1, CallerPuts DEF IInv, BaseInv, Overloaded
    <2>3. num_elems' <= m + 1
        BY <1>4, <2>2
    <2> QED
        BY <2>1, <2>3 DEF LoadBound
<1>10. LiveInv'
    BY <1>3, <1>4 DEF LiveInv
<1>11. Both' = AssocsOf(r)
    BY <1>3 DEF Both
<1> QED
    BY <1>2, <1>5, <1>6, <1>7, <1>8, <1>9, <1>10, <1>11 DEF IInv

LEMMA CallsLength ==
    ASSUME IInv, calls # <<>>
    PROVE  \/ Len(calls) = 1
           \/ /\ Len(calls) = 2 /\ Rehashing /\ ~IsEmpty(Old)
              /\ Top.key = First(Old).key /\ Top.value = First(Old).value
              /\ \E d \in Call : /\ Old = d.old /\ d.pc = "rehash"
                                 /\ \E c : calls = <<c, d>>
<1>1. \A k, v : Enter(k, v).key = k /\ Enter(k, v).value = v
    BY DEF Enter
<1> QED
    BY <1>1, Running, CallTuples

\* The association that the resize moves next, and what is left when it is moved.
LEMMA MovedOne ==
    ASSUME IInv, Rehashing, ~IsEmpty(Old),
           NEW r, r = [Old EXCEPT ![FirstIndex(Old)] = Tail(@)]
    PROVE  /\ First(Old) \in Assoc /\ First(Old) \in AssocsOf(Old)
           /\ First(Old).key \notin KeysOf(table)
           /\ Removed(AssocsOf(Old), First(Old).key, AssocsOf(r))
           /\ Total(r) = Total(Old) - 1 /\ Total(Old) \in Nat \ {0}
           /\ UniqueKeys(AssocsOf(Old))
           /\ \E n \in Nat \ {0} :
                /\ capacity = 2 * n /\ Placed(r, n)
                /\ num_elems + Total(Old) <= LOAD_FACTOR_THR * n + 1
<1>1. PICK n \in Nat \ {0} :
            /\ capacity = 2 * n /\ Placed(Old, n)
            /\ num_elems + Total(Old) <= LOAD_FACTOR_THR * n + 1
    BY DEF IInv, OldInv, Rehashing
<1>2. /\ Placed(r, n) /\ Total(r) = Total(Old) - 1 /\ Total(Old) \in Nat \ {0}
      /\ First(Old) \in Assoc /\ First(Old) \in AssocsOf(Old)
      /\ Removed(AssocsOf(Old), First(Old).key, AssocsOf(r))
    BY <1>1, DropFirst
<1>3. UniqueKeys(AssocsOf(Old))
    BY <1>1, PlacedUnique
<1>4. KeysOf(table) \cap KeysOf(Old) = {}
    BY DEF IInv, OldInv
<1>5. First(Old).key \notin KeysOf(table)
    BY <1>2, <1>4 DEF KeysOf
<1> QED
    BY <1>1, <1>2, <1>3, <1>5

LEMMA UpdateStep ==
    ASSUME IInv, Update
    PROVE  /\ IInv' /\ Exists /\ Exists' /\ ret' = ret /\ UniqueKeys(Both)
           /\ \E k \in Key, v \in Value : Inserted(Both, [key |-> k, value |-> v], Both')
<1>1. AtPut /\ Position(Top.key) # 0 /\ calls' = Return /\ live' = live - Freed
      /\ UNCHANGED <<capacity, num_elems, ret>> /\ calls # <<>>
    BY DEF Update, AtPut
<1>2. capacity \in Nat \ {0} /\ Placed(table, capacity) /\ num_elems = Total(table)
    BY <1>1, Running DEF IInv, BaseInv
<1>3. CASE Len(calls) = 1
    <2>1. PICK k \in Key : k = Top.key
        BY <1>1, <1>3, CallerPuts
    <2>2. PICK v \in Value : v = Top.value
        BY <1>1, <1>3, CallerPuts
    <2>3. PICK r : r = [table EXCEPT ![Index(k)][Position(k)].value = v]
        OBVIOUS
    <2>4. table' = r
        BY <2>1, <2>2, <2>3 DEF Update
    <2>5. /\ Placed(r, capacity) /\ Total(r) = Total(table)
          /\ Inserted(AssocsOf(table), [key |-> k, value |-> v], AssocsOf(r))
        BY <1>1, <1>2, <2>1, <2>3, PutOver
    <2>6. /\ Exists /\ Both = AssocsOf(table) /\ live = Total(table)
          /\ Return = <<>> /\ Freed = 0
        BY <1>1, <1>3, CallerPuts
    <2>7. /\ calls' = <<>> /\ num_elems' = Total(r) /\ live' = Total(r) /\ Total(r) <= num_elems + 1
        BY <1>1, <1>2, <2>5, <2>6 DEF IInv, BaseInv
    <2>8. IInv' /\ Both' = AssocsOf(r) /\ Exists'
        BY ONLY <1>1, <1>3, <2>4, <2>5, <2>7, IInv, CallerPut
    <2>9. UniqueKeys(Both)
        BY <1>2, <2>6, PlacedUnique
    <2>10. Inserted(Both, [key |-> k, value |-> v], Both')
        BY <2>5, <2>6, <2>8
    <2> QED
        BY <1>1, <2>6, <2>8, <2>9, <2>10
<1>4. CASE Len(calls) # 1
    <2>1. Rehashing /\ ~IsEmpty(Old) /\ Top.key = First(Old).key
        BY <1>1, <1>4, CallsLength
    <2>2. First(Old) \in Assoc /\ First(Old).key \notin KeysOf(table)
        BY <2>1, MovedOne
    <2>3. PICK k \in Key : k = Top.key
        BY <2>1, <2>2 DEF Assoc
    <2>4. PICK i : i = Index(k)
        OBVIOUS
    <2>5. PICK p : p = Position(k)
        OBVIOUS
    <2>6. PICK n \in Nat \ {0} : n = capacity
        BY <1>2
    <2>7. table \in Chains(n) /\ i \in 0 .. n - 1 /\ p \in 1 .. Len(table[i]) /\ table[i][p].key = k
        BY <1>1, <1>2, <2>3, <2>4, <2>5, <2>6, Search DEF Placed
    <2>8. table[i][p] \in AssocsOf(table)
        BY <2>7, InAssocs
    <2> QED
        BY <2>1, <2>2, <2>3, <2>7, <2>8 DEF KeysOf
<1> QED
    BY <1>3, <1>4

LEMMA AddStep ==
    ASSUME IInv, Add
    PROVE  /\ IInv' /\ Exists /\ Exists' /\ ret' = ret
           /\ \/ Both' = Both
              \/ /\ UniqueKeys(Both)
                 /\ \E k \in Key, v \in Value : Inserted(Both, [key |-> k, value |-> v], Both')
<1>1. AtPut /\ Position(Top.key) = 0 /\ calls' = Return /\ live' = live + 1 - Freed
      /\ num_elems' = num_elems + 1 /\ UNCHANGED <<capacity, ret>> /\ calls # <<>>
    BY DEF Add, AtPut
<1>2. capacity \in Nat \ {0} /\ Placed(table, capacity) /\ num_elems = Total(table) /\ Exists
    BY <1>1, Running DEF IInv, BaseInv
<1>3. CASE Len(calls) = 1
    <2>1. PICK k \in Key : k = Top.key
        BY <1>1, <1>3, CallerPuts
    <2>2. PICK v \in Value : v = Top.value
        BY <1>1, <1>3, CallerPuts
    <2>3. PICK r : r = [table EXCEPT ![Index(k)] = Cons([key |-> k, value |-> v], @)]
        OBVIOUS
    <2>4. table' = r
        BY <2>1, <2>2, <2>3 DEF Add
    <2>5. /\ Placed(r, capacity) /\ Total(r) = Total(table) + 1 /\ k \notin KeysOf(table)
          /\ AssocsOf(r) = AssocsOf(table) \cup {[key |-> k, value |-> v]}
        BY <1>1, <1>2, <2>1, <2>3, PutNew
    <2>6. /\ Exists /\ Both = AssocsOf(table) /\ live = Total(table)
          /\ Return = <<>> /\ Freed = 0
        BY <1>1, <1>3, CallerPuts
    <2>7. /\ calls' = <<>> /\ num_elems' = Total(r) /\ live' = Total(r) /\ Total(r) <= num_elems + 1
        BY <1>1, <1>2, <2>5, <2>6 DEF IInv, BaseInv
    <2>8. IInv' /\ Both' = AssocsOf(r) /\ Exists'
        BY ONLY <1>1, <1>3, <2>4, <2>5, <2>7, IInv, CallerPut
    <2>9. UniqueKeys(Both)
        BY <1>2, <2>6, PlacedUnique
    <2>10. Inserted(Both, [key |-> k, value |-> v], Both')
        <3>0. [key |-> k, value |-> v].key = k
            OBVIOUS
        <3>1. PICK a : a = [key |-> k, value |-> v] /\ a.key = k
            BY <3>0
        <3>2. Both' = Both \cup {a} /\ \A x \in Both : x.key # a.key
            BY <2>5, <2>6, <2>8, <3>1 DEF KeysOf
        <3> QED
            BY <3>1, <3>2 DEF Inserted
    <2> QED
        BY <1>1, <2>6, <2>8, <2>9, <2>10
<1>4. CASE Len(calls) # 1
    <2>1. PICK d \in Call :
            /\ Rehashing /\ ~IsEmpty(Old) /\ Top.key = First(Old).key /\ Top.value = First(Old).value
            /\ Len(calls) = 2 /\ Old = d.old /\ d.pc = "rehash" /\ \E c : calls = <<c, d>>
        BY <1>1, <1>4, CallsLength
    <2>2. PICK c : calls = <<c, d>>
        BY <2>1
    <2>3. PICK old : old = [Old EXCEPT ![FirstIndex(Old)] = Tail(@)]
        OBVIOUS
    <2>4. /\ First(Old) \in Assoc /\ First(Old) \in AssocsOf(Old)
          /\ Removed(AssocsOf(Old), First(Old).key, AssocsOf(old))
          /\ Total(old) = Total(Old) - 1 /\ Total(Old) \in Nat \ {0}
          /\ UniqueKeys(AssocsOf(Old))
        BY <2>1, <2>3, MovedOne
    <2>5. PICK n \in Nat \ {0} :
            /\ capacity = 2 * n /\ Placed(old, n)
            /\ num_elems + Total(Old) <= LOAD_FACTOR_THR * n + 1
        BY <2>1, <2>3, MovedOne
    <2>6. PICK a : a = First(Old)
        OBVIOUS
    <2>7. PICK k \in Key : k = a.key
        BY <2>4, <2>6 DEF Assoc
    <2>8. PICK v \in Value : v = a.value
        BY <2>4, <2>6 DEF Assoc
    <2>9. k = Top.key /\ v = Top.value /\ a = [key |-> k, value |-> v]
        BY <2>1, <2>4, <2>6, <2>7, <2>8 DEF Assoc
    <2>10. PICK r : r = [table EXCEPT ![Index(k)] = Cons([key |-> k, value |-> v], @)]
        OBVIOUS
    <2>11. table' = r
        BY <2>9, <2>10 DEF Add
    <2>12. /\ Placed(r, capacity) /\ Total(r) = Total(table) + 1
           /\ AssocsOf(r) = AssocsOf(table) \cup {a}
        BY <1>1, <1>2, <2>9, <2>10, PutNew
    <2>13. PICK e \in Call : e = [d EXCEPT !.old = old] /\ e.old = old /\ e.pc = "rehash"
        <3>1. old \in UNION {Chains(i) : i \in Nat}
            BY <2>5 DEF Placed
        <3>2. /\ [d EXCEPT !.old = old] \in Call /\ [d EXCEPT !.old = old].old = old
              /\ [d EXCEPT !.old = old].pc = "rehash"
            BY <2>1, <3>1 DEF Call
        <3> QED
            BY <3>2
    <2>14. calls' = <<e>> /\ Freed = 1
        <3>1. Tail(calls) = <<d>> /\ calls[2] = d
            BY <2>2, CallTuples
        <3>2. Return = [<<d>> EXCEPT ![1].old[FirstIndex(Old)] = Tail(@)]
            BY <1>4, <2>1, <3>1 DEF Return
        <3>3. [<<d>> EXCEPT ![1].old[FirstIndex(Old)] = Tail(@)]
                 = <<[d EXCEPT !.old = [d.old EXCEPT ![FirstIndex(Old)] = Tail(@)]]>>
            <4>1. PICK i : i = FirstIndex(Old)
                OBVIOUS
            <4>2. PICK x : x = [d EXCEPT !.old[i] = Tail(@)]
                OBVIOUS
            <4>3. [<<d>> EXCEPT ![1].old[i] = Tail(@)] = [<<d>> EXCEPT ![1] = x]
                BY <4>2
            <4>4. [<<d>> EXCEPT ![1] = x] = <<x>>
                OBVIOUS
            <4>5. x = [d EXCEPT !.old = [d.old EXCEPT ![i] = Tail(@)]]
                BY <4>2
            <4> QED
                BY <4>1, <4>3, <4>4, <4>5
        <3>4. Freed = 1
            BY <1>4 DEF Freed
        <3> QED
            BY <1>1, <2>1, <2>3, <2>13, <3>2, <3>3, <3>4
    <2>15. Old' = old /\ Rehashing'
        BY <2>13, <2>14, CallTuples DEF Old, Rehashing
    <2>16. Exists'
        <3>1. 0 \in 0 .. capacity - 1
            BY <1>2
        <3> QED
            BY <2>11, <2>12, <3>1 DEF Placed, Chains, Exists
    <2>17. Total(table) \in Nat
        BY <1>2, PlacesFinite DEF Placed
    <2>18. BaseInv'
        BY <1>1 DEF IInv, BaseInv
    <2>19. ShapeInv'
        BY <2>13, <2>14, <2>16 DEF ShapeInv
    <2>20. TableInv'
        BY <1>1, <1>2, <2>11, <2>12, <2>16 DEF TableInv
    <2>21. OldInv'
        <3>1. num_elems' + Total(Old') <= LOAD_FACTOR_THR * n + 1
            BY <1>1, <1>2, <2>4, <2>5, <2>15, <2>17
        <3>2. KeysOf(table) \cap KeysOf(Old) = {}
            BY DEF IInv, OldInv
        <3>3. KeysOf(table') \cap KeysOf(Old') = {}
            <4>1. ASSUME NEW j \in KeysOf(table'), j \in KeysOf(Old') PROVE FALSE
                <5>1. j \in KeysOf(table) \/ j = k
                    BY <2>7, <2>11, <2>12, <4>1 DEF KeysOf
                <5>2. j \in KeysOf(Old) /\ j # k
                    BY <2>4, <2>6, <2>7, <2>15, <4>1 DEF KeysOf, Removed
                <5> QED
                    BY <3>2, <5>1, <5>2
            <4> QED
                BY <4>1
        <3> QED
            BY <1>1, <2>5, <2>15, <3>1, <3>3 DEF OldInv
    <2>22. LoadBound'
        <3>1. PICK m \in Nat : m = LOAD_FACTOR_THR * capacity
            BY <1>2, TableAssumption
        <3>2. num_elems \in Nat /\ num_elems <= m
            BY <2>1, <3>1, Moving DEF IInv, BaseInv, Overloaded
        <3>3. num_elems' <= m + 1
            BY <1>1, <3>2
        <3> QED
            BY <1>1, <3>1, <3>3 DEF LoadBound
    <2>23. LiveInv'
        <3>1. live = Total(table) + Total(Old)
            BY DEF IInv, LiveInv
        <3>2. live' = Total(table') + Total(Old')
            BY <1>1, <2>4, <2>11, <2>12, <2>14, <2>15, <2>17, <3>1
        <3> QED
            BY <3>2 DEF LiveInv
    <2>24. Both' = Both
        <3>1. \A x : x \in AssocsOf(Old) <=> x \in AssocsOf(old) \/ x = a
            <4>1. ASSUME NEW x \in AssocsOf(Old), x # a PROVE x \in AssocsOf(old)
                BY <2>4, <2>6, <4>1 DEF UniqueKeys, Removed
            <4>2. ASSUME NEW x \in AssocsOf(old) PROVE x \in AssocsOf(Old)
                BY <2>4 DEF Removed
            <4> QED
                BY <2>4, <2>6, <4>1, <4>2
        <3> QED
            BY <2>11, <2>12, <2>15, <3>1 DEF Both
    <2> QED
        BY <1>1, <1>2, <2>16, <2>18, <2>19, <2>20, <2>21, <2>22, <2>23, <2>24 DEF IInv
<1> QED
    BY <1>3, <1>4

-----------------------------------------------------------------------------
(* The invariant, and the properties that follow from it *)

LEMMA Initially == Init => IInv /\ Both = {} /\ Exists
<1> SUFFICES ASSUME Init PROVE IInv /\ Both = {} /\ Exists
    OBVIOUS
<1> USE DEF Init
<1>1. PICK n \in Nat \ {0} : n = INITIAL_CAPACITY
    BY TableAssumption
<1>2. Placed(table, n) /\ AssocsOf(table) = {} /\ Total(table) = 0 /\ DOMAIN table = 0 .. n - 1
    BY <1>1, EmptyArray
<1>3. Old = Empty(0) /\ AssocsOf(Old) = {} /\ Total(Old) = 0
    BY EmptyArray DEF Old
<1>4. Exists
    <2>1. 0 \in 0 .. n - 1
        OBVIOUS
    <2> QED
        BY <1>2, <2>1 DEF Exists
<1>5. BaseInv
    BY <1>1, TableAssumption DEF BaseInv
<1>6. ShapeInv
    BY DEF ShapeInv
<1>7. TableInv
    BY <1>1, <1>2, <1>4 DEF TableInv
<1>8. OldInv
    BY <1>2 DEF OldInv, KeysOf
<1>9. LoadBound
    <2>1. PICK m \in Nat : m = LOAD_FACTOR_THR * n
        BY TableAssumption
    <2> QED
        BY <1>1, <2>1 DEF LoadBound
<1>10. LiveInv
    BY <1>2, <1>3 DEF LiveInv
<1> QED
    BY <1>2, <1>3, <1>4, <1>5, <1>6, <1>7, <1>8, <1>9, <1>10 DEF IInv, Both

LEMMA Stutter ==
    ASSUME IInv, UNCHANGED vars
    PROVE  IInv' /\ Both' = Both /\ Exists' = Exists /\ ret' = ret
<1>1. /\ UNCHANGED <<table, capacity, num_elems, calls, live, ret>>
    BY DEF vars
<1>2. Old' = Old /\ Rehashing' = Rehashing /\ Exists' = Exists
    BY <1>1 DEF Old, Rehashing, Exists
<1>3. ShapeInv'
    BY <1>1, <1>2 DEF IInv, ShapeInv, Overloaded
<1>4. ret' \in Value \cup BOOLEAN
    BY <1>1 DEF IInv, BaseInv
<1> QED
    BY <1>1, <1>2, <1>3, <1>4, SameTable

\* Every step preserves the invariant and is a step of the map or none: what is
\* linked changes only as an insert, a remove or the final free changes it.
LEMMA StepMeaning ==
    ASSUME IInv, [Next]_vars
    PROVE  /\ IInv'
           /\ \/ Both' = Both /\ Exists' = Exists /\ ret' = ret
              \/ /\ Exists /\ Exists'
                 /\ \E k \in Key :
                      \/ Removed(Both, k, Both') /\ UniqueKeys(Both) /\ ret' = ret
                      \/ /\ UniqueKeys(Both) /\ ret' = ret
                         /\ \E v \in Value : Inserted(Both, [key |-> k, value |-> v], Both')
                      \/ /\ Both' = Both
                         /\ \/ ret' = IF k \in DOMAIN MapOf(Both) THEN MapOf(Both)[k] ELSE NULL
                            \/ ret' = (k \in DOMAIN MapOf(Both))
              \/ Exists /\ ~Exists' /\ Both' = {} /\ ret' = ret
<1>1. CASE UNCHANGED vars
    BY <1>1, Stutter
<1>2. ASSUME NEW k \in Key, HashRemove(k)
      PROVE  IInv' /\ Removed(Both, k, Both') /\ UniqueKeys(Both) /\ ret' = ret /\ Exists /\ Exists'
    BY <1>2, HashRemoveStep, AtRest DEF HashRemove
<1>3. ASSUME NEW k \in Key, HashGet(k) \/ HashContains(k)
      PROVE  /\ IInv' /\ Both' = Both /\ Exists /\ Exists'
             /\ \/ ret' = IF k \in DOMAIN MapOf(Both) THEN MapOf(Both)[k] ELSE NULL
                \/ ret' = (k \in DOMAIN MapOf(Both))
    BY <1>3, ReadStep
<1>4. ASSUME NEW k \in Key, NEW v \in Value, HashInsert(k, v)
      PROVE  IInv' /\ Both' = Both /\ Exists' = Exists /\ ret' = ret
    BY <1>4, HashInsertStep DEF HashInsert, Exists
<1>5. CASE Resize
    <2>1. IInv' /\ Both' = Both /\ calls # <<>> /\ Exists /\ ret' = ret
        BY <1>5, ResizeStep, Running DEF Resize
    <2>2. calls' # <<>>
        BY <1>5, <2>1, Running, CallTuples, Moving DEF Resize
    <2>3. Exists'
        BY <2>1, <2>2 DEF IInv, ShapeInv
    <2> QED
        BY <2>1, <2>3
<1>6. CASE Rehash
    BY <1>6, RehashStep DEF Rehash, Exists
<1>7. CASE EndResize
    BY <1>7, EndResizeStep DEF EndResize, Exists
<1>8. CASE Update
    BY <1>8, UpdateStep
<1>9. CASE Add
    BY <1>9, AddStep
<1>10. CASE HashFree
    BY <1>10, HashFreeStep
<1>11. CASE Done
    BY <1>1, <1>11 DEF Done
<1> QED
    BY <1>1, <1>2, <1>3, <1>4, <1>5, <1>6, <1>7, <1>8, <1>9, <1>10, <1>11 DEF Next, InsertStep

THEOREM Invariance == Spec => []IInv
<1>1. Init => IInv
    BY Initially
<1>2. IInv /\ [Next]_vars => IInv'
    BY StepMeaning
<1> QED
    BY <1>1, <1>2, PTL DEF Spec

LEMMA CallCases ==
    ASSUME IInv
    PROVE  \/ calls = <<>> /\ DOMAIN calls = {} /\ Old = Empty(0)
           \/ \E d \in Call : calls = <<d>> /\ DOMAIN calls = {1} /\ calls[1] = d /\ Old = d.old
           \/ \E c, d \in Call :
                 /\ calls = <<c, d>> /\ DOMAIN calls = {1, 2} /\ calls[1] = c /\ calls[2] = d
                 /\ c.pc = "enter" /\ c.old = Empty(0) /\ Old = d.old
<1>1. CASE calls = <<>>
    BY <1>1 DEF Old
<1>2. CASE calls # <<>>
    <2>1. PICK d \in Call :
            /\ Old = d.old
            /\ \/ calls = <<d>>
               \/ /\ calls = <<Enter(First(d.old).key, First(d.old).value), d>>
                  /\ Rehashing /\ ~IsEmpty(d.old)
        BY <1>2, Running
    <2>2. CASE calls = <<d>>
        BY <2>1, <2>2, CallTuples
    <2>3. CASE calls # <<d>>
        <3>1. PICK r : r = [Old EXCEPT ![FirstIndex(Old)] = Tail(@)]
            OBVIOUS
        <3>2. First(Old) \in Assoc
            BY <2>1, <2>3, <3>1, MovedOne
        <3>3. PICK c \in Call : /\ c = Enter(First(d.old).key, First(d.old).value)
                                /\ c.pc = "enter" /\ c.old = Empty(0)
            BY <2>1, <3>2, EnterCall DEF Assoc
        <3> QED
            BY <2>1, <2>3, <3>3, CallTuples
    <2> QED
        BY <2>2, <2>3
<1> QED
    BY <1>1, <1>2

LEMMA LinkedIsBoth == IInv => Linked = Both
<1> SUFFICES ASSUME IInv PROVE Linked = Both
    OBVIOUS
<1>1. CASE calls = <<>> /\ DOMAIN calls = {} /\ Old = Empty(0)
    <2>1. AssocsOf(Old) = {}
        BY <1>1, EmptyArray
    <2> QED
        BY <1>1, <2>1 DEF Linked, Both
<1>2. ASSUME NEW d \in Call, DOMAIN calls = {1}, calls[1] = d, Old = d.old
      PROVE  Linked = Both
    BY <1>2 DEF Linked, Both
<1>3. ASSUME NEW c \in Call, NEW d \in Call, DOMAIN calls = {1, 2}, calls[1] = c, calls[2] = d,
             c.old = Empty(0), Old = d.old
      PROVE  Linked = Both
    <2>1. AssocsOf(c.old) = {}
        BY <1>3, EmptyArray
    <2> QED
        BY <1>3, <2>1 DEF Linked, Both
<1> QED
    BY <1>1, <1>2, <1>3, CallCases

\* The table has as many associations as its array, and the arrays under resize theirs.
LEMMA OldTotal ==
    ASSUME IInv
    PROVE  Cardinality(UNION {{i} \X Places(calls[i].old) : i \in DOMAIN calls}) = Total(Old)
<1>1. ASSUME NEW m, NEW n \in Nat, NEW array \in Chains(n), Old = array
      PROVE  Cardinality({m} \X Places(array)) = Total(Old)
    <2> DEFINE f == [x \in Places(array) |-> <<m, x>>]
    <2>1. f \in Bijection(Places(array), {m} \X Places(array))
        <3>1. f \in [Places(array) -> {m} \X Places(array)]
            OBVIOUS
        <3>2. \A x, y \in Places(array) : f[x] = f[y] => x = y
            OBVIOUS
        <3>3. \A z \in {m} \X Places(array) : \E x \in Places(array) : f[x] = z
            OBVIOUS
        <3> QED
            BY <3>1, <3>2, <3>3 DEF Bijection, Injection, Surjection, IsInjective
    <2>2. ExistsBijection(Places(array), {m} \X Places(array)) /\ IsFiniteSet(Places(array))
        BY <2>1, PlacesFinite DEF ExistsBijection
    <2> QED
        BY <1>1, <2>2, FS_Bijection DEF Total
<1>2. CASE calls = <<>> /\ DOMAIN calls = {} /\ Old = Empty(0)
    <2>1. Total(Old) = 0 /\ UNION {{i} \X Places(calls[i].old) : i \in DOMAIN calls} = {}
        BY <1>2, EmptyArray
    <2> QED
        BY <2>1, FS_EmptySet
<1>3. ASSUME NEW d \in Call, DOMAIN calls = {1}, calls[1] = d, Old = d.old
      PROVE  Cardinality(UNION {{i} \X Places(calls[i].old) : i \in DOMAIN calls}) = Total(Old)
    <2>1. PICK n \in Nat : d.old \in Chains(n)
        BY CallType
    <2>2. UNION {{i} \X Places(calls[i].old) : i \in DOMAIN calls} = {1} \X Places(d.old)
        BY <1>3
    <2> QED
        BY <1>1, <1>3, <2>1, <2>2
<1>4. ASSUME NEW c \in Call, NEW d \in Call, DOMAIN calls = {1, 2}, calls[1] = c, calls[2] = d,
             c.old = Empty(0), Old = d.old
      PROVE  Cardinality(UNION {{i} \X Places(calls[i].old) : i \in DOMAIN calls}) = Total(Old)
    <2>1. PICK n \in Nat : d.old \in Chains(n)
        BY CallType
    <2>2. Places(c.old) = {}
        BY <1>4, EmptyArray
    <2>3. UNION {{i} \X Places(calls[i].old) : i \in DOMAIN calls} = {2} \X Places(d.old)
        BY <1>4, <2>2
    <2>4. Cardinality({2} \X Places(d.old)) = Total(Old)
        BY <1>1, <1>4, <2>1
    <2> QED
        BY <2>3, <2>4
<1> QED
    BY <1>2, <1>3, <1>4, CallCases

-----------------------------------------------------------------------------
\* Type correctness of the table of hash.c, before, in and after a resize.
THEOREM TableTypeCorrect == Spec => []TypeOK
<1>1. IInv => TypeOK
    <2> SUFFICES ASSUME IInv PROVE TypeOK
        OBVIOUS
    <2>1. capacity \in Nat \ {0} /\ num_elems \in Nat /\ ret \in Value \cup BOOLEAN
        BY DEF IInv, BaseInv
    <2>2. table \in Chains(capacity) \cup Chains(0)
        BY EmptyArray DEF IInv, TableInv, Placed
    <2>3. live \in Nat
        <3>1. Total(table) \in Nat
            BY <2>1, <2>2, PlacesFinite
        <3>2. Total(Old) \in Nat
            <4>1. CASE Rehashing
                BY <4>1, PlacesFinite DEF IInv, OldInv, Rehashing, Placed
            <4>2. CASE ~Rehashing
                BY <4>2, NothingOld DEF IInv
            <4> QED
                BY <4>1, <4>2
        <3> QED
            BY <3>1, <3>2 DEF IInv, LiveInv
    <2>4. \A d \in Call : /\ d.key \in Key /\ d.value \in Value /\ d.pc \in {"enter", "rehash", "put"}
                          /\ d.old \in Chains(Cardinality(DOMAIN d.old))
        <3>1. ASSUME NEW n \in Nat, NEW array \in Chains(n) PROVE Cardinality(DOMAIN array) = n
            <4>1. DOMAIN array = 0 .. n - 1 /\ n - 1 \in Int
                BY DEF Chains
            <4>2. \A m \in Int : Cardinality(0 .. m) = IF 0 > m THEN 0 ELSE m - 0 + 1
                BY FS_Interval
            <4> QED
                BY <4>1, <4>2
        <3> QED
            BY <3>1, CallType
    <2>5. \A i \in DOMAIN calls : calls[i] \in Call
        BY CallCases
    <2> QED
        BY <2>1, <2>2, <2>3, <2>4, <2>5 DEF TypeOK
<1> QED
    BY <1>1, Invariance, PTL

\* Every association is where a search looks for it, no key has two, and num_elems
\* counts them, also in the middle of a resize.
THEOREM TableSearchable == Spec => []Searchable
<1>1. IInv => Searchable
    <2> SUFFICES ASSUME IInv, Exists PROVE Searchable
        BY DEF Searchable
    <2>1. PICK n \in Nat \ {0} : n = capacity
        BY DEF IInv, BaseInv
    <2>2. Placed(table, n) /\ table \in Chains(n) /\ num_elems = Total(table)
        BY <2>1 DEF IInv, TableInv, Placed
    <2>3. ASSUME NEW i \in DOMAIN table, NEW a \in ToSet(table[i])
          PROVE  Hash[a.key] % n = i
        <3>1. i \in 0 .. n - 1
            BY <2>2 DEF Chains
        <3>2. PICK j \in 1 .. Len(table[i]) : a = table[i][j]
            BY <2>2, <3>1, ChainType DEF ToSet
        <3> QED
            BY <2>2, <3>1, <3>2 DEF Placed
    <2>4. Cardinality(KeysOf(table)) = Total(table)
        BY <2>2, KeysCount
    <2> QED
        BY <2>1, <2>2, <2>3, <2>4 DEF Searchable
<1> QED
    BY <1>1, Invariance, PTL

\* "By definition, this will not cause a recursive call to _hash_resize()": for every
\* hash function, first capacity and threshold of one or more.
THEOREM NoRecursiveResize == Spec => []ResizeNotRecursive
<1>1. IInv => ResizeNotRecursive
    <2> SUFFICES ASSUME IInv, NEW i \in DOMAIN calls, i < Len(calls) PROVE calls[i].pc = "enter"
        BY DEF ResizeNotRecursive
    <2>1. PICK c \in Call, d \in Call :
             calls = <<c, d>> /\ DOMAIN calls = {1, 2} /\ calls[1] = c /\ c.pc = "enter"
        <3>1. ~(calls = <<>> /\ DOMAIN calls = {})
            OBVIOUS
        <3>2. ASSUME NEW d, calls = <<d>>, DOMAIN calls = {1} PROVE FALSE
            BY <3>2, CallTuples
        <3> QED
            BY <3>1, <3>2, CallCases
    <2>2. i = 1
        BY <2>1, CallTuples
    <2> QED
        BY <2>1, <2>2
<1> QED
    BY <1>1, Invariance, PTL

\* The table exceeds the threshold by one association at most.
THEOREM LoadBounded == Spec => []LoadBound
<1>1. IInv => LoadBound
    BY DEF IInv
<1> QED
    BY <1>1, Invariance, PTL

\* No association of the table leaks, and none is freed twice.
THEOREM NothingLeaks == Spec => []HeapAccounted
<1>1. IInv => HeapAccounted
    BY OldTotal DEF IInv, LiveInv, HeapAccounted
<1> QED
    BY <1>1, Invariance, PTL

-----------------------------------------------------------------------------
(* The table implements the map *)

LEMMA InitialMap ==
    ASSUME Init, Linked = Both
    PROVE  Abstract!Init
<1>1. Linked = {} /\ Exists /\ ret = NULL
    BY Initially DEF Init
<1>2. Map = [k \in {} |-> NULL]
    BY <1>1 DEF Map, MapOf
<1> QED
    BY <1>1, <1>2 DEF Abstract!Init

\* A step of the table is a step of the map, or leaves it as it is.
LEMMA MapStep ==
    ASSUME IInv, [Next]_vars, Linked = Both, Linked' = Both'
    PROVE  [Abstract!Next]_(Abstract!vars)
<1>1. Map = MapOf(Both) /\ Map' = MapOf(Both')
    BY DEF Map
<1>2. CASE Both' = Both /\ Exists' = Exists /\ ret' = ret
    BY <1>1, <1>2 DEF Abstract!vars
<1>3. ASSUME NEW k \in Key, Removed(Both, k, Both'), UniqueKeys(Both), ret' = ret, Exists, Exists'
      PROVE  Abstract!Next
    <2>1. Map' = [j \in DOMAIN Map \ {k} |-> Map[j]]
        BY <1>1, <1>3, MapRemove
    <2>2. Abstract!Remove(k)
        BY <1>3, <2>1 DEF Abstract!Remove
    <2> QED
        BY <1>3, <2>2 DEF Abstract!Next
<1>4. ASSUME NEW k \in Key, NEW v \in Value, Inserted(Both, [key |-> k, value |-> v], Both'),
             UniqueKeys(Both), ret' = ret, Exists, Exists'
      PROVE  Abstract!Next
    <2>1. Map' = [j \in DOMAIN Map \cup {k} |-> IF j = k THEN v ELSE Map[j]]
        BY <1>1, <1>4, MapInsert
    <2>2. Abstract!Insert(k, v)
        BY <1>4, <2>1 DEF Abstract!Insert
    <2> QED
        BY <1>4, <2>2 DEF Abstract!Next
<1>5. ASSUME NEW k \in Key, Both' = Both, Exists, Exists',
             \/ ret' = IF k \in DOMAIN MapOf(Both) THEN MapOf(Both)[k] ELSE NULL
             \/ ret' = (k \in DOMAIN MapOf(Both))
      PROVE  Abstract!Next
    <2>1. Abstract!Get(k) \/ Abstract!Contains(k)
        BY <1>1, <1>5 DEF Abstract!Get, Abstract!Contains
    <2> QED
        BY <1>5, <2>1 DEF Abstract!Next
<1>6. CASE Exists /\ ~Exists' /\ Both' = {} /\ ret' = ret
    <2>1. Map' = [k \in {} |-> NULL]
        BY <1>1, <1>6 DEF MapOf
    <2> QED
        BY <1>6, <2>1 DEF Abstract!Next, Abstract!Free
<1> QED
    BY <1>2, <1>3, <1>4, <1>5, <1>6, StepMeaning

\* The table of hash.c is the map that hash.h promises: every insert, update, remove
\* and answer is the map's, and no resize is seen.
THEOREM ImplementsMap == Spec => IsSymbolMap
<1>1. Init => IInv /\ Both = {}
    BY Initially
<1>2. Init /\ Linked = Both => Abstract!Init
    BY InitialMap
<1>3. IInv => Linked = Both
    BY LinkedIsBoth
<1>4. IInv /\ [Next]_vars /\ Linked = Both /\ (Linked = Both)' => [Abstract!Next]_(Abstract!vars)
    BY MapStep
<1> QED
    BY <1>1, <1>2, <1>3, <1>4, Invariance, PTL DEF Spec, IsSymbolMap, Abstract!Spec
=============================================================================
