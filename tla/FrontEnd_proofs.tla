-------------------------- MODULE FrontEnd_proofs --------------------------
(***************************************************************************)
(* For every source: the front end frees nothing twice, uses nothing that  *)
(* was freed, and without a syntax error loses nothing but the lexemes of  *)
(* the unknown names that it reported.                                     *)
(***************************************************************************)
EXTENDS FrontEnd, FiniteSetTheorems, SequenceTheorems, WellFoundedInduction, TLAPS

-----------------------------------------------------------------------------
(* Sequences of anything *)

IsSeq(s) == Len(s) \in Nat /\ s = [i \in 1 .. Len(s) |-> s[i]]

LEMMA SeqIs ==
    ASSUME NEW s, IsSeq(s)
    PROVE  s \in Seq({s[i] : i \in 1 .. Len(s)}) /\ DOMAIN s = 1 .. Len(s)
<1>1. s \in [1 .. Len(s) -> {s[i] : i \in 1 .. Len(s)}]
    BY DEF IsSeq
<1> QED
    BY <1>1 DEF IsSeq

LEMMA SeqIsSeq ==
    ASSUME NEW S, NEW s \in Seq(S)
    PROVE  IsSeq(s)
<1>1. Len(s) \in Nat /\ s \in [1 .. Len(s) -> S]
    BY LenProperties
<1> QED
    BY <1>1 DEF IsSeq

LEMMA FcnSeq ==
    ASSUME NEW f, NEW n \in Nat, f = [i \in 1 .. n |-> f[i]]
    PROVE  IsSeq(f) /\ Len(f) = n
<1>1. f \in [1 .. n -> {f[i] : i \in 1 .. n}]
    OBVIOUS
<1>2. f \in Seq({f[i] : i \in 1 .. n})
    BY <1>1
<1> QED
    BY <1>1, <1>2 DEF IsSeq

LEMMA AppendIs ==
    ASSUME NEW s, IsSeq(s), NEW e
    PROVE  /\ IsSeq(Append(s, e)) /\ Len(Append(s, e)) = Len(s) + 1
           /\ DOMAIN Append(s, e) = 1 .. Len(s) + 1
           /\ \A i \in 1 .. Len(s) : Append(s, e)[i] = s[i]
           /\ Append(s, e)[Len(s) + 1] = e
<1> DEFINE S == {s[i] : i \in 1 .. Len(s)} \cup {e}
<1>1. s \in Seq(S) /\ e \in S
    <2>1. s \in [1 .. Len(s) -> S]
        BY DEF IsSeq
    <2> QED
        BY <2>1 DEF IsSeq
<1> HIDE DEF S
<1>2. Append(s, e) \in Seq(S)
    BY <1>1
<1>3. IsSeq(Append(s, e))
    BY <1>2, SeqIsSeq
<1> QED
    BY <1>1, <1>2, <1>3

LEMMA PrefixIs ==
    ASSUME NEW s, IsSeq(s), NEW n \in 0 .. Len(s)
    PROVE  /\ IsSeq(SubSeq(s, 1, n)) /\ Len(SubSeq(s, 1, n)) = n
           /\ DOMAIN SubSeq(s, 1, n) = 1 .. n
           /\ \A i \in 1 .. n : SubSeq(s, 1, n)[i] = s[i]
<1> DEFINE S == {s[i] : i \in 1 .. Len(s)}
<1>1. s \in Seq(S) /\ Len(s) \in Nat
    BY SeqIs DEF IsSeq
<1> HIDE DEF S
<1>2. SubSeq(s, 1, n) \in Seq(S)
    BY <1>1
<1>3. IsSeq(SubSeq(s, 1, n))
    BY <1>2, SeqIsSeq
<1> QED
    BY <1>1, <1>2, <1>3

LEMMA EmptyIs == IsSeq(<<>>) /\ Len(<<>>) = 0 /\ DOMAIN <<>> = {}
BY DEF IsSeq

\* A set of naturals with a bound has a maximum.
LEMMA MaxOfNats ==
    ASSUME NEW n \in Nat, NEW S \in SUBSET (0 .. n), S # {}
    PROVE  \E m \in S : \A x \in S : x <= m
<1> DEFINE R == {x \in Nat \X Nat : x[1] < x[2]}
           T == {n - x : x \in S}
<1>1. IsWellFoundedOn(R, Nat)
    BY NatLessThanWellFounded DEF OpToRel
<1>2. T \subseteq Nat /\ T # {}
    <2>1. \A x \in S : n - x \in Nat
        OBVIOUS
    <2> QED
        BY <2>1
<1>3. PICK k \in T : \A y \in T : ~(<<y, k>> \in R)
    <2> HIDE DEF R, T
    <2> QED
        BY <1>1, <1>2, WFMin
<1>4. PICK m \in S : k = n - m
    OBVIOUS
<1>5. ASSUME NEW x \in S PROVE x <= m
    <2>1. n - x \in T /\ n - x \in Nat /\ k \in Nat
        BY <1>2
    <2>2. ~(<<n - x, k>> \in R)
        BY <1>3, <2>1
    <2>3. <<n - x, k>> \in Nat \X Nat /\ <<n - x, k>>[1] = n - x /\ <<n - x, k>>[2] = k
        BY <2>1
    <2>4. ~(n - x < k)
        BY <2>2, <2>3
    <2>5. x \in Int /\ m \in Int
        OBVIOUS
    <2> QED
        BY <1>4, <2>4, <2>5
<1> QED
    BY <1>5

-----------------------------------------------------------------------------
(* The heap is a forest of objects, and its roots are the objects that no  *)
(* object owns.                                                            *)

IsObject(o) == o = Object(o.type, o.data, o.ptrs) /\ IsSeq(o.ptrs)
IsHeap(h) == IsSeq(h) /\ \A p \in DOMAIN h : IsObject(h[p])

OwnedOnce(h) ==
    \A p, q \in DOMAIN h : \A i \in DOMAIN h[p].ptrs, j \in DOMAIN h[q].ptrs :
        h[p].ptrs[i] = h[q].ptrs[j] /\ h[p].ptrs[i] # NULL => p = q /\ i = j

Closed(h, S) == \A q \in S : Owned(h, q) \subseteq S

\* Going from objects to what they own ends.
Founded(h) ==
    \A S \in SUBSET DOMAIN h : S # {} => \E p \in S : Owned(h, p) \cap S = {}

\* No part of a node is missing but an else block, and a block fits its array.
IsComplete(o) ==
    /\ \A i \in DOMAIN o.ptrs : o.ptrs[i] = NULL => o.type = "IF_STMT" /\ i = 3
    /\ o.type = "BLOCK" => Len(o.ptrs) <= AST_NODE_MAX_CHILDREN
    /\ o.type = "LEXEME" => o.ptrs = <<>>

Forest(h) ==
    /\ IsHeap(h)
    /\ \A p \in DOMAIN h : Owned(h, p) \subseteq Live(h)
    /\ OwnedOnce(h)
    /\ Founded(h)
    /\ \A p \in DOMAIN h : IsComplete(h[p])

Roots(h) == {p \in Live(h) : \A q \in DOMAIN h : p \notin Owned(h, q)}

\* The objects that are in every closed set with p.
Reach(h, p) ==
    {q \in DOMAIN h : \A S \in SUBSET DOMAIN h : Closed(h, S) /\ p \in S => q \in S}

LEMMA ReachFacts ==
    ASSUME NEW h, Closed(h, DOMAIN h), NEW p \in DOMAIN h
    PROVE  /\ p \in Reach(h, p) /\ Reach(h, p) \subseteq DOMAIN h
           /\ Closed(h, Reach(h, p))
           /\ \A S \in SUBSET DOMAIN h : Closed(h, S) /\ p \in S => Reach(h, p) \subseteq S
BY DEF Reach, Closed

LEMMA ReachUnfolds ==
    ASSUME NEW h, Closed(h, DOMAIN h), NEW p \in DOMAIN h
    PROVE  Reach(h, p) = {p} \cup UNION {Reach(h, c) : c \in Owned(h, p)}
<1> DEFINE U == {p} \cup UNION {Reach(h, c) : c \in Owned(h, p)}
<1>1. \A c \in Owned(h, p) : c \in DOMAIN h
    BY DEF Closed
<1>2. U \subseteq Reach(h, p)
    <2>1. ASSUME NEW c \in Owned(h, p) PROVE Reach(h, c) \subseteq Reach(h, p)
        <3>1. c \in Reach(h, p)
            BY ReachFacts DEF Closed
        <3> QED
            BY <1>1, <3>1, ReachFacts
    <2> QED
        BY <2>1, ReachFacts
<1>3. Reach(h, p) \subseteq U
    <2>1. U \in SUBSET DOMAIN h
        BY <1>1, ReachFacts
    <2>2. ASSUME NEW r \in U PROVE Owned(h, r) \subseteq U
        <3>1. CASE r = p
            BY <1>1, <3>1, ReachFacts
        <3>2. CASE r # p
            <4>1. PICK c \in Owned(h, p) : r \in Reach(h, c)
                BY <3>2
            <4>2. Owned(h, r) \subseteq Reach(h, c)
                BY <1>1, <4>1, ReachFacts DEF Closed
            <4> QED
                BY <4>2
        <3> QED
            BY <3>1, <3>2
    <2>3. Closed(h, U) /\ p \in U
        BY <2>2 DEF Closed
    <2> HIDE DEF U
    <2> QED
        BY <2>1, <2>3, ReachFacts
<1> QED
    BY <1>2, <1>3

\* What is reached but the first object is owned by something that is reached.
LEMMA ReachOwned ==
    ASSUME NEW h, Closed(h, DOMAIN h), NEW p \in DOMAIN h, NEW q \in Reach(h, p), q # p
    PROVE  \E r \in Reach(h, p) : q \in Owned(h, r)
<1> SUFFICES ASSUME \A r \in Reach(h, p) : q \notin Owned(h, r) PROVE FALSE
    OBVIOUS
<1>1. Closed(h, Reach(h, p) \ {q})
    BY ReachFacts DEF Closed
<1>2. Reach(h, p) \ {q} \in SUBSET DOMAIN h /\ p \in Reach(h, p) \ {q}
    BY ReachFacts
<1> QED
    BY <1>1, <1>2, ReachFacts

\* The function of Tree exists, and there is no other, since the heap is a forest.
TreeOf(h) ==
    CHOOSE t : t = [q \in DOMAIN h |-> {q} \cup UNION {t[c] : c \in Owned(h, q)}]

LEMMA TreeIsReach ==
    ASSUME NEW h, Closed(h, DOMAIN h), Founded(h), NEW p \in DOMAIN h, NULL \notin DOMAIN h
    PROVE  Tree(h, p) = Reach(h, p)
<1> DEFINE t == TreeOf(h)
           f == [q \in DOMAIN h |-> Reach(h, q)]
<1>1. f = [q \in DOMAIN h |-> {q} \cup UNION {f[c] : c \in Owned(h, q)}]
    <2>1. ASSUME NEW q \in DOMAIN h
          PROVE  f[q] = {q} \cup UNION {f[c] : c \in Owned(h, q)}
        <3>1. \A c \in Owned(h, q) : f[c] = Reach(h, c)
            BY DEF Closed
        <3>2. UNION {f[c] : c \in Owned(h, q)} = UNION {Reach(h, c) : c \in Owned(h, q)}
            BY <3>1
        <3> QED
            BY <3>2, ReachUnfolds
    <2> QED
        BY <2>1
<1>2. t = [q \in DOMAIN h |-> {q} \cup UNION {t[c] : c \in Owned(h, q)}]
    <2> HIDE DEF f
    <2> QED
        BY <1>1 DEF TreeOf
<1>3. \A q \in DOMAIN h : t[q] = {q} \cup UNION {t[c] : c \in Owned(h, q)}
    <2> HIDE DEF t
    <2> QED
        BY <1>2
<1> HIDE DEF t
<1>4. \A q \in DOMAIN h : t[q] = Reach(h, q)
    <2> DEFINE S == {q \in DOMAIN h : t[q] # Reach(h, q)}
    <2> SUFFICES ASSUME S # {} PROVE FALSE
        OBVIOUS
    <2>1. PICK m \in S : Owned(h, m) \cap S = {}
        BY DEF Founded
    <2>2. \A c \in Owned(h, m) : t[c] = Reach(h, c)
        BY <2>1 DEF Closed
    <2>3. UNION {t[c] : c \in Owned(h, m)} = UNION {Reach(h, c) : c \in Owned(h, m)}
        BY <2>2
    <2>4. t[m] = Reach(h, m)
        BY <1>3, <2>3, ReachUnfolds
    <2> QED
        BY <2>4
<1>5. Tree(h, p) = t[p]
    BY DEF Tree, TreeOf, t
<1> QED
    BY <1>4, <1>5

-----------------------------------------------------------------------------
(* What is freed *)

LEMMA FreedIs ==
    /\ IsObject(FREED) /\ IsComplete(FREED) /\ FREED.ptrs = <<>> /\ FREED.type = "FREED"
    /\ DOMAIN FREED.ptrs = {}
<1>1. FREED.ptrs = <<>> /\ FREED.type = "FREED" /\ FREED.data = NULL
    BY DEF FREED, Object
<1>2. FREED = Object(FREED.type, FREED.data, FREED.ptrs)
    BY <1>1 DEF FREED
<1> QED
    BY <1>1, <1>2, EmptyIs DEF IsObject, IsComplete

LEMMA ReleaseIs ==
    ASSUME NEW h, IsHeap(h), NEW T
    PROVE  /\ IsHeap(Release(h, T)) /\ Len(Release(h, T)) = Len(h)
           /\ DOMAIN Release(h, T) = DOMAIN h
           /\ \A q \in DOMAIN h : Release(h, T)[q] = IF q \in T THEN FREED ELSE h[q]
           /\ \A q \in DOMAIN h : Owned(Release(h, T), q) = IF q \in T THEN {} ELSE Owned(h, q)
           /\ Live(Release(h, T)) = Live(h) \ T
<1> DEFINE g == Release(h, T)
<1>1. DOMAIN h = 1 .. Len(h) /\ Len(h) \in Nat
    BY SeqIs DEF IsHeap, IsSeq
<1>2. DOMAIN g = DOMAIN h /\ \A q \in DOMAIN h : g[q] = IF q \in T THEN FREED ELSE h[q]
    BY DEF Release
<1>3. g = [q \in 1 .. Len(h) |-> g[q]]
    BY <1>1 DEF Release
<1>4. IsSeq(g) /\ Len(g) = Len(h)
    <2> HIDE DEF g
    <2> QED
        BY <1>1, <1>3, FcnSeq
<1>5. \A q \in DOMAIN h : IsObject(g[q])
    BY <1>2, FreedIs DEF IsHeap
<1>6. IsHeap(g)
    BY <1>2, <1>4, <1>5 DEF IsHeap
<1>7. \A q \in DOMAIN h : Owned(g, q) = IF q \in T THEN {} ELSE Owned(h, q)
    <2> HIDE DEF g
    <2> QED
        BY <1>2, FreedIs DEF Owned, ToSet
<1>8. Live(g) = Live(h) \ T
    <2> HIDE DEF g
    <2> QED
        BY <1>2 DEF Live
<1> QED
    BY <1>2, <1>4, <1>6, <1>7, <1>8

\* A whole tree is released: the other objects stay as they are.
LEMMA ReleaseTree ==
    ASSUME NEW h, Forest(h), NEW p \in Roots(h), NEW T \in SUBSET DOMAIN h,
           p \in T, Closed(h, T), \A q \in T \ {p} : \E r \in T : q \in Owned(h, r)
    PROVE  /\ Forest(Release(h, T)) /\ DOMAIN Release(h, T) = DOMAIN h
           /\ Roots(Release(h, T)) = Roots(h) \ {p}
           /\ \A q \in Roots(h) \ {p} : Release(h, T)[q] = h[q]
<1> DEFINE g == Release(h, T)
<1>0. IsHeap(h) /\ OwnedOnce(h) /\ Founded(h)
    BY DEF Forest
<1>1. /\ IsHeap(g) /\ DOMAIN g = DOMAIN h
      /\ \A q \in DOMAIN h : g[q] = IF q \in T THEN FREED ELSE h[q]
      /\ \A q \in DOMAIN h : Owned(g, q) = IF q \in T THEN {} ELSE Owned(h, q)
      /\ Live(g) = Live(h) \ T
    BY <1>0, ReleaseIs
<1> HIDE DEF g
\* An object has one owner.
<1>2. ASSUME NEW q \in DOMAIN h, NEW r \in DOMAIN h, NEW c \in Owned(h, q), c \in Owned(h, r)
      PROVE  q = r
    BY <1>0, <1>2 DEF OwnedOnce, Owned, ToSet
<1>3. ASSUME NEW q \in DOMAIN h, q \notin T PROVE Owned(h, q) \cap T = {}
    <2> SUFFICES ASSUME NEW c \in Owned(h, q), c \in T PROVE FALSE
        OBVIOUS
    <2>1. c # p
        BY DEF Roots
    <2>2. PICK r \in T : c \in Owned(h, r)
        BY <2>1
    <2> QED
        BY <1>2, <1>3, <2>2
<1>4. \A q \in DOMAIN g : Owned(g, q) \subseteq Live(g)
    BY <1>1, <1>3 DEF Forest
<1>5. OwnedOnce(g)
    <2>1. \A q \in DOMAIN g : g[q] = h[q] \/ DOMAIN g[q].ptrs = {}
        BY <1>1, FreedIs
    <2> QED
        BY <1>0, <1>1, <2>1 DEF OwnedOnce
<1>6. Founded(g)
    <2> SUFFICES ASSUME NEW S \in SUBSET DOMAIN g, S # {}
                 PROVE  \E q \in S : Owned(g, q) \cap S = {}
        BY DEF Founded
    <2>1. PICK q \in S : Owned(h, q) \cap S = {}
        BY <1>0, <1>1 DEF Founded
    <2> QED
        BY <1>1, <2>1
<1>7. \A q \in DOMAIN g : IsComplete(g[q])
    BY <1>1, FreedIs DEF Forest
<1>8. Forest(g)
    BY <1>1, <1>4, <1>5, <1>6, <1>7 DEF Forest
<1>9. Roots(g) = Roots(h) \ {p}
    <2>1. ASSUME NEW r \in Roots(g) PROVE r \in Roots(h) \ {p}
        <3>1. r \in Live(h) /\ r \notin T /\ \A q \in DOMAIN h : r \notin Owned(g, q)
            BY <1>1 DEF Roots
        <3>2. ASSUME NEW q \in DOMAIN h PROVE r \notin Owned(h, q)
            BY <1>1, <3>1 DEF Closed
        <3> QED
            BY <3>1, <3>2 DEF Roots
    <2>2. ASSUME NEW r \in Roots(h), r # p PROVE r \in Roots(g)
        <3>1. r \notin T
            BY <2>2 DEF Roots
        <3> QED
            BY <1>1, <3>1 DEF Roots
    <2> QED
        BY <2>1, <2>2
<1>10. \A q \in Roots(h) \ {p} : g[q] = h[q]
    BY <1>1 DEF Roots, Live
<1> QED
    BY <1>1, <1>8, <1>9, <1>10 DEF g

LEMMA ForestClosed ==
    ASSUME NEW h, Forest(h)
    PROVE  /\ Closed(h, DOMAIN h) /\ Founded(h) /\ NULL \notin DOMAIN h
           /\ DOMAIN h = 1 .. Len(h) /\ Len(h) \in Nat
<1>1. DOMAIN h = 1 .. Len(h) /\ Len(h) \in Nat
    BY SeqIs DEF Forest, IsHeap, IsSeq
<1>2. Closed(h, DOMAIN h)
    BY DEF Forest, Closed, Live
<1> QED
    BY <1>1, <1>2, HeapAssumption DEF Forest

\* What a function does to the roots of a heap: those in C are consumed.
Keeps(h, g, C) ==
    /\ Forest(g) /\ DOMAIN h \subseteq DOMAIN g
    /\ \A p \in Roots(h) \ C : p \in Roots(g) /\ g[p].type = h[p].type

\* ast_node_free of a root, or of NULL: that tree is freed, and nothing else.
LEMMA FreeIs ==
    ASSUME NEW h, Forest(h), NEW p \in Roots(h) \cup {NULL}
    PROVE  /\ Forest(AstNodeFree(h, p)) /\ DOMAIN AstNodeFree(h, p) = DOMAIN h
           /\ Roots(AstNodeFree(h, p)) = Roots(h) \ {p}
           /\ \A q \in Roots(h) \ {p} : AstNodeFree(h, p)[q] = h[q]
<1> USE ForestClosed
<1>1. CASE p = NULL
    <2>1. Tree(h, p) = {}
        BY <1>1 DEF Tree
    <2>2. AstNodeFree(h, p) = [q \in DOMAIN h |-> h[q]]
        BY <2>1 DEF AstNodeFree, Release
    <2>3. AstNodeFree(h, p) = h
        BY <2>2 DEF Forest, IsHeap, IsSeq
    <2> QED
        BY <1>1, <2>3 DEF Roots, Live
<1>2. CASE p \in Roots(h)
    <2>1. p \in DOMAIN h
        BY <1>2 DEF Roots, Live
    <2>2. Tree(h, p) = Reach(h, p)
        BY <2>1, TreeIsReach
    <2>3. Reach(h, p) \in SUBSET DOMAIN h /\ p \in Reach(h, p) /\ Closed(h, Reach(h, p))
        BY <2>1, ReachFacts
    <2>4. \A q \in Reach(h, p) \ {p} : \E r \in Reach(h, p) : q \in Owned(h, r)
        BY <2>1, ReachOwned
    <2> QED
        BY <1>2, <2>2, <2>3, <2>4, ReleaseTree DEF AstNodeFree
<1> QED
    BY <1>1, <1>2

\* A lexeme owns nothing.
LEMMA FreeLexeme ==
    ASSUME NEW h, Forest(h), NEW p \in Roots(h), h[p].type = "LEXEME"
    PROVE  /\ Forest(Release(h, {p})) /\ DOMAIN Release(h, {p}) = DOMAIN h
           /\ Roots(Release(h, {p})) = Roots(h) \ {p}
           /\ \A q \in Roots(h) \ {p} : Release(h, {p})[q] = h[q]
<1>1. p \in DOMAIN h
    BY DEF Roots, Live
<1>2. h[p].ptrs = <<>>
    BY <1>1 DEF Forest, IsComplete
<1>3. Owned(h, p) = {}
    BY <1>2, EmptyIs DEF Owned, ToSet
<1>4. Closed(h, {p}) /\ {p} \in SUBSET DOMAIN h
    BY <1>1, <1>3 DEF Closed
<1> QED
    BY <1>4, ReleaseTree

-----------------------------------------------------------------------------
(* What is made *)

LEMMA AllocIs ==
    ASSUME NEW h, Forest(h), NEW o, IsObject(o), IsComplete(o), o # FREED,
           \A i \in DOMAIN o.ptrs : o.ptrs[i] \in Roots(h) \cup {NULL},
           \A i, j \in DOMAIN o.ptrs : o.ptrs[i] = o.ptrs[j] /\ o.ptrs[i] # NULL => i = j
    PROVE  /\ Forest(Alloc(h, o)) /\ Len(h) + 1 \notin DOMAIN h
           /\ DOMAIN Alloc(h, o) = DOMAIN h \cup {Len(h) + 1}
           /\ Alloc(h, o)[Len(h) + 1] = o /\ \A q \in DOMAIN h : Alloc(h, o)[q] = h[q]
           /\ Roots(Alloc(h, o)) = (Roots(h) \ ToSet(o.ptrs)) \cup {Len(h) + 1}
<1> DEFINE g == Alloc(h, o)
           n == Len(h) + 1
<1>0. IsHeap(h) /\ IsSeq(h) /\ OwnedOnce(h) /\ Founded(h) /\ NULL \notin DOMAIN h
    BY ForestClosed DEF Forest, IsHeap
<1>1. DOMAIN h = 1 .. Len(h) /\ Len(h) \in Nat
    BY ForestClosed
<1>2. /\ IsSeq(g) /\ DOMAIN g = 1 .. Len(h) + 1
      /\ \A q \in 1 .. Len(h) : g[q] = h[q]
      /\ g[n] = o
    BY <1>0, AppendIs DEF Alloc
<1>3. DOMAIN g = DOMAIN h \cup {n} /\ n \notin DOMAIN h /\ n \in Nat
    BY <1>1, <1>2
<1>4. \A q \in DOMAIN h : g[q] = h[q]
    BY <1>1, <1>2
<1>5. g[n] = o
    BY <1>2
<1> HIDE DEF g, n
<1>6. IsHeap(g)
    BY <1>0, <1>2, <1>3, <1>4, <1>5 DEF IsHeap
<1>7. \A q \in DOMAIN h : Owned(g, q) = Owned(h, q)
    BY <1>4 DEF Owned
<1>8. Owned(g, n) = ToSet(o.ptrs) \ {NULL} /\ Owned(g, n) \subseteq Roots(h)
    BY <1>5 DEF Owned, ToSet
<1>9. Live(g) = Live(h) \cup {n}
    BY <1>3, <1>4, <1>5 DEF Live
<1>10. \A q \in DOMAIN g : Owned(g, q) \subseteq Live(g)
    BY <1>3, <1>7, <1>8, <1>9 DEF Forest, Roots
\* What the new object owns had no owner.
<1>11. OwnedOnce(g)
    <2>1. ASSUME NEW p \in DOMAIN h, NEW i \in DOMAIN g[p].ptrs, NEW j \in DOMAIN o.ptrs,
                 g[p].ptrs[i] = o.ptrs[j], o.ptrs[j] # NULL
          PROVE  FALSE
        <3>1. o.ptrs[j] \in Owned(h, p)
            BY <1>4, <2>1 DEF Owned, ToSet
        <3>2. o.ptrs[j] \in Roots(h)
            BY <2>1
        <3> QED
            BY <3>1, <3>2 DEF Roots
    <2>2. SUFFICES ASSUME NEW p \in DOMAIN g, NEW q \in DOMAIN g,
                          NEW i \in DOMAIN g[p].ptrs, NEW j \in DOMAIN g[q].ptrs,
                          g[p].ptrs[i] = g[q].ptrs[j], g[p].ptrs[i] # NULL
                   PROVE  p = q /\ i = j
        BY DEF OwnedOnce
    <2>3. CASE p = n /\ q = n
        BY <1>5, <2>2, <2>3
    <2>4. CASE p = n /\ q # n
        BY <1>3, <1>5, <2>1, <2>2, <2>4
    <2>5. CASE p # n /\ q = n
        BY <1>3, <1>5, <2>1, <2>2, <2>5
    <2>6. CASE p # n /\ q # n
        BY <1>0, <1>3, <1>4, <2>2, <2>6 DEF OwnedOnce
    <2> QED
        BY <2>3, <2>4, <2>5, <2>6
<1>12. Founded(g)
    <2> SUFFICES ASSUME NEW S \in SUBSET DOMAIN g, S # {}
                 PROVE  \E q \in S : Owned(g, q) \cap S = {}
        BY DEF Founded
    <2>1. CASE S = {n}
        BY <1>3, <1>8, <2>1 DEF Roots, Live
    <2>2. CASE S # {n}
        <3>1. S \ {n} \in SUBSET DOMAIN h /\ S \ {n} # {}
            BY <1>3, <2>2
        <3>2. PICK q \in S \ {n} : Owned(h, q) \cap (S \ {n}) = {}
            BY <1>0, <3>1 DEF Founded
        <3>3. n \notin Owned(h, q)
            BY <1>3, <3>1 DEF Forest, Live
        <3> QED
            BY <1>7, <3>1, <3>2, <3>3
    <2> QED
        BY <2>1, <2>2
<1>13. \A q \in DOMAIN g : IsComplete(g[q])
    BY <1>3, <1>4, <1>5 DEF Forest
<1>14. Forest(g)
    BY <1>6, <1>10, <1>11, <1>12, <1>13 DEF Forest
<1>15. Roots(g) = (Roots(h) \ ToSet(o.ptrs)) \cup {n}
    <2>1. \A q \in DOMAIN g : n \notin Owned(g, q)
        BY <1>3, <1>7, <1>8 DEF Forest, Live, Roots
    <2>2. \A r \in Roots(h) : r \in Roots(g) <=> r \notin Owned(g, n)
        BY <1>3, <1>7, <1>9 DEF Roots
    <2>3. \A r \in Roots(g) : r # n => r \in Roots(h)
        BY <1>3, <1>7, <1>9 DEF Roots
    <2>4. NULL \notin Roots(h)
        BY <1>0 DEF Roots, Live
    <2>5. n \in Roots(g)
        BY <1>9, <2>1 DEF Roots
    <2> QED
        BY <1>3, <1>8, <2>2, <2>3, <2>4, <2>5
<1> QED
    BY <1>3, <1>4, <1>5, <1>14, <1>15 DEF g, n

\* What a constructor yields: it owns what it is given (C), which is then part of the
\* new object or freed; what it returns is a new object, or it was given, or NULL.
Yields(h, new, C) ==
    /\ Keeps(h, new.heap, C)
    /\ Roots(new.heap) \subseteq (Roots(h) \ C) \cup {new.ptr}
    /\ new.ptr \in Roots(new.heap) \cup {NULL}
    /\ new.ptr \in C \cup {NULL} \cup (DOMAIN new.heap \ DOMAIN h)

LEMMA NewYields ==
    ASSUME NEW h, Forest(h), NEW o, IsObject(o), IsComplete(o), o # FREED,
           \A i \in DOMAIN o.ptrs : o.ptrs[i] \in Roots(h) \cup {NULL},
           \A i, j \in DOMAIN o.ptrs : o.ptrs[i] = o.ptrs[j] /\ o.ptrs[i] # NULL => i = j
    PROVE  /\ Yields(h, New(h, o), ToSet(o.ptrs))
           /\ New(h, o).ptr \in DOMAIN New(h, o).heap
           /\ New(h, o).heap[New(h, o).ptr] = o
<1>1. New(h, o).heap = Alloc(h, o) /\ New(h, o).ptr = Len(h) + 1
    BY DEF New
<1>2. /\ Forest(Alloc(h, o)) /\ Len(h) + 1 \notin DOMAIN h
      /\ DOMAIN Alloc(h, o) = DOMAIN h \cup {Len(h) + 1}
      /\ Alloc(h, o)[Len(h) + 1] = o /\ \A q \in DOMAIN h : Alloc(h, o)[q] = h[q]
      /\ Roots(Alloc(h, o)) = (Roots(h) \ ToSet(o.ptrs)) \cup {Len(h) + 1}
    BY AllocIs
<1>3. Roots(h) \subseteq DOMAIN h
    BY DEF Roots, Live
<1>4. Keeps(h, Alloc(h, o), ToSet(o.ptrs))
    BY <1>2, <1>3 DEF Keeps
<1> QED
    BY <1>1, <1>2, <1>4 DEF Yields

LEMMA NothingYields ==
    ASSUME NEW h, NEW g, Forest(g), NEW C, DOMAIN h \subseteq DOMAIN g,
           Roots(g) = Roots(h) \ C, \A q \in Roots(h) \ C : g[q] = h[q]
    PROVE  Yields(h, Nothing(g), C)
<1>1. Nothing(g).heap = g /\ Nothing(g).ptr = NULL
    BY DEF Nothing
<1> QED
    BY <1>1 DEF Yields, Keeps

\* One function, and another that is given what the first one returned.
LEMMA YieldsThen ==
    ASSUME NEW h, NEW a, NEW C, Yields(h, a, C),
           NEW b, NEW D, Yields(a.heap, b, D), D \subseteq {a.ptr, NULL},
           NULL \notin DOMAIN a.heap, a.ptr \in D \/ a.ptr = NULL
    PROVE  Yields(h, b, C)
<1>1. Roots(h) \subseteq DOMAIN h /\ Roots(a.heap) \subseteq DOMAIN a.heap
    BY DEF Roots, Live
<1>2. DOMAIN h \subseteq DOMAIN a.heap /\ DOMAIN a.heap \subseteq DOMAIN b.heap
    BY DEF Yields, Keeps
<1>3. ASSUME NEW p \in Roots(h) \ C
      PROVE  p \in Roots(b.heap) /\ b.heap[p].type = h[p].type
    <2>1. p \in Roots(a.heap) /\ a.heap[p].type = h[p].type
        BY <1>3 DEF Yields, Keeps
    <2>2. p # a.ptr /\ p # NULL
        BY <1>1, <1>2, <1>3 DEF Yields
    <2> QED
        BY <2>1, <2>2 DEF Yields, Keeps
<1>4. Keeps(h, b.heap, C)
    BY <1>2, <1>3 DEF Yields, Keeps
<1>5. Roots(b.heap) \subseteq (Roots(h) \ C) \cup {b.ptr}
    BY <1>1 DEF Yields
<1>6. b.ptr \in C \cup {NULL} \cup (DOMAIN b.heap \ DOMAIN h)
    BY <1>2 DEF Yields
<1> QED
    BY <1>4, <1>5, <1>6 DEF Yields

LEMMA ObjectIs ==
    ASSUME NEW type, NEW data, NEW ptrs, IsSeq(ptrs)
    PROVE  /\ IsObject(Object(type, data, ptrs))
           /\ Object(type, data, ptrs).type = type /\ Object(type, data, ptrs).ptrs = ptrs
           /\ type # "FREED" => Object(type, data, ptrs) # FREED
<1> DEFINE o == Object(type, data, ptrs)
<1>1. o.type = type /\ o.data = data /\ o.ptrs = ptrs
    BY DEF Object
<1>2. o = Object(o.type, o.data, o.ptrs)
    BY <1>1
<1> HIDE DEF o
<1>3. IsObject(o)
    BY <1>1, <1>2 DEF IsObject
<1>4. type # "FREED" => o # FREED
    BY <1>1, FreedIs
<1> QED
    BY <1>1, <1>3, <1>4 DEF o

LEMMA Tuple1 ==
    ASSUME NEW a
    PROVE  /\ IsSeq(<<a>>) /\ DOMAIN <<a>> = {1} /\ Len(<<a>>) = 1
           /\ <<a>>[1] = a /\ ToSet(<<a>>) = {a}
<1>1. <<a>> \in Seq({a}) /\ DOMAIN <<a>> = {1}
    OBVIOUS
<1>2. IsSeq(<<a>>)
    <2>1. <<a>> \in Seq({a})
        OBVIOUS
    <2> QED
        BY ONLY <2>1, SeqIsSeq
<1>3. <<a>>[1] = a
    OBVIOUS
<1>4. ToSet(<<a>>) = {a}
    BY ONLY <1>1, <1>3 DEF ToSet
<1> QED
    BY <1>1, <1>2, <1>3, <1>4

LEMMA Tuple2 ==
    ASSUME NEW a, NEW b
    PROVE  /\ IsSeq(<<a, b>>) /\ DOMAIN <<a, b>> = {1, 2}
           /\ <<a, b>>[1] = a /\ <<a, b>>[2] = b /\ ToSet(<<a, b>>) = {a, b}
<1>1. <<a, b>> \in Seq({a, b}) /\ DOMAIN <<a, b>> = {1, 2}
    OBVIOUS
<1>2. IsSeq(<<a, b>>)
    <2>1. <<a, b>> \in Seq({a, b})
        OBVIOUS
    <2> QED
        BY ONLY <2>1, SeqIsSeq
<1>3. <<a, b>>[1] = a /\ <<a, b>>[2] = b
    OBVIOUS
<1>4. ToSet(<<a, b>>) = {a, b}
    BY ONLY <1>1, <1>3 DEF ToSet
<1> QED
    BY <1>1, <1>2, <1>3, <1>4

LEMMA Tuple3 ==
    ASSUME NEW a, NEW b, NEW c
    PROVE  /\ IsSeq(<<a, b, c>>) /\ DOMAIN <<a, b, c>> = {1, 2, 3}
           /\ <<a, b, c>>[1] = a /\ <<a, b, c>>[2] = b /\ <<a, b, c>>[3] = c
           /\ ToSet(<<a, b, c>>) = {a, b, c}
<1>1. <<a, b, c>> \in Seq({a, b, c}) /\ DOMAIN <<a, b, c>> = {1, 2, 3}
    OBVIOUS
<1>2. IsSeq(<<a, b, c>>)
    <2>1. <<a, b, c>> \in Seq({a, b, c})
        OBVIOUS
    <2> QED
        BY ONLY <2>1, SeqIsSeq
<1>3. <<a, b, c>>[1] = a /\ <<a, b, c>>[2] = b /\ <<a, b, c>>[3] = c
    OBVIOUS
<1>4. ToSet(<<a, b, c>>) = {a, b, c}
    BY ONLY <1>1, <1>3 DEF ToSet
<1> QED
    BY <1>1, <1>2, <1>3, <1>4

-----------------------------------------------------------------------------
(* The constructors own what they are given. *)

LEMMA LexemeYields ==
    ASSUME NEW h, Forest(h), NEW text
    PROVE  LET new == New(h, Lexeme(text))
           IN /\ Yields(h, new, {}) /\ new.ptr \in DOMAIN new.heap
              /\ new.heap[new.ptr].type = "LEXEME"
<1> DEFINE o == Lexeme(text)
<1>1. IsObject(o) /\ o.type = "LEXEME" /\ o.ptrs = <<>> /\ o # FREED
    BY EmptyIs, ObjectIs DEF Lexeme
<1>2. DOMAIN o.ptrs = {} /\ ToSet(o.ptrs) = {}
    BY <1>1, EmptyIs DEF ToSet
<1>3. IsComplete(o)
    BY <1>1, <1>2 DEF IsComplete
<1> HIDE DEF o
<1>4. Yields(h, New(h, o), ToSet(o.ptrs)) /\ New(h, o).ptr \in DOMAIN New(h, o).heap
      /\ New(h, o).heap[New(h, o).ptr] = o
    BY <1>1, <1>2, <1>3, NewYields
<1> QED
    BY <1>1, <1>2, <1>4 DEF o

LEMMA IdYields ==
    ASSUME NEW h, Forest(h), NEW id \in Roots(h)
    PROVE  Yields(h, IdExprNodeCreate(h, id), {id})
<1> DEFINE o == Object("ID_EXPR", NULL, <<id>>)
<1>0. id # NULL
    BY ForestClosed DEF Roots, Live
<1>1. IsObject(o) /\ o.type = "ID_EXPR" /\ o.ptrs = <<id>> /\ o # FREED
    BY Tuple1, ObjectIs
<1>2. IsComplete(o)
    BY <1>0, <1>1, Tuple1 DEF IsComplete
<1> HIDE DEF o
<1>3. /\ \A i \in DOMAIN o.ptrs : o.ptrs[i] \in Roots(h) \cup {NULL}
      /\ \A i, j \in DOMAIN o.ptrs : o.ptrs[i] = o.ptrs[j] /\ o.ptrs[i] # NULL => i = j
    BY <1>1, Tuple1
<1>4. Yields(h, New(h, o), ToSet(o.ptrs))
    BY <1>1, <1>2, <1>3, NewYields
<1> QED
    BY <1>1, <1>4, Tuple1 DEF o, IdExprNodeCreate

LEMMA ConstYields ==
    ASSUME NEW h, Forest(h), NEW lexeme \in Roots(h), h[lexeme].type = "LEXEME"
    PROVE  Yields(h, ConstExprNodeCreate(h, lexeme), {lexeme})
<1> DEFINE g == Release(h, {lexeme})
           o == Object("CONST_EXPR", h[lexeme].data, <<>>)
<1>1. /\ Forest(g) /\ DOMAIN g = DOMAIN h /\ Roots(g) = Roots(h) \ {lexeme}
      /\ \A q \in Roots(h) \ {lexeme} : g[q] = h[q]
    BY FreeLexeme
<1>2. IsObject(o) /\ o.type = "CONST_EXPR" /\ o.ptrs = <<>> /\ o # FREED
    BY EmptyIs, ObjectIs
<1>3. DOMAIN o.ptrs = {} /\ ToSet(o.ptrs) = {}
    BY <1>2, EmptyIs DEF ToSet
<1>4. IsComplete(o)
    BY <1>2, <1>3 DEF IsComplete
<1> HIDE DEF g, o
<1>5. Yields(g, New(g, o), {})
    BY <1>1, <1>2, <1>3, <1>4, NewYields
<1>6. Yields(h, New(g, o), {lexeme})
    BY <1>1, <1>5 DEF Yields, Keeps
<1> QED
    BY <1>6 DEF ConstExprNodeCreate, g, o

\* Two arguments are not the same object.
Differ(a, b) == a = NULL \/ a # b

LEMMA Free2 ==
    ASSUME NEW h, Forest(h), NEW a \in Roots(h) \cup {NULL}, NEW b \in Roots(h) \cup {NULL},
           Differ(a, b)
    PROVE  Yields(h, Nothing(AstNodeFree(AstNodeFree(h, a), b)), {a, b})
<1> DEFINE g == AstNodeFree(h, a)
<1>1. /\ Forest(g) /\ DOMAIN g = DOMAIN h /\ Roots(g) = Roots(h) \ {a}
      /\ \A q \in Roots(h) \ {a} : g[q] = h[q]
    BY FreeIs
<1>2. b \in Roots(g) \cup {NULL}
    BY <1>1 DEF Differ
<1> HIDE DEF g
<1>3. /\ Forest(AstNodeFree(g, b)) /\ DOMAIN AstNodeFree(g, b) = DOMAIN g
      /\ Roots(AstNodeFree(g, b)) = Roots(g) \ {b}
      /\ \A q \in Roots(g) \ {b} : AstNodeFree(g, b)[q] = g[q]
    BY <1>1, <1>2, FreeIs
<1>4. Yields(h, Nothing(AstNodeFree(g, b)), {a, b})
    BY <1>1, <1>3, NothingYields
<1> QED
    BY <1>4 DEF g

LEMMA BinopYields ==
    ASSUME NEW h, Forest(h), NEW op, NEW lhs \in Roots(h) \cup {NULL},
           NEW rhs \in Roots(h) \cup {NULL}, Differ(lhs, rhs)
    PROVE  Yields(h, BinopExprNodeCreate(h, op, lhs, rhs), {lhs, rhs})
<1>1. CASE lhs = NULL \/ rhs = NULL
    BY <1>1, Free2 DEF BinopExprNodeCreate
<1>2. CASE lhs # NULL /\ rhs # NULL
    <2> DEFINE o == Object("BINOP_EXPR", op, <<lhs, rhs>>)
    <2>1. IsObject(o) /\ o.type = "BINOP_EXPR" /\ o.ptrs = <<lhs, rhs>> /\ o # FREED
        BY Tuple2, ObjectIs
    <2>2. IsComplete(o)
        BY <1>2, <2>1, Tuple2 DEF IsComplete
    <2> HIDE DEF o
    <2>3. /\ \A i \in DOMAIN o.ptrs : o.ptrs[i] \in Roots(h) \cup {NULL}
          /\ \A i, j \in DOMAIN o.ptrs : o.ptrs[i] = o.ptrs[j] /\ o.ptrs[i] # NULL => i = j
        BY <1>2, <2>1, Tuple2 DEF Differ
    <2>4. Yields(h, New(h, o), ToSet(o.ptrs))
        BY <2>1, <2>2, <2>3, NewYields
    <2> QED
        BY <1>2, <2>1, <2>4, Tuple2 DEF o, BinopExprNodeCreate
<1> QED
    BY <1>1, <1>2

LEMMA AssignYields ==
    ASSUME NEW h, Forest(h), NEW lhs \in Roots(h), h[lhs].type = "LEXEME",
           NEW rhs \in Roots(h) \cup {NULL}, lhs # rhs
    PROVE  Yields(h, AssignStmtNodeCreate(h, lhs, rhs), {lhs, rhs})
<1>0. lhs # NULL /\ NULL \notin Roots(h)
    BY ForestClosed DEF Roots, Live
<1>1. CASE rhs = NULL
    <2> DEFINE g == Release(h, {lhs})
    <2>1. /\ Forest(g) /\ DOMAIN g = DOMAIN h /\ Roots(g) = Roots(h) \ {lhs}
          /\ \A q \in Roots(h) \ {lhs} : g[q] = h[q]
        BY FreeLexeme
    <2>2. Roots(h) \ {lhs} = Roots(h) \ {lhs, rhs}
        BY <1>0, <1>1
    <2> HIDE DEF g
    <2>3. Yields(h, Nothing(g), {lhs, rhs})
        BY <2>1, <2>2, NothingYields
    <2> QED
        BY <1>1, <2>3 DEF AssignStmtNodeCreate, g
<1>2. CASE rhs # NULL
    <2> DEFINE o == Object("ASSIGN_STMT", NULL, <<lhs, rhs>>)
    <2>1. IsObject(o) /\ o.type = "ASSIGN_STMT" /\ o.ptrs = <<lhs, rhs>> /\ o # FREED
        BY Tuple2, ObjectIs
    <2>2. IsComplete(o)
        BY <1>0, <1>2, <2>1, Tuple2 DEF IsComplete
    <2> HIDE DEF o
    <2>3. /\ \A i \in DOMAIN o.ptrs : o.ptrs[i] \in Roots(h) \cup {NULL}
          /\ \A i, j \in DOMAIN o.ptrs : o.ptrs[i] = o.ptrs[j] /\ o.ptrs[i] # NULL => i = j
        BY <1>2, <2>1, Tuple2
    <2>4. Yields(h, New(h, o), ToSet(o.ptrs))
        BY <2>1, <2>2, <2>3, NewYields
    <2> QED
        BY <1>2, <2>1, <2>4, Tuple2 DEF o, AssignStmtNodeCreate
<1> QED
    BY <1>1, <1>2

LEMMA IfYields ==
    ASSUME NEW h, Forest(h), NEW condition \in Roots(h) \cup {NULL}, NEW if_block \in Roots(h),
           NEW else_block \in Roots(h) \cup {NULL},
           condition # if_block, else_block # if_block, Differ(condition, else_block)
    PROVE  Yields(h, IfStmtNodeCreate(h, condition, if_block, else_block),
                  {condition, if_block, else_block})
<1>0. if_block # NULL /\ NULL \notin Roots(h)
    BY ForestClosed DEF Roots, Live
<1>1. CASE condition = NULL
    <2>1. Differ(if_block, else_block)
        BY DEF Differ
    <2>2. Yields(h, Nothing(AstNodeFree(AstNodeFree(h, if_block), else_block)),
                 {if_block, else_block})
        BY <2>1, Free2
    <2>3. Yields(h, Nothing(AstNodeFree(AstNodeFree(h, if_block), else_block)),
                 {condition, if_block, else_block})
        BY <1>0, <1>1, <2>2 DEF Yields, Keeps
    <2> QED
        BY <1>1, <2>3 DEF IfStmtNodeCreate
<1>2. CASE condition # NULL
    <2> DEFINE o == Object("IF_STMT", NULL, <<condition, if_block, else_block>>)
    <2>1. /\ IsObject(o) /\ o.type = "IF_STMT" /\ o # FREED
          /\ o.ptrs = <<condition, if_block, else_block>>
        BY Tuple3, ObjectIs
    <2>2. IsComplete(o)
        BY <1>0, <1>2, <2>1, Tuple3 DEF IsComplete
    <2> HIDE DEF o
    <2>3. /\ \A i \in DOMAIN o.ptrs : o.ptrs[i] \in Roots(h) \cup {NULL}
          /\ \A i, j \in DOMAIN o.ptrs : o.ptrs[i] = o.ptrs[j] /\ o.ptrs[i] # NULL => i = j
        BY <1>2, <2>1, Tuple3 DEF Differ
    <2>4. Yields(h, New(h, o), ToSet(o.ptrs))
        BY <2>1, <2>2, <2>3, NewYields
    <2> QED
        BY <1>2, <2>1, <2>4, Tuple3 DEF o, IfStmtNodeCreate
<1> QED
    BY <1>1, <1>2

LEMMA WhileYields ==
    ASSUME NEW h, Forest(h), NEW condition \in Roots(h) \cup {NULL}, NEW block \in Roots(h),
           condition # block
    PROVE  Yields(h, WhileStmtNodeCreate(h, condition, block), {condition, block})
<1>0. block # NULL /\ NULL \notin Roots(h)
    BY ForestClosed DEF Roots, Live
<1>1. CASE condition = NULL
    <2> DEFINE g == AstNodeFree(h, block)
    <2>1. /\ Forest(g) /\ DOMAIN g = DOMAIN h /\ Roots(g) = Roots(h) \ {block}
          /\ \A q \in Roots(h) \ {block} : g[q] = h[q]
        BY FreeIs
    <2>2. Roots(h) \ {block} = Roots(h) \ {condition, block}
        BY <1>0, <1>1
    <2> HIDE DEF g
    <2>3. Yields(h, Nothing(g), {condition, block})
        BY <2>1, <2>2, NothingYields
    <2> QED
        BY <1>1, <2>3 DEF WhileStmtNodeCreate, g
<1>2. CASE condition # NULL
    <2> DEFINE o == Object("WHILE_STMT", NULL, <<condition, block>>)
    <2>1. IsObject(o) /\ o.type = "WHILE_STMT" /\ o.ptrs = <<condition, block>> /\ o # FREED
        BY Tuple2, ObjectIs
    <2>2. IsComplete(o)
        BY <1>0, <1>2, <2>1, Tuple2 DEF IsComplete
    <2> HIDE DEF o
    <2>3. /\ \A i \in DOMAIN o.ptrs : o.ptrs[i] \in Roots(h) \cup {NULL}
          /\ \A i, j \in DOMAIN o.ptrs : o.ptrs[i] = o.ptrs[j] /\ o.ptrs[i] # NULL => i = j
        BY <1>2, <2>1, Tuple2
    <2>4. Yields(h, New(h, o), ToSet(o.ptrs))
        BY <2>1, <2>2, <2>3, NewYields
    <2> QED
        BY <1>2, <2>1, <2>4, Tuple2 DEF o, WhileStmtNodeCreate
<1> QED
    BY <1>1, <1>2

LEMMA BreakYields ==
    ASSUME NEW h, Forest(h)
    PROVE  Yields(h, BreakStmtNodeCreate(h), {})
<1> DEFINE o == Object("BREAK_STMT", NULL, <<>>)
<1>1. IsObject(o) /\ o.type = "BREAK_STMT" /\ o.ptrs = <<>> /\ o # FREED
    BY EmptyIs, ObjectIs
<1>2. DOMAIN o.ptrs = {} /\ ToSet(o.ptrs) = {}
    BY <1>1, EmptyIs DEF ToSet
<1>3. IsComplete(o)
    BY <1>1, <1>2 DEF IsComplete
<1> HIDE DEF o
<1>4. Yields(h, New(h, o), ToSet(o.ptrs))
    BY <1>1, <1>2, <1>3, NewYields
<1> QED
    BY <1>2, <1>4 DEF o, BreakStmtNodeCreate

\* A new block has its first statement, if there is one.
LEMMA BlockYields ==
    ASSUME NEW h, Forest(h), NEW first_stmt \in Roots(h) \cup {NULL}
    PROVE  LET new == BlockNodeCreate(h, first_stmt)
           IN /\ Yields(h, new, {first_stmt}) /\ new.ptr \in DOMAIN new.heap
              /\ new.heap[new.ptr].type = "BLOCK"
<1> DEFINE ptrs == IF first_stmt = NULL THEN <<>> ELSE <<first_stmt>>
           o == Object("BLOCK", NULL, ptrs)
<1>0. NULL \notin Roots(h)
    BY ForestClosed DEF Roots, Live
<1>1. /\ IsSeq(ptrs) /\ Len(ptrs) \in {0, 1} /\ ToSet(ptrs) = {first_stmt} \ {NULL}
      /\ DOMAIN ptrs \subseteq {1} /\ \A i \in DOMAIN ptrs : ptrs[i] = first_stmt /\ ptrs[i] # NULL
    <2>1. CASE first_stmt = NULL
        BY <2>1, EmptyIs DEF ToSet
    <2>2. CASE first_stmt # NULL
        BY <2>2, Tuple1
    <2> QED
        BY <2>1, <2>2
<1> HIDE DEF ptrs
<1>2. IsObject(o) /\ o.type = "BLOCK" /\ o.ptrs = ptrs /\ o # FREED
    BY <1>1, ObjectIs
<1>3. IsComplete(o)
    <2>1. Len(ptrs) <= AST_NODE_MAX_CHILDREN
        BY <1>1, HeapAssumption
    <2> QED
        BY <1>1, <1>2, <2>1 DEF IsComplete
<1> HIDE DEF o
<1>4. /\ \A i \in DOMAIN o.ptrs : o.ptrs[i] \in Roots(h) \cup {NULL}
      /\ \A i, j \in DOMAIN o.ptrs : o.ptrs[i] = o.ptrs[j] /\ o.ptrs[i] # NULL => i = j
    BY <1>1, <1>2
<1>5. /\ Yields(h, New(h, o), ToSet(o.ptrs)) /\ New(h, o).ptr \in DOMAIN New(h, o).heap
      /\ New(h, o).heap[New(h, o).ptr] = o
    BY <1>2, <1>3, <1>4, NewYields
<1>6. Yields(h, New(h, o), {first_stmt})
    BY <1>0, <1>1, <1>2, <1>5 DEF Yields, Keeps
<1>7. BlockNodeCreate(h, first_stmt) = New(h, o)
    BY DEF BlockNodeCreate, o, ptrs
<1> QED
    BY <1>2, <1>5, <1>6, <1>7

\* A block that has room takes a statement; only its own list changes.
LEMMA AppendIsKept ==
    ASSUME NEW h, Forest(h), NEW block \in Roots(h), h[block].type = "BLOCK",
           ~IsFull(h, block), NEW stmt \in Roots(h) \cup {NULL}, stmt # block
    PROVE  /\ Keeps(h, BlockNodeAppendStmt(h, block, stmt), {stmt})
           /\ Roots(BlockNodeAppendStmt(h, block, stmt)) = Roots(h) \ {stmt}
<1> DEFINE g == BlockNodeAppendStmt(h, block, stmt)
<1>0. NULL \notin Roots(h) /\ block \in DOMAIN h
    BY ForestClosed DEF Roots, Live
<1>1. CASE stmt = NULL
    BY <1>0, <1>1 DEF BlockNodeAppendStmt, Keeps
<1>2. CASE stmt # NULL
    <2> DEFINE s == h[block].ptrs
               ps == Append(s, stmt)
               o == Object("BLOCK", h[block].data, ps)
    <2>1. /\ IsHeap(h) /\ OwnedOnce(h) /\ Founded(h) /\ IsObject(h[block]) /\ IsSeq(s)
          /\ DOMAIN h = 1 .. Len(h) /\ Len(h) \in Nat
        BY <1>0, ForestClosed DEF Forest, IsHeap, IsObject
    <2>2. /\ IsSeq(ps) /\ Len(ps) = Len(s) + 1
          /\ DOMAIN s = 1 .. Len(s) /\ DOMAIN ps = 1 .. Len(s) + 1
          /\ \A i \in 1 .. Len(s) : ps[i] = s[i]
          /\ ps[Len(s) + 1] = stmt /\ Len(s) \in Nat
        BY <2>1, AppendIs, SeqIs DEF IsSeq
    <2>3. g = [h EXCEPT ![block] = o]
        <3>1. h[block] = [type |-> "BLOCK", data |-> h[block].data, ptrs |-> s]
            BY <2>1 DEF IsObject, Object
        <3>2. [h[block] EXCEPT !.ptrs = ps] = o
            BY <3>1 DEF Object
        <3>3. g = [h EXCEPT ![block] = [h[block] EXCEPT !.ptrs = ps]]
            BY <1>2 DEF BlockNodeAppendStmt
        <3> QED
            BY <3>2, <3>3
    <2> HIDE DEF ps
    <2>4. IsObject(o) /\ o.type = "BLOCK" /\ o.ptrs = ps /\ o # FREED
        BY <2>2, ObjectIs
    <2> HIDE DEF g, o
    <2>5. /\ DOMAIN g = DOMAIN h /\ g[block] = o
          /\ \A q \in DOMAIN h \ {block} : g[q] = h[q]
        BY <1>0, <2>1, <2>3
    <2>6. g = [q \in 1 .. Len(h) |-> g[q]]
        BY <2>1, <2>3
    <2>7. IsSeq(g)
        BY <2>1, <2>6, FcnSeq
    <2>8. IsHeap(g)
        BY <2>1, <2>4, <2>5, <2>7 DEF IsHeap
    <2>9. \A q \in DOMAIN h \ {block} : Owned(g, q) = Owned(h, q)
        BY <2>5 DEF Owned
    <2>10. Owned(g, block) = Owned(h, block) \cup {stmt}
        <3>1. Owned(g, block) = {ps[i] : i \in 1 .. Len(s) + 1} \ {NULL}
            BY <2>2, <2>4, <2>5 DEF Owned, ToSet
        <3>2. Owned(h, block) = {s[i] : i \in 1 .. Len(s)} \ {NULL}
            BY <2>2 DEF Owned, ToSet
        <3>3. {ps[i] : i \in 1 .. Len(s) + 1} = {s[i] : i \in 1 .. Len(s)} \cup {stmt}
            <4>1. \A i \in 1 .. Len(s) + 1 : i \in 1 .. Len(s) \/ i = Len(s) + 1
                BY <2>2
            <4>2. \A i \in 1 .. Len(s) : i \in 1 .. Len(s) + 1
                BY <2>2
            <4>3. Len(s) + 1 \in 1 .. Len(s) + 1
                BY <2>2
            <4> QED
                BY <2>2, <4>1, <4>2, <4>3
        <3> QED
            BY <1>2, <3>1, <3>2, <3>3
    <2>11. Live(g) = Live(h)
        <3>1. block \in Live(h)
            BY DEF Roots
        <3> QED
            BY <2>4, <2>5, <3>1 DEF Live
    <2>12. stmt \in Roots(h) /\ stmt \in Live(h)
        BY <1>2 DEF Roots
    <2>13. \A q \in DOMAIN g : Owned(g, q) \subseteq Live(g)
        BY <1>0, <2>5, <2>9, <2>10, <2>11, <2>12 DEF Forest
    \* The statement had no owner.
    <2>14. \A q \in DOMAIN h : \A i \in DOMAIN h[q].ptrs : h[q].ptrs[i] # stmt
        BY <1>2, <2>12 DEF Roots, Owned, ToSet
    <2>15. OwnedOnce(g)
        <3> SUFFICES ASSUME NEW p \in DOMAIN g, NEW q \in DOMAIN g,
                            NEW i \in DOMAIN g[p].ptrs, NEW j \in DOMAIN g[q].ptrs,
                            g[p].ptrs[i] = g[q].ptrs[j], g[p].ptrs[i] # NULL
                     PROVE  p = q /\ i = j
            BY DEF OwnedOnce
        <3>1. \A r \in DOMAIN g : \A k \in DOMAIN g[r].ptrs :
                 \/ k \in DOMAIN h[r].ptrs /\ g[r].ptrs[k] = h[r].ptrs[k]
                 \/ r = block /\ k = Len(s) + 1 /\ g[r].ptrs[k] = stmt
            <4> TAKE r \in DOMAIN g
            <4> TAKE k \in DOMAIN g[r].ptrs
            <4>1. CASE r = block
                <5>1. k \in 1 .. Len(s) + 1 /\ g[r].ptrs = ps
                    BY <2>2, <2>4, <2>5, <4>1
                <5>2. k \in 1 .. Len(s) \/ k = Len(s) + 1
                    BY <2>2, <5>1
                <5> QED
                    BY <2>2, <4>1, <5>1, <5>2
            <4>2. CASE r # block
                BY <2>5, <4>2
            <4> QED
                BY <4>1, <4>2
        <3>2. CASE g[p].ptrs[i] = stmt
            <4>1. \A r \in DOMAIN g : \A k \in DOMAIN g[r].ptrs :
                     g[r].ptrs[k] = stmt => r = block /\ k = Len(s) + 1
                BY <2>5, <2>14, <3>1
            <4> QED
                BY <3>2, <4>1
        <3>3. CASE g[p].ptrs[i] # stmt
            BY <2>1, <2>5, <3>1, <3>3 DEF OwnedOnce
        <3> QED
            BY <3>2, <3>3
    <2>16. Founded(g)
        <3> SUFFICES ASSUME NEW S \in SUBSET DOMAIN g, S # {}
                     PROVE  \E q \in S : Owned(g, q) \cap S = {}
            BY DEF Founded
        <3>1. \A q \in DOMAIN h : block \notin Owned(h, q)
            BY DEF Roots
        <3>2. CASE S = {block}
            BY <1>0, <2>10, <3>1, <3>2
        <3>3. CASE S # {block}
            <4>1. S \ {block} \in SUBSET DOMAIN h /\ S \ {block} # {}
                BY <2>5, <3>3
            <4>2. PICK q \in S \ {block} : Owned(h, q) \cap (S \ {block}) = {}
                BY <2>1, <4>1 DEF Founded
            <4> QED
                BY <2>9, <3>1, <4>1, <4>2
        <3> QED
            BY <3>2, <3>3
    <2>17. \A q \in DOMAIN g : IsComplete(g[q])
        <3>1. Len(s) + 1 <= AST_NODE_MAX_CHILDREN
            BY <2>2, HeapAssumption DEF IsFull
        <3>2. \A i \in 1 .. Len(s) : s[i] # NULL
            BY <1>0, <2>2 DEF Forest, IsComplete
        <3>3. \A i \in DOMAIN o.ptrs : o.ptrs[i] # NULL
            <4> TAKE i \in DOMAIN o.ptrs
            <4>1. i \in 1 .. Len(s) \/ i = Len(s) + 1
                BY <2>2, <2>4
            <4> QED
                BY <1>2, <2>2, <2>4, <3>2, <4>1
        <3>4. IsComplete(o)
            BY <2>2, <2>4, <3>1, <3>3 DEF IsComplete
        <3> QED
            BY <2>5, <3>4 DEF Forest
    <2>18. Forest(g)
        BY <2>8, <2>13, <2>15, <2>16, <2>17 DEF Forest
    <2>19. Roots(g) = Roots(h) \ {stmt}
        BY <1>0, <2>5, <2>9, <2>10, <2>11 DEF Roots
    <2>20. \A p \in Roots(h) : g[p].type = h[p].type
        BY <1>0, <2>4, <2>5 DEF Roots, Live
    <2>21. Keeps(h, g, {stmt})
        BY <2>5, <2>18, <2>19, <2>20 DEF Keeps
    <2> QED
        BY <2>19, <2>21 DEF g
<1> QED
    BY <1>1, <1>2

-----------------------------------------------------------------------------
(* The stack holds a viable prefix of the grammar: what may lie below each *)
(* symbol.                                                                 *)

\* The symbol at i; below the stack is "bottom".
Sym(st, i) == IF i \in DOMAIN st THEN st[i].sym ELSE "bottom"

Starts(b) == b \in {"bottom", "INDENT", "statements"}

\* s may lie on b1, that on b2, and so on.
Fits(s, b1, b2, b3, b4, b5) ==
    /\ s # "bottom"
    /\ s = "IDENTIFIER" => Starts(b1) \/ b1 \in BeforeOperand
    /\ s \in {"CONST", "LPAREN", "expression"} => b1 \in BeforeOperand
    /\ s = "ASSIGN" => b1 = "IDENTIFIER" /\ Starts(b2)
    /\ s = "OP" => b1 = "expression"
    /\ s = "RPAREN" => b1 = "expression" /\ b2 = "LPAREN"
    /\ s \in {"IF", "WHILE", "BREAK", "error"} => Starts(b1)
    /\ s = "condition" => b1 \in {"IF", "WHILE"}
    /\ s = "COLON" => b1 \in {"condition", "ELSE"}
    /\ s = "NEWLINE" => \/ b1 \in {"COLON", "BREAK", "error"}
                        \/ b1 = "expression" /\ b2 = "ASSIGN"
    /\ s \in {"INDENT", "block"} => b1 = "NEWLINE" /\ b2 = "COLON"
    /\ s = "statements" => b1 \in {"bottom", "INDENT"}
    /\ s = "DEDENT" => b1 = "statements" /\ b2 = "INDENT"
    /\ s = "ELSE" => /\ b1 = "block" /\ b2 = "NEWLINE" /\ b3 = "COLON"
                     /\ b4 = "condition" /\ b5 = "IF"

\* s may lie on the first m symbols.
FitsOn(st, m, s) ==
    Fits(s, Sym(st, m), Sym(st, m - 1), Sym(st, m - 2), Sym(st, m - 3), Sym(st, m - 4))

Shape(st) == \A i \in DOMAIN st : FitsOn(st, i - 1, st[i].sym)

\* The state of IsConsistent, by the symbols from the top on.
Consistent(s0, s1, s2, s3, s4) ==
    \/ s0 = "IDENTIFIER" /\ s1 \in BeforeOperand
    \/ s0 \in {"CONST", "RPAREN", "DEDENT"}
    \/ s0 = "NEWLINE" /\ s1 \in {"expression", "BREAK", "error"}
    \/ /\ s0 = "block" /\ s1 = "NEWLINE" /\ s2 = "COLON"
       /\ s3 = "ELSE" \/ (s3 = "condition" /\ s4 = "WHILE")

Viable(st, la) ==
    /\ IsSeq(st) /\ Shape(st)
    /\ LET n == Len(st)
       IN la # NULL =>
            ~Consistent(Sym(st, n), Sym(st, n - 1), Sym(st, n - 2), Sym(st, n - 3), Sym(st, n - 4))

LEMMA ReverseIs ==
    ASSUME NEW s, IsSeq(s)
    PROVE  /\ IsSeq(Reverse(s)) /\ Len(Reverse(s)) = Len(s)
           /\ \A i \in 1 .. Len(s) : Reverse(s)[i] = s[(Len(s) - i) + 1]
<1> DEFINE r == Reverse(s)
<1>1. r = [i \in 1 .. Len(s) |-> r[i]]
    BY DEF Reverse
<1>2. Len(s) \in Nat
    BY DEF IsSeq
<1>3. IsSeq(r) /\ Len(r) = Len(s)
    <2> HIDE DEF r
    <2> QED
        BY <1>1, <1>2, FcnSeq
<1>4. \A i \in 1 .. Len(s) : r[i] = s[(Len(s) - i) + 1]
    BY DEF Reverse
<1> QED
    BY <1>3, <1>4

LEMMA SuffixIs ==
    ASSUME NEW s, IsSeq(s), NEW t, IsSeq(t)
    PROVE  IsSuffix(s, t) <=> /\ Len(s) <= Len(t)
                              /\ \A i \in 1 .. Len(s) : s[i] = t[Len(t) - Len(s) + i]
<1> DEFINE m == Len(s)  n == Len(t)  r == Reverse(s)  q == Reverse(t)
<1>1. m \in Nat /\ n \in Nat
    BY DEF IsSeq
<1>2. /\ IsSeq(r) /\ Len(r) = m /\ \A i \in 1 .. m : r[i] = s[(m - i) + 1]
      /\ IsSeq(q) /\ Len(q) = n /\ \A i \in 1 .. n : q[i] = t[(n - i) + 1]
    BY ReverseIs
<1>3. IsSuffix(s, t) <=> m <= n /\ SubSeq(r, 1, m) = SubSeq(q, 1, m)
    BY <1>2 DEF IsSuffix, IsPrefix
<1> HIDE DEF m, n, r, q
<1>4. ASSUME m <= n
      PROVE  SubSeq(r, 1, m) = SubSeq(q, 1, m) <=> \A i \in 1 .. m : r[i] = q[i]
    <2>1. m \in 0 .. Len(r) /\ m \in 0 .. Len(q)
        BY <1>1, <1>2, <1>4
    <2>2. /\ SubSeq(r, 1, m) = [i \in 1 .. m |-> SubSeq(r, 1, m)[i]]
          /\ \A i \in 1 .. m : SubSeq(r, 1, m)[i] = r[i]
        BY <1>2, <2>1, PrefixIs DEF IsSeq
    <2>3. /\ SubSeq(q, 1, m) = [i \in 1 .. m |-> SubSeq(q, 1, m)[i]]
          /\ \A i \in 1 .. m : SubSeq(q, 1, m)[i] = q[i]
        BY <1>2, <2>1, PrefixIs DEF IsSeq
    <2> QED
        BY <2>2, <2>3
<1>5. ASSUME m <= n
      PROVE  (\A i \in 1 .. m : r[i] = q[i]) <=> \A i \in 1 .. m : s[i] = t[n - m + i]
    <2>1. \A i \in 1 .. m : i \in 1 .. n
        BY <1>1, <1>5
    <2>2. \A i \in 1 .. m : r[i] = s[(m - i) + 1] /\ q[i] = t[(n - i) + 1]
        BY <1>2, <2>1
    <2>3. ASSUME \A i \in 1 .. m : r[i] = q[i], NEW i \in 1 .. m
          PROVE  s[i] = t[n - m + i]
        <3>1. (m - i) + 1 \in 1 .. m /\ (m - ((m - i) + 1)) + 1 = i
              /\ (n - ((m - i) + 1)) + 1 = n - m + i
            BY <1>1
        <3>2. r[(m - i) + 1] = s[(m - ((m - i) + 1)) + 1]
              /\ q[(m - i) + 1] = t[(n - ((m - i) + 1)) + 1]
            BY <2>2, <3>1
        <3> QED
            BY <2>3, <3>1, <3>2
    <2>4. ASSUME \A i \in 1 .. m : s[i] = t[n - m + i], NEW i \in 1 .. m
          PROVE  r[i] = q[i]
        <3>1. (m - i) + 1 \in 1 .. m /\ n - m + ((m - i) + 1) = (n - i) + 1
            BY <1>1
        <3> QED
            BY <2>2, <2>4, <3>1
    <2> QED
        BY <2>3, <2>4
<1> QED
    BY <1>3, <1>4, <1>5 DEF m, n

LEMMA EndsIs ==
    ASSUME IsSeq(stack), Shape(stack), NEW s, IsSeq(s)
    PROVE  /\ Ends(s) <=> /\ Len(s) <= Len(stack)
                          /\ \A i \in 1 .. Len(s) : s[i] = Sym(stack, Len(stack) - Len(s) + i)
           /\ \A i \in Int : Sym(stack, i) # "bottom" <=> i \in 1 .. Len(stack)
<1>1. DOMAIN stack = 1 .. Len(stack) /\ Len(stack) \in Nat /\ Len(s) \in Nat
    BY SeqIs DEF IsSeq
<1>2. Symbols = [i \in 1 .. Len(stack) |-> Symbols[i]]
      /\ \A i \in 1 .. Len(stack) : Symbols[i] = stack[i].sym
    BY <1>1 DEF Symbols
<1>3. IsSeq(Symbols) /\ Len(Symbols) = Len(stack)
    BY <1>1, <1>2, FcnSeq
<1>4. Ends(s) <=> /\ Len(s) <= Len(stack)
                  /\ \A i \in 1 .. Len(s) : s[i] = Symbols[Len(stack) - Len(s) + i]
    BY <1>3, SuffixIs DEF Ends
<1>5. ASSUME Len(s) <= Len(stack), NEW i \in 1 .. Len(s)
      PROVE  Symbols[Len(stack) - Len(s) + i] = Sym(stack, Len(stack) - Len(s) + i)
    <2>1. Len(stack) - Len(s) + i \in 1 .. Len(stack)
        BY <1>1, <1>5
    <2> QED
        BY <1>1, <1>2, <2>1 DEF Sym
<1>6. \A i \in Int : Sym(stack, i) # "bottom" <=> i \in 1 .. Len(stack)
    BY <1>1 DEF Sym, Shape, FitsOn, Fits
<1> QED
    BY <1>4, <1>5, <1>6

\* k symbols below the top.
Top(k) == Sym(stack, Len(stack) - k)

LEMMA Ends1 ==
    ASSUME IsSeq(stack), Shape(stack), NEW a, a # "bottom"
    PROVE  Ends(<<a>>) <=> Top(0) = a
<1> DEFINE s == <<a>>
<1>1. IsSeq(s) /\ Len(s) = 1 /\ s[1] = a
    BY Tuple1
<1> HIDE DEF s
<1>2. Len(stack) \in Nat
    BY DEF IsSeq
<1>3. Ends(s) <=> 1 <= Len(stack) /\ \A i \in 1 .. 1 : s[i] = Sym(stack, Len(stack) - 1 + i)
    BY <1>1, EndsIs
<1>4. Len(stack) - 1 + 1 = Len(stack) - 0 /\ \A i \in 1 .. 1 : i = 1
    BY <1>2
<1>5. Ends(s) <=> 1 <= Len(stack) /\ Top(0) = a
    BY <1>1, <1>3, <1>4 DEF Top
<1>6. Top(0) = a => 1 <= Len(stack)
    BY <1>2, EndsIs, EmptyIs DEF Top
<1> QED
    BY <1>5, <1>6 DEF s

LEMMA Ends2 ==
    ASSUME IsSeq(stack), Shape(stack), NEW a, NEW b, a # "bottom"
    PROVE  Ends(<<a, b>>) <=> Top(1) = a /\ Top(0) = b
<1> DEFINE s == <<a, b>>
<1>1. IsSeq(s) /\ Len(s) = 2 /\ s[1] = a /\ s[2] = b
    BY Tuple2
<1> HIDE DEF s
<1>2. Len(stack) \in Nat
    BY DEF IsSeq
<1>3. Ends(s) <=> 2 <= Len(stack) /\ \A i \in 1 .. 2 : s[i] = Sym(stack, Len(stack) - 2 + i)
    BY <1>1, EndsIs
<1>4. /\ Len(stack) - 2 + 1 = Len(stack) - 1 /\ Len(stack) - 2 + 2 = Len(stack) - 0
      /\ \A i \in 1 .. 2 : i = 1 \/ i = 2
    BY <1>2
<1>5. Ends(s) <=> 2 <= Len(stack) /\ Top(1) = a /\ Top(0) = b
    BY <1>1, <1>3, <1>4 DEF Top
<1>6. Top(1) = a => 2 <= Len(stack)
    BY <1>2, EndsIs, EmptyIs DEF Top
<1> QED
    BY <1>5, <1>6 DEF s

LEMMA Ends3 ==
    ASSUME IsSeq(stack), Shape(stack), NEW a, NEW b, NEW c, a # "bottom"
    PROVE  Ends(<<a, b, c>>) <=> Top(2) = a /\ Top(1) = b /\ Top(0) = c
<1> DEFINE s == <<a, b, c>>
<1>1. IsSeq(s) /\ Len(s) = 3 /\ s[1] = a /\ s[2] = b /\ s[3] = c
    BY Tuple3
<1> HIDE DEF s
<1>2. Len(stack) \in Nat
    BY DEF IsSeq
<1>3. Ends(s) <=> 3 <= Len(stack) /\ \A i \in 1 .. 3 : s[i] = Sym(stack, Len(stack) - 3 + i)
    BY <1>1, EndsIs
<1>4. /\ Len(stack) - 3 + 1 = Len(stack) - 2 /\ Len(stack) - 3 + 2 = Len(stack) - 1
      /\ Len(stack) - 3 + 3 = Len(stack) - 0
      /\ \A i \in 1 .. 3 : i = 1 \/ i = 2 \/ i = 3
    BY <1>2
<1>5. Ends(s) <=> 3 <= Len(stack) /\ Top(2) = a /\ Top(1) = b /\ Top(0) = c
    BY <1>1, <1>3, <1>4 DEF Top
<1>6. Top(2) = a => 3 <= Len(stack)
    BY <1>2, EndsIs, EmptyIs DEF Top
<1> QED
    BY <1>5, <1>6 DEF s

LEMMA Ends4 ==
    ASSUME IsSeq(stack), Shape(stack), NEW a, NEW b, NEW c, NEW d, a # "bottom"
    PROVE  Ends(<<a, b, c, d>>) <=> Top(3) = a /\ Top(2) = b /\ Top(1) = c /\ Top(0) = d
<1> DEFINE s == <<a, b, c, d>>
<1>1. IsSeq(s) /\ Len(s) = 4 /\ s[1] = a /\ s[2] = b /\ s[3] = c /\ s[4] = d
    <2>1. s \in Seq({a, b, c, d}) /\ Len(s) = 4 /\ s[1] = a /\ s[2] = b /\ s[3] = c /\ s[4] = d
        OBVIOUS
    <2> HIDE DEF s
    <2> QED
        BY <2>1, SeqIsSeq
<1> HIDE DEF s
<1>2. Len(stack) \in Nat
    BY DEF IsSeq
<1>3. Ends(s) <=> 4 <= Len(stack) /\ \A i \in 1 .. 4 : s[i] = Sym(stack, Len(stack) - 4 + i)
    BY <1>1, EndsIs
<1>4. /\ Len(stack) - 4 + 1 = Len(stack) - 3 /\ Len(stack) - 4 + 2 = Len(stack) - 2
      /\ Len(stack) - 4 + 3 = Len(stack) - 1 /\ Len(stack) - 4 + 4 = Len(stack) - 0
      /\ \A i \in 1 .. 4 : i = 1 \/ i = 2 \/ i = 3 \/ i = 4
    BY <1>2
<1>5. Ends(s) <=> 4 <= Len(stack) /\ Top(3) = a /\ Top(2) = b /\ Top(1) = c /\ Top(0) = d
    BY <1>1, <1>3, <1>4 DEF Top
<1>6. Top(3) = a => 4 <= Len(stack)
    BY <1>2, EndsIs, EmptyIs DEF Top
<1> QED
    BY <1>5, <1>6 DEF s

LEMMA Ends5 ==
    ASSUME IsSeq(stack), Shape(stack), NEW a, NEW b, NEW c, NEW d, NEW e, a # "bottom"
    PROVE  Ends(<<a, b, c, d, e>>) <=>
              Top(4) = a /\ Top(3) = b /\ Top(2) = c /\ Top(1) = d /\ Top(0) = e
<1> DEFINE s == <<a, b, c, d, e>>
<1>1. /\ IsSeq(s) /\ Len(s) = 5
      /\ s[1] = a /\ s[2] = b /\ s[3] = c /\ s[4] = d /\ s[5] = e
    <2>1. /\ s \in Seq({a, b, c, d, e}) /\ Len(s) = 5
          /\ s[1] = a /\ s[2] = b /\ s[3] = c /\ s[4] = d /\ s[5] = e
        OBVIOUS
    <2> HIDE DEF s
    <2> QED
        BY <2>1, SeqIsSeq
<1> HIDE DEF s
<1>2. Len(stack) \in Nat
    BY DEF IsSeq
<1>3. Ends(s) <=> 5 <= Len(stack) /\ \A i \in 1 .. 5 : s[i] = Sym(stack, Len(stack) - 5 + i)
    BY <1>1, EndsIs
<1>4. /\ Len(stack) - 5 + 1 = Len(stack) - 4 /\ Len(stack) - 5 + 2 = Len(stack) - 3
      /\ Len(stack) - 5 + 3 = Len(stack) - 2 /\ Len(stack) - 5 + 4 = Len(stack) - 1
      /\ Len(stack) - 5 + 5 = Len(stack) - 0
      /\ \A i \in 1 .. 5 : i = 1 \/ i = 2 \/ i = 3 \/ i = 4 \/ i = 5
    BY <1>2
<1>5. Ends(s) <=> /\ 5 <= Len(stack) /\ Top(4) = a /\ Top(3) = b /\ Top(2) = c
                  /\ Top(1) = d /\ Top(0) = e
    BY <1>1, <1>3, <1>4 DEF Top
<1>6. Top(4) = a => 5 <= Len(stack)
    BY <1>2, EndsIs, EmptyIs DEF Top
<1> QED
    BY <1>5, <1>6 DEF s

LEMMA TopIs ==
    ASSUME IsSeq(stack), Shape(stack), NEW k \in Nat
    PROVE  /\ Top(k) # "bottom" <=> k < Len(stack)
           /\ k < Len(stack) =>
                 /\ Len(stack) - k \in DOMAIN stack /\ stack[Len(stack) - k].sym = Top(k)
                 /\ Fits(Top(k), Top(k + 1), Top(k + 2), Top(k + 3), Top(k + 4), Top(k + 5))
<1>1. Len(stack) \in Nat /\ DOMAIN stack = 1 .. Len(stack)
    BY SeqIs DEF IsSeq
<1>2. Top(k) # "bottom" <=> k < Len(stack)
    <2>1. Top(k) # "bottom" <=> Len(stack) - k \in 1 .. Len(stack)
        BY <1>1, EndsIs, EmptyIs DEF Top
    <2> QED
        BY <1>1, <2>1
<1>3. ASSUME k < Len(stack)
      PROVE  /\ Len(stack) - k \in DOMAIN stack /\ stack[Len(stack) - k].sym = Top(k)
             /\ Fits(Top(k), Top(k + 1), Top(k + 2), Top(k + 3), Top(k + 4), Top(k + 5))
    <2> DEFINE i == Len(stack) - k
    <2>1. i \in DOMAIN stack /\ stack[i].sym = Top(k)
        BY <1>1, <1>3 DEF Sym, Top
    <2>2. FitsOn(stack, i - 1, stack[i].sym)
        BY <2>1 DEF Shape
    <2>3. /\ i - 1 = Len(stack) - (k + 1) /\ (i - 1) - 1 = Len(stack) - (k + 2)
          /\ (i - 1) - 2 = Len(stack) - (k + 3) /\ (i - 1) - 3 = Len(stack) - (k + 4)
          /\ (i - 1) - 4 = Len(stack) - (k + 5)
        BY <1>1
    <2> QED
        BY <2>1, <2>2, <2>3 DEF FitsOn, Top
<1> QED
    BY <1>2, <1>3

LEMMA SameLast ==
    ASSUME NEW st, IsSeq(st), NEW m \in 0 .. Len(st)
    PROVE  LET rest == SubSeq(st, 1, m)
           IN (m = 0 <=> rest = <<>>) /\ (m # 0 => rest[Len(rest)].sym = Sym(st, m)
                                                    /\ rest[Len(rest)] = st[m])
<1> DEFINE rest == SubSeq(st, 1, m)
<1>1. IsSeq(rest) /\ Len(rest) = m /\ \A i \in 1 .. m : rest[i] = st[i]
    BY PrefixIs
<1>2. DOMAIN st = 1 .. Len(st) /\ Len(st) \in Nat
    BY SeqIs DEF IsSeq
<1> HIDE DEF rest
<1>3. m = 0 => rest = <<>>
    <2>1. m = 0 => rest = [i \in 1 .. 0 |-> rest[i]]
        BY <1>1 DEF IsSeq
    <2> QED
        BY <2>1
<1>4. rest = <<>> => m = 0
    BY <1>1, EmptyIs
<1>5. m # 0 => rest[Len(rest)].sym = Sym(st, m) /\ rest[Len(rest)] = st[m]
    BY <1>1, <1>2 DEF Sym
<1> QED
    BY <1>3, <1>4, <1>5 DEF rest

\* Where the prefixes of the stack end.
LEMMA PlaceIs ==
    ASSUME IsSeq(stack), Shape(stack), NEW m \in 0 .. Len(stack)
    PROVE  /\ AtStatement(SubSeq(stack, 1, m)) <=> Starts(Sym(stack, m))
           /\ AtOperand(SubSeq(stack, 1, m)) <=> Sym(stack, m) \in BeforeOperand
<1>1. m = 0 <=> Sym(stack, m) = "bottom"
    BY EndsIs, EmptyIs DEF IsSeq
<1> QED
    BY <1>1, SameLast DEF AtStatement, AtOperand, Starts, BeforeOperand

LEMMA WholeIs ==
    ASSUME IsSeq(stack)
    PROVE  SubSeq(stack, 1, Len(stack)) = stack
<1> DEFINE rest == SubSeq(stack, 1, Len(stack))
<1>0. Len(stack) \in Nat
    BY DEF IsSeq
<1>1. IsSeq(rest) /\ Len(rest) = Len(stack) /\ \A i \in 1 .. Len(stack) : rest[i] = stack[i]
    BY <1>0, PrefixIs
<1> HIDE DEF rest
<1>2. rest = [i \in 1 .. Len(stack) |-> rest[i]] /\ stack = [i \in 1 .. Len(stack) |-> stack[i]]
    BY <1>1 DEF IsSeq
<1>3. rest = stack
    BY <1>1, <1>2
<1> QED
    BY <1>3 DEF rest

LEMMA EndsOperandIs ==
    ASSUME IsSeq(stack), Shape(stack), NEW a, a # "bottom"
    PROVE  EndsOperand(a) <=> Top(0) = a /\ Top(1) \in BeforeOperand
<1>1. Len(stack) \in Nat
    BY DEF IsSeq
<1>2. Top(0) # "bottom" <=> 0 < Len(stack)
    BY TopIs
<1>3. Ends(<<a>>) <=> Top(0) = a
    BY Ends1
<1>4. 0 < Len(stack) => (AtOperand(Below(1)) <=> Top(1) \in BeforeOperand)
    <2>1. 0 < Len(stack) => Len(stack) - 1 \in 0 .. Len(stack)
        BY <1>1
    <2> QED
        BY <2>1, PlaceIs DEF Below, Top
<1> QED
    BY <1>2, <1>3, <1>4 DEF EndsOperand

\* The states of the automaton, by the symbols from the top on.
LEMMA IsConsistentIs ==
    ASSUME IsSeq(stack), Shape(stack)
    PROVE  IsConsistent <=> Consistent(Top(0), Top(1), Top(2), Top(3), Top(4))
<1>1. EndsOperand("IDENTIFIER") <=> Top(0) = "IDENTIFIER" /\ Top(1) \in BeforeOperand
    BY EndsOperandIs
<1>2. /\ Ends(<<"CONST">>) <=> Top(0) = "CONST"
      /\ Ends(<<"RPAREN">>) <=> Top(0) = "RPAREN"
      /\ Ends(<<"DEDENT">>) <=> Top(0) = "DEDENT"
    BY Ends1
<1>3. /\ Ends(<<"expression", "NEWLINE">>) <=> Top(1) = "expression" /\ Top(0) = "NEWLINE"
      /\ Ends(<<"BREAK", "NEWLINE">>) <=> Top(1) = "BREAK" /\ Top(0) = "NEWLINE"
      /\ Ends(<<"error", "NEWLINE">>) <=> Top(1) = "error" /\ Top(0) = "NEWLINE"
    BY Ends2
<1>4. EndsHeader("WHILE") <=> /\ Top(4) = "WHILE" /\ Top(3) = "condition" /\ Top(2) = "COLON"
                              /\ Top(1) = "NEWLINE" /\ Top(0) = "block"
    BY Ends5 DEF EndsHeader
<1>5. Ends(<<"ELSE", "COLON", "NEWLINE", "block">>)
         <=> Top(3) = "ELSE" /\ Top(2) = "COLON" /\ Top(1) = "NEWLINE" /\ Top(0) = "block"
    BY Ends4
<1> QED
    BY <1>1, <1>2, <1>3, <1>4, <1>5 DEF IsConsistent, Consistent

LEMMA ViableIs ==
    ASSUME Viable(stack, lookahead)
    PROVE  IsSeq(stack) /\ Shape(stack) /\ (lookahead # NULL => ~IsConsistent)
<1>1. IsSeq(stack) /\ Shape(stack) /\ Len(stack) \in Nat
    BY DEF Viable, IsSeq
<1>2. Len(stack) - 0 = Len(stack)
    BY <1>1
<1> QED
    BY <1>1, <1>2, IsConsistentIs DEF Viable, Top

\* The symbols of a prefix, and of a prefix with one symbol more.
LEMMA ShapePop ==
    ASSUME NEW st, IsSeq(st), Shape(st), NEW m \in 0 .. Len(st)
    PROVE  LET g == SubSeq(st, 1, m)
           IN IsSeq(g) /\ Shape(g) /\ \A i \in Int : i <= m => Sym(g, i) = Sym(st, i)
<1> DEFINE g == SubSeq(st, 1, m)
<1>1. /\ IsSeq(g) /\ Len(g) = m /\ DOMAIN g = 1 .. m
      /\ \A i \in 1 .. m : g[i] = st[i]
    BY PrefixIs
<1>2. DOMAIN st = 1 .. Len(st) /\ Len(st) \in Nat /\ m \in Nat /\ m <= Len(st)
    BY SeqIs DEF IsSeq
<1> HIDE DEF g
<1>3. ASSUME NEW i \in Int, i <= m PROVE Sym(g, i) = Sym(st, i)
    <2>1. i \in DOMAIN g <=> i \in DOMAIN st
        BY <1>1, <1>2, <1>3
    <2> QED
        BY <1>1, <2>1 DEF Sym
<1>4. Shape(g)
    <2> SUFFICES ASSUME NEW i \in DOMAIN g PROVE FitsOn(g, i - 1, g[i].sym)
        BY DEF Shape
    <2>1. FitsOn(st, i - 1, g[i].sym)
        BY <1>1, <1>2 DEF Shape
    <2>2. \A j \in {i - 1, (i - 1) - 1, (i - 1) - 2, (i - 1) - 3, (i - 1) - 4} :
             j \in Int /\ j <= m
        BY <1>1, <1>2
    <2> QED
        BY <1>3, <2>1, <2>2 DEF FitsOn
<1> QED
    BY <1>1, <1>3, <1>4 DEF g

LEMMA ShapePush ==
    ASSUME NEW st, IsSeq(st), Shape(st), NEW m \in 0 .. Len(st), NEW e, FitsOn(st, m, e.sym)
    PROVE  LET g == Append(SubSeq(st, 1, m), e)
           IN IsSeq(g) /\ Shape(g) /\ Len(g) = m + 1 /\ Sym(g, m + 1) = e.sym
<1> DEFINE f == SubSeq(st, 1, m)
           g == Append(f, e)
<1>1. IsSeq(f) /\ Len(f) = m /\ DOMAIN f = 1 .. m
    BY PrefixIs
<1>2. Shape(f) /\ \A i \in Int : i <= m => Sym(f, i) = Sym(st, i)
    BY ShapePop
<1>3. m \in Nat
    BY DEF IsSeq
<1> HIDE DEF f
<1>4. /\ IsSeq(g) /\ Len(g) = m + 1 /\ DOMAIN g = 1 .. m + 1
      /\ \A i \in 1 .. m : g[i] = f[i]
      /\ g[m + 1] = e
    BY <1>1, AppendIs
<1> HIDE DEF g
<1>5. ASSUME NEW i \in Int, i <= m PROVE Sym(g, i) = Sym(st, i)
    <2>1. i \in DOMAIN g <=> i \in DOMAIN f
        BY <1>1, <1>3, <1>4, <1>5
    <2>2. Sym(g, i) = Sym(f, i)
        BY <1>1, <1>4, <2>1 DEF Sym
    <2> QED
        BY <1>2, <1>5, <2>2
<1>6. Shape(g)
    <2> SUFFICES ASSUME NEW i \in DOMAIN g PROVE FitsOn(g, i - 1, g[i].sym)
        BY DEF Shape
    <2>1. FitsOn(st, i - 1, g[i].sym)
        <3>1. CASE i = m + 1
            <4>1. i - 1 = m
                BY <1>3, <3>1
            <4> QED
                BY <1>4, <3>1, <4>1
        <3>2. CASE i # m + 1
            <4>1. i \in 1 .. m /\ i \in DOMAIN st /\ st[i].sym = Sym(st, i)
                  /\ g[i].sym = Sym(g, i)
                BY <1>3, <1>4, <3>2, SeqIs DEF Sym, IsSeq
            <4>2. g[i].sym = st[i].sym
                BY <1>3, <1>5, <4>1
            <4> QED
                BY <4>1, <4>2 DEF Shape
        <3> QED
            BY <3>1, <3>2
    <2>2. \A j \in {i - 1, (i - 1) - 1, (i - 1) - 2, (i - 1) - 3, (i - 1) - 4} :
             j \in Int /\ j <= m
        BY <1>3, <1>4
    <2> QED
        BY <1>5, <2>1, <2>2 DEF FitsOn
<1>7. Sym(g, m + 1) = e.sym
    BY <1>3, <1>4 DEF Sym
<1> QED
    BY <1>4, <1>6, <1>7 DEF f, g

\* A symbol that decides nothing by itself is put on a part of the stack.
LEMMA ViablePush ==
    ASSUME NEW st, NEW la, Viable(st, la), NEW m \in 0 .. Len(st), NEW e, FitsOn(st, m, e.sym),
           NEW lb,
           lb # NULL => e.sym \notin {"IDENTIFIER", "CONST", "RPAREN", "DEDENT", "NEWLINE", "block"}
    PROVE  Viable(Append(SubSeq(st, 1, m), e), lb)
<1> DEFINE g == Append(SubSeq(st, 1, m), e)
<1>1. IsSeq(g) /\ Shape(g) /\ Len(g) = m + 1 /\ Sym(g, m + 1) = e.sym
    BY ShapePush DEF Viable
<1> HIDE DEF g
<1>2. lb # NULL =>
        ~Consistent(Sym(g, Len(g)), Sym(g, Len(g) - 1), Sym(g, Len(g) - 2),
                    Sym(g, Len(g) - 3), Sym(g, Len(g) - 4))
    BY <1>1 DEF Consistent
<1> QED
    BY <1>1, <1>2 DEF Viable, g

LEMMA ViablePop ==
    ASSUME NEW st, NEW la, Viable(st, la), NEW m \in 0 .. Len(st), NEW lb,
           lb # NULL => m # 0 /\ st[m].sym = "statements"
    PROVE  Viable(SubSeq(st, 1, m), lb)
<1> DEFINE g == SubSeq(st, 1, m)
<1>1. IsSeq(g) /\ Shape(g) /\ Len(g) = m
    BY ShapePop, PrefixIs DEF Viable
<1>2. m # 0 => g[m] = st[m]
    BY PrefixIs DEF Viable, IsSeq
<1>3. DOMAIN g = 1 .. m
    BY PrefixIs DEF Viable
<1> HIDE DEF g
<1>4. lb # NULL =>
        ~Consistent(Sym(g, Len(g)), Sym(g, Len(g) - 1), Sym(g, Len(g) - 2),
                    Sym(g, Len(g) - 3), Sym(g, Len(g) - 4))
    <2>1. m \in Nat
        BY DEF Viable, IsSeq
    <2>2. lb # NULL => Sym(g, Len(g)) = "statements"
        BY <1>1, <1>2, <1>3, <2>1 DEF Sym
    <2> QED
        BY <2>2 DEF Consistent
<1> QED
    BY <1>1, <1>4 DEF Viable, g

-----------------------------------------------------------------------------
(* What the parser holds: pointers to objects that no object owns, each    *)
(* held once.                                                              *)

Carriers ==
    {"IDENTIFIER", "CONST", "expression", "condition", "statements", "block", "statement"}

\* What the value of a symbol may be.
IsValue(h, e) ==
    /\ e # NULL
    /\ Pointed(e) \in Roots(h) \cup {NULL}
    /\ e.sym \notin Carriers => Pointed(e) = NULL
    /\ e.sym \in {"IDENTIFIER", "CONST"} =>
          Pointed(e) \in Roots(h) /\ h[Pointed(e)].type = "LEXEME"
    /\ e.sym \in {"statements", "block"} =>
          Pointed(e) \in Roots(h) /\ h[Pointed(e)].type = "BLOCK"

Owns(st, la, h) ==
    /\ Forest(h)
    /\ \A i \in DOMAIN st : IsValue(h, st[i])
    /\ la # NULL => IsValue(h, la)
    /\ \A i, j \in DOMAIN st : Pointed(st[i]) = Pointed(st[j]) /\ Pointed(st[i]) # NULL => i = j
    /\ \A i \in DOMAIN st : Pointed(st[i]) = Pointed(la) => Pointed(la) = NULL

Has(st, la) == {Pointed(st[i]) : i \in DOMAIN st} \cup {Pointed(la)}

\* The pointers above the first m symbols.
Above(st, m) == {Pointed(st[i]) : i \in m + 1 .. Len(st)}

LEMMA SymbolIs ==
    ASSUME NEW s \in Tokens \cup Nonterminals, NEW v \in Nat \cup {NULL}
    PROVE  /\ Symbol(s, v).sym = s /\ Symbol(s, v).val = v /\ Symbol(s, v) # NULL
           /\ s # "OP" => Pointed(Symbol(s, v)) = v
<1> DEFINE e == Symbol(s, v)
<1>1. e \in [sym : Tokens \cup Nonterminals, val : Nat \cup {NULL}] /\ e.sym = s /\ e.val = v
    BY DEF Symbol
<1>2. e # NULL
    BY <1>1, ParserAssumption
<1> QED
    BY <1>1, <1>2 DEF Pointed

LEMMA RootsAre ==
    ASSUME NEW h, Forest(h)
    PROVE  Roots(h) \subseteq DOMAIN h /\ DOMAIN h \subseteq Nat /\ NULL \notin DOMAIN h
BY ForestClosed DEF Roots, Live

\* What is left when the symbols above m are popped and C, some of what they held,
\* is consumed.
LEMMA OwnsPop ==
    ASSUME NEW st, NEW la, NEW h, IsSeq(st), Owns(st, la, h), NEW m \in 0 .. Len(st),
           NEW C, NEW new, Yields(h, new, C), C \subseteq Above(st, m) \cup {NULL}
    PROVE  /\ Owns(SubSeq(st, 1, m), la, new.heap)
           /\ new.ptr # NULL => new.ptr \notin Has(SubSeq(st, 1, m), la)
           /\ Has(st, la) \subseteq Has(SubSeq(st, 1, m), la) \cup Above(st, m)
<1> DEFINE f == SubSeq(st, 1, m)
<1>1. /\ DOMAIN f = 1 .. m /\ \A i \in 1 .. m : f[i] = st[i]
      /\ DOMAIN st = 1 .. Len(st) /\ Len(st) \in Nat /\ m \in Nat /\ m <= Len(st)
    BY PrefixIs, SeqIs DEF IsSeq
<1> HIDE DEF f
<1>2. \A i \in DOMAIN f : i \in DOMAIN st /\ f[i] = st[i] /\ i \notin m + 1 .. Len(st)
    BY <1>1
<1>3. \A i \in m + 1 .. Len(st) : i \in DOMAIN st
    BY <1>1
<1>4. Roots(h) \subseteq DOMAIN h /\ NULL \notin DOMAIN h
    BY RootsAre DEF Owns
<1>5. ASSUME NEW p \in Roots(h), p \in Has(f, la)
      PROVE  p \notin C
    <2>1. p # NULL
        BY <1>4
    <2>2. SUFFICES ASSUME p \in C PROVE FALSE
        OBVIOUS
    <2>3. PICK j \in m + 1 .. Len(st) : p = Pointed(st[j])
        BY <2>1, <2>2 DEF Above
    <2>4. CASE p = Pointed(la)
        BY <1>3, <2>1, <2>3, <2>4 DEF Owns
    <2>5. CASE \E i \in DOMAIN f : p = Pointed(f[i])
        BY <1>2, <1>3, <2>1, <2>3, <2>5 DEF Owns
    <2> QED
        BY <1>5, <2>4, <2>5 DEF Has
<1>6. ASSUME NEW p \in Roots(h), p \in Has(f, la)
      PROVE  p \in Roots(new.heap) /\ new.heap[p].type = h[p].type /\ p # new.ptr
    BY <1>4, <1>5, <1>6 DEF Yields, Keeps
<1>7. ASSUME NEW e, IsValue(h, e), Pointed(e) \in Has(f, la)
      PROVE  IsValue(new.heap, e) /\ (Pointed(e) = new.ptr => new.ptr = NULL)
    BY <1>6, <1>7 DEF IsValue
<1>8. \A i \in DOMAIN f : IsValue(h, f[i]) /\ Pointed(f[i]) \in Has(f, la)
    BY <1>2 DEF Owns, Has
<1>9. la # NULL => IsValue(h, la)
    BY DEF Owns
<1>10. Pointed(la) \in Has(f, la) /\ (la = NULL => Pointed(la) = NULL)
    BY DEF Has, Pointed
<1>11. Forest(new.heap)
    BY DEF Yields, Keeps
<1>12. Owns(f, la, new.heap)
    BY <1>2, <1>7, <1>8, <1>9, <1>10, <1>11 DEF Owns
<1>13. new.ptr # NULL => new.ptr \notin Has(f, la)
    BY <1>7, <1>8, <1>9, <1>10 DEF Has
<1>14. Has(st, la) \subseteq Has(f, la) \cup Above(st, m)
    <2>1. \A i \in DOMAIN st : (i \in DOMAIN f /\ f[i] = st[i]) \/ i \in m + 1 .. Len(st)
        BY <1>1
    <2> QED
        BY <2>1 DEF Has, Above
<1> QED
    BY <1>12, <1>13, <1>14 DEF f

LEMMA OwnsPush ==
    ASSUME NEW st, NEW la, NEW h, IsSeq(st), Owns(st, la, h), NEW e, IsValue(h, e),
           Pointed(e) # NULL => Pointed(e) \notin Has(st, la)
    PROVE  Owns(Append(st, e), la, h) /\ Has(Append(st, e), la) = Has(st, la) \cup {Pointed(e)}
<1> DEFINE g == Append(st, e)
           n == Len(st) + 1
<1>1. /\ DOMAIN g = 1 .. Len(st) + 1 /\ \A i \in 1 .. Len(st) : g[i] = st[i]
      /\ DOMAIN st = 1 .. Len(st) /\ Len(st) \in Nat /\ g[n] = e
    BY AppendIs, SeqIs DEF IsSeq
<1> HIDE DEF g
<1>2. /\ DOMAIN g = DOMAIN st \cup {n} /\ n \notin DOMAIN st /\ g[n] = e
      /\ \A i \in DOMAIN st : g[i] = st[i]
    BY <1>1
<1> HIDE DEF n
<1>3. Has(g, la) = Has(st, la) \cup {Pointed(e)}
    BY <1>2 DEF Has
<1>4. \A i \in DOMAIN st : Pointed(st[i]) = Pointed(e) => Pointed(e) = NULL
    BY DEF Has
<1>5. Pointed(e) = Pointed(la) => Pointed(la) = NULL
    BY DEF Has
<1>6. \A i \in DOMAIN g : IsValue(h, g[i])
    BY <1>2 DEF Owns
<1>7. \A i, j \in DOMAIN g : Pointed(g[i]) = Pointed(g[j]) /\ Pointed(g[i]) # NULL => i = j
    <2> SUFFICES ASSUME NEW i \in DOMAIN g, NEW j \in DOMAIN g,
                        Pointed(g[i]) = Pointed(g[j]), Pointed(g[i]) # NULL
                 PROVE  i = j
        OBVIOUS
    <2>1. CASE i = n /\ j # n
        BY <1>2, <1>4, <2>1
    <2>2. CASE i # n /\ j = n
        BY <1>2, <1>4, <2>2
    <2>3. CASE i # n /\ j # n
        BY <1>2, <2>3 DEF Owns
    <2> QED
        BY <2>1, <2>2, <2>3
<1>8. \A i \in DOMAIN g : Pointed(g[i]) = Pointed(la) => Pointed(la) = NULL
    BY <1>2, <1>5 DEF Owns
<1>9. Owns(g, la, h)
    BY <1>6, <1>7, <1>8 DEF Owns
<1> QED
    BY <1>3, <1>9 DEF g

\* The symbols above m become one, which holds what a constructor made of what they held.
LEMMA OwnsReduce ==
    ASSUME NEW st, NEW la, NEW h, IsSeq(st), Owns(st, la, h), NEW m \in 0 .. Len(st),
           NEW C, NEW new, Yields(h, new, C), C \subseteq Above(st, m) \cup {NULL},
           NEW e, IsValue(new.heap, e), Pointed(e) = new.ptr
    PROVE  /\ Owns(Append(SubSeq(st, 1, m), e), la, new.heap)
           /\ \A X, L : Roots(h) \subseteq Has(st, la) \cup X
                         /\ Above(st, m) \subseteq C \cup L \cup {NULL}
                => Roots(new.heap) \subseteq Has(Append(SubSeq(st, 1, m), e), la) \cup X \cup L
<1> DEFINE f == SubSeq(st, 1, m)
<1>1. /\ Owns(f, la, new.heap)
      /\ new.ptr # NULL => new.ptr \notin Has(f, la)
      /\ Has(st, la) \subseteq Has(f, la) \cup Above(st, m)
    BY OwnsPop
<1>2. IsSeq(f)
    BY PrefixIs
<1> HIDE DEF f
<1>3. /\ Owns(Append(f, e), la, new.heap)
      /\ Has(Append(f, e), la) = Has(f, la) \cup {Pointed(e)}
    BY <1>1, <1>2, OwnsPush
<1>4. ASSUME NEW X, Roots(h) \subseteq Has(st, la) \cup X,
             NEW L, Above(st, m) \subseteq C \cup L \cup {NULL}
      PROVE  Roots(new.heap) \subseteq Has(Append(f, e), la) \cup X \cup L
    <2>1. NULL \notin Roots(h)
        BY RootsAre DEF Owns
    <2>2. Roots(new.heap) \subseteq (Roots(h) \ C) \cup {new.ptr}
        BY DEF Yields
    <2> QED
        BY <1>1, <1>3, <1>4, <2>1, <2>2
<1> QED
    BY <1>3, <1>4 DEF f

\* The symbols above m go, and nothing comes in their place.
LEMMA OwnsDrop ==
    ASSUME NEW st, NEW la, NEW h, IsSeq(st), Owns(st, la, h), NEW m \in 0 .. Len(st),
           NEW C, NEW new, Yields(h, new, C), C \subseteq Above(st, m) \cup {NULL},
           new.ptr = NULL, NEW X, Roots(h) \subseteq Has(st, la) \cup X,
           Above(st, m) \subseteq C \cup {NULL}
    PROVE  Roots(new.heap) \subseteq Has(SubSeq(st, 1, m), la) \cup X
<1>1. Has(st, la) \subseteq Has(SubSeq(st, 1, m), la) \cup Above(st, m)
    BY OwnsPop
<1>2. NULL \notin Roots(h) /\ NULL \notin Roots(new.heap)
    BY RootsAre DEF Owns, Yields, Keeps
<1> QED
    BY <1>1, <1>2 DEF Yields

\* Nothing is allocated or freed.
LEMMA SameYields ==
    ASSUME NEW h, Forest(h), NEW new, new.heap = h
    PROVE  /\ new.ptr = NULL => Yields(h, new, {})
           /\ new.ptr \in Roots(h) \cup {NULL} => Yields(h, new, {new.ptr})
BY RootsAre DEF Yields, Keeps

\* A statement begins a block.
LEMMA FirstYields ==
    ASSUME NEW h, NEW C, NEW new, Yields(h, new, C)
    PROVE  LET block == BlockNodeCreate(new.heap, new.ptr)
           IN /\ Yields(h, block, C) /\ block.ptr \in Roots(block.heap)
              /\ block.heap[block.ptr].type = "BLOCK"
<1> DEFINE block == BlockNodeCreate(new.heap, new.ptr)
<1>1. Forest(new.heap) /\ new.ptr \in Roots(new.heap) \cup {NULL}
    BY DEF Yields, Keeps
<1>2. /\ Yields(new.heap, block, {new.ptr}) /\ block.ptr \in DOMAIN block.heap
      /\ block.heap[block.ptr].type = "BLOCK"
    BY <1>1, BlockYields
<1> HIDE DEF block
<1>3. NULL \notin DOMAIN new.heap
    BY <1>1, RootsAre
<1>4. Yields(h, block, C)
    BY <1>2, <1>3, YieldsThen
<1>5. NULL \notin DOMAIN block.heap
    BY <1>2, RootsAre DEF Yields, Keeps
<1>6. block.ptr \in Roots(block.heap)
    BY <1>2, <1>5 DEF Yields
<1> QED
    BY <1>2, <1>4, <1>6 DEF block

\* A statement joins a block that has room.
LEMMA NextYields ==
    ASSUME NEW h, NEW C, NEW new, Yields(h, new, C), NEW block \in Roots(new.heap),
           new.heap[block].type = "BLOCK", ~IsFull(new.heap, block), new.ptr # block
    PROVE  Yields(h, Nothing(BlockNodeAppendStmt(new.heap, block, new.ptr)), C)
<1> DEFINE g == BlockNodeAppendStmt(new.heap, block, new.ptr)
<1>1. Forest(new.heap) /\ new.ptr \in Roots(new.heap) \cup {NULL}
    BY DEF Yields, Keeps
<1>2. Keeps(new.heap, g, {new.ptr}) /\ Roots(g) = Roots(new.heap) \ {new.ptr}
    BY <1>1, AppendIsKept
<1> HIDE DEF g
<1>3. Nothing(g).heap = g /\ Nothing(g).ptr = NULL
    BY DEF Nothing
<1>4. Yields(new.heap, Nothing(g), {new.ptr})
    BY <1>2, <1>3 DEF Yields
<1>5. NULL \notin DOMAIN new.heap
    BY <1>1, RootsAre
<1>6. Yields(h, Nothing(g), C)
    BY <1>4, <1>5, YieldsThen
<1> QED
    BY <1>6 DEF g

-----------------------------------------------------------------------------
(* The reductions *)

TopPtr(k) == Pointed(stack[Len(stack) - k])

\* What the parser holds k symbols below the top.
LEMMA HeldIs ==
    ASSUME IsSeq(stack), Shape(stack), Owns(stack, lookahead, heap), NEW k \in Nat,
           Top(k) # "bottom"
    PROVE  /\ k < Len(stack) /\ TopPtr(k) \in Roots(heap) \cup {NULL}
           /\ Top(k) \notin Carriers => TopPtr(k) = NULL
           /\ Top(k) \in Carriers => Value(k) = TopPtr(k)
           /\ Top(k) \in {"IDENTIFIER", "CONST"} =>
                 TopPtr(k) \in Roots(heap) /\ heap[TopPtr(k)].type = "LEXEME"
           /\ Top(k) \in {"statements", "block"} =>
                 TopPtr(k) \in Roots(heap) /\ heap[TopPtr(k)].type = "BLOCK"
           /\ \A j \in Nat : Top(j) # "bottom" /\ TopPtr(j) = TopPtr(k) /\ TopPtr(k) # NULL => j = k
<1>1. /\ k < Len(stack) /\ Len(stack) - k \in DOMAIN stack
      /\ stack[Len(stack) - k].sym = Top(k)
    BY TopIs
<1>2. IsValue(heap, stack[Len(stack) - k])
    BY <1>1 DEF Owns
<1>3. Top(k) \in Carriers => Value(k) = TopPtr(k)
    BY <1>1, <1>2 DEF IsValue, TopPtr, Value, Pointed, Carriers
<1>4. ASSUME NEW j \in Nat, Top(j) # "bottom", TopPtr(j) = TopPtr(k), TopPtr(k) # NULL
      PROVE  j = k
    <2>1. Len(stack) - j \in DOMAIN stack
        BY <1>4, TopIs
    <2>2. Len(stack) - j = Len(stack) - k
        BY <1>1, <1>4, <2>1 DEF Owns, TopPtr
    <2>3. Len(stack) \in Nat
        BY DEF IsSeq
    <2> QED
        BY <2>2, <2>3
<1> QED
    BY <1>1, <1>2, <1>3, <1>4 DEF IsValue, TopPtr

LEMMA AboveIs ==
    ASSUME IsSeq(stack), NEW n \in 0 .. Len(stack)
    PROVE  Above(stack, Len(stack) - n) = {TopPtr(k) : k \in 0 .. n - 1}
<1> DEFINE N == Len(stack)
<1>1. N \in Nat /\ n \in Nat
    BY DEF IsSeq
<1>2. ASSUME NEW i \in N - n + 1 .. N PROVE N - i \in 0 .. n - 1 /\ N - (N - i) = i
    BY <1>1
<1>3. ASSUME NEW k \in 0 .. n - 1 PROVE N - k \in N - n + 1 .. N
    BY <1>1
<1> HIDE DEF N
<1>4. Above(stack, N - n) = {Pointed(stack[i]) : i \in N - n + 1 .. N}
    BY DEF Above, N
<1>5. {TopPtr(k) : k \in 0 .. n - 1} = {Pointed(stack[N - k]) : k \in 0 .. n - 1}
    BY DEF TopPtr, N
<1>6. Above(stack, N - n) = {TopPtr(k) : k \in 0 .. n - 1}
    BY <1>2, <1>3, <1>4, <1>5
<1> QED
    BY <1>6 DEF N

\* The parser goes on with st and h; L is all that it lost.
Turns(st, h, L) ==
    /\ Viable(st, lookahead) /\ Owns(st, lookahead, h) /\ DOMAIN heap \subseteq DOMAIN h
    /\ \A X : Roots(heap) \subseteq Has(stack, lookahead) \cup X
                 => Roots(h) \subseteq Has(st, lookahead) \cup X \cup L

\* The n symbols on top become s; C is what its constructor was given.
LEMMA ReduceTurns ==
    ASSUME Viable(stack, lookahead), Owns(stack, lookahead, heap), NEW n \in 0 .. Len(stack),
           NEW C, NEW new, Yields(heap, new, C), C \subseteq Above(stack, Len(stack) - n) \cup {NULL},
           NEW L, Above(stack, Len(stack) - n) \subseteq C \cup L \cup {NULL},
           NEW s \in {"expression", "condition", "statements", "block", "statement"},
           Fits(s, Top(n), Top(n + 1), Top(n + 2), Top(n + 3), Top(n + 4)),
           s \in {"statements", "block"} =>
              new.ptr \in Roots(new.heap) /\ new.heap[new.ptr].type = "BLOCK",
           s = "block" => lookahead = NULL
    PROVE  Turns(Append(Below(n), Symbol(s, new.ptr)), new.heap, L)
<1> DEFINE m == Len(stack) - n
           e == Symbol(s, new.ptr)
<1>1. Len(stack) \in Nat /\ IsSeq(stack) /\ Shape(stack)
    BY DEF Viable, IsSeq
<1>2. m \in 0 .. Len(stack)
    BY <1>1
<1>3. new.ptr \in Roots(new.heap) \cup {NULL} /\ Forest(new.heap) /\ DOMAIN heap \subseteq DOMAIN new.heap
    BY DEF Yields, Keeps
<1>4. new.ptr \in Nat \cup {NULL}
    BY <1>3, RootsAre
<1>5. e.sym = s /\ e # NULL /\ Pointed(e) = new.ptr
    <2>1. s \in Tokens \cup Nonterminals /\ s # "OP"
        BY DEF Nonterminals
    <2> QED
        BY <1>4, <2>1, SymbolIs
<1>6. IsValue(new.heap, e)
    BY <1>3, <1>5 DEF IsValue, Carriers
<1>7. FitsOn(stack, m, e.sym)
    <2>1. /\ m - 1 = Len(stack) - (n + 1) /\ m - 2 = Len(stack) - (n + 2)
          /\ m - 3 = Len(stack) - (n + 3) /\ m - 4 = Len(stack) - (n + 4)
        BY <1>1
    <2> QED
        BY <1>5, <2>1 DEF FitsOn, Top
<1> HIDE DEF e
<1>8. Viable(Append(SubSeq(stack, 1, m), e), lookahead)
    BY <1>2, <1>5, <1>7, ViablePush
<1>9. /\ Owns(Append(SubSeq(stack, 1, m), e), lookahead, new.heap)
      /\ \A X : Roots(heap) \subseteq Has(stack, lookahead) \cup X
                   => Roots(new.heap) \subseteq
                         Has(Append(SubSeq(stack, 1, m), e), lookahead) \cup X \cup L
    BY <1>1, <1>2, <1>5, <1>6, OwnsReduce
<1> QED
    BY <1>3, <1>8, <1>9 DEF Turns, Below, e

\* The n symbols on top are a statement.
LEMMA StatementTurns ==
    ASSUME Viable(stack, lookahead), Owns(stack, lookahead, heap), NEW n \in 0 .. Len(stack),
           NEW C, NEW new, Yields(heap, new, C), C \subseteq Above(stack, Len(stack) - n) \cup {NULL},
           Above(stack, Len(stack) - n) \subseteq C \cup {NULL},
           Starts(Top(n)), ReduceStatement(n, new), status = "more"
    PROVE  Turns(stack', heap', {}) /\ status' \in {"more", "exit"}
<1> DEFINE m == Len(stack) - n
           rest == Below(n)
           L == {}
<1>1. Len(stack) \in Nat /\ IsSeq(stack) /\ Shape(stack) /\ n \in Nat
    BY DEF Viable, IsSeq
<1>2. m \in 0 .. Len(stack)
    BY <1>1
<1>3. /\ m = 0 <=> rest = <<>>
      /\ m # 0 => rest[Len(rest)].sym = Top(n) /\ rest[Len(rest)] = stack[m]
    BY <1>1, <1>2, SameLast DEF Below, Top
<1>4. m = 0 <=> Top(n) = "bottom"
    BY <1>1, TopIs
<1>5. Above(stack, m) \subseteq C \cup L \cup {NULL} /\ C \subseteq Above(stack, m) \cup {NULL}
    OBVIOUS
<1>6. CASE rest = <<>> \/ rest[Len(rest)].sym = "INDENT"
    <2> DEFINE block == BlockNodeCreate(new.heap, new.ptr)
    <2>1. /\ Yields(heap, block, C) /\ block.ptr \in Roots(block.heap)
          /\ block.heap[block.ptr].type = "BLOCK"
        BY FirstYields
    <2>2. /\ stack' = Append(rest, Symbol("statements", block.ptr))
          /\ heap' = block.heap /\ status' = "more"
        BY <1>6 DEF ReduceStatement
    <2> HIDE DEF block
    <2>3. Top(n) \in {"bottom", "INDENT"}
        BY <1>3, <1>4, <1>6
    <2>4. Fits("statements", Top(n), Top(n + 1), Top(n + 2), Top(n + 3), Top(n + 4))
        BY <2>3 DEF Fits
    <2>5. Turns(Append(Below(n), Symbol("statements", block.ptr)), block.heap, L)
        BY <1>5, <2>1, <2>4, ReduceTurns
    <2> QED
        BY <2>2, <2>5
<1>7. CASE ~(rest = <<>> \/ rest[Len(rest)].sym = "INDENT")
    <2> DEFINE block == rest[Len(rest)].val
    <2>1. Top(n) = "statements" /\ m # 0
        BY <1>3, <1>4, <1>7 DEF Starts
    <2>2. /\ Value(n) = TopPtr(n) /\ TopPtr(n) \in Roots(heap)
          /\ heap[TopPtr(n)].type = "BLOCK" /\ \A j \in Nat :
                Top(j) # "bottom" /\ TopPtr(j) = TopPtr(n) /\ TopPtr(n) # NULL => j = n
        BY <1>1, <2>1, HeldIs DEF Carriers
    <2>3. block = TopPtr(n)
        BY <1>3, <2>1, <2>2 DEF Value
    <2>4. TopPtr(n) \notin C /\ TopPtr(n) # NULL /\ TopPtr(n) \in DOMAIN heap
        <3>1. TopPtr(n) # NULL /\ TopPtr(n) \in DOMAIN heap
            BY <2>2, RootsAre DEF Owns
        <3>2. ASSUME NEW k \in 0 .. n - 1 PROVE TopPtr(k) # TopPtr(n)
            <4>1. k \in Nat /\ k < Len(stack) /\ k # n
                BY <1>1
            <4>2. Top(k) # "bottom"
                BY <1>1, <4>1, TopIs
            <4> QED
                BY <2>2, <3>1, <4>1, <4>2
        <3>3. Above(stack, m) = {TopPtr(k) : k \in 0 .. n - 1}
            BY <1>1, AboveIs
        <3> QED
            BY <3>1, <3>2, <3>3
    <2>5. /\ TopPtr(n) \in Roots(new.heap) /\ new.heap[TopPtr(n)].type = "BLOCK"
          /\ new.ptr # TopPtr(n)
        BY <2>2, <2>4 DEF Yields, Keeps
    <2>6. CASE IsFull(new.heap, block)
        <3>1. /\ status' = "exit" /\ heap' = new.heap
              /\ stack' = Append(rest, Symbol("statement", new.ptr))
            BY <1>7, <2>6 DEF ReduceStatement
        <3>2. Fits("statement", Top(n), Top(n + 1), Top(n + 2), Top(n + 3), Top(n + 4))
            BY DEF Fits
        <3>3. Turns(Append(Below(n), Symbol("statement", new.ptr)), new.heap, L)
            BY <1>5, <3>2, ReduceTurns
        <3> QED
            BY <3>1, <3>3
    <2>7. CASE ~IsFull(new.heap, block)
        <3> DEFINE g == BlockNodeAppendStmt(new.heap, TopPtr(n), new.ptr)
        <3>1. stack' = rest /\ heap' = g /\ status' = "more"
            BY <1>7, <2>3, <2>7 DEF ReduceStatement
        <3>2. Yields(heap, Nothing(g), C)
            BY <2>3, <2>5, <2>7, NextYields
        <3> HIDE DEF g
        <3>3. Nothing(g).heap = g /\ Nothing(g).ptr = NULL
            BY DEF Nothing
        <3>4. Viable(rest, lookahead)
            <4>1. stack[m].sym = "statements"
                BY <1>3, <2>1
            <4> QED
                BY <1>2, <2>1, <4>1, ViablePop DEF Below
        <3>5. Owns(rest, lookahead, g)
            BY <1>1, <1>2, <1>5, <3>2, <3>3, OwnsPop DEF Below
        <3>6. \A X : Roots(heap) \subseteq Has(stack, lookahead) \cup X
                        => Roots(g) \subseteq Has(rest, lookahead) \cup X
            BY <1>1, <1>2, <1>5, <3>2, <3>3, OwnsDrop DEF Below
        <3>7. DOMAIN heap \subseteq DOMAIN g
            BY <3>2, <3>3 DEF Yields, Keeps
        <3> QED
            BY <3>1, <3>4, <3>5, <3>6, <3>7 DEF Turns
    <2> QED
        BY <2>6, <2>7
<1> QED
    BY <1>6, <1>7

LEMMA TurnsMore ==
    ASSUME NEW st, NEW h, Turns(st, h, {}), NEW L
    PROVE  Turns(st, h, L)
<1>1. \A X : Roots(heap) \subseteq Has(stack, lookahead) \cup X
                => Roots(h) \subseteq Has(st, lookahead) \cup X
    BY DEF Turns
<1>2. \A X : Roots(heap) \subseteq Has(stack, lookahead) \cup X
                => Roots(h) \subseteq Has(st, lookahead) \cup X \cup L
    BY <1>1
<1> QED
    BY <1>2 DEF Turns

\* The name of an unknown variable is left to unknown.
LEMMA IdentifierTurns ==
    ASSUME Viable(stack, lookahead), Owns(stack, lookahead, heap), ReduceIdentifier
    PROVE  Turns(stack', heap', unknown') /\ unknown' \subseteq unknown \cup DOMAIN heap
<1>1. IsSeq(stack) /\ Shape(stack) /\ Len(stack) \in Nat /\ Forest(heap)
    BY DEF Viable, Owns, IsSeq
<1>2. Top(0) = "IDENTIFIER" /\ Top(1) \in BeforeOperand
    BY <1>1, EndsOperandIs DEF ReduceIdentifier
<1>3. /\ 0 < Len(stack) /\ Value(0) = TopPtr(0) /\ TopPtr(0) \in Roots(heap)
      /\ heap[TopPtr(0)].type = "LEXEME"
    BY <1>1, <1>2, HeldIs DEF Carriers
<1>4. Above(stack, Len(stack) - 1) = {TopPtr(0)} /\ 1 \in 0 .. Len(stack)
    <2>1. {TopPtr(k) : k \in 0 .. 1 - 1} = {TopPtr(0)}
        OBVIOUS
    <2>2. 1 \in 0 .. Len(stack)
        BY <1>1, <1>3
    <2> QED
        BY <1>1, <2>1, <2>2, AboveIs
<1>5. Fits("expression", Top(1), Top(1 + 1), Top(1 + 2), Top(1 + 3), Top(1 + 4))
    BY <1>2 DEF Fits
<1>6. CASE heap[Value(0)].data \in symbols
    <2> DEFINE new == IdExprNodeCreate(heap, Value(0))
    <2>1. Yields(heap, new, {Value(0)})
        BY <1>1, <1>3, IdYields
    <2>2. stack' = Append(Below(1), Symbol("expression", new.ptr)) /\ heap' = new.heap
        BY <1>6 DEF ReduceIdentifier, Reduce
    <2>3. unknown' = unknown
        BY <1>6 DEF ReduceIdentifier
    <2> HIDE DEF new
    <2>4. Turns(Append(Below(1), Symbol("expression", new.ptr)), new.heap, {})
        BY <1>3, <1>4, <1>5, <2>1, ReduceTurns
    <2> QED
        BY <2>2, <2>3, <2>4, TurnsMore
<1>7. CASE heap[Value(0)].data \notin symbols
    <2> DEFINE new == Nothing(heap)
    <2>1. new.heap = heap /\ new.ptr = NULL
        BY DEF Nothing
    <2>2. stack' = Append(Below(1), Symbol("expression", new.ptr)) /\ heap' = new.heap
        BY <1>7 DEF ReduceIdentifier, Reduce
    <2>3. unknown' = unknown \cup {Value(0)}
        BY <1>7 DEF ReduceIdentifier
    <2> HIDE DEF new
    <2>4. Yields(heap, new, {})
        BY <1>1, <2>1, SameYields
    <2>5. Turns(Append(Below(1), Symbol("expression", new.ptr)), new.heap, unknown')
        BY <1>3, <1>4, <1>5, <2>3, <2>4, ReduceTurns
    <2> QED
        BY <1>1, <1>3, <2>2, <2>3, <2>5, RootsAre
<1> QED
    BY <1>6, <1>7

LEMMA ConstTurns ==
    ASSUME Viable(stack, lookahead), Owns(stack, lookahead, heap), ReduceConst
    PROVE  Turns(stack', heap', {})
<1>1. IsSeq(stack) /\ Shape(stack) /\ Len(stack) \in Nat /\ Forest(heap)
    BY DEF Viable, Owns, IsSeq
<1>2. Top(0) = "CONST"
    BY <1>1, Ends1 DEF ReduceConst
<1>3. /\ 0 < Len(stack) /\ Value(0) = TopPtr(0) /\ TopPtr(0) \in Roots(heap)
      /\ heap[TopPtr(0)].type = "LEXEME"
    BY <1>1, <1>2, HeldIs DEF Carriers
<1>4. Above(stack, Len(stack) - 1) = {TopPtr(0)} /\ 1 \in 0 .. Len(stack)
    <2>1. {TopPtr(k) : k \in 0 .. 1 - 1} = {TopPtr(0)}
        OBVIOUS
    <2>2. 1 \in 0 .. Len(stack)
        BY <1>1, <1>3
    <2> QED
        BY <1>1, <2>1, <2>2, AboveIs
<1>5. Fits("expression", Top(1), Top(1 + 1), Top(1 + 2), Top(1 + 3), Top(1 + 4))
    <2>1. Fits(Top(0), Top(1), Top(2), Top(3), Top(4), Top(5))
        BY <1>1, <1>3, TopIs
    <2> QED
        BY <1>2, <2>1 DEF Fits
<1> DEFINE new == ConstExprNodeCreate(heap, Value(0))
<1>6. Yields(heap, new, {Value(0)})
    BY <1>1, <1>3, ConstYields
<1>7. stack' = Append(Below(1), Symbol("expression", new.ptr)) /\ heap' = new.heap
    BY DEF ReduceConst, Reduce
<1> HIDE DEF new
<1>8. Turns(Append(Below(1), Symbol("expression", new.ptr)), new.heap, {})
    BY <1>3, <1>4, <1>5, <1>6, ReduceTurns
<1> QED
    BY <1>7, <1>8

LEMMA ParenthesesTurns ==
    ASSUME Viable(stack, lookahead), Owns(stack, lookahead, heap), ReduceParentheses
    PROVE  Turns(stack', heap', {})
<1>1. IsSeq(stack) /\ Shape(stack) /\ Len(stack) \in Nat /\ Forest(heap)
    BY DEF Viable, Owns, IsSeq
<1>2. Top(2) = "LPAREN" /\ Top(1) = "expression" /\ Top(0) = "RPAREN"
    BY <1>1, Ends3 DEF ReduceParentheses
<1>3. /\ 2 < Len(stack) /\ TopPtr(2) = NULL /\ TopPtr(0) = NULL
      /\ Value(1) = TopPtr(1) /\ TopPtr(1) \in Roots(heap) \cup {NULL}
    BY <1>1, <1>2, HeldIs DEF Carriers
<1>4. Above(stack, Len(stack) - 3) = {TopPtr(0), TopPtr(1), TopPtr(2)} /\ 3 \in 0 .. Len(stack)
    <2>1. {TopPtr(k) : k \in 0 .. 3 - 1} = {TopPtr(0), TopPtr(1), TopPtr(2)}
        OBVIOUS
    <2>2. 3 \in 0 .. Len(stack)
        BY <1>1, <1>3
    <2> QED
        BY <1>1, <2>1, <2>2, AboveIs
<1>5. Fits("expression", Top(3), Top(3 + 1), Top(3 + 2), Top(3 + 3), Top(3 + 4))
    <2>1. Fits(Top(2), Top(2 + 1), Top(2 + 2), Top(2 + 3), Top(2 + 4), Top(2 + 5))
        BY <1>1, <1>3, TopIs
    <2> QED
        BY <1>2, <2>1 DEF Fits
<1> DEFINE new == [heap |-> heap, ptr |-> Value(1)]
<1>6. new.heap = heap /\ new.ptr = Value(1)
    OBVIOUS
<1>7. stack' = Append(Below(3), Symbol("expression", new.ptr)) /\ heap' = new.heap
    BY DEF ReduceParentheses
<1> HIDE DEF new
<1>8. Yields(heap, new, {new.ptr})
    BY <1>1, <1>3, <1>6, SameYields
<1>9. Turns(Append(Below(3), Symbol("expression", new.ptr)), new.heap, {})
    BY <1>3, <1>4, <1>5, <1>6, <1>8, ReduceTurns
<1> QED
    BY <1>7, <1>9

LEMMA BinopTurns ==
    ASSUME Viable(stack, lookahead), Owns(stack, lookahead, heap), ReduceBinop
    PROVE  Turns(stack', heap', {})
<1>1. IsSeq(stack) /\ Shape(stack) /\ Len(stack) \in Nat /\ Forest(heap)
    BY DEF Viable, Owns, IsSeq
<1>2. Top(2) = "expression" /\ Top(1) = "OP" /\ Top(0) = "expression"
    BY <1>1, Ends3 DEF ReduceBinop
<1>3. /\ 2 < Len(stack) /\ TopPtr(1) = NULL
      /\ Value(0) = TopPtr(0) /\ TopPtr(0) \in Roots(heap) \cup {NULL}
      /\ Value(2) = TopPtr(2) /\ TopPtr(2) \in Roots(heap) \cup {NULL}
      /\ TopPtr(0) = TopPtr(2) => TopPtr(2) = NULL
    BY <1>1, <1>2, HeldIs DEF Carriers
<1>4. Above(stack, Len(stack) - 3) = {TopPtr(0), TopPtr(1), TopPtr(2)} /\ 3 \in 0 .. Len(stack)
    <2>1. {TopPtr(k) : k \in 0 .. 3 - 1} = {TopPtr(0), TopPtr(1), TopPtr(2)}
        OBVIOUS
    <2>2. 3 \in 0 .. Len(stack)
        BY <1>1, <1>3
    <2> QED
        BY <1>1, <2>1, <2>2, AboveIs
<1>5. Fits("expression", Top(3), Top(3 + 1), Top(3 + 2), Top(3 + 3), Top(3 + 4))
    <2>1. Fits(Top(2), Top(2 + 1), Top(2 + 2), Top(2 + 3), Top(2 + 4), Top(2 + 5))
        BY <1>1, <1>3, TopIs
    <2> QED
        BY <1>2, <2>1 DEF Fits
<1> DEFINE new == BinopExprNodeCreate(heap, Value(1), Value(2), Value(0))
<1>6. Yields(heap, new, {Value(2), Value(0)})
    BY <1>1, <1>3, BinopYields DEF Differ
<1>7. stack' = Append(Below(3), Symbol("expression", new.ptr)) /\ heap' = new.heap
    BY DEF ReduceBinop, Reduce
<1> HIDE DEF new
<1>8. Turns(Append(Below(3), Symbol("expression", new.ptr)), new.heap, {})
    <2> DEFINE C == {Value(2), Value(0)}
    <2>1. /\ C \subseteq Above(stack, Len(stack) - 3) \cup {NULL}
          /\ Above(stack, Len(stack) - 3) \subseteq C \cup {} \cup {NULL}
        BY <1>3, <1>4
    <2>2. Yields(heap, new, C)
        BY <1>6
    <2> HIDE DEF C
    <2> QED
        BY <1>4, <1>5, <2>1, <2>2, ReduceTurns
<1> QED
    BY <1>7, <1>8

LEMMA ConditionTurns ==
    ASSUME Viable(stack, lookahead), Owns(stack, lookahead, heap), ReduceCondition
    PROVE  Turns(stack', heap', {})
<1>1. IsSeq(stack) /\ Shape(stack) /\ Len(stack) \in Nat /\ Forest(heap)
    BY DEF Viable, Owns, IsSeq
<1>2. Top(1) \in {"IF", "WHILE"} /\ Top(0) = "expression"
    BY <1>1, Ends2 DEF ReduceCondition
<1>3. 0 < Len(stack) /\ Value(0) = TopPtr(0) /\ TopPtr(0) \in Roots(heap) \cup {NULL}
    BY <1>1, <1>2, HeldIs DEF Carriers
<1>4. Above(stack, Len(stack) - 1) = {TopPtr(0)} /\ 1 \in 0 .. Len(stack)
    <2>1. {TopPtr(k) : k \in 0 .. 1 - 1} = {TopPtr(0)}
        OBVIOUS
    <2>2. 1 \in 0 .. Len(stack)
        BY <1>1, <1>3
    <2> QED
        BY <1>1, <2>1, <2>2, AboveIs
<1>5. Fits("condition", Top(1), Top(1 + 1), Top(1 + 2), Top(1 + 3), Top(1 + 4))
    BY <1>2 DEF Fits
<1> DEFINE new == [heap |-> heap, ptr |-> Value(0)]
<1>6. new.heap = heap /\ new.ptr = Value(0)
    OBVIOUS
<1>7. stack' = Append(Below(1), Symbol("condition", new.ptr)) /\ heap' = new.heap
    BY DEF ReduceCondition
<1> HIDE DEF new
<1>8. Yields(heap, new, {new.ptr})
    BY <1>1, <1>3, <1>6, SameYields
<1>9. Turns(Append(Below(1), Symbol("condition", new.ptr)), new.heap, {})
    BY <1>3, <1>4, <1>5, <1>6, <1>8, ReduceTurns
<1> QED
    BY <1>7, <1>9

LEMMA BlockTurns ==
    ASSUME Viable(stack, lookahead), Owns(stack, lookahead, heap), ReduceBlock
    PROVE  Turns(stack', heap', {})
<1>1. IsSeq(stack) /\ Shape(stack) /\ Len(stack) \in Nat /\ Forest(heap)
    BY DEF Viable, Owns, IsSeq
<1>2. Top(2) = "INDENT" /\ Top(1) = "statements" /\ Top(0) = "DEDENT"
    BY <1>1, Ends3 DEF ReduceBlock
<1>3. /\ 2 < Len(stack) /\ TopPtr(0) = NULL /\ TopPtr(2) = NULL
      /\ Value(1) = TopPtr(1) /\ TopPtr(1) \in Roots(heap) /\ heap[TopPtr(1)].type = "BLOCK"
    BY <1>1, <1>2, HeldIs DEF Carriers
<1>4. Above(stack, Len(stack) - 3) = {TopPtr(0), TopPtr(1), TopPtr(2)} /\ 3 \in 0 .. Len(stack)
    <2>1. {TopPtr(k) : k \in 0 .. 3 - 1} = {TopPtr(0), TopPtr(1), TopPtr(2)}
        OBVIOUS
    <2>2. 3 \in 0 .. Len(stack)
        BY <1>1, <1>3
    <2> QED
        BY <1>1, <2>1, <2>2, AboveIs
<1>5. Fits("block", Top(3), Top(3 + 1), Top(3 + 2), Top(3 + 3), Top(3 + 4))
    <2>1. Fits(Top(2), Top(2 + 1), Top(2 + 2), Top(2 + 3), Top(2 + 4), Top(2 + 5))
        BY <1>1, <1>3, TopIs
    <2> QED
        BY <1>2, <2>1 DEF Fits
<1>6. lookahead = NULL
    <2>1. Ends(<<"DEDENT">>)
        BY <1>1, <1>2, Ends1
    <2> QED
        BY <2>1, ViableIs DEF IsConsistent
<1> DEFINE new == [heap |-> heap, ptr |-> Value(1)]
<1>7. new.heap = heap /\ new.ptr = Value(1)
    OBVIOUS
<1>8. stack' = Append(Below(3), Symbol("block", new.ptr)) /\ heap' = new.heap
    BY DEF ReduceBlock
<1> HIDE DEF new
<1>9. Yields(heap, new, {new.ptr})
    BY <1>1, <1>3, <1>7, SameYields
<1>10. Turns(Append(Below(3), Symbol("block", new.ptr)), new.heap, {})
    BY <1>3, <1>4, <1>5, <1>6, <1>7, <1>9, ReduceTurns
<1> QED
    BY <1>8, <1>10

LEMMA AssignTurns ==
    ASSUME Viable(stack, lookahead), Owns(stack, lookahead, heap), ReduceAssign
    PROVE  Turns(stack', heap', {}) /\ status' \in {"more", "exit"}
<1>1. IsSeq(stack) /\ Shape(stack) /\ Len(stack) \in Nat /\ Forest(heap)
    BY DEF Viable, Owns, IsSeq
<1>2. /\ Top(3) = "IDENTIFIER" /\ Top(2) = "ASSIGN" /\ Top(1) = "expression"
      /\ Top(0) = "NEWLINE"
    BY <1>1, Ends4 DEF ReduceAssign
<1>3. /\ 3 < Len(stack) /\ 2 < Len(stack) /\ TopPtr(0) = NULL /\ TopPtr(2) = NULL
      /\ Value(1) = TopPtr(1) /\ TopPtr(1) \in Roots(heap) \cup {NULL}
      /\ Value(3) = TopPtr(3) /\ TopPtr(3) \in Roots(heap) /\ heap[TopPtr(3)].type = "LEXEME"
      /\ TopPtr(1) = TopPtr(3) => TopPtr(3) = NULL
    BY <1>1, <1>2, HeldIs DEF Carriers
<1>4. /\ Above(stack, Len(stack) - 4) = {TopPtr(0), TopPtr(1), TopPtr(2), TopPtr(3)}
      /\ 4 \in 0 .. Len(stack)
    <2>1. {TopPtr(k) : k \in 0 .. 4 - 1} = {TopPtr(0), TopPtr(1), TopPtr(2), TopPtr(3)}
        OBVIOUS
    <2>2. 4 \in 0 .. Len(stack)
        BY <1>1, <1>3
    <2> QED
        BY <1>1, <2>1, <2>2, AboveIs
<1>5. Starts(Top(4))
    <2>1. Fits(Top(2), Top(2 + 1), Top(2 + 2), Top(2 + 3), Top(2 + 4), Top(2 + 5))
        BY <1>1, <1>3, TopIs
    <2> QED
        BY <1>2, <2>1 DEF Fits
<1> DEFINE new == AssignStmtNodeCreate(heap, Value(3), Value(1))
           C == {Value(3), Value(1)}
<1>6. Yields(heap, new, C)
    <2>1. Value(3) # Value(1)
        BY <1>1, <1>3, RootsAre
    <2> QED
        BY <1>1, <1>3, <2>1, AssignYields
<1>7. ReduceStatement(4, new) /\ status = "more"
    BY DEF ReduceAssign, Running
<1>8. /\ C \subseteq Above(stack, Len(stack) - 4) \cup {NULL}
      /\ Above(stack, Len(stack) - 4) \subseteq C \cup {NULL}
    BY <1>3, <1>4
<1> HIDE DEF new, C
<1> QED
    BY <1>4, <1>5, <1>6, <1>7, <1>8, StatementTurns

LEMMA IfTurns ==
    ASSUME Viable(stack, lookahead), Owns(stack, lookahead, heap), ReduceIf
    PROVE  Turns(stack', heap', {}) /\ status' \in {"more", "exit"}
<1>1. IsSeq(stack) /\ Shape(stack) /\ Len(stack) \in Nat /\ Forest(heap)
    BY DEF Viable, Owns, IsSeq
<1>2. /\ Top(4) = "IF" /\ Top(3) = "condition" /\ Top(2) = "COLON" /\ Top(1) = "NEWLINE"
      /\ Top(0) = "block"
    BY <1>1, Ends5 DEF ReduceIf, EndsHeader
<1>3. /\ 4 < Len(stack) /\ TopPtr(1) = NULL /\ TopPtr(2) = NULL /\ TopPtr(4) = NULL
      /\ Value(0) = TopPtr(0) /\ TopPtr(0) \in Roots(heap)
      /\ Value(3) = TopPtr(3) /\ TopPtr(3) \in Roots(heap) \cup {NULL}
      /\ TopPtr(0) = TopPtr(3) => TopPtr(3) = NULL
    BY <1>1, <1>2, HeldIs DEF Carriers
<1>4. /\ Above(stack, Len(stack) - 5) = {TopPtr(0), TopPtr(1), TopPtr(2), TopPtr(3), TopPtr(4)}
      /\ 5 \in 0 .. Len(stack)
    <2>1. {TopPtr(k) : k \in 0 .. 5 - 1} = {TopPtr(0), TopPtr(1), TopPtr(2), TopPtr(3), TopPtr(4)}
        OBVIOUS
    <2>2. 5 \in 0 .. Len(stack)
        BY <1>1, <1>3
    <2> QED
        BY <1>1, <2>1, <2>2, AboveIs
<1>5. Starts(Top(5))
    <2>1. Fits(Top(4), Top(4 + 1), Top(4 + 2), Top(4 + 3), Top(4 + 4), Top(4 + 5))
        BY <1>1, <1>3, TopIs
    <2> QED
        BY <1>2, <2>1 DEF Fits
<1> DEFINE new == IfStmtNodeCreate(heap, Value(3), Value(0), NULL)
           C == {Value(3), Value(0), NULL}
<1>6. Yields(heap, new, C)
    <2>1. NULL \notin Roots(heap)
        BY <1>1, RootsAre
    <2>2. Value(3) # Value(0) /\ NULL # Value(0) /\ Differ(Value(3), NULL)
        BY <1>3, <2>1 DEF Differ
    <2> QED
        BY <1>1, <1>3, <2>2, IfYields
<1>7. ReduceStatement(5, new) /\ status = "more"
    BY DEF ReduceIf, Defaults, Deciding, Running
<1>8. /\ C \subseteq Above(stack, Len(stack) - 5) \cup {NULL}
      /\ Above(stack, Len(stack) - 5) \subseteq C \cup {NULL}
    BY <1>3, <1>4
<1> HIDE DEF new, C
<1> QED
    BY <1>4, <1>5, <1>6, <1>7, <1>8, StatementTurns

LEMMA IfElseTurns ==
    ASSUME Viable(stack, lookahead), Owns(stack, lookahead, heap), ReduceIfElse
    PROVE  Turns(stack', heap', {}) /\ status' \in {"more", "exit"}
<1>1. IsSeq(stack) /\ Shape(stack) /\ Len(stack) \in Nat /\ Forest(heap)
    BY DEF Viable, Owns, IsSeq
<1>2. Top(3) = "ELSE" /\ Top(2) = "COLON" /\ Top(1) = "NEWLINE" /\ Top(0) = "block"
    BY <1>1, Ends4 DEF ReduceIfElse
<1>3. /\ Top(8) = "IF" /\ Top(7) = "condition" /\ Top(6) = "COLON" /\ Top(5) = "NEWLINE"
      /\ Top(4) = "block"
    <2>1. 3 < Len(stack)
        BY <1>1, <1>2, HeldIs
    <2>2. Fits(Top(3), Top(3 + 1), Top(3 + 2), Top(3 + 3), Top(3 + 4), Top(3 + 5))
        BY <1>1, <2>1, TopIs
    <2> QED
        BY <1>2, <2>2 DEF Fits
<1>4. /\ 8 < Len(stack) /\ TopPtr(1) = NULL /\ TopPtr(2) = NULL /\ TopPtr(3) = NULL
      /\ TopPtr(5) = NULL /\ TopPtr(6) = NULL /\ TopPtr(8) = NULL
    BY <1>1, <1>2, <1>3, HeldIs DEF Carriers
<1>5. /\ Value(0) = TopPtr(0) /\ TopPtr(0) \in Roots(heap)
      /\ Value(4) = TopPtr(4) /\ TopPtr(4) \in Roots(heap)
      /\ Value(7) = TopPtr(7) /\ TopPtr(7) \in Roots(heap) \cup {NULL}
      /\ TopPtr(0) = TopPtr(4) => TopPtr(4) = NULL
      /\ TopPtr(0) = TopPtr(7) => TopPtr(7) = NULL
      /\ TopPtr(4) = TopPtr(7) => TopPtr(7) = NULL
    BY <1>1, <1>2, <1>3, HeldIs DEF Carriers
<1>6. /\ Above(stack, Len(stack) - 9) = {TopPtr(k) : k \in 0 .. 9 - 1}
      /\ 9 \in 0 .. Len(stack)
    <2>1. 9 \in 0 .. Len(stack)
        BY <1>1, <1>4
    <2> QED
        BY <1>1, <2>1, AboveIs
<1>7. Starts(Top(9))
    <2>1. Fits(Top(8), Top(8 + 1), Top(8 + 2), Top(8 + 3), Top(8 + 4), Top(8 + 5))
        BY <1>1, <1>4, TopIs
    <2> QED
        BY <1>3, <2>1 DEF Fits
<1> DEFINE new == IfStmtNodeCreate(heap, Value(7), Value(4), Value(0))
           C == {Value(7), Value(4), Value(0)}
<1>8. Yields(heap, new, C)
    <2>1. NULL \notin Roots(heap)
        BY <1>1, RootsAre
    <2>2. Value(7) # Value(4) /\ Value(0) # Value(4) /\ Differ(Value(7), Value(0))
        BY <1>5, <2>1 DEF Differ
    <2> QED
        BY <1>1, <1>5, <2>2, IfYields
<1>9. ReduceStatement(9, new) /\ status = "more"
    BY DEF ReduceIfElse, Running
<1>10. C \subseteq Above(stack, Len(stack) - 9) \cup {NULL}
    <2>1. 0 \in 0 .. 9 - 1 /\ 4 \in 0 .. 9 - 1 /\ 7 \in 0 .. 9 - 1
        OBVIOUS
    <2> QED
        BY <1>5, <1>6, <2>1
<1>11. Above(stack, Len(stack) - 9) \subseteq C \cup {NULL}
    <2>1. ASSUME NEW k \in 0 .. 9 - 1 PROVE TopPtr(k) \in C \cup {NULL}
        <3>1. k = 0 \/ k = 1 \/ k = 2 \/ k = 3 \/ k = 4 \/ k = 5 \/ k = 6 \/ k = 7 \/ k = 8
            OBVIOUS
        <3> QED
            BY <1>4, <1>5, <3>1
    <2> QED
        BY <1>6, <2>1
<1> HIDE DEF new, C
<1> QED
    BY <1>6, <1>7, <1>8, <1>9, <1>10, <1>11, StatementTurns

LEMMA WhileTurns ==
    ASSUME Viable(stack, lookahead), Owns(stack, lookahead, heap), ReduceWhile
    PROVE  Turns(stack', heap', {}) /\ status' \in {"more", "exit"}
<1>1. IsSeq(stack) /\ Shape(stack) /\ Len(stack) \in Nat /\ Forest(heap)
    BY DEF Viable, Owns, IsSeq
<1>2. /\ Top(4) = "WHILE" /\ Top(3) = "condition" /\ Top(2) = "COLON" /\ Top(1) = "NEWLINE"
      /\ Top(0) = "block"
    BY <1>1, Ends5 DEF ReduceWhile, EndsHeader
<1>3. /\ 4 < Len(stack) /\ TopPtr(1) = NULL /\ TopPtr(2) = NULL /\ TopPtr(4) = NULL
      /\ Value(0) = TopPtr(0) /\ TopPtr(0) \in Roots(heap)
      /\ Value(3) = TopPtr(3) /\ TopPtr(3) \in Roots(heap) \cup {NULL}
      /\ TopPtr(0) = TopPtr(3) => TopPtr(3) = NULL
    BY <1>1, <1>2, HeldIs DEF Carriers
<1>4. /\ Above(stack, Len(stack) - 5) = {TopPtr(0), TopPtr(1), TopPtr(2), TopPtr(3), TopPtr(4)}
      /\ 5 \in 0 .. Len(stack)
    <2>1. {TopPtr(k) : k \in 0 .. 5 - 1} = {TopPtr(0), TopPtr(1), TopPtr(2), TopPtr(3), TopPtr(4)}
        OBVIOUS
    <2>2. 5 \in 0 .. Len(stack)
        BY <1>1, <1>3
    <2> QED
        BY <1>1, <2>1, <2>2, AboveIs
<1>5. Starts(Top(5))
    <2>1. Fits(Top(4), Top(4 + 1), Top(4 + 2), Top(4 + 3), Top(4 + 4), Top(4 + 5))
        BY <1>1, <1>3, TopIs
    <2> QED
        BY <1>2, <2>1 DEF Fits
<1> DEFINE new == WhileStmtNodeCreate(heap, Value(3), Value(0))
           C == {Value(3), Value(0)}
<1>6. Yields(heap, new, C)
    <2>1. NULL \notin Roots(heap)
        BY <1>1, RootsAre
    <2>2. Value(3) # Value(0)
        BY <1>3, <2>1
    <2> QED
        BY <1>1, <1>3, <2>2, WhileYields
<1>7. ReduceStatement(5, new) /\ status = "more"
    BY DEF ReduceWhile, Running
<1>8. /\ C \subseteq Above(stack, Len(stack) - 5) \cup {NULL}
      /\ Above(stack, Len(stack) - 5) \subseteq C \cup {NULL}
    BY <1>3, <1>4
<1> HIDE DEF new, C
<1> QED
    BY <1>4, <1>5, <1>6, <1>7, <1>8, StatementTurns

\* A statement that has no parts: break, and a line that could not be read.
LEMMA LineTurns ==
    ASSUME Viable(stack, lookahead), Owns(stack, lookahead, heap), status = "more",
           NEW s \in {"BREAK", "error"}, Top(1) = s, Top(0) = "NEWLINE",
           NEW new, Yields(heap, new, {}), ReduceStatement(2, new)
    PROVE  Turns(stack', heap', {}) /\ status' \in {"more", "exit"}
<1>1. IsSeq(stack) /\ Shape(stack) /\ Len(stack) \in Nat
    BY DEF Viable, IsSeq
<1>2. 1 < Len(stack) /\ TopPtr(0) = NULL /\ TopPtr(1) = NULL
    BY <1>1, HeldIs DEF Carriers
<1>3. Above(stack, Len(stack) - 2) = {TopPtr(0), TopPtr(1)} /\ 2 \in 0 .. Len(stack)
    <2>1. {TopPtr(k) : k \in 0 .. 2 - 1} = {TopPtr(0), TopPtr(1)}
        OBVIOUS
    <2>2. 2 \in 0 .. Len(stack)
        BY <1>1, <1>2
    <2> QED
        BY <1>1, <2>1, <2>2, AboveIs
<1>4. Starts(Top(2))
    <2>1. Fits(Top(1), Top(1 + 1), Top(1 + 2), Top(1 + 3), Top(1 + 4), Top(1 + 5))
        BY <1>1, <1>2, TopIs
    <2> QED
        BY <2>1 DEF Fits
<1> DEFINE C == {}
<1>5. /\ C \subseteq Above(stack, Len(stack) - 2) \cup {NULL}
      /\ Above(stack, Len(stack) - 2) \subseteq C \cup {NULL} /\ Yields(heap, new, C)
    BY <1>2, <1>3
<1> HIDE DEF C
<1> QED
    BY <1>3, <1>4, <1>5, StatementTurns

LEMMA BreakTurns ==
    ASSUME Viable(stack, lookahead), Owns(stack, lookahead, heap), ReduceBreak
    PROVE  Turns(stack', heap', {}) /\ status' \in {"more", "exit"}
<1>1. IsSeq(stack) /\ Shape(stack) /\ Forest(heap)
    BY DEF Viable, Owns
<1>2. Top(1) = "BREAK" /\ Top(0) = "NEWLINE"
    BY <1>1, Ends2 DEF ReduceBreak
<1>3. Yields(heap, BreakStmtNodeCreate(heap), {})
    BY <1>1, BreakYields
<1>4. ReduceStatement(2, BreakStmtNodeCreate(heap)) /\ status = "more"
    BY DEF ReduceBreak, Running
<1> QED
    BY <1>2, <1>3, <1>4, LineTurns

LEMMA ErrorTurns ==
    ASSUME Viable(stack, lookahead), Owns(stack, lookahead, heap), ReduceError
    PROVE  Turns(stack', heap', {}) /\ status' \in {"more", "exit"}
<1>1. IsSeq(stack) /\ Shape(stack) /\ Forest(heap)
    BY DEF Viable, Owns
<1>2. Top(1) = "error" /\ Top(0) = "NEWLINE"
    BY <1>1, Ends2 DEF ReduceError
<1>3. Yields(heap, Nothing(heap), {})
    <2>1. Nothing(heap).heap = heap /\ Nothing(heap).ptr = NULL
        BY DEF Nothing
    <2> QED
        BY <1>1, <2>1, SameYields
<1>4. ReduceStatement(2, Nothing(heap)) /\ status = "more"
    BY DEF ReduceError, Running
<1> QED
    BY <1>2, <1>3, <1>4, LineTurns

-----------------------------------------------------------------------------
(* The other steps of the parser *)

\* The lookahead is discarded.
LEMMA OwnsLess ==
    ASSUME NEW st, NEW la, NEW h, Owns(st, la, h)
    PROVE  Owns(st, NULL, h)
BY DEF Owns, Pointed

\* What is shifted fits on the stack.
LEMMA ShiftFits ==
    ASSUME Viable(stack, lookahead), lookahead # NULL, Shifts
    PROVE  Fits(lookahead.sym, Top(0), Top(1), Top(2), Top(3), Top(4))
<1>1. IsSeq(stack) /\ Shape(stack) /\ Len(stack) \in Nat
    BY DEF Viable, IsSeq
<1>2. ~Consistent(Top(0), Top(1), Top(2), Top(3), Top(4))
    BY <1>1, ViableIs, IsConsistentIs
<1>3. CASE lookahead.sym = "OP" /\ ShiftsOperator(lookahead.val)
    <2>1. Top(0) = "expression"
        BY <1>1, <1>3, Ends1 DEF ShiftsOperator
    <2> QED
        BY <1>3, <2>1 DEF Fits
<1>4. CASE lookahead.sym \in Expected
    <2>1. /\ AtStatement(stack) <=> Starts(Top(0))
          /\ AtOperand(stack) <=> Top(0) \in BeforeOperand
        <3>1. Len(stack) \in 0 .. Len(stack) /\ Len(stack) - 0 = Len(stack)
            BY <1>1
        <3> QED
            BY <1>1, <3>1, PlaceIs, WholeIs DEF Top
    <2>2. /\ Ends(<<"INDENT", "statements">>) <=> Top(1) = "INDENT" /\ Top(0) = "statements"
          /\ Ends(<<"LPAREN", "expression">>) <=> Top(1) = "LPAREN" /\ Top(0) = "expression"
          /\ Ends(<<"ASSIGN", "expression">>) <=> Top(1) = "ASSIGN" /\ Top(0) = "expression"
        BY <1>1, Ends2
    <2>3. /\ Ends(<<"IDENTIFIER">>) <=> Top(0) = "IDENTIFIER"
          /\ Ends(<<"condition">>) <=> Top(0) = "condition"
          /\ Ends(<<"COLON">>) <=> Top(0) = "COLON"
          /\ Ends(<<"NEWLINE">>) <=> Top(0) = "NEWLINE"
          /\ Ends(<<"ELSE">>) <=> Top(0) = "ELSE"
          /\ Ends(<<"BREAK">>) <=> Top(0) = "BREAK"
          /\ Ends(<<"error">>) <=> Top(0) = "error"
        BY <1>1, Ends1
    <2>4. EndsHeader("IF") <=> /\ Top(4) = "IF" /\ Top(3) = "condition" /\ Top(2) = "COLON"
                               /\ Top(1) = "NEWLINE" /\ Top(0) = "block"
        BY <1>1, Ends5 DEF EndsHeader
    <2>5. Top(0) # "bottom" => Fits(Top(0), Top(1), Top(2), Top(3), Top(4), Top(5))
        <3>1. Top(0) # "bottom" => Fits(Top(0), Top(0 + 1), Top(0 + 2), Top(0 + 3), Top(0 + 4), Top(0 + 5))
            BY <1>1, TopIs
        <3> QED
            BY <3>1
    <2>6. CASE Starts(Top(0))
        <3>1. \/ lookahead.sym \in {"IDENTIFIER", "IF", "WHILE", "BREAK"}
              \/ lookahead.sym = "DEDENT" /\ Top(1) = "INDENT" /\ Top(0) = "statements"
            BY <1>4, <2>1, <2>2, <2>3, <2>4, <2>6 DEF Expected, Starts, BeforeOperand
        <3> QED
            BY <2>6, <3>1 DEF Fits
    <2>7. CASE Top(0) \in BeforeOperand
        <3>1. lookahead.sym \in {"IDENTIFIER", "CONST", "LPAREN"}
            BY <1>4, <2>1, <2>2, <2>3, <2>4, <2>7 DEF Expected, Starts, BeforeOperand
        <3> QED
            BY <2>7, <3>1 DEF Fits
    <2>8. CASE Top(0) = "expression"
        <3>1. \/ lookahead.sym = "RPAREN" /\ Top(1) = "LPAREN"
              \/ lookahead.sym = "NEWLINE" /\ Top(1) = "ASSIGN"
            BY <1>4, <2>1, <2>2, <2>3, <2>4, <2>8 DEF Expected, Starts, BeforeOperand
        <3> QED
            BY <2>8, <3>1 DEF Fits
    <2>9. CASE Top(0) = "IDENTIFIER"
        <3>1. lookahead.sym = "ASSIGN"
            BY <1>4, <2>1, <2>2, <2>3, <2>4, <2>9 DEF Expected, Starts, BeforeOperand
        <3>2. Starts(Top(1))
            BY <1>2, <2>5, <2>9 DEF Fits, Consistent
        <3> QED
            BY <2>9, <3>1, <3>2 DEF Fits
    <2>10. CASE Top(0) = "NEWLINE"
        <3>1. lookahead.sym = "INDENT"
            BY <1>4, <2>1, <2>2, <2>3, <2>4, <2>10 DEF Expected, Starts, BeforeOperand
        <3>2. Top(1) = "COLON"
            BY <1>2, <2>5, <2>10 DEF Fits, Consistent
        <3> QED
            BY <2>10, <3>1, <3>2 DEF Fits
    <2>11. CASE Top(0) = "block"
        <3>1. lookahead.sym = "ELSE" /\ EndsHeader("IF")
            BY <1>4, <2>1, <2>2, <2>3, <2>11 DEF Expected, Starts, BeforeOperand
        <3> QED
            BY <2>4, <3>1 DEF Fits
    <2>12. CASE Top(0) \in {"condition", "ELSE"}
        <3>1. lookahead.sym = "COLON"
            BY <1>4, <2>1, <2>2, <2>3, <2>4, <2>12 DEF Expected, Starts, BeforeOperand
        <3> QED
            BY <2>12, <3>1 DEF Fits
    <2>13. CASE Top(0) \in {"COLON", "BREAK", "error"}
        <3>1. lookahead.sym = "NEWLINE"
            BY <1>4, <2>1, <2>2, <2>3, <2>4, <2>13 DEF Expected, Starts, BeforeOperand
        <3> QED
            BY <2>13, <3>1 DEF Fits
    <2>14. CASE /\ ~Starts(Top(0)) /\ Top(0) \notin BeforeOperand
                /\ Top(0) \notin {"expression", "IDENTIFIER", "NEWLINE", "block", "condition",
                                  "ELSE", "COLON", "BREAK", "error"}
        BY <1>4, <2>1, <2>2, <2>3, <2>4, <2>14 DEF Expected
    <2> QED
        BY <2>6, <2>7, <2>8, <2>9, <2>10, <2>11, <2>12, <2>13, <2>14
<1> QED
    BY <1>3, <1>4 DEF Shifts

LEMMA ShiftKeeps ==
    ASSUME Viable(stack, lookahead), Owns(stack, lookahead, heap), Shift
    PROVE  /\ Viable(stack', NULL) /\ Owns(stack', NULL, heap)
           /\ Has(stack, lookahead) \subseteq Has(stack', NULL)
<1>1. IsSeq(stack) /\ Shape(stack) /\ Len(stack) \in Nat
    BY DEF Viable, IsSeq
<1>2. lookahead # NULL /\ Shifts /\ stack' = Append(stack, lookahead)
    BY DEF Shift, Deciding
<1>3. FitsOn(stack, Len(stack), lookahead.sym)
    <2>1. Len(stack) - 0 = Len(stack)
        BY <1>1
    <2> QED
        BY <1>2, <2>1, ShiftFits DEF FitsOn, Top
<1>4. Viable(Append(SubSeq(stack, 1, Len(stack)), lookahead), NULL)
    <2>1. Len(stack) \in 0 .. Len(stack)
        BY <1>1
    <2> QED
        BY <1>3, <2>1, ViablePush
<1>5. Owns(stack, NULL, heap) /\ IsValue(heap, lookahead) /\ Pointed(NULL) = NULL
    BY <1>2, OwnsLess DEF Owns, Pointed
<1>6. Pointed(lookahead) # NULL => Pointed(lookahead) \notin Has(stack, NULL)
    BY <1>5 DEF Owns, Has
<1>7. /\ Owns(Append(stack, lookahead), NULL, heap)
      /\ Has(Append(stack, lookahead), NULL) = Has(stack, NULL) \cup {Pointed(lookahead)}
    BY <1>1, <1>5, <1>6, OwnsPush
<1> QED
    BY <1>1, <1>2, <1>4, <1>7, WholeIs DEF Has

LEMMA RecoveredIs ==
    ASSUME IsSeq(stack), Shape(stack)
    PROVE  \E n \in 0 .. Len(stack) : Recovered = SubSeq(stack, 1, n) /\ Starts(Sym(stack, n))
<1> DEFINE S == {i \in 0 .. Len(stack) : AtStatement(SubSeq(stack, 1, i))}
           P(i) == /\ AtStatement(SubSeq(stack, 1, i))
                   /\ \A j \in i + 1 .. Len(stack) : ~AtStatement(SubSeq(stack, 1, j))
           n == CHOOSE i \in 0 .. Len(stack) : P(i)
<1>1. Len(stack) \in Nat
    BY DEF IsSeq
<1>2. S \in SUBSET (0 .. Len(stack)) /\ S # {}
    <2>1. 0 \in 0 .. Len(stack)
        BY <1>1
    <2>2. AtStatement(SubSeq(stack, 1, 0))
        BY <2>1, SameLast DEF AtStatement
    <2> QED
        BY <2>1, <2>2
<1>3. PICK m \in S : \A x \in S : x <= m
    <2> HIDE DEF S
    <2> QED
        BY <1>1, <1>2, MaxOfNats
<1>4. m \in 0 .. Len(stack) /\ P(m)
    BY <1>1, <1>3
<1>5. n \in 0 .. Len(stack) /\ P(n)
    <2> HIDE DEF P
    <2> QED
        BY <1>4
<1>6. Recovered = SubSeq(stack, 1, n)
    BY DEF Recovered
<1> HIDE DEF n
<1> QED
    BY <1>5, <1>6, PlaceIs

\* What is popped stays allocated, and belongs to nobody.
LEMMA SyntaxErrorKeeps ==
    ASSUME Viable(stack, lookahead), Owns(stack, lookahead, heap), SyntaxError
    PROVE  Viable(stack', lookahead') /\ Owns(stack', lookahead', heap)
<1>1. IsSeq(stack) /\ Shape(stack) /\ Forest(heap)
    BY DEF Viable, Owns
<1>2. PICK n \in 0 .. Len(stack) : Recovered = SubSeq(stack, 1, n) /\ Starts(Sym(stack, n))
    BY <1>1, RecoveredIs
<1> DEFINE e == Token("error")
           f == SubSeq(stack, 1, n)
<1>3. e.sym = "error" /\ e # NULL /\ Pointed(e) = NULL
    <2>1. "error" \in Tokens \cup Nonterminals /\ "error" # "OP" /\ NULL \in Nat \cup {NULL}
        BY DEF Nonterminals
    <2> QED
        BY <2>1, SymbolIs DEF Token
<1> HIDE DEF e
<1>4. stack' = Append(f, e) /\ lookahead' \in {NULL, lookahead}
    BY <1>2 DEF SyntaxError, e
<1>5. FitsOn(stack, n, e.sym)
    BY <1>2, <1>3 DEF FitsOn, Fits
<1>6. Viable(Append(f, e), lookahead')
    BY <1>3, <1>5, ViablePush
<1>7. Owns(f, lookahead, heap)
    <2>1. Nothing(heap).heap = heap /\ Nothing(heap).ptr = NULL
        BY DEF Nothing
    <2>2. Yields(heap, Nothing(heap), {})
        BY <1>1, <2>1, SameYields
    <2> QED
        BY <1>1, <2>1, <2>2, OwnsPop
<1>8. Owns(f, lookahead', heap) /\ IsSeq(f)
    BY <1>1, <1>4, <1>7, OwnsLess, PrefixIs
<1> HIDE DEF f
<1>9. IsValue(heap, e)
    BY <1>3 DEF IsValue, Carriers
<1>10. Owns(Append(f, e), lookahead', heap)
    BY <1>3, <1>8, <1>9, OwnsPush
<1> QED
    BY <1>4, <1>6, <1>10

\* A stack that holds nothing.
LEMMA ProgramHolds ==
    ASSUME NEW h, Forest(h)
    PROVE  /\ Viable(<<Token("program")>>, NULL) /\ Owns(<<Token("program")>>, NULL, h)
           /\ Has(<<Token("program")>>, NULL) = {NULL}
<1> DEFINE e == Token("program")
           st == <<e>>
<1>1. e.sym = "program" /\ e # NULL /\ Pointed(e) = NULL
    <2>1. "program" \in Tokens \cup Nonterminals /\ "program" # "OP" /\ NULL \in Nat \cup {NULL}
        BY DEF Nonterminals
    <2> QED
        BY <2>1, SymbolIs DEF Token
<1> HIDE DEF e
<1>2. IsSeq(st) /\ DOMAIN st = {1} /\ Len(st) = 1 /\ st[1] = e
    BY Tuple1
<1> HIDE DEF st
<1>3. Shape(st)
    BY <1>1, <1>2 DEF Shape, FitsOn, Fits
<1>4. Viable(st, NULL)
    BY <1>2, <1>3 DEF Viable
<1>5. Owns(st, NULL, h) /\ Has(st, NULL) = {NULL}
    BY <1>1, <1>2 DEF Owns, Has, IsValue, Carriers, Pointed
<1> QED
    BY <1>4, <1>5 DEF st, e

LEMMA EmptyHolds ==
    ASSUME NEW h, Forest(h)
    PROVE  Viable(<<>>, NULL) /\ Owns(<<>>, NULL, h) /\ Has(<<>>, NULL) = {NULL}
BY EmptyIs DEF Viable, Shape, Owns, Has, Pointed

LEMMA ProgramKeeps ==
    ASSUME Viable(stack, lookahead), Owns(stack, lookahead, heap), ReduceProgram
    PROVE  /\ ast' \in Roots(heap)
           /\ Has(stack, lookahead) \subseteq {ast', NULL}
<1>1. IsSeq(stack) /\ Shape(stack) /\ Len(stack) \in Nat /\ DOMAIN stack = 1 .. Len(stack)
    BY SeqIs DEF Viable, IsSeq
<1>2. Symbols = <<"statements">> /\ lookahead.sym = "EOF" /\ ast' = Value(0) /\ lookahead # NULL
    BY DEF ReduceProgram, Defaults, Deciding
<1>3. DOMAIN stack = {1} /\ Symbols[1] = "statements"
    <2>1. DOMAIN Symbols = {1} /\ Symbols[1] = "statements"
        BY <1>2, Tuple1
    <2> QED
        BY <2>1 DEF Symbols
<1>4. Len(stack) = 1
    <2>1. 1 \in 1 .. Len(stack) /\ (Len(stack) \in 1 .. Len(stack) => Len(stack) = 1)
        BY <1>1, <1>3
    <2>2. Len(stack) \in Nat
        BY <1>1
    <2>3. Len(stack) \in 1 .. Len(stack)
        BY ONLY <2>1, <2>2
    <2> QED
        BY <2>1, <2>3
<1>5. Top(0) = "statements"
    BY <1>3, <1>4 DEF Top, Sym, Symbols
<1>6. Value(0) = TopPtr(0) /\ TopPtr(0) \in Roots(heap)
    BY <1>1, <1>5, HeldIs DEF Carriers
<1>7. TopPtr(0) = Pointed(stack[1])
    BY <1>4 DEF TopPtr
<1>8. Pointed(lookahead) = NULL
    BY <1>2 DEF Owns, IsValue, Carriers
<1> QED
    BY <1>2, <1>3, <1>6, <1>7, <1>8 DEF Has

-----------------------------------------------------------------------------
(* What the scanner pushes *)

IsToken(t) ==
    /\ t = Symbol(t.sym, t.val) /\ t.sym \in Tokens
    /\ t.sym \notin {"IDENTIFIER", "CONST", "OP"} => t.val = NULL

AllTokens(s) == IsSeq(s) /\ \A i \in DOMAIN s : IsToken(s[i])

Names == {"INDENT", "DEDENT", "CODE", "NEWLINE"}

LEMMA TokenIs ==
    ASSUME NEW t \in Tokens \ {"IDENTIFIER", "CONST", "OP"}
    PROVE  IsToken(Token(t))
<1> DEFINE e == Token(t)
<1>1. e.sym = t /\ e.val = NULL
    BY DEF Token, Symbol
<1>2. e = Symbol(e.sym, e.val)
    BY <1>1 DEF Token
<1> HIDE DEF e
<1>3. IsToken(e)
    BY <1>1, <1>2 DEF IsToken
<1> QED
    BY <1>3 DEF e

LEMMA ConcatIs ==
    ASSUME NEW s, NEW t, AllTokens(s), AllTokens(t)
    PROVE  AllTokens(s \o t)
<1> DEFINE S == {s[i] : i \in 1 .. Len(s)} \cup {t[i] : i \in 1 .. Len(t)}
<1>1. s \in Seq(S) /\ t \in Seq(S)
    <2>1. s \in [1 .. Len(s) -> S] /\ t \in [1 .. Len(t) -> S] /\ Len(s) \in Nat /\ Len(t) \in Nat
        BY DEF AllTokens, IsSeq
    <2> QED
        BY <2>1 DEF AllTokens, IsSeq
<1>2. \A e \in S : IsToken(e)
    <2>1. DOMAIN s = 1 .. Len(s) /\ DOMAIN t = 1 .. Len(t)
        BY SeqIs DEF AllTokens
    <2> QED
        BY <2>1 DEF AllTokens
<1> HIDE DEF S
<1>3. s \o t \in Seq(S)
    BY <1>1
<1>4. IsSeq(s \o t)
    BY <1>3, SeqIsSeq
<1>5. \A i \in DOMAIN (s \o t) : (s \o t)[i] \in S
    BY <1>3
<1> QED
    BY <1>2, <1>4, <1>5 DEF AllTokens

LEMMA PlainTokens ==
    ASSUME NEW s, IsSeq(s), \A i \in DOMAIN s : s[i] \in Names \ {"CODE"}
    PROVE  AllTokens(Plain(s))
<1> DEFINE f == Plain(s)
<1>1. DOMAIN s = 1 .. Len(s) /\ Len(s) \in Nat
    BY SeqIs DEF IsSeq
<1>2. f = [i \in 1 .. Len(s) |-> f[i]] /\ \A i \in DOMAIN s : f[i] = Token(s[i])
    BY <1>1 DEF Plain
<1> HIDE DEF f
<1>3. IsSeq(f) /\ DOMAIN f = 1 .. Len(s)
    <2>1. IsSeq(f)
        BY <1>1, <1>2, FcnSeq
    <2> QED
        BY <1>2, <2>1
<1>4. \A i \in DOMAIN s : s[i] \in Tokens \ {"IDENTIFIER", "CONST", "OP"}
    BY DEF Names, Tokens
<1>5. \A i \in DOMAIN f : IsToken(f[i])
    BY <1>1, <1>2, <1>3, <1>4, TokenIs
<1>6. AllTokens(f)
    BY <1>3, <1>5 DEF AllTokens
<1> QED
    BY <1>6 DEF f

\* A text has tokens.
LEMMA TextTokensAre ==
    ASSUME source \in Sources, NEW i \in 1 .. Len(source)
    PROVE  AllTokens(source[i].text.tokens)
<1> DEFINE ts == source[i].text.tokens
<1>1. i \in DOMAIN source
    BY SourcesAssumption
<1>2. /\ Len(ts) \in Nat /\ ts = [j \in 1 .. Len(ts) |-> ts[j]]
      /\ \A j \in 1 .. Len(ts) : IsTextToken(ts[j])
    BY <1>1, SourcesAssumption
<1> HIDE DEF ts
<1>3. IsSeq(ts) /\ DOMAIN ts = 1 .. Len(ts)
    BY <1>2 DEF IsSeq
<1>4. \A j \in DOMAIN ts : IsToken(ts[j])
    BY <1>2, <1>3 DEF IsTextToken, TextTokens, IsToken
<1>5. AllTokens(ts)
    BY <1>3, <1>4 DEF AllTokens
<1> QED
    BY <1>5 DEF ts

LEMMA TailIs ==
    ASSUME NEW s, IsSeq(s), Len(s) \in {1, 2}
    PROVE  /\ s # <<>> /\ DOMAIN s = 1 .. Len(s)
           /\ Len(s) = 1 => Tail(s) = <<>>
           /\ Len(s) = 2 => IsSeq(Tail(s)) /\ DOMAIN Tail(s) = {1} /\ Tail(s)[1] = s[2]
<1> DEFINE S == {s[i] : i \in 1 .. Len(s)}
<1>1. s \in Seq(S) /\ DOMAIN s = 1 .. Len(s)
    BY SeqIs
<1> HIDE DEF S
<1>2. s # <<>>
    <2>1. 1 \in DOMAIN s
        BY <1>1
    <2> QED
        BY <2>1, EmptyIs
<1>3. ASSUME Len(s) = 1 PROVE Tail(s) = <<>>
    <2>1. Tail(s) \in Seq(S) /\ Len(Tail(s)) = 0
        BY <1>1, <1>2, <1>3
    <2> DEFINE r == Tail(s)
    <2>2. IsSeq(r) /\ Len(r) = 0
        BY <2>1, SeqIsSeq
    <2> HIDE DEF r
    <2>3. r = [i \in 1 .. 0 |-> r[i]]
        BY <2>2 DEF IsSeq
    <2>4. r = <<>>
        BY <2>3
    <2> QED
        BY <2>4 DEF r
<1>4. ASSUME Len(s) = 2 PROVE IsSeq(Tail(s)) /\ DOMAIN Tail(s) = {1} /\ Tail(s)[1] = s[2]
    <2>1. Tail(s) \in Seq(S) /\ Len(Tail(s)) = 1 /\ Tail(s)[1] = s[2]
        BY <1>1, <1>2, <1>4
    <2> DEFINE r == Tail(s)
    <2>2. IsSeq(r) /\ Len(r) = 1 /\ r[1] = s[2]
        BY <2>1, SeqIsSeq
    <2> HIDE DEF r
    <2>3. DOMAIN r = 1 .. 1
        BY <2>2, SeqIs
    <2>4. IsSeq(r) /\ DOMAIN r = {1} /\ r[1] = s[2]
        BY <2>2, <2>3
    <2> QED
        BY <2>4 DEF r
<1> QED
    BY <1>1, <1>2, <1>3, <1>4

\* What is new in the scanner's tokens.
New_ == SubSeq(tokens', Len(tokens) + 1, Len(tokens'))

LEMMA NewIs ==
    ASSUME tokens \in Seq(Names)
    PROVE  /\ tokens' = tokens => tokens' \in Seq(Names) /\ New_ = <<>>
           /\ \A t \in Names : tokens' = Append(tokens, t) =>
                 tokens' \in Seq(Names) /\ IsSeq(New_) /\ Len(New_) = 1 /\ New_[1] = t
           /\ tokens' = tokens \o <<"CODE", "NEWLINE">> =>
                 /\ tokens' \in Seq(Names) /\ IsSeq(New_) /\ Len(New_) = 2
                 /\ New_[1] = "CODE" /\ New_[2] = "NEWLINE"
<1>1. Len(tokens) \in Nat
    OBVIOUS
<1>2. ASSUME tokens' = tokens PROVE tokens' \in Seq(Names) /\ New_ = <<>>
    <2>1. New_ = [i \in 1 .. 0 |-> New_[i]]
        BY <1>1, <1>2 DEF New_
    <2> QED
        BY <1>2, <2>1
<1>3. ASSUME NEW t \in Names, tokens' = Append(tokens, t)
      PROVE  tokens' \in Seq(Names) /\ IsSeq(New_) /\ Len(New_) = 1 /\ New_[1] = t
    <2>1. tokens' \in Seq(Names) /\ Len(tokens') = Len(tokens) + 1
          /\ tokens'[Len(tokens) + 1] = t
        BY <1>3
    <2>2. New_ \in Seq(Names) /\ Len(New_) = 1 /\ New_[1] = t
        BY <1>1, <2>1 DEF New_
    <2> QED
        BY <2>1, <2>2, SeqIsSeq
<1>4. ASSUME tokens' = tokens \o <<"CODE", "NEWLINE">>
      PROVE  /\ tokens' \in Seq(Names) /\ IsSeq(New_) /\ Len(New_) = 2
             /\ New_[1] = "CODE" /\ New_[2] = "NEWLINE"
    <2> DEFINE c == <<"CODE", "NEWLINE">>
    <2>1. c \in Seq(Names) /\ Len(c) = 2 /\ c[1] = "CODE" /\ c[2] = "NEWLINE"
        BY DEF Names
    <2> HIDE DEF c
    <2>2. /\ tokens' \in Seq(Names) /\ Len(tokens') = Len(tokens) + 2
          /\ tokens'[Len(tokens) + 1] = c[1] /\ tokens'[Len(tokens) + 2] = c[2]
        BY <1>1, <1>4, <2>1 DEF c
    <2>3. New_ \in Seq(Names) /\ Len(New_) = 2 /\ New_[1] = c[1] /\ New_[2] = c[2]
        BY <1>1, <2>2 DEF New_
    <2> QED
        BY <2>1, <2>2, <2>3, SeqIsSeq
<1> QED
    BY <1>2, <1>3, <1>4

LineStates == {"skip", "indentation", "unindented", "dedent", "code"}
Stuck == {"error", "exit", "no_pstate"}

\* The tokens of a step are names, and a CODE comes first and while a line is read.
LEMMA ScanPushes ==
    ASSUME source \in Sources, at \in 1 .. Len(source) + 1, tokens \in Seq(Names),
           pc \in LineStates => at >= 2, Scanner!Scan
    PROVE  /\ tokens' \in Seq(Names) /\ AllTokens(Pushed)
           /\ pc' \in {"line", "eof", "done"} \cup LineStates \cup Stuck
           /\ pc' \in LineStates => pc \in LineStates
           /\ pc' \in Stuck => Pushed = <<>>
<1> DEFINE last == IF pc' = "done" THEN <<Token("EOF")>> ELSE <<>>
           body == IF New_ # <<>> /\ New_[1] = "CODE"
                   THEN source[at - 1].text.tokens \o Plain(Tail(New_)) ELSE Plain(New_)
<1>0. Pushed = body \o last
    BY DEF Pushed, New_
<1>1. AllTokens(last) /\ (pc' # "done" => last = <<>>)
    <2>1. CASE pc' = "done"
        <3> DEFINE e == Token("EOF")
        <3>1. "EOF" \in Tokens \ {"IDENTIFIER", "CONST", "OP"}
            BY DEF Tokens
        <3>2. IsToken(e)
            BY <3>1, TokenIs
        <3> HIDE DEF e
        <3>3. AllTokens(<<e>>)
            BY <3>2, Tuple1 DEF AllTokens
        <3> QED
            BY <2>1, <3>3 DEF e
    <2>2. CASE pc' # "done"
        BY <2>2, EmptyIs DEF AllTokens
    <2> QED
        BY <2>1, <2>2
<1> HIDE DEF last
<1>2. Plain(<<>>) = <<>> /\ AllTokens(Plain(<<>>))
    <2>1. AllTokens(Plain(<<>>))
        BY EmptyIs, PlainTokens
    <2>2. DOMAIN Plain(<<>>) = {}
        BY EmptyIs DEF Plain
    <2> QED
        BY <2>1, <2>2
<1>3. ASSUME tokens' = tokens PROVE tokens' \in Seq(Names) /\ body = <<>>
    BY <1>2, <1>3, NewIs
<1>4. ASSUME NEW t \in {"INDENT", "DEDENT"}, tokens' = Append(tokens, t)
      PROVE  tokens' \in Seq(Names) /\ AllTokens(body)
    <2>1. t \in Names /\ t # "CODE"
        BY DEF Names
    <2>2. tokens' \in Seq(Names) /\ IsSeq(New_) /\ Len(New_) = 1 /\ New_[1] = t
        BY <1>4, <2>1, NewIs
    <2>3. DOMAIN New_ = {1}
        BY <2>2, SeqIs
    <2>4. AllTokens(Plain(New_))
        BY <2>1, <2>2, <2>3, PlainTokens
    <2> QED
        BY <2>1, <2>2, <2>4
<1>5. ASSUME pc \in LineStates PROVE AllTokens(source[at - 1].text.tokens)
    <2>1. at - 1 \in 1 .. Len(source)
        BY <1>5, SourcesAssumption
    <2> QED
        BY <2>1, TextTokensAre
<1>6. ASSUME pc = "code", tokens' = Append(tokens, "CODE")
      PROVE  tokens' \in Seq(Names) /\ AllTokens(body)
    <2>1. tokens' \in Seq(Names) /\ IsSeq(New_) /\ Len(New_) = 1 /\ New_[1] = "CODE"
        BY <1>6, NewIs DEF Names
    <2>2. New_ # <<>> /\ Tail(New_) = <<>>
        BY <2>1, TailIs
    <2>4. body = source[at - 1].text.tokens \o Plain(<<>>)
        BY <2>1, <2>2
    <2> QED
        BY <1>2, <1>5, <1>6, <2>1, <2>4, ConcatIs DEF LineStates
<1>7. ASSUME pc = "code", tokens' = tokens \o <<"CODE", "NEWLINE">>
      PROVE  tokens' \in Seq(Names) /\ AllTokens(body)
    <2>1. /\ tokens' \in Seq(Names) /\ IsSeq(New_) /\ Len(New_) = 2
          /\ New_[1] = "CODE" /\ New_[2] = "NEWLINE"
        BY <1>7, NewIs
    <2> DEFINE r == Tail(New_)
    <2>2. New_ # <<>>
        BY <2>1, TailIs
    <2>3. IsSeq(r) /\ DOMAIN r = {1} /\ r[1] = "NEWLINE"
        BY <2>1, TailIs
    <2> HIDE DEF r
    <2>4. AllTokens(Plain(r))
        BY <2>3, PlainTokens DEF Names
    <2>5. body = source[at - 1].text.tokens \o Plain(r)
        BY <2>1, <2>2 DEF r
    <2> QED
        BY <1>5, <1>7, <2>1, <2>4, <2>5, ConcatIs DEF LineStates
<1> HIDE DEF body
<1>8. /\ tokens' \in Seq(Names) /\ AllTokens(body)
      /\ pc' \in {"line", "eof", "done"} \cup LineStates \cup Stuck
      /\ pc' \in LineStates => pc \in LineStates
      /\ pc' \in Stuck => body = <<>>
    <2>1. AllTokens(<<>>)
        BY EmptyIs DEF AllTokens
    <2>2. CASE Scanner!SkipLine \/ Scanner!TooManyLevels \/ Scanner!NoIndent
               \/ Scanner!EndDedent \/ Scanner!Reject \/ Scanner!EndParse
        BY <1>3, <2>1, <2>2 DEF Scanner!SkipLine, Scanner!TooManyLevels, Scanner!NoIndent,
            Scanner!EndDedent, Scanner!Reject, Scanner!EndParse, LineStates, Stuck
    <2>3. CASE Scanner!Indent \/ Scanner!Dedent \/ Scanner!Unindent \/ Scanner!EofDedent
        BY <1>4, <2>3 DEF Scanner!Indent, Scanner!Dedent, Scanner!Unindent, Scanner!EofDedent,
            Scanner!PushToken, LineStates, Stuck
    <2>4. CASE Scanner!ScanCode
        BY <1>7, <2>4 DEF Scanner!ScanCode, LineStates, Stuck
    <2>5. CASE Scanner!ScanTail
        BY <1>3, <1>6, <2>1, <2>5 DEF Scanner!ScanTail, Scanner!PushToken, LineStates, Stuck
    <2> QED
        BY <2>2, <2>3, <2>4, <2>5 DEF Scanner!Scan
<1>9. AllTokens(Pushed)
    BY <1>0, <1>1, <1>8, ConcatIs
<1>10. pc' \in Stuck => Pushed = <<>>
    <2>1. <<>> \o <<>> = <<>>
        OBVIOUS
    <2> QED
        BY <1>0, <1>1, <1>8, <2>1 DEF Stuck
<1> QED
    BY <1>8, <1>9, <1>10

-----------------------------------------------------------------------------
(* The inductive invariant *)

\* The parser: its stack is viable, and it holds each object that nobody owns once.
HoldsInv ==
    /\ Viable(stack, lookahead) /\ Owns(stack, lookahead, heap)
    /\ unknown \subseteq DOMAIN heap

\* Errors are silenced only after one was reported.
ErrorInv ==
    /\ errstatus \in 0 .. 3 /\ yynerrs \in Nat /\ have_err \in {0, 1}
    /\ errstatus # 0 => yynerrs # 0

\* The result: a tree only for a program that was accepted, and then nothing else is left.
ResultInv ==
    /\ status \in {"more", "accepted", "aborted", "exit"}
    /\ status # "accepted" => ast = NULL
    /\ status = "accepted" =>
          /\ stack = <<Token("program")>> /\ lookahead = NULL /\ ast \in DOMAIN heap
          /\ main = "yylex" => ast \in Roots(heap)

\* Without a syntax error every object that nobody owns is held.
HeldInv ==
    yynerrs = 0 =>
        Roots(heap) \subseteq Has(stack, lookahead) \cup unknown
                              \cup (IF main = "yylex" THEN {ast} ELSE {})

\* The scanner and main.
InputInv ==
    /\ source \in Sources /\ at \in 1 .. Len(source) + 1 /\ tokens \in Seq(Names)
    /\ pc \in {"line", "eof", "done"} \cup LineStates \cup Stuck
    /\ pc \in LineStates => at >= 2
    /\ AllTokens(input)
    /\ pc \in Stuck => input = <<>> /\ lookahead = NULL
    /\ main \in {"yylex", "exited"}
    /\ main = "exited" => status # "more" \/ pc \in Stuck

FrontInv == HoldsInv /\ ErrorInv /\ ResultInv /\ HeldInv /\ InputInv

\* What a step of the parser does.
ParserMoves ==
    /\ status = "more"
    /\ Viable(stack', lookahead') /\ Owns(stack', lookahead', heap')
    /\ DOMAIN heap \subseteq DOMAIN heap' /\ unknown' \subseteq unknown \cup DOMAIN heap
    /\ lookahead' \in {lookahead, NULL}
    /\ yynerrs' = 0 =>
          /\ yynerrs = 0
          /\ \A X : Roots(heap) \subseteq Has(stack, lookahead) \cup unknown \cup X
                       => Roots(heap') \subseteq Has(stack', lookahead') \cup unknown' \cup X \cup {ast'}
    /\ ErrorInv'
    /\ status' \in {"more", "accepted", "aborted", "exit"}
    /\ status' # "accepted" => ast' = ast
    /\ status' = "accepted" =>
          /\ stack' = <<Token("program")>> /\ lookahead' = NULL /\ lookahead # NULL
          /\ ast' \in Roots(heap')

\* A reduction.
LEMMA TurnsMoves ==
    ASSUME HoldsInv, ErrorInv, status = "more", Turns(stack', heap', unknown'),
           unknown \subseteq unknown', unknown' \subseteq unknown \cup DOMAIN heap,
           lookahead' = lookahead, yynerrs' = yynerrs, errstatus' = errstatus,
           have_err' \in {have_err, 1}, ast' = ast, status' \in {"more", "exit"}
    PROVE  ParserMoves
<1>1. /\ Viable(stack', lookahead') /\ Owns(stack', lookahead', heap')
      /\ DOMAIN heap \subseteq DOMAIN heap'
      /\ \A X : Roots(heap) \subseteq Has(stack, lookahead) \cup X
                   => Roots(heap') \subseteq Has(stack', lookahead') \cup X \cup unknown'
    BY DEF Turns
<1>2. \A X : Roots(heap) \subseteq Has(stack, lookahead) \cup unknown \cup X
                => Roots(heap') \subseteq Has(stack', lookahead') \cup unknown' \cup X \cup {ast'}
    <2> SUFFICES ASSUME NEW X, Roots(heap) \subseteq Has(stack, lookahead) \cup unknown \cup X
                 PROVE  Roots(heap') \subseteq Has(stack', lookahead') \cup unknown' \cup X \cup {ast'}
        OBVIOUS
    <2> DEFINE Y == unknown \cup X
    <2>1. Roots(heap) \subseteq Has(stack, lookahead) \cup Y
        OBVIOUS
    <2> HIDE DEF Y
    <2>2. Roots(heap') \subseteq Has(stack', lookahead') \cup Y \cup unknown'
        BY <1>1, <2>1
    <2> QED
        BY <2>2 DEF Y
<1>3. ErrorInv'
    BY DEF ErrorInv
<1> QED
    BY <1>1, <1>2, <1>3 DEF ParserMoves

Reduction ==
    \/ ReduceIdentifier \/ ReduceConst \/ ReduceParentheses \/ ReduceBinop \/ ReduceCondition
    \/ ReduceAssign \/ ReduceBlock \/ ReduceIf \/ ReduceIfElse \/ ReduceWhile
    \/ ReduceBreak \/ ReduceError

LEMMA ReductionMoves == HoldsInv /\ ErrorInv /\ Reduction => ParserMoves
<1> SUFFICES ASSUME HoldsInv, ErrorInv, Reduction PROVE ParserMoves
    OBVIOUS
<1>1. Viable(stack, lookahead) /\ Owns(stack, lookahead, heap)
    BY DEF HoldsInv
<1>2. CASE ReduceIdentifier
    <2>1. Turns(stack', heap', unknown') /\ unknown' \subseteq unknown \cup DOMAIN heap
        BY <1>1, <1>2, IdentifierTurns
    <2>2. /\ status = "more" /\ unknown \subseteq unknown' /\ lookahead' = lookahead
          /\ yynerrs' = yynerrs /\ errstatus' = errstatus /\ have_err' \in {have_err, 1}
          /\ ast' = ast /\ status' = status
        BY <1>2 DEF ReduceIdentifier, Running
    <2> QED
        BY <2>1, <2>2, TurnsMoves
\* The other reductions leave unknown as it is, and lose nothing.
<1>3. ASSUME Turns(stack', heap', {}), status = "more", status' \in {"more", "exit"},
             unknown' = unknown, lookahead' = lookahead, yynerrs' = yynerrs,
             errstatus' = errstatus, have_err' \in {have_err, 1}, ast' = ast
      PROVE  ParserMoves
    <2>1. Turns(stack', heap', unknown')
        BY <1>3, TurnsMore
    <2> QED
        BY <1>3, <2>1, TurnsMoves
<1>4. CASE ReduceConst
    BY <1>1, <1>3, <1>4, ConstTurns DEF ReduceConst, Running, errorVars
<1>5. CASE ReduceParentheses
    BY <1>1, <1>3, <1>5, ParenthesesTurns DEF ReduceParentheses, Running, errorVars
<1>6. CASE ReduceBinop
    BY <1>1, <1>3, <1>6, BinopTurns DEF ReduceBinop, Defaults, Deciding, Running, errorVars
<1>7. CASE ReduceCondition
    BY <1>1, <1>3, <1>7, ConditionTurns DEF ReduceCondition, Defaults, Deciding, Running, errorVars
<1>8. CASE ReduceAssign
    BY <1>1, <1>3, <1>8, AssignTurns DEF ReduceAssign, Running, errorVars
<1>9. CASE ReduceBlock
    BY <1>1, <1>3, <1>9, BlockTurns DEF ReduceBlock, Running, errorVars
<1>10. CASE ReduceIf
    BY <1>1, <1>3, <1>10, IfTurns DEF ReduceIf, Defaults, Deciding, Running, errorVars
<1>11. CASE ReduceIfElse
    BY <1>1, <1>3, <1>11, IfElseTurns DEF ReduceIfElse, Running, errorVars
<1>12. CASE ReduceWhile
    BY <1>1, <1>3, <1>12, WhileTurns DEF ReduceWhile, Running, errorVars
<1>13. CASE ReduceBreak
    BY <1>1, <1>3, <1>13, BreakTurns DEF ReduceBreak, Running, errorVars
<1>14. CASE ReduceError
    BY <1>1, <1>3, <1>14, ErrorTurns DEF ReduceError, Running
<1> QED
    BY <1>2, <1>4, <1>5, <1>6, <1>7, <1>8, <1>9, <1>10, <1>11, <1>12, <1>13, <1>14 DEF Reduction

LEMMA ParserStepMoves == HoldsInv /\ ErrorInv /\ ParserStep => ParserMoves
<1> SUFFICES ASSUME HoldsInv, ErrorInv, ParserStep PROVE ParserMoves
    OBVIOUS
<1>1. Viable(stack, lookahead) /\ Owns(stack, lookahead, heap) /\ Forest(heap)
    BY DEF HoldsInv, Owns
<1>2. CASE Reduction
    BY <1>2, ReductionMoves
<1>3. CASE Shift
    <2>1. /\ Viable(stack', NULL) /\ Owns(stack', NULL, heap)
          /\ Has(stack, lookahead) \subseteq Has(stack', NULL)
        BY <1>1, <1>3, ShiftKeeps
    <2>2. /\ status = "more" /\ lookahead' = NULL /\ yynerrs' = yynerrs /\ have_err' = have_err
          /\ errstatus' = (IF errstatus = 0 THEN 0 ELSE errstatus - 1)
          /\ ast' = ast /\ heap' = heap /\ unknown' = unknown /\ status' = status
        BY <1>3 DEF Shift, Deciding, Running
    <2>3. ErrorInv'
        BY <2>2 DEF ErrorInv
    <2> QED
        BY <2>1, <2>2, <2>3 DEF ParserMoves
<1>4. CASE ReduceProgram
    <2>1. /\ ast' \in Roots(heap) /\ Has(stack, lookahead) \subseteq {ast', NULL}
        BY <1>1, <1>4, ProgramKeeps
    <2>2. /\ status = "more" /\ lookahead # NULL /\ stack' = <<Token("program")>>
          /\ lookahead' = NULL /\ status' = "accepted" /\ heap' = heap /\ yynerrs' = yynerrs
          /\ errstatus' = errstatus /\ have_err' = have_err /\ unknown' = unknown
        BY <1>4 DEF ReduceProgram, Defaults, Deciding, Running, errorVars
    <2>3. /\ Viable(stack', lookahead') /\ Owns(stack', lookahead', heap')
          /\ Has(stack', lookahead') = {NULL}
        BY <1>1, <2>2, ProgramHolds
    <2>4. ErrorInv'
        BY <2>2 DEF ErrorInv
    <2>5. \A X : Roots(heap) \subseteq Has(stack, lookahead) \cup unknown \cup X
                => Roots(heap') \subseteq Has(stack', lookahead') \cup unknown' \cup X \cup {ast'}
        BY <2>1, <2>2, <2>3
    <2>6. ast' \in Roots(heap')
        BY <2>1, <2>2
    <2> QED
        BY <2>2, <2>3, <2>4, <2>5, <2>6 DEF ParserMoves
<1>5. CASE SyntaxError
    <2>1. Viable(stack', lookahead') /\ Owns(stack', lookahead', heap)
        BY <1>1, <1>5, SyntaxErrorKeeps
    <2>2. /\ status = "more" /\ lookahead' \in {lookahead, NULL} /\ errstatus' = 3
          /\ yynerrs' = (IF errstatus = 0 THEN yynerrs + 1 ELSE yynerrs)
          /\ have_err' = have_err /\ ast' = ast /\ heap' = heap /\ unknown' = unknown
          /\ status' = status
        BY <1>5 DEF SyntaxError, IsError, Defaults, Deciding, Running
    <2>3. ErrorInv' /\ yynerrs' # 0
        BY <2>2 DEF ErrorInv
    <2> QED
        BY <2>1, <2>2, <2>3 DEF ParserMoves
<1>6. CASE Abort
    <2>1. /\ status = "more" /\ stack' = <<>> /\ lookahead' = NULL /\ status' = "aborted"
          /\ errstatus' = errstatus /\ errstatus = 3 /\ yynerrs' = yynerrs /\ have_err' = have_err
          /\ ast' = ast /\ heap' = heap /\ unknown' = unknown
        BY <1>6 DEF Abort, IsError, Defaults, Deciding, Running, errorVars
    <2>2. Viable(stack', lookahead') /\ Owns(stack', lookahead', heap')
        BY <1>1, <2>1, EmptyHolds
    <2>3. ErrorInv' /\ yynerrs' # 0
        BY <2>1 DEF ErrorInv
    <2> QED
        BY <2>1, <2>2, <2>3 DEF ParserMoves
<1> QED
    BY <1>2, <1>3, <1>4, <1>5, <1>6 DEF ParserStep, Reduction

LEMMA ParseInv == FrontInv /\ Parse => FrontInv'
<1> SUFFICES ASSUME FrontInv, Parse PROVE FrontInv'
    OBVIOUS
<1>1. ParserMoves
    BY ParserStepMoves DEF FrontInv, Parse
<1>2. /\ source' = source /\ at' = at /\ input' = input /\ main' = main /\ pc' = pc
      /\ tokens' = tokens
    BY DEF Parse, scannerVars
<1>3. HoldsInv'
    BY <1>1 DEF FrontInv, HoldsInv, ParserMoves
<1>4. ErrorInv'
    BY <1>1 DEF ParserMoves
<1>5. ast = NULL /\ status = "more"
    BY <1>1 DEF FrontInv, ResultInv, ParserMoves
<1>6. ResultInv'
    <2>1. status' = "accepted" => ast' \in DOMAIN heap'
        BY <1>1 DEF ParserMoves, Roots, Live
    <2> QED
        BY <1>1, <1>5, <2>1 DEF ParserMoves, ResultInv
<1>7. HeldInv'
    <2> SUFFICES ASSUME yynerrs' = 0
                 PROVE  Roots(heap') \subseteq Has(stack', lookahead') \cup unknown'
                                               \cup (IF main = "yylex" THEN {ast'} ELSE {})
        BY <1>2 DEF HeldInv
    <2>1. Roots(heap) \subseteq Has(stack, lookahead) \cup unknown \cup {NULL}
        BY <1>1, <1>5 DEF FrontInv, HeldInv, ParserMoves
    <2>2. Roots(heap') \subseteq Has(stack', lookahead') \cup unknown' \cup {NULL} \cup {ast'}
        BY <1>1, <2>1 DEF ParserMoves
    <2>3. NULL \notin Roots(heap')
        BY <1>1, RootsAre DEF ParserMoves, Owns
    <2>4. main # "yylex" => ast' = NULL
        <3>1. main # "yylex" => lookahead = NULL
            BY <1>5 DEF FrontInv, InputInv
        <3> QED
            BY <1>1, <1>5, <3>1 DEF ParserMoves
    <2> QED
        BY <2>2, <2>3, <2>4
<1>8. InputInv'
    <2>1. lookahead' \in {lookahead, NULL}
        BY <1>1 DEF ParserMoves
    <2>2. main = "exited" => pc \in Stuck
        BY <1>5 DEF FrontInv, InputInv
    <2> QED
        BY <1>2, <2>1, <2>2 DEF FrontInv, InputInv
<1> QED
    BY <1>3, <1>4, <1>6, <1>7, <1>8 DEF FrontInv

-----------------------------------------------------------------------------
(* The steps *)

LEMMA PushTokenKeeps ==
    ASSUME HoldsInv, NEW t, IsToken(t), PushToken(t)
    PROVE  /\ Viable(stack', lookahead') /\ Owns(stack', lookahead', heap')
           /\ DOMAIN heap \subseteq DOMAIN heap'
           /\ \A X : Roots(heap) \subseteq Has(stack, lookahead) \cup X
                        => Roots(heap') \subseteq Has(stack', lookahead') \cup X
<1>1. /\ IsSeq(stack) /\ Shape(stack) /\ Owns(stack, NULL, heap) /\ Forest(heap)
      /\ Len(stack) \in Nat
    BY OwnsLess DEF HoldsInv, Viable, Owns, IsSeq
<1>2. stack' = stack /\ lookahead = NULL /\ ~IsConsistent
    BY DEF PushToken, NeedsToken
<1>3. Viable(stack', lookahead')
    <2>1. ~Consistent(Top(0), Top(1), Top(2), Top(3), Top(4)) /\ Len(stack) - 0 = Len(stack)
        BY <1>1, <1>2, IsConsistentIs
    <2> QED
        BY <1>1, <1>2, <2>1 DEF Viable, Top
<1>4. Pointed(NULL) = NULL
    BY DEF Pointed
<1>5. CASE t.sym \in {"IDENTIFIER", "CONST"}
    <2> DEFINE new == New(heap, Lexeme(t.val))
               e == Symbol(t.sym, new.ptr)
    <2>1. /\ Yields(heap, new, {}) /\ new.ptr \in DOMAIN new.heap
          /\ new.heap[new.ptr].type = "LEXEME"
        BY <1>1, LexemeYields
    <2>2. heap' = new.heap /\ lookahead' = e
        BY <1>5 DEF PushToken
    <2> HIDE DEF new
    <2>3. Forest(new.heap) /\ new.ptr \in Roots(new.heap) /\ new.ptr \in Nat /\ new.ptr # NULL
        BY <2>1, RootsAre DEF Yields, Keeps
    <2>4. e.sym = t.sym /\ e # NULL /\ Pointed(e) = new.ptr
        <3>1. t.sym \in Tokens \cup Nonterminals /\ t.sym # "OP"
            BY <1>5 DEF IsToken
        <3> QED
            BY <2>3, <3>1, SymbolIs
    <2> HIDE DEF e
    <2>5. IsValue(new.heap, e)
        BY <1>5, <2>1, <2>3, <2>4 DEF IsValue, Carriers
    <2>6. Owns(stack, NULL, new.heap) /\ new.ptr \notin Has(stack, NULL)
        <3>1. Len(stack) \in 0 .. Len(stack)
            BY <1>1
        <3>2. /\ Owns(SubSeq(stack, 1, Len(stack)), NULL, new.heap)
              /\ new.ptr # NULL => new.ptr \notin Has(SubSeq(stack, 1, Len(stack)), NULL)
            BY <1>1, <2>1, <3>1, OwnsPop
        <3> QED
            BY <1>1, <2>3, <3>2, WholeIs
    <2>7. Owns(stack, e, new.heap)
        BY <2>4, <2>5, <2>6 DEF Owns, Has
    <2>8. Roots(new.heap) \subseteq Roots(heap) \cup {new.ptr} /\ DOMAIN heap \subseteq DOMAIN new.heap
        BY <2>1 DEF Yields, Keeps
    <2>9. NULL \notin Roots(heap)
        BY <1>1, RootsAre
    <2>10. \A X : Roots(heap) \subseteq Has(stack, NULL) \cup X
                    => Roots(new.heap) \subseteq Has(stack, e) \cup X
        BY <1>4, <2>4, <2>8, <2>9 DEF Has
    <2> QED
        BY <1>2, <1>3, <2>2, <2>7, <2>8, <2>10
<1>6. CASE t.sym \notin {"IDENTIFIER", "CONST"}
    <2>1. heap' = heap /\ lookahead' = t
        BY <1>6 DEF PushToken
    <2>2. Pointed(t) = NULL
        BY <1>6 DEF IsToken, Pointed
    <2>3. t # NULL => IsValue(heap, t)
        BY <1>6, <2>2 DEF IsValue, Carriers, IsToken, Tokens
    <2>4. Owns(stack, t, heap)
        BY <1>1, <2>2, <2>3 DEF Owns
    <2>5. Has(stack, t) = Has(stack, NULL)
        BY <1>4, <2>2 DEF Has
    <2> QED
        BY <1>2, <1>3, <2>1, <2>4, <2>5
<1> QED
    BY <1>5, <1>6

LEMMA HeadIs ==
    ASSUME NEW s, AllTokens(s), s # <<>>
    PROVE  IsToken(Head(s)) /\ AllTokens(Tail(s))
<1> DEFINE S == {s[i] : i \in 1 .. Len(s)}
<1>1. s \in Seq(S) /\ DOMAIN s = 1 .. Len(s)
    BY SeqIs DEF AllTokens
<1>2. \A e \in S : IsToken(e)
    BY <1>1 DEF AllTokens
<1> HIDE DEF S
<1>3. Head(s) \in S /\ Tail(s) \in Seq(S)
    BY <1>1
<1> DEFINE r == Tail(s)
<1>4. r \in Seq(S)
    BY <1>3
<1> HIDE DEF r
<1>5. IsSeq(r)
    BY <1>4, SeqIsSeq
<1>6. \A i \in DOMAIN r : r[i] \in S
    BY <1>4
<1>7. AllTokens(r)
    BY <1>2, <1>5, <1>6 DEF AllTokens
<1> QED
    BY <1>2, <1>3, <1>7 DEF r

LEMMA PushInv == FrontInv /\ Push => FrontInv'
<1> SUFFICES ASSUME FrontInv, Push PROVE FrontInv'
    OBVIOUS
<1>1. IsToken(Head(input)) /\ AllTokens(Tail(input)) /\ input # <<>>
    BY HeadIs DEF FrontInv, InputInv, Push
<1>2. /\ Viable(stack', lookahead') /\ Owns(stack', lookahead', heap')
      /\ DOMAIN heap \subseteq DOMAIN heap'
      /\ \A X : Roots(heap) \subseteq Has(stack, lookahead) \cup X
                   => Roots(heap') \subseteq Has(stack', lookahead') \cup X
    BY <1>1, PushTokenKeeps DEF FrontInv, Push
<1>3. /\ source' = source /\ at' = at /\ input' = Tail(input) /\ main' = main /\ pc' = pc
      /\ tokens' = tokens /\ ast' = ast /\ status' = status /\ status = "more"
      /\ errstatus' = errstatus /\ yynerrs' = yynerrs /\ have_err' = have_err
      /\ unknown' = unknown
    BY DEF Push, PushToken, NeedsToken, scannerVars, errorVars
<1>4. HoldsInv' /\ ErrorInv'
    BY <1>2, <1>3 DEF FrontInv, HoldsInv, ErrorInv
<1>5. ResultInv'
    BY <1>3 DEF FrontInv, ResultInv
<1>6. HeldInv'
    <2> DEFINE X == unknown \cup (IF main = "yylex" THEN {ast} ELSE {})
    <2> SUFFICES ASSUME yynerrs' = 0
                 PROVE  Roots(heap') \subseteq Has(stack', lookahead') \cup X
        BY <1>3 DEF HeldInv
    <2>1. Roots(heap) \subseteq Has(stack, lookahead) \cup X
        BY <1>3 DEF FrontInv, HeldInv
    <2> HIDE DEF X
    <2> QED
        BY <1>2, <2>1
<1>7. InputInv'
    BY <1>1, <1>3 DEF FrontInv, InputInv
<1> QED
    BY <1>4, <1>5, <1>6, <1>7 DEF FrontInv

LEMMA ScannerInv == FrontInv /\ (ReadLine \/ ReadEof \/ Scan) => FrontInv'
<1> SUFFICES ASSUME FrontInv, ReadLine \/ ReadEof \/ Scan PROVE FrontInv'
    OBVIOUS
<1>1. /\ stack' = stack /\ lookahead' = lookahead /\ errstatus' = errstatus
      /\ yynerrs' = yynerrs /\ have_err' = have_err /\ ast' = ast /\ heap' = heap
      /\ unknown' = unknown /\ status' = status /\ main' = main /\ source' = source
    BY DEF ReadLine, ReadEof, Scan, parserVars
<1>2. HoldsInv' /\ ErrorInv' /\ ResultInv' /\ HeldInv'
    BY <1>1 DEF FrontInv, HoldsInv, ErrorInv, ResultInv, HeldInv
<1>3. main = "yylex" /\ input = <<>> /\ lookahead = NULL
    BY DEF ReadLine, ReadEof, Scan, Scanning, NeedsToken
<1>4. /\ source \in Sources /\ at \in 1 .. Len(source) + 1 /\ tokens \in Seq(Names)
      /\ pc \in LineStates => at >= 2
      /\ AllTokens(input) /\ Len(source) \in Nat
    BY SourcesAssumption DEF FrontInv, InputInv
<1>5. CASE ReadLine
    <2>1. /\ at <= Len(source) /\ at' = at + 1 /\ input' = input /\ tokens' = tokens
          /\ pc' \in {"skip", "indentation", "unindented"}
        BY <1>5 DEF ReadLine, Scanner!ReadLine
    <2>2. at' \in 1 .. Len(source) + 1 /\ at' >= 2
        BY <1>4, <2>1
    <2> QED
        BY <1>1, <1>2, <1>3, <1>4, <2>1, <2>2 DEF FrontInv, InputInv, LineStates, Stuck
<1>6. CASE ReadEof
    <2>1. at' = at /\ input' = input /\ tokens' = tokens /\ pc' = "eof"
        BY <1>6 DEF ReadEof, Scanner!ReadEof
    <2> QED
        BY <1>1, <1>2, <1>3, <1>4, <2>1 DEF FrontInv, InputInv, LineStates, Stuck
<1>7. CASE Scan
    <2>1. Scanner!Scan /\ input' = Pushed /\ at' = at
        BY <1>7 DEF Scan
    <2>2. /\ tokens' \in Seq(Names) /\ AllTokens(Pushed)
          /\ pc' \in {"line", "eof", "done"} \cup LineStates \cup Stuck
          /\ pc' \in LineStates => pc \in LineStates
          /\ pc' \in Stuck => Pushed = <<>>
        BY <1>4, <2>1, ScanPushes
    <2> QED
        BY <1>1, <1>2, <1>3, <1>4, <2>1, <2>2 DEF FrontInv, InputInv
<1> QED
    BY <1>5, <1>6, <1>7

LEMMA FreeTreeInv == FrontInv /\ FreeTree => FrontInv'
<1> SUFFICES ASSUME FrontInv, FreeTree PROVE FrontInv'
    OBVIOUS
<1>1. /\ main = "yylex" /\ status = "accepted" /\ heap' = AstNodeFree(heap, ast)
      /\ main' = "exited" /\ source' = source /\ at' = at /\ input' = input /\ pc' = pc
      /\ tokens' = tokens /\ stack' = stack /\ lookahead' = lookahead /\ ast' = ast
      /\ status' = status /\ errstatus' = errstatus /\ yynerrs' = yynerrs
      /\ have_err' = have_err /\ unknown' = unknown
    BY DEF FreeTree, Compiles, scannerVars, errorVars
<1>2. /\ stack = <<Token("program")>> /\ lookahead = NULL /\ ast \in Roots(heap)
      /\ ast \in DOMAIN heap /\ Forest(heap)
    BY <1>1 DEF FrontInv, ResultInv, HoldsInv, Owns
<1>3. Forest(heap') /\ DOMAIN heap' = DOMAIN heap /\ Roots(heap') = Roots(heap) \ {ast}
    BY <1>1, <1>2, FreeIs
<1>4. /\ Viable(stack', lookahead') /\ Owns(stack', lookahead', heap')
      /\ Has(stack', lookahead') = {NULL}
    BY <1>1, <1>2, <1>3, ProgramHolds
<1>5. HoldsInv' /\ ErrorInv'
    BY <1>1, <1>3, <1>4 DEF FrontInv, HoldsInv, ErrorInv
<1>6. ResultInv'
    BY <1>1, <1>2, <1>3 DEF ResultInv
<1>7. HeldInv'
    BY <1>1, <1>3 DEF FrontInv, HeldInv
<1>8. InputInv'
    BY <1>1 DEF FrontInv, InputInv
<1> QED
    BY <1>5, <1>6, <1>7, <1>8 DEF FrontInv

LEMMA NoTreeInv == FrontInv /\ NoTree => FrontInv'
<1> SUFFICES ASSUME FrontInv, NoTree PROVE FrontInv'
    OBVIOUS
<1>1. /\ main = "yylex" /\ status # "accepted" /\ (status # "more" \/ pc \in Stuck)
      /\ main' = "exited" /\ source' = source /\ at' = at /\ input' = input /\ pc' = pc
      /\ tokens' = tokens /\ stack' = stack /\ lookahead' = lookahead /\ ast' = ast
      /\ status' = status /\ errstatus' = errstatus /\ yynerrs' = yynerrs
      /\ have_err' = have_err /\ unknown' = unknown /\ heap' = heap
    BY DEF NoTree, Returned, Compiles, Stuck, scannerVars, parserVars
<1>2. HoldsInv' /\ ErrorInv' /\ ResultInv'
    BY <1>1 DEF FrontInv, HoldsInv, ErrorInv, ResultInv
<1>3. HeldInv'
    <2>1. ast = NULL /\ NULL \notin Roots(heap)
        BY <1>1, RootsAre DEF FrontInv, ResultInv, HoldsInv, Owns
    <2> QED
        BY <1>1, <2>1 DEF FrontInv, HeldInv
<1>4. InputInv'
    BY <1>1 DEF FrontInv, InputInv
<1> QED
    BY <1>2, <1>3, <1>4 DEF FrontInv

LEMMA InitFront == FrontInit => FrontInv
<1> SUFFICES ASSUME FrontInit PROVE FrontInv
    OBVIOUS
<1>1. /\ source \in Sources /\ at = 1 /\ input = <<>> /\ main = "yylex" /\ pc = "line"
      /\ tokens = <<>> /\ stack = <<>> /\ lookahead = NULL /\ errstatus = 0 /\ yynerrs = 0
      /\ have_err = 0 /\ ast = NULL /\ heap = <<>> /\ unknown = {} /\ status = "more"
    BY DEF FrontInit, Scanner!Init, ParserInit
<1>2. Forest(<<>>) /\ Roots(<<>>) = {}
    <2>1. IsHeap(<<>>)
        BY EmptyIs DEF IsHeap
    <2> QED
        BY <2>1, EmptyIs DEF Forest, OwnedOnce, Founded, Roots, Live
<1>3. HoldsInv /\ HeldInv
    BY <1>1, <1>2, EmptyHolds DEF HoldsInv, HeldInv
<1>4. ErrorInv /\ ResultInv
    BY <1>1 DEF ErrorInv, ResultInv
<1>5. InputInv
    <2>1. Len(source) \in Nat
        BY <1>1, SourcesAssumption
    <2>2. at \in 1 .. Len(source) + 1
        BY <1>1, <2>1
    <2>3. AllTokens(input) /\ tokens \in Seq(Names)
        BY <1>1, EmptyIs DEF AllTokens
    <2> QED
        BY <1>1, <2>2, <2>3 DEF InputInv, LineStates, Stuck
<1> QED
    BY <1>3, <1>4, <1>5 DEF FrontInv

LEMMA FrontStep == FrontInv /\ [FrontNext]_allVars => FrontInv'
<1> SUFFICES ASSUME FrontInv, [FrontNext]_allVars PROVE FrontInv'
    OBVIOUS
<1>1. CASE ReadLine \/ ReadEof \/ Scan
    BY <1>1, ScannerInv
<1>2. CASE Push
    BY <1>2, PushInv
<1>3. CASE Parse
    BY <1>3, ParseInv
<1>4. CASE FreeTree
    BY <1>4, FreeTreeInv
<1>5. CASE NoTree
    BY <1>5, NoTreeInv
<1>6. CASE UNCHANGED allVars
    <2>1. /\ source' = source /\ at' = at /\ input' = input /\ main' = main
          /\ pc' = pc /\ tokens' = tokens
          /\ stack' = stack /\ lookahead' = lookahead /\ errstatus' = errstatus
          /\ yynerrs' = yynerrs /\ have_err' = have_err /\ ast' = ast /\ heap' = heap
          /\ unknown' = unknown /\ status' = status
        BY <1>6 DEF allVars, scannerVars, parserVars
    <2> QED
        BY <2>1 DEF FrontInv, HoldsInv, ErrorInv, ResultInv, HeldInv, InputInv
<1> QED
    BY <1>1, <1>2, <1>3, <1>4, <1>5, <1>6 DEF FrontNext, Work, Terminated

LEMMA FrontInvariance == FrontSpec => []FrontInv
<1>1. FrontInit => FrontInv
    BY InitFront
<1>2. FrontInv /\ [FrontNext]_allVars => FrontInv'
    BY FrontStep
<1> QED
    BY <1>1, <1>2, PTL DEF FrontSpec

-----------------------------------------------------------------------------
(* The properties *)

\* The counters, the flags and the pointers of the front end stay in their ranges, and
\* the scanner never runs past its last rule.
THEOREM FrontTypeCorrect == FrontSpec => []FrontTypeOK
<1>1. FrontInv => FrontTypeOK
    <2> SUFFICES ASSUME FrontInv PROVE FrontTypeOK
        OBVIOUS
    <2>1. pc # "stopped"
        BY DEF FrontInv, InputInv, LineStates, Stuck
    <2>2. ast \in DOMAIN heap \cup {NULL} /\ unknown \subseteq DOMAIN heap
        BY DEF FrontInv, ResultInv, HoldsInv
    <2> QED
        BY <2>1, <2>2 DEF FrontTypeOK, FrontInv, InputInv, ResultInv, ErrorInv
<1> QED
    BY <1>1, FrontInvariance, PTL

\* Only main holds a tree, and then the parser holds nothing.
LEMMA AstAlone ==
    ASSUME FrontInv, ast # NULL, main = "yylex"
    PROVE  /\ ast \in Roots(heap) /\ Pointed(lookahead) = NULL
           /\ \A i \in DOMAIN stack : Pointed(stack[i]) = NULL
<1>1. stack = <<Token("program")>> /\ lookahead = NULL /\ ast \in Roots(heap)
    BY DEF FrontInv, ResultInv
<1>2. \A i \in DOMAIN stack : stack[i].sym = "program"
    BY <1>1 DEF Token, Symbol
<1>3. \A i \in DOMAIN stack : IsValue(heap, stack[i])
    BY DEF FrontInv, HoldsInv, Owns
<1> QED
    BY <1>1, <1>2, <1>3 DEF IsValue, Carriers, Pointed

LEMMA HeldForms ==
    ASSUME NEW a \in Held
    PROVE  \/ \E i \in DOMAIN stack :
                 a = <<"stack", 0, i>> /\ PointerAt(a) = Pointed(stack[i])
           \/ \E p \in DOMAIN heap : \E i \in DOMAIN heap[p].ptrs :
                 a = <<"heap", p, i>> /\ PointerAt(a) = heap[p].ptrs[i]
           \/ a = <<"lookahead", 0, 0>> /\ PointerAt(a) = Pointed(lookahead)
           \/ main = "yylex" /\ a = <<"ast", 0, 0>> /\ PointerAt(a) = ast
<1>1. a \in Places
    BY DEF Held
<1>2. CASE \E i \in DOMAIN stack : a = <<"stack", 0, i>>
    BY <1>2 DEF PointerAt
<1>3. CASE \E p \in DOMAIN heap : \E i \in DOMAIN heap[p].ptrs : a = <<"heap", p, i>>
    BY <1>3 DEF PointerAt
<1>4. CASE a = <<"lookahead", 0, 0>>
    BY <1>4 DEF PointerAt
<1>5. CASE main = "yylex" /\ a = <<"ast", 0, 0>>
    BY <1>5 DEF PointerAt
<1> QED
    <2>1. \/ a \in {<<"stack", 0, i>> : i \in DOMAIN stack}
          \/ a \in UNION {{<<"heap", p, i>> : i \in DOMAIN heap[p].ptrs} : p \in DOMAIN heap}
          \/ a = <<"lookahead", 0, 0>>
          \/ main = "yylex" /\ a = <<"ast", 0, 0>>
        BY <1>1 DEF Places
    <2>2. \/ \E i \in DOMAIN stack : a = <<"stack", 0, i>>
          \/ \E p \in DOMAIN heap : \E i \in DOMAIN heap[p].ptrs : a = <<"heap", p, i>>
          \/ a = <<"lookahead", 0, 0>>
          \/ main = "yylex" /\ a = <<"ast", 0, 0>>
        BY <2>1
    <2> QED
        BY <1>2, <1>3, <1>4, <1>5, <2>2

\* A place outside the heap holds a root, a place in the heap an object that is owned.
LEMMA PointerAtIs ==
    ASSUME FrontInv, NEW a \in Held
    PROVE  /\ PointerAt(a) \in Live(heap)
           /\ a[1] = "heap" <=> PointerAt(a) \notin Roots(heap)
<1>1. PointerAt(a) # NULL
    BY DEF Held
<1>2. Owns(stack, lookahead, heap) /\ Pointed(NULL) = NULL /\ Roots(heap) \subseteq Live(heap)
    BY DEF FrontInv, HoldsInv, Pointed, Roots
<1>3. CASE \E p \in DOMAIN heap : \E i \in DOMAIN heap[p].ptrs :
              a = <<"heap", p, i>> /\ PointerAt(a) = heap[p].ptrs[i]
    <2>1. PICK p \in DOMAIN heap : PointerAt(a) \in Owned(heap, p)
        BY <1>1, <1>3 DEF Owned, ToSet
    <2> QED
        BY <1>2, <1>3, <2>1 DEF Owns, Forest, Roots
<1>4. CASE \E i \in DOMAIN stack : a = <<"stack", 0, i>> /\ PointerAt(a) = Pointed(stack[i])
    BY <1>1, <1>2, <1>4 DEF Owns, IsValue
<1>5. CASE a = <<"lookahead", 0, 0>> /\ PointerAt(a) = Pointed(lookahead)
    BY <1>1, <1>2, <1>5 DEF Owns, IsValue
<1>6. CASE main = "yylex" /\ a = <<"ast", 0, 0>> /\ PointerAt(a) = ast
    BY <1>1, <1>2, <1>6, AstAlone
<1> QED
    BY <1>3, <1>4, <1>5, <1>6, HeldForms

LEMMA HeldOnce ==
    ASSUME FrontInv, NEW a \in Held, NEW b \in Held, PointerAt(a) = PointerAt(b)
    PROVE  a = b
<1>1. PointerAt(a) # NULL
    BY DEF Held
<1>2. Owns(stack, lookahead, heap) /\ OwnedOnce(heap)
    BY DEF FrontInv, HoldsInv, Owns, Forest
<1>3. a[1] = "heap" <=> b[1] = "heap"
    BY PointerAtIs
<1>4. CASE a[1] = "heap"
    <2>1. PICK p \in DOMAIN heap : \E i \in DOMAIN heap[p].ptrs :
              a = <<"heap", p, i>> /\ PointerAt(a) = heap[p].ptrs[i]
        BY <1>4, HeldForms
    <2>2. PICK q \in DOMAIN heap : \E i \in DOMAIN heap[q].ptrs :
              b = <<"heap", q, i>> /\ PointerAt(b) = heap[q].ptrs[i]
        BY <1>3, <1>4, HeldForms
    <2> QED
        BY <1>1, <1>2, <2>1, <2>2 DEF OwnedOnce
<1>5. CASE a[1] = "ast" \/ b[1] = "ast"
    <2>1. main = "yylex" /\ ast # NULL
        BY <1>1, <1>5, HeldForms
    <2> QED
        BY <1>1, <1>3, <1>5, <2>1, AstAlone, HeldForms
<1>6. CASE a[1] \notin {"heap", "ast"} /\ b[1] \notin {"heap", "ast"}
    <2>1. \/ \E i \in DOMAIN stack : a = <<"stack", 0, i>> /\ PointerAt(a) = Pointed(stack[i])
          \/ a = <<"lookahead", 0, 0>> /\ PointerAt(a) = Pointed(lookahead)
        BY <1>6, HeldForms
    <2>2. \/ \E i \in DOMAIN stack : b = <<"stack", 0, i>> /\ PointerAt(b) = Pointed(stack[i])
          \/ b = <<"lookahead", 0, 0>> /\ PointerAt(b) = Pointed(lookahead)
        BY <1>6, HeldForms
    <2> QED
        BY <1>1, <1>2, <2>1, <2>2 DEF Owns
<1> QED
    BY <1>3, <1>4, <1>5, <1>6

\* Nothing that the front end holds was freed, and nothing is held twice: not on the
\* stack and in a node, not in two nodes, and not by main and by the parser.
THEOREM OneOwnerHolds == FrontSpec => []OneOwner
<1>1. FrontInv => OneOwner
    <2> SUFFICES ASSUME FrontInv PROVE OneOwner
        OBVIOUS
    <2>1. Pointers \subseteq Live(heap)
        BY PointerAtIs DEF Pointers
    <2>2. IsFiniteSet(Pointers)
        <3>1. Live(heap) \subseteq 1 .. Len(heap) /\ Len(heap) \in Nat
            <4>1. IsSeq(heap)
                BY DEF FrontInv, HoldsInv, Owns, Forest, IsHeap
            <4> QED
                BY <4>1, SeqIs DEF Live, IsSeq
        <3>2. IsFiniteSet(1 .. Len(heap))
            BY <3>1, FS_Interval
        <3> QED
            BY <2>1, <3>1, <3>2, FS_Subset
    <2> DEFINE g == [q \in Pointers |-> CHOOSE a \in Held : PointerAt(a) = q]
    <2>3. \A q \in Pointers : g[q] \in Held /\ PointerAt(g[q]) = q
        BY DEF Pointers
    <2>4. \A a \in Held : PointerAt(a) \in Pointers /\ g[PointerAt(a)] = a
        <3>1. ASSUME NEW a \in Held PROVE PointerAt(a) \in Pointers
            BY DEF Pointers
        <3> HIDE DEF g
        <3> QED
            BY <2>3, <3>1, HeldOnce
    <2>5. g \in [Pointers -> Held]
        BY <2>3
    <2> HIDE DEF g
    <2>6. g \in Bijection(Pointers, Held)
        BY <2>3, <2>4, <2>5 DEF Bijection, Injection, Surjection, IsInjective
    <2>7. ExistsBijection(Pointers, Held)
        BY <2>6 DEF ExistsBijection
    <2>8. Cardinality(Held) = Cardinality(Pointers)
        BY <2>2, <2>7, FS_Bijection
    <2> QED
        BY <2>1, <2>8 DEF OneOwner
<1> QED
    BY <1>1, FrontInvariance, PTL

\* Without a syntax error everything that was allocated is reached from what is held,
\* but for the lexemes of the names that were reported as unknown.
THEOREM NothingLostHolds == FrontSpec => []NothingLost
<1>1. FrontInv => NothingLost
    <2> SUFFICES ASSUME FrontInv, yynerrs = 0, NEW p \in Live(heap)
                 PROVE  p \in Pointers \cup unknown
        BY DEF NothingLost
    <2>1. p # NULL
        BY RootsAre DEF FrontInv, HoldsInv, Owns, Live
    <2>2. ASSUME NEW a \in Places, PointerAt(a) = p PROVE p \in Pointers
        BY <2>1, <2>2 DEF Pointers, Held
    <2>3. CASE p \notin Roots(heap)
        <3>1. PICK q \in DOMAIN heap : p \in Owned(heap, q)
            BY <2>3 DEF Roots
        <3>2. PICK i \in DOMAIN heap[q].ptrs : heap[q].ptrs[i] = p
            BY <3>1 DEF Owned, ToSet
        <3> DEFINE a == <<"heap", q, i>>
        <3>3. a \in Places /\ PointerAt(a) = p
            BY <3>2 DEF Places, PointerAt
        <3> QED
            BY <2>2, <3>3
    <2>4. CASE \E i \in DOMAIN stack : p = Pointed(stack[i])
        <3>1. PICK i \in DOMAIN stack : p = Pointed(stack[i])
            BY <2>4
        <3> DEFINE a == <<"stack", 0, i>>
        <3>2. a \in Places /\ PointerAt(a) = p
            BY <3>1 DEF Places, PointerAt
        <3> QED
            BY <2>2, <3>2
    <2>5. CASE p = Pointed(lookahead)
        <3> DEFINE a == <<"lookahead", 0, 0>>
        <3>1. a \in Places /\ PointerAt(a) = p
            BY <2>5 DEF Places, PointerAt
        <3> QED
            BY <2>2, <3>1
    <2>6. CASE main = "yylex" /\ p = ast
        <3> DEFINE a == <<"ast", 0, 0>>
        <3>1. a \in Places /\ PointerAt(a) = p
            BY <2>6 DEF Places, PointerAt
        <3> QED
            BY <2>2, <3>1
    <2> QED
        BY <2>3, <2>4, <2>5, <2>6 DEF FrontInv, HeldInv, Has
<1> QED
    BY <1>1, FrontInvariance, PTL

\* The tree of a program that was accepted is whole: nothing in it was freed, no part
\* of a node is missing but an else block, and every block fits its array, whatever
\* statements the constructors dropped.
THEOREM NodesCompleteHolds == FrontSpec => []NodesComplete
<1>1. FrontInv => NodesComplete
    <2> SUFFICES ASSUME FrontInv, Compiles PROVE NodesComplete
        BY DEF NodesComplete
    <2>1. ast \in Roots(heap) /\ Forest(heap)
        BY DEF FrontInv, ResultInv, HoldsInv, Owns, Compiles
    <2>2. ast \in Live(heap) /\ ast \in DOMAIN heap /\ NULL \notin DOMAIN heap
          /\ Live(heap) \subseteq DOMAIN heap
        BY <2>1, RootsAre DEF Roots, Live
    <2>3. Closed(heap, DOMAIN heap) /\ Closed(heap, Live(heap)) /\ Founded(heap)
        BY <2>1, <2>2 DEF Forest, Closed
    <2>4. Tree(heap, ast) = Reach(heap, ast)
        BY <2>2, <2>3, TreeIsReach
    <2>5. Tree(heap, ast) \subseteq Live(heap)
        BY <2>2, <2>3, <2>4, ReachFacts
    <2>6. \A p \in Tree(heap, ast) : p \in Live(heap) /\ IsComplete(heap[p])
        BY <2>1, <2>2, <2>5 DEF Forest
    <2> QED
        BY <2>6 DEF NodesComplete, IsComplete
<1> QED
    BY <1>1, FrontInvariance, PTL

=============================================================================
