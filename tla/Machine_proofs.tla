--------------------------- MODULE Machine_proofs ---------------------------
(***************************************************************************)
(* Proofs about Machine, for every program: in a function that llc takes   *)
(* control stays within the blocks, no register is read before it is       *)
(* written and, if the parser let the program through, no slot is read     *)
(* before it is stored to.                                                 *)
(***************************************************************************)
EXTENDS Machine, LLVM_proofs, FiniteSetTheorems, WellFoundedInduction

-----------------------------------------------------------------------------
(* What reachability means *)

\* The blocks that some branch leads to are blocks.
Targets == 1 \in Blocks /\ \A b \in Blocks : Succ(b) \subseteq Blocks

\* The blocks found in n steps that avoid block d.
Found(reach, n, d) ==
    (IF n = 0 THEN {1} ELSE UNION {{b} \cup Succ(b) : b \in reach[n - 1]}) \ {d}

IsReach(reach, d) == reach = [n \in 0 .. Len(blocks) |-> Found(reach, n, d)]

LEMMA ReachExists ==
    ASSUME Targets, blocks \in Seq(Seq(Instr)), NEW d
    PROVE  \E reach : IsReach(reach, d)
<1> DEFINE N == Len(blocks)
           S == (0 .. N) \X Blocks
           F == [R \in SUBSET S |->
                    {p \in S : /\ p[2] # d
                               /\ \/ p[1] = 0 /\ p[2] = 1
                                  \/ /\ p[1] # 0
                                     /\ \E b \in Blocks : /\ <<p[1] - 1, b>> \in R
                                                          /\ p[2] \in {b} \cup Succ(b)}]
<1>1. /\ F \in [SUBSET S -> SUBSET S]
      /\ \A R, Q \in SUBSET S : R \subseteq Q => F[R] \subseteq F[Q]
    BY Zenon
<1>2. \E G \in SUBSET S : F[G] = G
    <2> HIDE DEF S, F
    <2> QED
        BY <1>1, FixedPoint
<1>3. PICK G \in SUBSET S : F[G] = G
    BY <1>2
<1> DEFINE w == [n \in 0 .. N |-> Names(Blocks, G, n)]
<1>4. ASSUME NEW n \in 0 .. N, NEW x \in Blocks
      PROVE  <<n, x>> \in G <=> /\ x # d
                                /\ \/ n = 0 /\ x = 1
                                   \/ /\ n # 0
                                      /\ \E b \in Blocks : /\ <<n - 1, b>> \in G
                                                           /\ x \in {b} \cup Succ(b)
    <2> DEFINE P(p) == /\ p[2] # d
                       /\ \/ p[1] = 0 /\ p[2] = 1
                          \/ /\ p[1] # 0
                             /\ \E b \in Blocks : <<p[1] - 1, b>> \in G /\ p[2] \in {b} \cup Succ(b)
    <2>1. F[G] = {p \in S : P(p)}
        BY Zenon
    <2>2. <<n, x>> \in S /\ <<n, x>>[1] = n /\ <<n, x>>[2] = x
        OBVIOUS
    <2>3. <<n, x>> \in G <=> P(<<n, x>>)
        <3> HIDE DEF S, F, P
        <3> QED
            BY <1>3, <2>1, <2>2
    <2> QED
        BY Zenon, <2>2, <2>3
<1>5. N \in Nat
    BY LenProperties
<1>6. ASSUME NEW n \in 0 .. N
      PROVE  Names(Blocks, G, n) = Found(w, n, d)
    <2>1. CASE n = 0
        BY <1>4, <2>1 DEF Found, Names, Targets
    <2>2. CASE n # 0
        <3>1. n - 1 \in 0 .. N /\ w[n - 1] = {b \in Blocks : <<n - 1, b>> \in G}
            BY <1>5, <2>2 DEF Names
        <3> HIDE DEF w
        <3>2. Found(w, n, d) = (UNION {{b} \cup Succ(b) : b \in w[n - 1]}) \ {d}
            BY Zenon, <2>2 DEF Found
        <3>3. \A x \in Blocks : <<n, x>> \in G <=>
                 x # d /\ \E b \in Blocks : <<n - 1, b>> \in G /\ x \in {b} \cup Succ(b)
            BY <1>4, <2>2
        <3>4. \A b \in w[n - 1] : b \in Blocks /\ <<n - 1, b>> \in G /\ Succ(b) \subseteq Blocks
            BY <3>1 DEF Targets
        <3>5. ASSUME NEW x \in Found(w, n, d)
              PROVE  x \in Blocks /\ <<n, x>> \in G
            <4>1. PICK b \in w[n - 1] : x \in {b} \cup Succ(b)
                BY Zenon, <3>2
            <4>2. b \in Blocks /\ <<n - 1, b>> \in G /\ x \in Blocks /\ x # d
                BY Zenon, <3>2, <3>4, <4>1
            <4> QED
                BY Zenon, <3>3, <4>1, <4>2
        <3>6. ASSUME NEW x \in Blocks, <<n, x>> \in G
              PROVE  x \in Found(w, n, d)
            <4>1. PICK b \in Blocks : <<n - 1, b>> \in G /\ x \in {b} \cup Succ(b)
                BY Zenon, <3>3, <3>6
            <4> QED
                BY Zenon, <3>1, <3>2, <3>3, <3>6, <4>1
        <3> QED
            BY <3>5, <3>6 DEF Names
    <2> QED
        BY <2>1, <2>2
<1>7. w = [n \in 0 .. N |-> Found(w, n, d)]
    BY <1>6
<1> QED
    BY <1>7 DEF IsReach

LEMMA ReachIs ==
    ASSUME Targets, blocks \in Seq(Seq(Instr)), NEW d
    PROVE  \E reach : IsReach(reach, d) /\ ReachableAvoiding(d) = reach[Len(blocks)]
<1> DEFINE r == CHOOSE reach : IsReach(reach, d)
<1>1. IsReach(r, d)
    BY ReachExists
<1>2. ReachableAvoiding(d) = r[Len(blocks)]
    BY Zenon DEF ReachableAvoiding, IsReach, Found
<1> QED
    BY <1>1, <1>2

\* A set of naturals has a least element.
LEMMA LeastNat ==
    ASSUME NEW S \in SUBSET Nat, S # {}
    PROVE  \E m \in S : \A x \in S : m <= x
<1> DEFINE R == {x \in Nat \X Nat : x[1] < x[2]}
<1>1. IsWellFoundedOn(R, Nat)
    BY NatLessThanWellFounded DEF OpToRel
<1>2. PICK m \in S : \A y \in S : ~(<<y, m>> \in R)
    <2> HIDE DEF R
    <2> QED
        BY <1>1, WFMin
<1>3. ASSUME NEW y \in S PROVE m <= y
    <2>1. ~(<<y, m>> \in R) /\ <<y, m>> \in Nat \X Nat /\ <<y, m>>[1] = y /\ <<y, m>>[2] = m
        BY <1>2
    <2>2. ~(<<y, m>>[1] < <<y, m>>[2])
        BY ONLY <2>1
    <2>3. ~(y < m) /\ y \in Nat /\ m \in Nat
        BY ONLY <2>1, <2>2
    <2> QED
        BY ONLY <2>3
<1> QED
    BY <1>3

\* So what holds of k and is kept by the next number holds up to N.
LEMMA UpTo ==
    ASSUME NEW N \in Nat, NEW k \in 0 .. N, NEW A, k \in A,
           \A n \in k + 1 .. N : n - 1 \in A => n \in A
    PROVE  \A n \in k .. N : n \in A
<1> DEFINE T == {n \in k .. N : n \notin A}
<1> SUFFICES ASSUME T # {} PROVE FALSE
    OBVIOUS
<1>1. T \in SUBSET Nat
    OBVIOUS
<1>2. PICK m \in T : \A x \in T : m <= x
    <2> HIDE DEF T
    <2> QED
        BY <1>1, LeastNat
<1>3. m \in k + 1 .. N /\ m - 1 \in k .. N /\ m \notin A
    OBVIOUS
<1>4. m - 1 \notin T
    BY <1>2, <1>3
<1> QED
    BY <1>3, <1>4

\* The search grows, and stays within the blocks other than d.
LEMMA ReachGrows ==
    ASSUME Targets, blocks \in Seq(Seq(Instr)), NEW d, NEW r, IsReach(r, d),
           NEW N, N = Len(blocks)
    PROVE  /\ N \in Nat \ {0} /\ Blocks = 1 .. N
           /\ \A n \in 0 .. N : r[n] = Found(r, n, d) /\ r[n] \subseteq Blocks \ {d}
           /\ \A n \in 1 .. N : r[n - 1] \subseteq r[n]
           /\ d # 1 => \A n \in 0 .. N : 1 \in r[n]
<1>1. N \in Nat \ {0} /\ Blocks = 1 .. N
    BY LenProperties DEF Targets, Blocks
<1>2. \A n \in 0 .. N : r[n] = Found(r, n, d)
    BY DEF IsReach
<1>3. r[0] = {1} \ {d} /\ \A n \in 1 .. N : r[n] = (UNION {{b} \cup Succ(b) : b \in r[n - 1]}) \ {d}
    <2>1. 0 \in 0 .. N /\ \A n \in 1 .. N : n \in 0 .. N /\ n # 0
        BY <1>1
    <2> QED
        BY Zenon, <1>2, <2>1 DEF Found
<1>4. ASSUME NEW n \in 0 .. N PROVE r[n] \subseteq Blocks \ {d}
    <2> DEFINE A == {m \in 0 .. N : r[m] \subseteq Blocks \ {d}}
    <2>1. 0 \in A
        BY <1>1, <1>3 DEF Targets
    <2>2. ASSUME NEW m \in 0 + 1 .. N, m - 1 \in A PROVE m \in A
        <3>1. m \in 1 .. N /\ m \in 0 .. N /\ r[m - 1] \subseteq Blocks
            BY <2>2
        <3>2. r[m] = (UNION {{b} \cup Succ(b) : b \in r[m - 1]}) \ {d}
            BY <1>3, <3>1
        <3>3. r[m] \subseteq Blocks \ {d}
            BY <3>1, <3>2 DEF Targets
        <3> QED
            BY <3>1, <3>3
    <2> HIDE DEF A
    <2>3. 0 \in 0 .. N /\ N \in Nat
        BY <1>1
    <2>4. n \in A
        BY <2>1, <2>2, <2>3, UpTo
    <2> QED
        BY <2>4 DEF A
<1>5. ASSUME NEW n \in 1 .. N PROVE r[n - 1] \subseteq r[n]
    <2>1. n - 1 \in 0 .. N /\ r[n - 1] \subseteq Blocks \ {d}
        BY <1>1, <1>4
    <2>2. r[n] = (UNION {{b} \cup Succ(b) : b \in r[n - 1]}) \ {d}
        BY <1>3
    <2> QED
        BY <2>1, <2>2
<1>6. ASSUME d # 1, NEW n \in 0 .. N PROVE 1 \in r[n]
    <2> DEFINE A == {m \in 0 .. N : 1 \in r[m]}
    <2>1. 0 \in A
        BY <1>1, <1>3, <1>6
    <2>2. ASSUME NEW m \in 0 + 1 .. N, m - 1 \in A PROVE m \in A
        BY <1>5, <2>2
    <2> HIDE DEF A
    <2>3. 0 \in 0 .. N /\ N \in Nat
        BY <1>1
    <2>4. n \in A
        BY <2>1, <2>2, <2>3, UpTo
    <2> QED
        BY <2>4 DEF A
<1> QED
    BY <1>1, <1>2, <1>4, <1>5, <1>6

\* There are not enough blocks for it to grow in every step.
LEMMA ReachStops ==
    ASSUME Targets, blocks \in Seq(Seq(Instr)), NEW d, NEW r, IsReach(r, d),
           NEW N, N = Len(blocks)
    PROVE  \E k \in 1 .. N : r[k] = r[k - 1]
<1> DEFINE c == IF d \in Blocks THEN 0 ELSE 1
           A == {n \in 0 .. N : Cardinality(r[n]) >= n + c}
<1>1. /\ N \in Nat \ {0} /\ Blocks = 1 .. N
      /\ \A n \in 0 .. N : r[n] \subseteq Blocks \ {d}
      /\ \A n \in 1 .. N : r[n - 1] \subseteq r[n]
      /\ d # 1 => \A n \in 0 .. N : 1 \in r[n]
    BY ReachGrows
<1>2. /\ IsFiniteSet(Blocks \ {d}) /\ Cardinality(Blocks \ {d}) = N - 1 + c
      /\ c \in {0, 1}
    <2>1. IsFiniteSet(1 .. N) /\ Cardinality(1 .. N) = N
        <3>1. 1 \in Int /\ N \in Int /\ ~(1 > N) /\ N - 1 + 1 = N
            BY <1>1
        <3>2. /\ IsFiniteSet(1 .. N)
              /\ Cardinality(1 .. N) = IF 1 > N THEN 0 ELSE N - 1 + 1
            BY ONLY <3>1, FS_Interval
        <3> QED
            BY <3>1, <3>2
    <2>2. /\ IsFiniteSet(Blocks \ {d})
          /\ Cardinality(Blocks \ {d}) =
                IF d \in Blocks THEN Cardinality(Blocks) - 1 ELSE Cardinality(Blocks)
        BY <1>1, <2>1, FS_RemoveElement
    <2>3. Cardinality(Blocks) = N
        BY <1>1, <2>1
    <2>4. CASE d \in Blocks
        <3>1. c = 0 /\ IsFiniteSet(Blocks \ {d}) /\ Cardinality(Blocks \ {d}) = N - 1
            BY <2>2, <2>3, <2>4
        <3>2. N - 1 = N - 1 + 0
            BY <1>1
        <3> QED
            BY ONLY <3>1, <3>2
    <2>5. CASE d \notin Blocks
        BY <1>1, <2>2, <2>3, <2>5
    <2> QED
        BY <2>4, <2>5
<1> SUFFICES ASSUME \A k \in 1 .. N : r[k] # r[k - 1] PROVE FALSE
    OBVIOUS
<1>3. \A n \in 0 .. N : IsFiniteSet(r[n]) /\ Cardinality(r[n]) \in Nat
    BY <1>1, <1>2, FS_Subset, FS_CardinalityType
<1>4. 0 \in A
    <2>1. 0 \in 0 .. N
        BY <1>1
    <2>2. CASE d \in Blocks
        BY <1>3, <2>1, <2>2
    <2>3. CASE d \notin Blocks
        <3>1. 1 \in r[0]
            BY <1>1, <2>1, <2>3 DEF Targets
        <3>2. Cardinality(r[0]) # 0
            BY <1>3, <2>1, <3>1, FS_EmptySet
        <3> QED
            BY <1>3, <2>1, <2>3, <3>2
    <2> QED
        BY <2>2, <2>3
<1>5. ASSUME NEW n \in 0 + 1 .. N, n - 1 \in A PROVE n \in A
    <2>1. n \in 1 .. N /\ n \in 0 .. N /\ n - 1 \in 0 .. N /\ Cardinality(r[n - 1]) >= n - 1 + c
        BY <1>1, <1>5
    <2>2. r[n - 1] \subseteq r[n] /\ r[n] # r[n - 1]
        BY <1>1, <2>1
    <2>3. /\ Cardinality(r[n - 1]) <= Cardinality(r[n])
          /\ Cardinality(r[n - 1]) # Cardinality(r[n])
        BY <1>3, <2>1, <2>2, FS_Subset
    <2>4. Cardinality(r[n - 1]) \in Nat /\ Cardinality(r[n]) \in Nat /\ n \in Nat
        BY <1>3, <2>1
    <2> HIDE DEF c
    <2> QED
        BY <1>2, <2>1, <2>3, <2>4
<1> HIDE DEF A, c
<1>6. N \in A
    <2>1. 0 \in 0 .. N /\ N \in Nat /\ N \in 0 .. N
        BY <1>1
    <2> QED
        BY <1>4, <1>5, <2>1, UpTo
<1>7. Cardinality(r[N]) >= N + c /\ N \in 0 .. N
    BY <1>1, <1>6 DEF A
<1>8. Cardinality(r[N]) <= N - 1 + c
    BY <1>1, <1>2, <1>7, FS_Subset
<1> QED
    BY <1>1, <1>2, <1>3, <1>7, <1>8

\* The blocks that paths avoiding d reach: a branch leads on to another one, or to d.
LEMMA ReachFacts ==
    ASSUME Targets, blocks \in Seq(Seq(Instr)), NEW d
    PROVE  /\ d \notin ReachableAvoiding(d) /\ ReachableAvoiding(d) \subseteq Blocks
           /\ d # 1 => 1 \in ReachableAvoiding(d)
           /\ \A b \in ReachableAvoiding(d) : \A t \in Succ(b) :
                 t # d => t \in ReachableAvoiding(d)
<1> DEFINE N == Len(blocks)
<1>1. PICK r : IsReach(r, d) /\ ReachableAvoiding(d) = r[N]
    BY ReachIs
<1> HIDE DEF N
<1>2. /\ N \in Nat \ {0} /\ Blocks = 1 .. N
      /\ \A n \in 0 .. N : r[n] = Found(r, n, d) /\ r[n] \subseteq Blocks \ {d}
      /\ d # 1 => \A n \in 0 .. N : 1 \in r[n]
    BY <1>1, ReachGrows DEF N
<1>3. PICK k \in 1 .. N : r[k] = r[k - 1]
    BY <1>1, ReachStops DEF N
<1> DEFINE A == {n \in 0 .. N : r[n] = r[k]}
<1>4. k \in A
    BY <1>2
<1>5. ASSUME NEW n \in k + 1 .. N, n - 1 \in A PROVE n \in A
    <2>1. n \in 0 .. N /\ k \in 0 .. N /\ n # 0 /\ k # 0
        BY <1>2, <1>5
    <2>2. r[n - 1] = r[k - 1]
        BY <1>3, <1>5
    <2>3. r[n] = Found(r, n, d) /\ r[k] = Found(r, k, d)
        BY <1>2, <2>1
    <2>4. Found(r, n, d) = Found(r, k, d)
        BY Zenon, <2>1, <2>2 DEF Found
    <2> QED
        BY <2>1, <2>3, <2>4
<1> HIDE DEF A
<1>6. r[N] = r[k] /\ r[N] = r[k - 1]
    <2>1. k \in 0 .. N /\ N \in Nat /\ N \in k .. N
        BY <1>2
    <2>2. N \in A
        BY <1>4, <1>5, <2>1, UpTo
    <2> QED
        BY <1>3, <2>2 DEF A
<1>7. r[k] = (UNION {{b} \cup Succ(b) : b \in r[k - 1]}) \ {d}
    <2>1. r[k] = Found(r, k, d) /\ k # 0
        BY <1>2
    <2> QED
        BY Zenon, <2>1 DEF Found
<1>8. ASSUME NEW b \in r[N], NEW t \in Succ(b), t # d PROVE t \in r[N]
    <2>1. b \in r[k - 1] /\ t \in {b} \cup Succ(b)
        BY <1>6
    <2>2. t \in UNION {{a} \cup Succ(a) : a \in r[k - 1]}
        BY Zenon, <2>1
    <2> QED
        BY <1>6, <1>7, <1>8, <2>2
<1>9. N \in 0 .. N
    BY <1>2
<1> QED
    BY <1>1, <1>2, <1>8, <1>9

-----------------------------------------------------------------------------
(* What operands refer to *)

\* Instruction i of block b is there.
IsAt(b, i) == b \in DOMAIN blocks /\ i \in DOMAIN blocks[b]

\* A value that is computed, not an address.
IsReg(v) ==
    v \in Values /\ (v.kind = "inst" => IsAt(v.bb, v.ix) /\ blocks[v.bb][v.ix].ins \in {"load", "binop"})

\* The address that the alloca of x returns.
IsSlot(v, x) == v \in InstVals /\ IsAt(v.bb, v.ix) /\ blocks[v.bb][v.ix] = Alloca(x)
IsAddress(v) == \E x \in Var : IsSlot(v, x)

OperandsOK(i) ==
    /\ i.ins = "load" /\ i.ptr # NULL => IsAddress(i.ptr)
    /\ i.ins = "store" => IsReg(i.val) /\ IsAddress(i.ptr)
    /\ i.ins = "binop" => IsReg(i.lhs) /\ IsReg(i.rhs)
    /\ i.ins = "br" /\ i.to # NULL => i.to \in DOMAIN blocks
    /\ i.ins = "condbr" => IsReg(i.cond) /\ i.then \in DOMAIN blocks /\ i.else \in DOMAIN blocks
    /\ i.ins = "ret" => IsReg(i.val)

\* The operands that a frame keeps.
FrameOK(f) ==
    /\ f.kind = "rhs" => IsReg(f.l)
    /\ f.kind = "store" => IsAddress(f.ptr)
    /\ f.kind \in {"while", "loop"} => f.cond \in DOMAIN blocks

InstrsOK == \A b \in DOMAIN blocks : \A i \in DOMAIN blocks[b] : OperandsOK(blocks[b][i])
FramesOK == \A i \in DOMAIN stack : FrameOK(stack[i])
SymbolsOK == \A x \in Var : symbols[x] # NULL => IsSlot(symbols[x], x)

\* A variable has one alloca, which the symbol table knows.
AllocasOK ==
    \A b \in DOMAIN blocks : \A i \in DOMAIN blocks[b] :
        blocks[b][i].ins = "alloca" => symbols[blocks[b][i].var] = InstVal(b, i)

OperandInv == InstrsOK /\ FramesOK /\ SymbolsOK /\ AllocasOK /\ (ret \in Values => IsReg(ret))

\* No instruction is lost or changed.
Keeps ==
    /\ DOMAIN blocks \subseteq DOMAIN blocks'
    /\ \A b \in DOMAIN blocks : \A i \in DOMAIN blocks[b] :
          i \in DOMAIN blocks'[b] /\ blocks'[b][i] = blocks[b][i]

LEMMA KeepsFacts ==
    ASSUME Keeps
    PROVE  /\ \A v : IsReg(v) => IsReg(v)'
           /\ \A v, x : IsSlot(v, x) => IsSlot(v, x)'
           /\ \A v : IsAddress(v) => IsAddress(v)'
           /\ \A i : OperandsOK(i) => OperandsOK(i)'
           /\ \A f : FrameOK(f) => FrameOK(f)'
<1>1. \A b, i : IsAt(b, i) => IsAt(b, i)' /\ blocks'[b][i] = blocks[b][i]
    BY DEF Keeps, IsAt
<1>2. \A v : IsReg(v) => IsReg(v)'
    BY <1>1 DEF IsReg
<1>3. \A v, x : IsSlot(v, x) => IsSlot(v, x)'
    BY <1>1 DEF IsSlot
<1>4. \A v : IsAddress(v) => IsAddress(v)'
    BY <1>3 DEF IsAddress
<1>5. DOMAIN blocks \subseteq DOMAIN blocks'
    BY DEF Keeps
<1>6. \A i : OperandsOK(i) => OperandsOK(i)'
    BY <1>2, <1>4, <1>5 DEF OperandsOK
<1>7. \A f : FrameOK(f) => FrameOK(f)'
    BY <1>2, <1>4, <1>5 DEF FrameOK
<1> QED
    BY <1>2, <1>3, <1>4, <1>6, <1>7

\* The new instruction's place is where the builder was.
LEMMA GrowsKeeps ==
    ASSUME DataOK, NEW ins \in Instr, Grows(ins), NEW h, h = Here
    PROVE  /\ Keeps
           /\ IsAt(h.bb, h.ix)' /\ blocks'[h.bb][h.ix] = ins
           /\ h \in InstVals /\ h = InstVal(h.bb, h.ix) /\ h.kind = "inst"
           /\ h.bb = cur /\ h.ix = Len(blocks[cur]) + 1
           /\ \A b \in DOMAIN blocks' : \A i \in DOMAIN blocks'[b] :
                 IsAt(b, i) \/ (b = h.bb /\ i = h.ix)
<1>1. blocks[cur] \in Seq(Instr) /\ cur \in DOMAIN blocks /\ blocks \in Seq(Seq(Instr))
    BY LenProperties DEF DataOK
<1>2. h \in InstVals
    BY <1>1, HereFact
<1>3. h.bb = cur /\ h.ix = Len(blocks[cur]) + 1 /\ h = InstVal(h.bb, h.ix) /\ h.kind = "inst"
    BY DEF Here, InstVal
<1> DEFINE s == blocks[cur]
           r == Append(s, ins)
<1>4. /\ r \in Seq(Instr) /\ Len(r) = Len(s) + 1 /\ Len(s) \in Nat /\ r[Len(s) + 1] = ins
      /\ \A j \in 1 .. Len(s) : r[j] = s[j]
      /\ DOMAIN s = 1 .. Len(s) /\ DOMAIN r = 1 .. Len(r)
    BY <1>1, AppendProperties, LenProperties
<1>5. blocks'[cur] = r
    BY DEF Grows
<1> HIDE DEF r
<1>6. Keeps
    <2> SUFFICES ASSUME NEW b \in DOMAIN blocks, NEW i \in DOMAIN blocks[b]
                 PROVE  i \in DOMAIN blocks'[b] /\ blocks'[b][i] = blocks[b][i]
        BY DEF Keeps, Grows
    <2>1. CASE b = cur
        BY <1>4, <1>5, <2>1
    <2>2. CASE b # cur
        BY <2>2 DEF Grows
    <2> QED
        BY <2>1, <2>2
<1>7. IsAt(h.bb, h.ix)' /\ blocks'[h.bb][h.ix] = ins
    <2>1. Len(s) + 1 \in DOMAIN r /\ cur \in DOMAIN blocks'
        BY <1>1, <1>4 DEF Grows
    <2>2. cur \in DOMAIN blocks' /\ (Len(s) + 1) \in DOMAIN blocks'[cur] /\ blocks'[cur][Len(s) + 1] = ins
        BY <1>4, <1>5, <2>1
    <2> QED
        BY <1>3, <2>2 DEF IsAt
<1>8. ASSUME NEW b \in DOMAIN blocks', NEW i \in DOMAIN blocks'[b]
      PROVE  IsAt(b, i) \/ (b = h.bb /\ i = h.ix)
    <2>1. Kept(b, i) \/ (b = cur /\ i = Len(blocks'[b]))
        BY GrowsFacts
    <2> QED
        BY <1>3, <1>4, <1>5, <2>1 DEF Kept, IsAt
<1> QED
    BY <1>2, <1>3, <1>6, <1>7, <1>8

\* An instruction with sound operands is appended.
LEMMA EmitOperands ==
    ASSUME DataOK, OperandInv, NEW ins \in Instr, Grows(ins), OperandsOK(ins)',
           ins.ins # "alloca", symbols' = symbols
    PROVE  InstrsOK' /\ SymbolsOK' /\ AllocasOK'
<1>1. PICK h : h = Here
    OBVIOUS
<1>2. /\ Keeps /\ blocks'[h.bb][h.ix] = ins
      /\ \A b \in DOMAIN blocks' : \A i \in DOMAIN blocks'[b] :
            (b \in DOMAIN blocks /\ i \in DOMAIN blocks[b]) \/ (b = h.bb /\ i = h.ix)
    BY <1>1, GrowsKeeps DEF IsAt
<1>3. ASSUME NEW b \in DOMAIN blocks', NEW i \in DOMAIN blocks'[b]
      PROVE  OperandsOK(blocks[b][i])'
    <2>1. PICK k : k = blocks'[b][i]
        OBVIOUS
    <2>2. OperandsOK(k)'
        <3>1. CASE b \in DOMAIN blocks /\ i \in DOMAIN blocks[b]
            <4>1. k = blocks[b][i]
                BY <1>2, <2>1, <3>1 DEF Keeps
            <4>2. OperandsOK(k)
                BY <3>1, <4>1 DEF OperandInv, InstrsOK
            <4> QED
                BY <1>2, <4>2, KeepsFacts
        <3>2. CASE b = h.bb /\ i = h.ix
            BY <1>2, <2>1, <3>2
        <3> QED
            BY <1>2, <3>1, <3>2
    <2> QED
        BY <2>1, <2>2
<1>4. ASSUME NEW x \in Var, symbols'[x] # NULL
      PROVE  IsSlot(symbols[x], x)'
    <2>1. PICK v : v = symbols'[x] /\ v = symbols[x]
        OBVIOUS
    <2>2. IsSlot(v, x)
        BY <1>4, <2>1 DEF OperandInv, SymbolsOK
    <2>3. IsSlot(v, x)'
        BY <1>2, <2>2, KeepsFacts
    <2> QED
        BY <2>1, <2>3
<1>5. ASSUME NEW b \in DOMAIN blocks', NEW i \in DOMAIN blocks'[b], blocks'[b][i].ins = "alloca"
      PROVE  symbols'[blocks'[b][i].var] = InstVal(b, i)
    <2>1. b \in DOMAIN blocks /\ i \in DOMAIN blocks[b] /\ blocks'[b][i] = blocks[b][i]
        BY <1>2, <1>5 DEF Keeps
    <2> QED
        BY <1>5, <2>1 DEF OperandInv, AllocasOK
<1> QED
    BY <1>3, <1>4, <1>5 DEF InstrsOK, SymbolsOK, AllocasOK

LEMMA SameOperands ==
    ASSUME OperandInv, blocks' = blocks, symbols' = symbols
    PROVE  InstrsOK' /\ SymbolsOK' /\ AllocasOK' /\ Keeps
BY DEF OperandInv, InstrsOK, SymbolsOK, AllocasOK, Keeps, OperandsOK, IsReg, IsAddress, IsSlot, IsAt

\* The frames after a step are old ones, or in S.
FramesFrom(S) == \A i \in DOMAIN stack' : stack'[i] \in S \/ \E j \in DOMAIN stack : stack'[i] = stack[j]

LEMMA FramesKept ==
    ASSUME OperandInv, Keeps, NEW S, FramesFrom(S), \A f \in S : FrameOK(f)'
    PROVE  FramesOK'
<1> SUFFICES ASSUME NEW i \in DOMAIN stack' PROVE FrameOK(stack[i])'
    BY DEF FramesOK
<1>1. PICK f : f = stack'[i]
    OBVIOUS
<1>2. FrameOK(f)'
    <2>1. CASE f \in S
        BY <2>1
    <2>2. CASE \E j \in DOMAIN stack : f = stack[j]
        <3>1. FrameOK(f)
            BY <2>2 DEF OperandInv, FramesOK
        <3> QED
            BY <3>1, KeepsFacts
    <2> QED
        BY <1>1, <2>1, <2>2 DEF FramesFrom
<1> QED
    BY <1>1, <1>2

LEMMA StackFrom ==
    ASSUME StackOK, stack # <<>>
    PROVE  /\ Top \in {stack[i] : i \in DOMAIN stack}
           /\ stack' = Tail(stack) => FramesFrom({})
           /\ \A f, k : Call(f, k) => FramesFrom({f, k})
           /\ \A f \in Frame : stack' = Cons(f, Tail(stack)) => FramesFrom({f})
<1>1. Top = stack[1] /\ 1 \in DOMAIN stack
    BY PopFacts, LenProperties DEF StackOK, Top
<1>2. ASSUME stack' = Tail(stack) PROVE FramesFrom({})
    <2>1. /\ Len(stack) \in Nat \ {0} /\ DOMAIN stack = 1 .. Len(stack)
          /\ DOMAIN stack' = 1 .. Len(stack) - 1
          /\ \A i \in 2 .. Len(stack) : stack'[i - 1] = stack[i]
        BY <1>2, ReturnMoves
    <2>2. ASSUME NEW i \in DOMAIN stack' PROVE \E j \in DOMAIN stack : stack'[i] = stack[j]
        <3>1. i + 1 \in 2 .. Len(stack) /\ i + 1 \in DOMAIN stack /\ (i + 1) - 1 = i
            BY <2>1
        <3>2. stack'[(i + 1) - 1] = stack[i + 1]
            BY <2>1, <3>1
        <3> QED
            BY <3>1, <3>2
    <2> QED
        BY <2>2 DEF FramesFrom
<1>3. ASSUME NEW f, NEW k, Call(f, k) PROVE FramesFrom({f, k})
    <2>1. /\ Len(stack) \in Nat \ {0} /\ DOMAIN stack = 1 .. Len(stack)
          /\ DOMAIN stack' = 1 .. Len(stack) + 1
          /\ stack'[1] = f /\ stack'[2] = k
          /\ \A i \in 2 .. Len(stack) : stack'[i + 1] = stack[i]
        BY <1>3, CallMoves
    <2>2. ASSUME NEW i \in DOMAIN stack'
          PROVE  stack'[i] \in {f, k} \/ \E j \in DOMAIN stack : stack'[i] = stack[j]
        <3>1. i = 1 \/ i = 2 \/ (i - 1 \in 2 .. Len(stack) /\ i - 1 \in DOMAIN stack /\ (i - 1) + 1 = i)
            BY <2>1
        <3>2. CASE i - 1 \in 2 .. Len(stack) /\ i - 1 \in DOMAIN stack /\ (i - 1) + 1 = i
            <4>1. stack'[(i - 1) + 1] = stack[i - 1]
                BY <2>1, <3>2
            <4> QED
                BY <3>2, <4>1
        <3> QED
            BY <2>1, <3>1, <3>2
    <2> QED
        BY <2>2 DEF FramesFrom
<1>4. ASSUME NEW f \in Frame, stack' = Cons(f, Tail(stack)) PROVE FramesFrom({f})
    <2> DEFINE below == Tail(stack)
    <2>1. /\ below \in Seq(Frame) /\ Len(below) = Len(stack) - 1
          /\ Len(stack) \in Nat \ {0} /\ DOMAIN stack = 1 .. Len(stack)
          /\ \A i \in 1 .. Len(stack) - 1 : below[i] = stack[i + 1]
        BY PopFacts, LenProperties DEF StackOK
    <2> HIDE DEF below
    <2>2. /\ Cons(f, below) \in Seq(Frame) /\ Len(Cons(f, below)) = Len(below) + 1
          /\ Cons(f, below)[1] = f
          /\ \A i \in 1 .. Len(below) : Cons(f, below)[i + 1] = below[i]
        BY <2>1, ConsFacts
    <2>3. DOMAIN stack' = 1 .. Len(stack) /\ stack' = Cons(f, below)
        BY <1>4, <2>1, <2>2, LenProperties DEF below
    <2>4. ASSUME NEW i \in DOMAIN stack'
          PROVE  stack'[i] \in {f} \/ \E j \in DOMAIN stack : stack'[i] = stack[j]
        <3>1. i = 1 \/ (i - 1 \in 1 .. Len(stack) - 1 /\ (i - 1) + 1 = i /\ i \in DOMAIN stack)
            BY <2>1, <2>3
        <3>2. CASE i - 1 \in 1 .. Len(stack) - 1 /\ (i - 1) + 1 = i /\ i \in DOMAIN stack
            <4>1. Cons(f, below)[(i - 1) + 1] = below[i - 1] /\ below[i - 1] = stack[(i - 1) + 1]
                BY <2>1, <2>2, <3>2
            <4> QED
                BY <2>3, <3>2, <4>1
        <3> QED
            BY <2>2, <2>3, <3>1, <3>2
    <2> QED
        BY <2>4 DEF FramesFrom
<1> QED
    BY <1>1, <1>2, <1>3, <1>4

LEMMA ExprOperands ==
    ASSUME StackOK, DataOK, OperandInv, GenExprStep
    PROVE  OperandInv'
<1>1. stack # <<>> /\ symbols' = symbols
    BY DEF GenExprStep, GenId, GenConst, GenLhs, GenRhs, BuildOp, AtExpr, At
<1>2. FrameOK(Top)
    BY <1>1, StackFrom DEF OperandInv, FramesOK
<1>3. CASE GenId
    <2>1. PICK v : v = symbols[Top.node.id]
        OBVIOUS
    <2>2. PICK h : h = Here
        OBVIOUS
    <2> DEFINE ins == Load(v)
    <2>3. /\ Top.kind = "expr" /\ Top.node.type = "ID_EXPR"
          /\ blocks' = Emit(ins) /\ cur' = cur /\ stack' = Tail(stack) /\ ret' = h
        BY <1>3, <2>1, <2>2 DEF GenId, AtExpr, At
    <2>4. Top.node.id \in Var
        BY <1>1, <2>3, TopFacts, NodeFacts
    <2>5. ins \in Instr /\ ins.ins = "load" /\ ins.ptr = v
        BY <2>1, <2>4 DEF Load, Instr, DataOK
    <2>6. v # NULL => IsAddress(v)
        BY <2>1, <2>4 DEF OperandInv, SymbolsOK, IsAddress
    <2> HIDE DEF ins
    <2>7. Grows(ins)
        BY <2>3, <2>5, EmitGrows
    <2>8. /\ Keeps /\ IsAt(h.bb, h.ix)' /\ blocks'[h.bb][h.ix] = ins
          /\ h \in InstVals /\ h.kind = "inst"
        BY <2>2, <2>5, <2>7, GrowsKeeps
    <2>9. (v # NULL => IsAddress(v))'
        BY <2>6, <2>8, KeepsFacts
    <2>10. OperandsOK(ins)'
        BY <2>5, <2>9 DEF OperandsOK
    <2>11. InstrsOK' /\ SymbolsOK' /\ AllocasOK'
        BY <1>1, <2>5, <2>7, <2>10, EmitOperands
    <2>12. FramesOK'
        BY <1>1, <2>3, <2>8, StackFrom, FramesKept
    <2>13. IsReg(h)'
        BY <2>5, <2>8 DEF IsReg, Values
    <2>14. IsReg(ret)'
        BY <2>3, <2>13
    <2> QED
        BY <2>11, <2>12, <2>14 DEF OperandInv
<1>4. CASE GenConst
    <2>1. PICK v : v = Top.node.val
        OBVIOUS
    <2>2. /\ Top.kind = "expr" /\ Top.node.type = "CONST_EXPR"
          /\ blocks' = blocks /\ cur' = cur /\ stack' = Tail(stack) /\ ret' = ConstVal(v)
        BY <1>4, <2>1 DEF GenConst, AtExpr, At
    <2>3. v \in Val
        BY <1>1, <2>1, <2>2, TopFacts, NodeFacts
    <2>4. IsReg(ret)'
        BY <2>2, <2>3 DEF IsReg, ConstVal, Values
    <2>5. InstrsOK' /\ SymbolsOK' /\ AllocasOK' /\ Keeps
        BY <1>1, <2>2, SameOperands
    <2>6. FramesOK'
        BY <1>1, <2>2, <2>5, StackFrom, FramesKept
    <2> QED
        BY <2>4, <2>5, <2>6 DEF OperandInv
<1>5. ASSUME NEW f, NEW k, Call(f, k), FrameOK(f), FrameOK(k), blocks' = blocks, ret' = ret
      PROVE  OperandInv'
    <2>1. InstrsOK' /\ SymbolsOK' /\ AllocasOK' /\ Keeps
        BY <1>1, <1>5, SameOperands
    <2>2. FrameOK(f)' /\ FrameOK(k)'
        BY <1>5, <2>1, KeepsFacts
    <2>3. FramesOK'
        <3>1. FramesFrom({f, k})
            BY <1>1, <1>5, StackFrom
        <3>2. \A g \in {f, k} : FrameOK(g)'
            BY <2>2
        <3> QED
            BY <2>1, <3>1, <3>2, FramesKept
    <2>4. (ret \in Values => IsReg(ret))'
        BY <1>5 DEF OperandInv, IsReg, IsAt
    <2> QED
        BY <2>1, <2>3, <2>4 DEF OperandInv
<1>6. CASE GenLhs
    <2>1. PICK f, k : Call(f, k) /\ f.kind = "expr" /\ k.kind = "lhs"
        BY <1>6 DEF GenLhs, ExprFrame
    <2>2. FrameOK(f) /\ FrameOK(k)
        BY <2>1 DEF FrameOK
    <2>3. blocks' = blocks /\ ret' = ret
        BY <1>6 DEF GenLhs
    <2> QED
        BY <1>5, <2>1, <2>2, <2>3
<1>7. CASE GenRhs
    <2>1. PICK f, k : Call(f, k) /\ f.kind = "expr" /\ k.kind = "rhs" /\ k.l = ret
        BY <1>7 DEF GenRhs, ExprFrame
    <2>2. ret \in Values
        BY <1>1, <1>7 DEF GenRhs, At, StackOK, AwaitsValue
    <2>3. FrameOK(f) /\ FrameOK(k)
        BY <2>1, <2>2 DEF FrameOK, OperandInv
    <2>4. blocks' = blocks /\ ret' = ret
        BY <1>7 DEF GenRhs
    <2> QED
        BY <1>5, <2>1, <2>3, <2>4
<1>8. CASE BuildOp
    <2>1. /\ Top.kind = "rhs" /\ stack' = Tail(stack) /\ cur' = cur
          /\ ret \in Values /\ Top.l \in Values /\ Top.op \in Op
        BY <1>1, <1>8, TopFacts DEF BuildOp, At, StackOK, AwaitsValue
    <2>2. CASE Top.l.kind = "const" /\ ret.kind = "const"
        <3>1. PICK v : v = Apply(Top.op, Top.l.val, ret.val)
            OBVIOUS
        <3>2. ret' = ConstVal(v) /\ blocks' = blocks
            BY <1>8, <2>2, <3>1 DEF BuildOp
        <3>3. v \in Val
            <4>1. Top.l.val \in Val /\ ret.val \in Val
                BY <2>1, <2>2 DEF Values, InstVals
            <4> QED
                BY <2>1, <3>1, <4>1, ValueAssumption
        <3>4. IsReg(ret)'
            BY <3>2, <3>3 DEF IsReg, ConstVal, Values
        <3>5. InstrsOK' /\ SymbolsOK' /\ AllocasOK' /\ Keeps
            BY <1>1, <3>2, SameOperands
        <3>6. FramesOK'
            BY <1>1, <2>1, <3>5, StackFrom, FramesKept
        <3> QED
            BY <3>4, <3>5, <3>6 DEF OperandInv
    <2>3. CASE ~(Top.l.kind = "const" /\ ret.kind = "const")
        <3>1. PICK l, r, o, h : l = Top.l /\ r = ret /\ o = Top.op /\ h = Here
            OBVIOUS
        <3> DEFINE ins == [ins |-> "binop", op |-> o, lhs |-> l, rhs |-> r]
        <3>2. blocks' = Emit(ins) /\ ret' = h
            BY <1>8, <2>3, <3>1 DEF BuildOp
        <3>3. ins \in Instr /\ ins.ins = "binop" /\ ins.lhs = l /\ ins.rhs = r
            BY <2>1, <3>1 DEF Instr
        <3>4. IsReg(l) /\ IsReg(r)
            BY <1>2, <2>1, <3>1 DEF OperandInv, FrameOK
        <3> HIDE DEF ins
        <3>5. Grows(ins)
            BY <3>2, <3>3, EmitGrows
        <3>6. /\ Keeps /\ IsAt(h.bb, h.ix)' /\ blocks'[h.bb][h.ix] = ins
              /\ h \in InstVals /\ h.kind = "inst"
            BY <3>1, <3>3, <3>5, GrowsKeeps
        <3>7. IsReg(l)' /\ IsReg(r)'
            BY <3>4, <3>6, KeepsFacts
        <3>8. OperandsOK(ins)'
            BY <3>3, <3>7 DEF OperandsOK
        <3>9. InstrsOK' /\ SymbolsOK' /\ AllocasOK'
            BY <1>1, <3>3, <3>5, <3>8, EmitOperands
        <3>10. FramesOK'
            BY <1>1, <2>1, <3>6, StackFrom, FramesKept
        <3>11. IsReg(h)'
            BY <3>3, <3>6 DEF IsReg, Values
        <3>12. IsReg(ret)'
            BY <3>2, <3>11
        <3> QED
            BY <3>9, <3>10, <3>12 DEF OperandInv
    <2> QED
        BY <2>2, <2>3
<1> QED
    BY <1>3, <1>4, <1>6, <1>7, <1>8 DEF GenExprStep

\* Steps of gen_stmt that emit nothing.
LEMMA SilentOperands ==
    ASSUME StackOK, DataOK, OperandInv, GenIf \/ GenBlock \/ NextStmt \/ EndBlock
    PROVE  OperandInv'
<1>1. stack # <<>> /\ symbols' = symbols /\ blocks' = blocks /\ ret' = ret
    BY DEF GenIf, GenBlock, NextStmt, EndBlock, AtStmt, At
<1>2. InstrsOK' /\ SymbolsOK' /\ AllocasOK' /\ Keeps
    BY <1>1, SameOperands
<1>3. (ret \in Values => IsReg(ret))'
    BY <1>1 DEF OperandInv, IsReg, IsAt
<1>4. \E S : FramesFrom(S) /\ \A f \in S : f.kind \in {"stmt", "expr", "if", "block"}
    <2>1. CASE GenIf
        <3>1. PICK f, k : Call(f, k) /\ f.kind = "expr" /\ k.kind = "if"
            BY <2>1 DEF GenIf, ExprFrame
        <3>5. FramesFrom({f, k})
            BY <1>1, <3>1, StackFrom
        <3> QED
            BY <3>1, <3>5
    <2>2. CASE GenBlock
        <3> DEFINE f == [kind |-> "block", stmts |-> Top.node.stmts]
        <3>1. Top.kind = "stmt" /\ Top.node.type = "BLOCK" /\ stack' = Cons(f, Tail(stack))
            BY <2>2 DEF GenBlock, AtStmt, At
        <3>2. f \in Frame /\ f.kind = "block"
            BY <1>1, <3>1, TopFacts, NodeFacts DEF Frame
        <3> HIDE DEF f
        <3>3. FramesFrom({f})
            BY <1>1, <3>1, <3>2, StackFrom
        <3> QED
            BY <3>2, <3>3
    <2>3. CASE NextStmt
        <3>1. Top.kind = "block" /\ Call(StmtFrame(Head(Top.stmts)), [Top EXCEPT !.stmts = Tail(@)])
            BY <2>3 DEF NextStmt, At
        <3>2. StmtFrame(Head(Top.stmts)).kind = "stmt"
            BY DEF StmtFrame
        <3>3. [Top EXCEPT !.stmts = Tail(@)].kind = "block"
            BY <1>1, <3>1, TopFacts DEF Frame, EndIfFrame, WhileFrame
        <3>4. PICK f, k : Call(f, k) /\ f.kind = "stmt" /\ k.kind = "block"
            BY <3>1, <3>2, <3>3
        <3>5. FramesFrom({f, k})
            BY <1>1, <3>4, StackFrom
        <3> QED
            BY <3>4, <3>5
    <2>4. CASE EndBlock
        <3>1. FramesFrom({})
            BY <1>1, <2>4, StackFrom DEF EndBlock
        <3> QED
            BY <3>1
    <2> QED
        BY <2>1, <2>2, <2>3, <2>4
<1>5. PICK S : FramesFrom(S) /\ \A f \in S : f.kind \in {"stmt", "expr", "if", "block"}
    BY <1>4
<1>6. \A f \in S : FrameOK(f)'
    BY <1>5 DEF FrameOK
<1>7. FramesOK'
    BY <1>2, <1>5, <1>6, FramesKept
<1> QED
    BY <1>2, <1>3, <1>7 DEF OperandInv

\* One that emits an instruction with sound operands and leaves ret as it is.
LEMMA StmtEmits ==
    ASSUME StackOK, DataOK, OperandInv, NEW ins \in Instr, Grows(ins), OperandsOK(ins)',
           ins.ins # "alloca", symbols' = symbols, ret' = ret,
           NEW S, FramesFrom(S), \A f \in S : FrameOK(f)'
    PROVE  OperandInv'
<1>1. InstrsOK' /\ SymbolsOK' /\ AllocasOK'
    BY EmitOperands
<1>2. Keeps
    BY GrowsKeeps
<1>3. FramesOK'
    BY <1>2, FramesKept
<1>4. (ret \in Values => IsReg(ret))'
    <2> SUFFICES ASSUME ret' \in Values PROVE IsReg(ret)'
        OBVIOUS
    <2>1. PICK v : v = ret
        OBVIOUS
    <2>2. IsReg(v)
        BY <2>1 DEF OperandInv
    <2>3. IsReg(v)' /\ v = ret'
        BY <1>2, <2>1, <2>2, KeepsFacts
    <2> QED
        BY <2>3
<1> QED
    BY <1>1, <1>3, <1>4 DEF OperandInv

\* Blocks that are owed, or that a break leads to, are in the function.
LEMMA OwedAreBlocks ==
    ASSUME IInv, BreakTargetIsInnermost
    PROVE  /\ stack # <<>> => Owed(Top) \subseteq DOMAIN blocks
           /\ break_target # NULL => break_target \in DOMAIN blocks
<1>1. \A i \in DOMAIN stack : Owed(stack[i]) \subseteq DOMAIN blocks
    BY DEF IInv, BlocksFilledOnce
<1>2. ASSUME stack # <<>> PROVE Owed(Top) \subseteq DOMAIN blocks
    <2>1. Top = stack[1] /\ 1 \in DOMAIN stack
        BY <1>2, TypeParts, PopFacts, LenProperties DEF IInv, StackOK, Top
    <2> QED
        BY <1>1, <2>1
<1>3. ASSUME break_target # NULL PROVE break_target \in DOMAIN blocks
    <2>1. PICK i \in DOMAIN stack : IsLoopFrame(stack[i]) /\ break_target = stack[i].cont
        BY <1>3 DEF BreakTargetIsInnermost, IsTarget
    <2>2. stack[i].cont \in Owed(stack[i])
        BY <2>1, OwedFacts DEF IsLoopFrame
    <2> QED
        BY <1>1, <2>1, <2>2
<1> QED
    BY <1>2, <1>3

\* A block's end: a branch to a block is emitted.
LEMMA BranchOperands ==
    ASSUME IInv, OperandInv, BreakTargetIsInnermost,
           GenBreak \/ GenElse \/ EndIf \/ EndWhile
    PROVE  OperandInv'
<1>1. StackOK /\ DataOK /\ stack # <<>> /\ symbols' = symbols /\ ret' = ret
    BY TypeParts DEF IInv, GenBreak, GenElse, EndIf, EndWhile, AtStmt, At
<1>2. PICK t : /\ blocks' = Emit(Br(t)) /\ t \in BlockNo \cup {NULL} /\ (t # NULL => t \in DOMAIN blocks)
               /\ \E S : FramesFrom(S) /\ \A f \in S : f.kind \in {"stmt", "endif"}
    <2>1. CASE GenBreak
        <3>1. blocks' = Emit(Br(break_target)) /\ stack' = Tail(stack)
            BY <2>1 DEF GenBreak
        <3>2. FramesFrom({})
            BY <1>1, <3>1, StackFrom
        <3> QED
            BY <1>1, <3>1, <3>2, OwedAreBlocks DEF DataOK
    <2>2. CASE GenElse
        <3>1. /\ Top.kind = "endif" /\ blocks' = Emit(Br(Top.cont))
              /\ Call(StmtFrame(Top.else), [Top EXCEPT !.else = NULL, !.else_bb = NULL])
            BY <2>2 DEF GenElse, At
        <3>2. Top.cont \in BlockNo /\ Top.cont \in Owed(Top)
            <4>1. Top.cont \in BlockNo /\ Owed(Top) = {Top.else_bb, Top.cont} \ {NULL}
                BY <1>1, <3>1, TopFacts, OwedFacts
            <4> QED
                BY <4>1, NullAssumption DEF BlockNo
        <3>3. StmtFrame(Top.else).kind = "stmt" /\ [Top EXCEPT !.else = NULL, !.else_bb = NULL].kind = "endif"
            <4>1. Top = [kind |-> "endif", else |-> Top.else, else_bb |-> Top.else_bb, cont |-> Top.cont]
                BY <1>1, <3>1, TopFacts
            <4> QED
                BY <4>1 DEF StmtFrame
        <3>4. PICK f, k : Call(f, k) /\ f.kind = "stmt" /\ k.kind = "endif"
            BY <3>1, <3>3
        <3>5. FramesFrom({f, k})
            BY <1>1, <3>4, StackFrom
        <3> QED
            BY <1>1, <3>1, <3>2, <3>4, <3>5, OwedAreBlocks
    <2>3. CASE EndIf
        <3>1. Top.kind = "endif" /\ blocks' = Emit(Br(Top.cont)) /\ stack' = Tail(stack)
            BY <2>3 DEF EndIf, At
        <3>2. Top.cont \in BlockNo /\ Top.cont \in Owed(Top)
            <4>1. Top.cont \in BlockNo /\ Owed(Top) = {Top.else_bb, Top.cont} \ {NULL}
                BY <1>1, <3>1, TopFacts, OwedFacts
            <4> QED
                BY <4>1, NullAssumption DEF BlockNo
        <3>3. FramesFrom({})
            BY <1>1, <3>1, StackFrom
        <3> QED
            BY <1>1, <3>1, <3>2, <3>3, OwedAreBlocks
    <2>4. CASE EndWhile
        <3>1. Top.kind = "loop" /\ blocks' = Emit(Br(Top.cond)) /\ stack' = Tail(stack)
            BY <2>4 DEF EndWhile, At
        <3>2. Top.cond \in BlockNo /\ Top.cond \in DOMAIN blocks
            <4>1. FrameOK(Top)
                BY <1>1, StackFrom DEF OperandInv, FramesOK
            <4> QED
                BY <1>1, <3>1, <4>1, TopFacts DEF FrameOK
        <3>3. FramesFrom({})
            BY <1>1, <3>1, StackFrom
        <3> QED
            BY <1>1, <3>1, <3>2, <3>3
    <2> QED
        BY <2>1, <2>2, <2>3, <2>4
<1>3. PICK S : FramesFrom(S) /\ \A f \in S : f.kind \in {"stmt", "endif"}
    BY <1>2
<1>4. \A f \in S : FrameOK(f)'
    BY <1>3 DEF FrameOK
<1> DEFINE ins == Br(t)
<1>5. ins \in Instr /\ ins.ins = "br" /\ ins.to = t
    BY <1>2 DEF Br, Instr
<1> HIDE DEF ins
<1>6. Grows(ins)
    BY <1>1, <1>2, <1>5, EmitGrows DEF ins
<1>7. OperandsOK(ins)'
    BY <1>2, <1>5, <1>6 DEF OperandsOK, Grows
<1> QED
    BY <1>1, <1>3, <1>4, <1>5, <1>6, <1>7, StmtEmits

\* An assignment: the slot, and the store to it.
LEMMA AssignOperands ==
    ASSUME StackOK, DataOK, OperandInv, GenAssign \/ BuildStore
    PROVE  OperandInv'
<1>1. stack # <<>>
    BY DEF GenAssign, BuildStore, AtStmt, At
<1>2. FrameOK(Top)
    BY <1>1, StackFrom DEF OperandInv, FramesOK
<1>3. CASE BuildStore
    <2>1. PICK v, p : v = ret /\ p = Top.ptr
        OBVIOUS
    <2> DEFINE ins == Store(v, p)
    <2>2. /\ Top.kind = "store" /\ blocks' = Emit(ins) /\ stack' = Tail(stack)
          /\ ret \in Values /\ Top.ptr \in InstVals /\ symbols' = symbols /\ ret' = ret
        BY <1>1, <1>3, <2>1, TopFacts DEF BuildStore, At, StackOK, AwaitsValue
    <2>3. ins \in Instr /\ ins.ins = "store" /\ ins.val = v /\ ins.ptr = p
        BY <2>1, <2>2 DEF Store, Instr
    <2>4. IsReg(v) /\ IsAddress(p)
        BY <1>2, <2>1, <2>2 DEF OperandInv, FrameOK
    <2> HIDE DEF ins
    <2>5. Grows(ins)
        BY <2>2, <2>3, EmitGrows
    <2>6. IsReg(v)' /\ IsAddress(p)'
        BY <2>3, <2>4, <2>5, GrowsKeeps, KeepsFacts
    <2>7. OperandsOK(ins)'
        BY <2>3, <2>6 DEF OperandsOK
    <2>8. FramesFrom({})
        BY <1>1, <2>2, StackFrom
    <2> QED
        BY <2>2, <2>3, <2>5, <2>7, <2>8, StmtEmits
<1>4. CASE GenAssign
    <2>1. PICK x, h : x = Top.node.lhs /\ h = Here
        OBVIOUS
    <2> DEFINE fr == ExprFrame(Top.node.rhs)
               ptr == IF symbols[x] = NULL THEN h ELSE symbols[x]
    <2>2. /\ Top.kind = "stmt" /\ Top.node.type = "ASSIGN_STMT" /\ x \in Var /\ ret' = ret
          /\ blocks' = (IF symbols[x] = NULL THEN Emit(Alloca(x)) ELSE blocks)
          /\ symbols' = [symbols EXCEPT ![x] = ptr]
          /\ Call(fr, [kind |-> "store", ptr |-> ptr])
        BY <1>1, <1>4, <2>1, TopFacts, NodeFacts DEF GenAssign, AtStmt, At
    <2>3. fr.kind = "expr" /\ symbols \in [Var -> InstVals \cup {NULL}]
        BY DEF ExprFrame, DataOK
    <2> HIDE DEF fr
    <2>4. PICK f, k : Call(f, k) /\ f.kind = "expr" /\ k.kind = "store" /\ k.ptr = ptr
        BY <2>2, <2>3
    <2>5. FramesFrom({f, k})
        BY <1>1, <2>4, StackFrom
    <2>6. CASE symbols[x] # NULL
        <3>1. blocks' = blocks /\ symbols' = symbols
            BY <2>2, <2>3, <2>6
        <3>2. InstrsOK' /\ SymbolsOK' /\ AllocasOK' /\ Keeps
            BY <3>1, SameOperands
        <3>3. IsAddress(k.ptr)
            BY <2>2, <2>4, <2>6 DEF OperandInv, SymbolsOK, IsAddress
        <3>4. FrameOK(f) /\ FrameOK(k)
            BY <2>3, <2>4, <3>3 DEF FrameOK
        <3>5. \A g \in {f, k} : FrameOK(g)'
            BY <3>2, <3>4, KeepsFacts
        <3>6. FramesOK'
            BY <2>5, <3>2, <3>5, FramesKept
        <3>7. (ret \in Values => IsReg(ret))'
            BY <2>2, <3>1 DEF OperandInv, IsReg, IsAt
        <3> QED
            BY <3>2, <3>6, <3>7 DEF OperandInv
    <2>7. CASE symbols[x] = NULL
        <3> DEFINE ins == Alloca(x)
        <3>1. blocks' = Emit(ins) /\ symbols' = [symbols EXCEPT ![x] = h] /\ k.ptr = h
            BY <2>2, <2>4, <2>7
        <3>2. ins \in Instr /\ ins.ins = "alloca" /\ ins.var = x
            BY <2>2 DEF Alloca, Instr
        <3> HIDE DEF ins
        <3>3. Grows(ins)
            BY <3>1, <3>2, EmitGrows
        <3>4. /\ Keeps /\ IsAt(h.bb, h.ix)' /\ blocks'[h.bb][h.ix] = ins
              /\ h \in InstVals /\ h = InstVal(h.bb, h.ix)
              /\ \A b \in DOMAIN blocks' : \A i \in DOMAIN blocks'[b] :
                    (b \in DOMAIN blocks /\ i \in DOMAIN blocks[b]) \/ (b = h.bb /\ i = h.ix)
            BY <2>1, <3>2, <3>3, GrowsKeeps DEF IsAt
        <3>5. IsSlot(h, x)'
            BY <3>4 DEF IsSlot, ins
        <3>6. OperandsOK(ins)'
            BY <3>2 DEF OperandsOK
        <3>7. InstrsOK'
            <4> SUFFICES ASSUME NEW b \in DOMAIN blocks', NEW i \in DOMAIN blocks'[b]
                         PROVE  OperandsOK(blocks[b][i])'
                BY DEF InstrsOK
            <4>1. PICK j : j = blocks'[b][i]
                OBVIOUS
            <4>2. OperandsOK(j)'
                <5>1. CASE b \in DOMAIN blocks /\ i \in DOMAIN blocks[b]
                    <6>1. j = blocks[b][i]
                        BY <3>4, <4>1, <5>1 DEF Keeps
                    <6>2. OperandsOK(j)
                        BY <5>1, <6>1 DEF OperandInv, InstrsOK
                    <6> QED
                        BY <3>4, <6>2, KeepsFacts
                <5>2. CASE b = h.bb /\ i = h.ix
                    BY <3>4, <3>6, <4>1, <5>2
                <5> QED
                    BY <3>4, <5>1, <5>2
            <4> QED
                BY <4>1, <4>2
        <3>8. SymbolsOK'
            <4> SUFFICES ASSUME NEW y \in Var, symbols'[y] # NULL PROVE IsSlot(symbols[y], y)'
                BY DEF SymbolsOK
            <4>1. PICK v : v = symbols'[y]
                OBVIOUS
            <4>2. IsSlot(v, y)'
                <5>1. CASE y = x
                    BY <2>2, <2>3, <3>1, <3>5, <4>1, <5>1
                <5>2. CASE y # x
                    <6>1. v = symbols[y]
                        BY <2>3, <3>1, <4>1, <5>2
                    <6>2. IsSlot(v, y)
                        BY <4>1, <6>1 DEF OperandInv, SymbolsOK
                    <6> QED
                        BY <3>4, <6>2, KeepsFacts
                <5> QED
                    BY <5>1, <5>2
            <4> QED
                BY <4>1, <4>2
        <3>9. AllocasOK'
            <4> SUFFICES ASSUME NEW b \in DOMAIN blocks', NEW i \in DOMAIN blocks'[b],
                                blocks'[b][i].ins = "alloca"
                         PROVE  symbols'[blocks'[b][i].var] = InstVal(b, i)
                BY DEF AllocasOK
            <4>1. CASE b \in DOMAIN blocks /\ i \in DOMAIN blocks[b]
                <5>1. blocks'[b][i] = blocks[b][i]
                    BY <3>4, <4>1 DEF Keeps
                <5>2. symbols[blocks[b][i].var] = InstVal(b, i)
                    BY <4>1, <5>1 DEF OperandInv, AllocasOK
                <5>3. InstVal(b, i) # NULL /\ blocks[b][i].var \in Var
                    <6>1. blocks \in Seq(Seq(Instr)) /\ blocks[b] \in Seq(Instr) /\ blocks[b][i] \in Instr
                        BY <4>1 DEF DataOK
                    <6>2. blocks[b][i].var \in Var
                        BY <5>1, <6>1 DEF Instr
                    <6>3. b \in Nat \ {0} /\ i \in Nat \ {0}
                        BY <4>1, <6>1, LenProperties
                    <6>4. InstVal(b, i) \in InstVals
                        BY <6>3 DEF InstVal, InstVals
                    <6> QED
                        BY <6>2, <6>4, BuilderAssumption
                <5>4. blocks[b][i].var # x
                    BY <2>7, <5>2, <5>3
                <5> QED
                    BY <2>3, <3>1, <5>1, <5>2, <5>3, <5>4
            <4>2. CASE b = h.bb /\ i = h.ix
                BY <2>2, <2>3, <3>1, <3>2, <3>4, <4>2
            <4> QED
                BY <3>4, <4>1, <4>2
        <3>10. IsAddress(h)'
            BY <2>2, <3>5 DEF IsAddress
        <3>11. FrameOK(f)' /\ FrameOK(k)'
            BY <2>3, <2>4, <3>1, <3>10 DEF FrameOK
        <3>12. \A g \in {f, k} : FrameOK(g)'
            BY <3>11
        <3>13. FramesOK'
            BY <2>5, <3>4, <3>12, FramesKept
        <3>14. (ret \in Values => IsReg(ret))'
            <4> SUFFICES ASSUME ret' \in Values PROVE IsReg(ret)'
                OBVIOUS
            <4>1. PICK v : v = ret
                OBVIOUS
            <4>2. IsReg(v)
                BY <2>2, <4>1 DEF OperandInv
            <4>3. IsReg(v)' /\ v = ret'
                BY <2>2, <3>4, <4>1, <4>2, KeepsFacts
            <4> QED
                BY <4>3
        <3> QED
            BY <3>7, <3>8, <3>9, <3>13, <3>14 DEF OperandInv
    <2> QED
        BY <2>6, <2>7
<1> QED
    BY <1>3, <1>4

\* An if or a loop: a branch to blocks that the step, or an earlier one, appends.
LEMMA OpenOperands ==
    ASSUME IInv, OperandInv, BuildIf \/ GenWhile \/ BuildWhile
    PROVE  OperandInv'
<1>1. StackOK /\ DataOK /\ stack # <<>> /\ symbols' = symbols /\ ret' = ret
    BY TypeParts DEF IInv, BuildIf, GenWhile, BuildWhile, AtStmt, At
<1>2. PICK N : N = Len(blocks) /\ N \in Nat \ {0} /\ DOMAIN blocks = 1 .. N
    BY <1>1, EmptySeq, LenProperties DEF DataOK
<1>3. ASSUME NEW ins \in Instr, NEW n \in {2, 3}, blocks' = Emit(ins) \o NewBlocks(n)
      PROVE  Grows(ins) /\ N + 1 \in DOMAIN blocks' /\ N + 2 \in DOMAIN blocks'
    <2> DEFINE B == Emit(ins)
    <2>1. B \in Seq(Seq(Instr)) /\ Len(B) = N
        BY <1>1, <1>2, EmitFacts DEF DataOK
    <2>2. Grows(ins)
        BY <1>1, <1>3, BranchGrows
    <2> HIDE DEF B
    <2>3. blocks' \in Seq(Seq(Instr)) /\ Len(blocks') = N + n
        BY <1>3, <2>1, NewBlocksFacts DEF B
    <2>4. DOMAIN blocks' = 1 .. N + n
        BY <2>3, LenProperties
    <2> QED
        BY <1>2, <2>2, <2>4
<1>4. CASE BuildIf
    <2>1. PICK v : v = ret
        OBVIOUS
    <2> DEFINE else == Top.node.else_block
               n == IF else = NULL THEN 2 ELSE 3
               ins == CondBr(v, N + 1, N + 2)
    <2>2. Top.kind = "if" /\ blocks' = Emit(ins) \o NewBlocks(n)
        BY <1>2, <1>4, <2>1 DEF BuildIf, At, NewBlock, NewBlocks
    <2>3. PICK f, k : Call(f, k) /\ f.kind = "stmt" /\ k.kind = "endif"
        BY <1>4 DEF BuildIf, StmtFrame
    <2>4. v \in Values /\ IsReg(v)
        BY <1>1, <2>1, <2>2 DEF StackOK, AwaitsValue, OperandInv
    <2>5. N + 1 \in BlockNo /\ N + 2 \in BlockNo /\ n \in {2, 3}
        BY <1>2 DEF BlockNo
    <2>6. /\ ins \in Instr /\ ins.ins = "condbr" /\ ins.cond = v
          /\ ins.then = N + 1 /\ ins.else = N + 2
        BY <2>4, <2>5 DEF CondBr, Instr
    <2> HIDE DEF ins, n
    <2>7. Grows(ins) /\ N + 1 \in DOMAIN blocks' /\ N + 2 \in DOMAIN blocks'
        BY <1>3, <2>2, <2>5, <2>6
    <2>8. IsReg(v)'
        BY <1>1, <2>4, <2>6, <2>7, GrowsKeeps, KeepsFacts
    <2>9. OperandsOK(ins)'
        BY <2>6, <2>7, <2>8 DEF OperandsOK
    <2>10. FramesFrom({f, k})
        BY <1>1, <2>3, StackFrom
    <2>11. \A g \in {f, k} : FrameOK(g)'
        BY <2>3 DEF FrameOK
    <2> QED
        BY <1>1, <2>6, <2>7, <2>9, <2>10, <2>11, StmtEmits
<1>5. CASE GenWhile
    <2> DEFINE ins == Br(N + 1)
    <2>1. blocks' = Emit(ins) \o NewBlocks(3)
        BY <1>2, <1>5 DEF GenWhile, NewBlock, NewBlocks
    <2>2. PICK f, k : Call(f, k) /\ f.kind = "expr" /\ k.kind = "while" /\ k.cond = N + 1
        BY <1>2, <1>5 DEF GenWhile, ExprFrame, NewBlock
    <2>3. ins \in Instr /\ ins.ins = "br" /\ ins.to = N + 1
        BY <1>2 DEF Br, Instr, BlockNo
    <2> HIDE DEF ins
    <2>4. Grows(ins) /\ N + 1 \in DOMAIN blocks'
        BY <1>3, <2>1, <2>3
    <2>5. OperandsOK(ins)'
        BY <2>3, <2>4 DEF OperandsOK
    <2>6. FramesFrom({f, k})
        BY <1>1, <2>2, StackFrom
    <2>7. \A g \in {f, k} : FrameOK(g)'
        BY <2>2, <2>4 DEF FrameOK
    <2> QED
        BY <1>1, <2>3, <2>4, <2>5, <2>6, <2>7, StmtEmits
<1>6. CASE BuildWhile
    <2>1. PICK v, t, e, c : v = ret /\ t = Top.body /\ e = Top.cont /\ c = Top.cond
        OBVIOUS
    <2> DEFINE ins == CondBr(v, t, e)
    <2>2. Top.kind = "while" /\ blocks' = Emit(ins)
        BY <1>6, <2>1 DEF BuildWhile, At
    <2>3. PICK f, k : Call(f, k) /\ f.kind = "stmt" /\ k.kind = "loop" /\ k.cond = c
        BY <1>6, <2>1 DEF BuildWhile, StmtFrame
    <2>4. v \in Values /\ IsReg(v)
        BY <1>1, <2>1, <2>2 DEF StackOK, AwaitsValue, OperandInv
    <2>5. t \in BlockNo /\ e \in BlockNo /\ t \in Owed(Top) /\ e \in Owed(Top)
        BY <1>1, <2>1, <2>2, TopFacts, OwedFacts
    <2>6. t \in DOMAIN blocks /\ e \in DOMAIN blocks
        BY <1>1, <2>5, OwedIsEmpty
    <2>7. c \in DOMAIN blocks
        <3>1. FrameOK(Top)
            BY <1>1, StackFrom DEF OperandInv, FramesOK
        <3> QED
            BY <2>1, <2>2, <3>1 DEF FrameOK
    <2>8. /\ ins \in Instr /\ ins.ins = "condbr" /\ ins.cond = v /\ ins.then = t /\ ins.else = e
        BY <2>4, <2>5 DEF CondBr, Instr
    <2> HIDE DEF ins
    <2>9. Grows(ins)
        BY <1>1, <2>2, <2>8, EmitGrows
    <2>10. IsReg(v)' /\ DOMAIN blocks \subseteq DOMAIN blocks'
        BY <1>1, <2>4, <2>8, <2>9, GrowsKeeps, KeepsFacts DEF Grows
    <2>11. OperandsOK(ins)'
        BY <2>6, <2>8, <2>10 DEF OperandsOK
    <2>12. FramesFrom({f, k})
        BY <1>1, <2>3, StackFrom
    <2>13. \A g \in {f, k} : FrameOK(g)'
        BY <2>3, <2>7, <2>10 DEF FrameOK
    <2> QED
        BY <1>1, <2>8, <2>9, <2>11, <2>12, <2>13, StmtEmits
<1> QED
    BY <1>4, <1>5, <1>6

\* The last step of generate_llvm_ir: a return, or a load and its return.
LEMMA FinishOperands ==
    ASSUME IInv, OperandInv, Finish
    PROVE  OperandInv' /\ Keeps
<1>1. /\ StackOK /\ DataOK /\ UNCHANGED <<stack, ret, cur, symbols>> /\ stack = <<>>
      /\ ReturnValue \in Var /\ Zero \in Val
    BY TypeParts, ValueAssumption DEF IInv, Finish
<1>2. DOMAIN stack' = {}
    BY <1>1
<1>3. FramesOK'
    BY <1>2 DEF FramesOK
<1>4. CASE symbols[ReturnValue] = NULL
    <2> DEFINE ins == Ret(ConstVal(Zero))
    <2>1. blocks' = Emit(ins)
        BY <1>4 DEF Finish
    <2>2. ins \in Instr /\ ins.ins = "ret" /\ ins.val = ConstVal(Zero) /\ IsReg(ConstVal(Zero))'
        BY <1>1 DEF Ret, Instr, ConstVal, Values, IsReg
    <2> HIDE DEF ins
    <2>3. Grows(ins)
        BY <1>1, <2>1, <2>2, EmitGrows
    <2>4. OperandsOK(ins)'
        BY <2>2 DEF OperandsOK
    <2>5. FramesFrom({})
        BY <1>2 DEF FramesFrom
    <2>6. OperandInv'
        BY <1>1, <2>2, <2>3, <2>4, <2>5, StmtEmits
    <2> QED
        BY <1>1, <2>2, <2>3, <2>6, GrowsKeeps
<1>5. CASE symbols[ReturnValue] # NULL
    <2>1. PICK v, h : v = symbols[ReturnValue] /\ h = Here
        OBVIOUS
    <2> DEFINE ld == Load(v)
               rt == Ret(h)
               s  == blocks[cur]
               r  == s \o <<ld, rt>>
    <2>2. blocks' = [blocks EXCEPT ![cur] = r]
        BY <1>5, <2>1 DEF Finish
    <2>3. blocks[cur] \in Seq(Instr) /\ cur \in DOMAIN blocks /\ h \in InstVals
        BY <1>1, <2>1, HereFact, LenProperties DEF DataOK
    <2>4. h.bb = cur /\ h.ix = Len(s) + 1 /\ h.kind = "inst"
        BY <2>1 DEF Here, InstVal
    <2>5. /\ ld \in Instr /\ ld.ins = "load" /\ ld.ptr = v
          /\ rt \in Instr /\ rt.ins = "ret" /\ rt.val = h /\ v # NULL
        BY <1>1, <1>5, <2>1, <2>3 DEF DataOK, Load, Ret, Instr, Values
    <2> HIDE DEF ld, rt
    <2>6. <<ld, rt>> \in Seq(Instr) /\ Len(<<ld, rt>>) = 2
        BY <2>5
    <2>7. /\ r \in Seq(Instr) /\ Len(r) = Len(s) + 2 /\ Len(s) \in Nat
          /\ \A j \in 1 .. Len(s) + 2 : r[j] = IF j <= Len(s) THEN s[j] ELSE <<ld, rt>>[j - Len(s)]
        BY <2>3, <2>6, ConcatProperties, LenProperties
    <2>8. DOMAIN s = 1 .. Len(s) /\ DOMAIN r = 1 .. Len(s) + 2
        BY <2>3, <2>7, LenProperties
    <2>9. blocks'[cur] = r /\ DOMAIN blocks' = DOMAIN blocks /\ \A b \in DOMAIN blocks : b # cur => blocks'[b] = blocks[b]
        BY <2>2, <2>3
    <2>10. r[Len(s) + 1] = ld /\ r[Len(s) + 2] = rt /\ \A j \in 1 .. Len(s) : r[j] = s[j]
        <3> HIDE DEF r, s
        <3>1. <<ld, rt>>[1] = ld /\ <<ld, rt>>[2] = rt
            OBVIOUS
        <3>2. Len(s) + 1 \in 1 .. Len(s) + 2 /\ Len(s) + 2 \in 1 .. Len(s) + 2
            BY <2>7
        <3>3. ~(Len(s) + 1 <= Len(s)) /\ ~(Len(s) + 2 <= Len(s)) /\ (Len(s) + 1) - Len(s) = 1 /\ (Len(s) + 2) - Len(s) = 2
            BY <2>7
        <3>4. \A j \in 1 .. Len(s) : j \in 1 .. Len(s) + 2 /\ j <= Len(s)
            BY <2>7
        <3> QED
            BY <2>7, <3>1, <3>2, <3>3, <3>4
    <2> HIDE DEF r
    <2>11. Keeps
        <3> SUFFICES ASSUME NEW b \in DOMAIN blocks, NEW i \in DOMAIN blocks[b]
                     PROVE  i \in DOMAIN blocks'[b] /\ blocks'[b][i] = blocks[b][i]
            BY <2>9 DEF Keeps
        <3>1. CASE b = cur
            BY <2>7, <2>8, <2>9, <2>10, <3>1
        <3>2. CASE b # cur
            BY <2>9, <3>2
        <3> QED
            BY <3>1, <3>2
    <2>12. ASSUME NEW b \in DOMAIN blocks', NEW i \in DOMAIN blocks'[b]
          PROVE  \/ b \in DOMAIN blocks /\ i \in DOMAIN blocks[b] /\ blocks'[b][i] = blocks[b][i]
                 \/ blocks'[b][i] \in {ld, rt}
        <3>1. CASE b = cur
            <4>1. i \in 1 .. Len(s) \/ i = Len(s) + 1 \/ i = Len(s) + 2
                BY <2>7, <2>8, <2>9, <3>1
            <4> QED
                BY <2>3, <2>8, <2>9, <2>10, <3>1, <4>1
        <3>2. CASE b # cur
            BY <2>9, <3>2
        <3> QED
            BY <3>1, <3>2
    <2>13. IsReg(h)'
        <3>1. Len(s) + 1 \in DOMAIN r /\ cur \in DOMAIN blocks'
            BY <2>3, <2>7, <2>8, <2>9
        <3>2. IsAt(h.bb, h.ix)' /\ blocks'[h.bb][h.ix] = ld
            BY <2>4, <2>9, <2>10, <3>1 DEF IsAt
        <3> QED
            BY <2>3, <2>5, <3>2 DEF IsReg, Values
    <2>14. IsAddress(v)'
        <3>1. IsAddress(v)
            BY <1>1, <1>5, <2>1 DEF OperandInv, SymbolsOK, IsAddress
        <3> QED
            BY <2>11, <3>1, KeepsFacts
    <2>15. OperandsOK(ld)' /\ OperandsOK(rt)'
        <3>1. PICK a, c : a = ld /\ c = rt
            OBVIOUS
        <3>2. OperandsOK(a)' /\ OperandsOK(c)'
            BY <2>5, <2>13, <2>14, <3>1 DEF OperandsOK
        <3> QED
            BY <3>1, <3>2
    <2>16. InstrsOK'
        <3> SUFFICES ASSUME NEW b \in DOMAIN blocks', NEW i \in DOMAIN blocks'[b]
                     PROVE  OperandsOK(blocks[b][i])'
            BY DEF InstrsOK
        <3>1. PICK j : j = blocks'[b][i]
            OBVIOUS
        <3>2. OperandsOK(j)'
            <4>1. CASE b \in DOMAIN blocks /\ i \in DOMAIN blocks[b] /\ j = blocks[b][i]
                <5>1. OperandsOK(j)
                    BY <4>1 DEF OperandInv, InstrsOK
                <5> QED
                    BY <2>11, <5>1, KeepsFacts
            <4>2. CASE j \in {ld, rt}
                BY <2>15, <4>2
            <4> QED
                BY <2>12, <3>1, <4>1, <4>2
        <3> QED
            BY <3>1, <3>2
    <2>17. SymbolsOK'
        <3> SUFFICES ASSUME NEW y \in Var, symbols'[y] # NULL PROVE IsSlot(symbols[y], y)'
            BY DEF SymbolsOK
        <3>1. PICK a : a = symbols'[y] /\ a = symbols[y]
            BY <1>1
        <3>2. IsSlot(a, y)
            BY <3>1 DEF OperandInv, SymbolsOK
        <3>3. IsSlot(a, y)'
            BY <2>11, <3>2, KeepsFacts
        <3> QED
            BY <3>1, <3>3
    <2>18. AllocasOK'
        <3> SUFFICES ASSUME NEW b \in DOMAIN blocks', NEW i \in DOMAIN blocks'[b],
                            blocks'[b][i].ins = "alloca"
                     PROVE  symbols'[blocks'[b][i].var] = InstVal(b, i)
            BY DEF AllocasOK
        <3>1. b \in DOMAIN blocks /\ i \in DOMAIN blocks[b] /\ blocks'[b][i] = blocks[b][i]
            BY <2>5, <2>12
        <3> QED
            BY <1>1, <3>1 DEF OperandInv, AllocasOK
    <2>19. (ret \in Values => IsReg(ret))'
        <3> SUFFICES ASSUME ret' \in Values PROVE IsReg(ret)'
            OBVIOUS
        <3>1. PICK a : a = ret /\ a = ret'
            BY <1>1
        <3>2. IsReg(a)
            BY <3>1 DEF OperandInv
        <3>3. IsReg(a)'
            BY <2>11, <3>2, KeepsFacts
        <3> QED
            BY <3>1, <3>3
    <2> QED
        BY <1>3, <2>11, <2>16, <2>17, <2>18, <2>19 DEF OperandInv
<1> QED
    BY <1>4, <1>5

\* Every step keeps it.
LEMMA OperandStep == IInv /\ BreakTargetIsInnermost /\ OperandInv /\ [Next]_vars => OperandInv'
<1> SUFFICES ASSUME IInv, BreakTargetIsInnermost, OperandInv, [Next]_vars PROVE OperandInv'
    OBVIOUS
<1>1. StackOK /\ DataOK
    BY TypeParts DEF IInv
<1>2. ASSUME UNCHANGED <<stack, ret, blocks, symbols>> PROVE OperandInv'
    BY <1>2 DEF OperandInv, InstrsOK, FramesOK, SymbolsOK, AllocasOK, OperandsOK, FrameOK, IsReg, IsAddress,
                IsSlot, IsAt
<1>3. CASE GenExprStep
    BY <1>1, <1>3, ExprOperands
<1>4. CASE GenIf \/ GenBlock \/ NextStmt \/ EndBlock
    BY <1>1, <1>4, SilentOperands
<1>5. CASE GenAssign \/ BuildStore
    BY <1>1, <1>5, AssignOperands
<1>6. CASE GenBreak \/ GenElse \/ EndIf \/ EndWhile
    BY <1>6, BranchOperands
<1>7. CASE BuildIf \/ GenWhile \/ BuildWhile
    BY <1>7, OpenOperands
<1>8. CASE Finish
    BY <1>8, FinishOperands
<1>9. CASE Crash
    BY <1>2, <1>9 DEF Crash
<1>10. CASE UNCHANGED vars
    BY <1>2, <1>10 DEF vars
<1> QED
    BY <1>3, <1>4, <1>5, <1>6, <1>7, <1>8, <1>9, <1>10 DEF Next, GenStep, GenStmtStep, Terminated

LEMMA InitOperand == Init => OperandInv
<1> SUFFICES ASSUME Init PROVE OperandInv
    OBVIOUS
<1>1. /\ DOMAIN stack = {1} /\ stack[1].kind = "stmt" /\ ret = NULL
      /\ DOMAIN blocks = {1} /\ DOMAIN blocks[1] = {} /\ symbols = [x \in Var |-> NULL]
    BY DEF Init, StmtFrame
<1>2. ret \in Values => IsReg(ret)
    BY <1>1, BuilderAssumption DEF IsReg, Values
<1> QED
    BY <1>1, <1>2 DEF OperandInv, InstrsOK, FramesOK, SymbolsOK, AllocasOK, FrameOK

-----------------------------------------------------------------------------
(* An accepted function *)

\* The generator's part of the invariant.
GenInv == IInv /\ TargetInv /\ OperandInv

LEMMA GenStepInv == GenInv /\ [Next]_vars => GenInv'
<1> SUFFICES ASSUME GenInv, [Next]_vars PROVE GenInv'
    OBVIOUS
<1>1. IInv /\ TypeOK /\ BreakTargetIsInnermost
    BY DEF GenInv, IInv, TargetInv, BreakTargetIsInnermost
<1> QED
    BY <1>1, StepInv, StepTarget, OperandStep DEF GenInv

LEMMA InitGen == Init => GenInv
BY InitInv, InitTarget, InitOperand DEF GenInv

\* What llc takes is finished, and it is a function that control can be followed in.
Taking == GenInv /\ status = "done" /\ Accepted

LEMMA TakenBlocks ==
    ASSUME Taking
    PROVE  /\ blocks \in Seq(Seq(Instr)) /\ blocks # <<>> /\ Blocks = 1 .. Len(blocks) /\ 1 \in Blocks
           /\ \A b \in Blocks : /\ blocks[b] \in Seq(Instr) /\ Len(blocks[b]) \in Nat \ {0}
                                /\ DOMAIN blocks[b] = 1 .. Len(blocks[b])
                                /\ IsTerminator(blocks[b][Len(blocks[b])])
           /\ \A p : p \in Places <=> /\ p = <<p[1], p[2]>> /\ p[1] \in Blocks
                                      /\ p[2] \in DOMAIN blocks[p[1]]
<1>1. blocks \in Seq(Seq(Instr)) /\ cur \in DOMAIN blocks
    BY TypeParts DEF Taking, GenInv, IInv, DataOK
<1>2. Blocks = 1 .. Len(blocks) /\ Len(blocks) \in Nat /\ 1 \in Blocks /\ blocks # <<>>
    BY <1>1, LenProperties DEF Blocks
<1>3. ASSUME NEW b \in Blocks
      PROVE  /\ blocks[b] \in Seq(Instr) /\ Len(blocks[b]) \in Nat \ {0}
             /\ DOMAIN blocks[b] = 1 .. Len(blocks[b])
             /\ IsTerminator(blocks[b][Len(blocks[b])])
    <2>1. blocks[b] \in Seq(Instr)
        BY <1>1, <1>3, LenProperties DEF Blocks
    <2>2. IsClosed(blocks[b])
        BY <1>3 DEF Taking, Accepted, AllClosed
    <2> QED
        BY <2>1, <2>2, EmptySeq, LenProperties DEF IsClosed
<1>4. ASSUME NEW p
      PROVE  p \in Places <=> /\ p = <<p[1], p[2]>> /\ p[1] \in Blocks
                              /\ p[2] \in DOMAIN blocks[p[1]]
    <2>1. ASSUME p \in Places PROVE p = <<p[1], p[2]>> /\ p[1] \in Blocks /\ p[2] \in DOMAIN blocks[p[1]]
        <3>1. PICK b \in Blocks : p \in {<<b, i>> : i \in DOMAIN blocks[b]}
            BY Zenon, <2>1 DEF Places
        <3> QED
            BY <3>1
    <2>2. ASSUME p = <<p[1], p[2]>>, p[1] \in Blocks, p[2] \in DOMAIN blocks[p[1]] PROVE p \in Places
        <3>1. p \in {<<p[1], i>> : i \in DOMAIN blocks[p[1]]}
            BY <2>2
        <3> QED
            BY Zenon, <2>2, <3>1 DEF Places
    <2> QED
        BY <2>1, <2>2
<1> QED
    BY <1>1, <1>2, <1>3, <1>4

\* The first terminator decides where control goes on.
LEMMA LastLive ==
    ASSUME Taking, NEW p \in Places, ~IsDead(p)
    PROVE  /\ IsTerminator(InstrAt(p)) =>
                Succ(p[1]) = CASE InstrAt(p).ins = "br"     -> {InstrAt(p).to} \ {NULL}
                               [] InstrAt(p).ins = "condbr" -> {InstrAt(p).then, InstrAt(p).else}
                               [] InstrAt(p).ins = "ret"    -> {}
           /\ ~IsTerminator(InstrAt(p)) => <<p[1], p[2] + 1>> \in Places /\ ~IsDead(<<p[1], p[2] + 1>>)
<1>1. /\ p = <<p[1], p[2]>> /\ p[1] \in Blocks /\ p[2] \in 1 .. Len(blocks[p[1]])
      /\ Len(blocks[p[1]]) \in Nat \ {0} /\ IsTerminator(blocks[p[1]][Len(blocks[p[1]])])
      /\ DOMAIN blocks[p[1]] = 1 .. Len(blocks[p[1]])
    BY TakenBlocks
<1>2. Terminators(p[1]) \subseteq Nat /\ \A i \in Terminators(p[1]) : p[2] <= i
    BY <1>1 DEF IsDead, Terminators
<1>3. CASE IsTerminator(InstrAt(p))
    <2>1. p[2] \in Terminators(p[1])
        BY <1>1, <1>3 DEF Terminators, InstrAt
    <2>2. (CHOOSE i \in Terminators(p[1]) : \A j \in Terminators(p[1]) : i <= j) = p[2]
        BY <1>1, <1>2, <2>1
    <2>3. Terminators(p[1]) # {}
        BY <2>1
    <2> QED
        BY <1>3, <2>2, <2>3 DEF Succ, InstrAt
<1>4. CASE ~IsTerminator(InstrAt(p))
    <2>1. p[2] # Len(blocks[p[1]])
        BY <1>1, <1>4 DEF InstrAt
    <2>2. p[2] + 1 \in DOMAIN blocks[p[1]]
        BY <1>1, <2>1
    <2>3. PICK q : q = <<p[1], p[2] + 1>>
        OBVIOUS
    <2>4. q \in Places
        BY <1>1, <2>2, <2>3, TakenBlocks
    <2>5. ~IsDead(q)
        BY <1>1, <1>2, <1>4, <2>3 DEF IsDead, Terminators, InstrAt
    <2> QED
        BY <1>4, <2>3, <2>4, <2>5
<1> QED
    BY <1>3, <1>4

LEMMA TakenTargets == Taking => Targets
<1> SUFFICES ASSUME Taking, NEW b \in Blocks PROVE Succ(b) \subseteq Blocks
    BY TakenBlocks DEF Targets
<1>1. CASE Terminators(b) = {}
    BY <1>1 DEF Succ
<1>2. CASE Terminators(b) # {}
    <2>1. DOMAIN blocks[b] \subseteq Nat
        BY TakenBlocks
    <2>2. PICK i \in Terminators(b) : \A j \in Terminators(b) : i <= j
        <3>1. Terminators(b) \subseteq Nat
            BY <2>1 DEF Terminators
        <3> QED
            BY <1>2, <3>1, LeastNat
    <2>3. PICK p : p = <<b, i>>
        OBVIOUS
    <2>4. p \in Places /\ ~IsDead(p) /\ IsTerminator(InstrAt(p)) /\ p[1] = b /\ p[2] = i
        BY <2>1, <2>2, <2>3, TakenBlocks DEF Terminators, IsDead, InstrAt
    <2>5. OperandsOK(InstrAt(p))
        BY <2>4, TakenBlocks DEF Taking, GenInv, OperandInv, InstrsOK, InstrAt, Blocks
    <2> QED
        BY <2>4, <2>5, LastLive DEF OperandsOK, Blocks, IsTerminator
<1> QED
    BY <1>1, <1>2

LEMMA TakenReach ==
    ASSUME Taking, NEW d
    PROVE  /\ d \notin ReachableAvoiding(d) /\ ReachableAvoiding(d) \subseteq Blocks
           /\ d # 1 => 1 \in ReachableAvoiding(d)
           /\ \A b \in ReachableAvoiding(d) : \A t \in Succ(b) : t # d => t \in ReachableAvoiding(d)
BY TakenTargets, TakenBlocks, ReachFacts

-----------------------------------------------------------------------------
(* Control and registers *)

\* Control goes through place q before it can come to any place that q dominates.
Ahead(q) == pc[1] \in ReachableAvoiding(q[1]) \/ (pc[1] = q[1] /\ pc[2] <= q[2])

Writes(q) == InstrAt(q).ins \in {"alloca", "load", "binop"}

\* Every register that is not written yet is ahead.
UnwrittenAhead ==
    \A q \in Places : Writes(q) /\ ~IsDead(q) /\ q \notin DOMAIN regs => Ahead(q)

\* An address is that of the variable whose alloca returned it.
Holds(i, v) == IF i.ins = "alloca" THEN v = i.var /\ v \in Var ELSE v \in Val

RegsOK == DOMAIN regs \subseteq Places /\ \A r \in DOMAIN regs : Holds(InstrAt(r), regs[r])

MemoryOK ==
    /\ unset \subseteq Var
    /\ env \in [Var -> Val \cup {NULL}] /\ \A x \in Var \ unset : env[x] \in Val
    /\ result \in Val \cup {NULL}

RunInv ==
    /\ phase \in {"compile", "rejected", "run", "returned"}
    /\ phase \in {"compile", "rejected"} => DOMAIN regs = {}
    /\ phase = "compile" => pc = <<1, 1>>
    /\ phase \in {"run", "returned"} => Taking
    /\ phase = "run" => pc \in LivePlaces /\ UnwrittenAhead
    /\ RegsOK /\ MemoryOK

LEMMA LiveFacts == \A p : p \in LivePlaces <=> p \in Places /\ p[1] \in ReachableAvoiding(0) /\ ~IsDead(p)
BY Zenon DEF LivePlaces

\* What the verifier's test means for the instruction that control is at.
LEMMA ReadsAreWritten ==
    ASSUME Taking, pc \in LivePlaces, NEW v \in Reads(pc)
    PROVE  /\ v \in InstVals /\ v.kind = "inst" /\ DefPlace(v) \in Places /\ ~IsDead(DefPlace(v))
           /\ Writes(DefPlace(v))
           /\ IsReg(v) => InstrAt(DefPlace(v)).ins # "alloca"
           /\ \A x : IsSlot(v, x) => InstrAt(DefPlace(v)) = Alloca(x)
           /\ ~Ahead(DefPlace(v))
<1>1. pc \in Places /\ ~IsDead(pc) /\ pc = <<pc[1], pc[2]>> /\ pc[2] \in DOMAIN blocks[pc[1]] /\ pc[1] \in Blocks
    BY LiveFacts, TakenBlocks
<1>2. v \in Operands(InstrAt(pc)) /\ v # NULL /\ v.kind = "inst"
    BY DEF Reads
<1>3. PICK i : i = InstrAt(pc)
    OBVIOUS
<1>4. OperandsOK(i)
    BY <1>1, <1>3 DEF Taking, GenInv, OperandInv, InstrsOK, InstrAt, Blocks
<1>5. v \in Operands(i) /\ v # NULL
    BY <1>2, <1>3
<1>6. IsReg(v) \/ IsAddress(v)
    BY <1>4, <1>5 DEF OperandsOK, Operands
<1>7. v \in InstVals /\ IsAt(v.bb, v.ix)
    BY <1>2, <1>6 DEF IsReg, IsAddress, IsSlot, Values
<1>8. PICK q : q = DefPlace(v)
    OBVIOUS
<1>9. q = <<v.bb, v.ix>> /\ q[1] = v.bb /\ q[2] = v.ix
    BY <1>8 DEF DefPlace
<1>10. q \in Places
    BY <1>7, <1>9, TakenBlocks DEF IsAt, Blocks
<1>11. /\ Writes(q) /\ (IsReg(v) => InstrAt(q).ins # "alloca")
       /\ \A x : IsSlot(v, x) => InstrAt(q) = Alloca(x)
    <2>1. InstrAt(q) = blocks[v.bb][v.ix]
        BY <1>9 DEF InstrAt
    <2>2. IsReg(v) => InstrAt(q).ins \in {"load", "binop"}
        BY <1>2, <2>1 DEF IsReg
    <2>3. \A x : IsSlot(v, x) => InstrAt(q) = Alloca(x)
        BY <2>1 DEF IsSlot
    <2>4. \A x : Alloca(x).ins = "alloca"
        BY DEF Alloca
    <2>5. Writes(q)
        BY <1>6, <2>2, <2>3, <2>4 DEF IsAddress, Writes
    <2> QED
        BY <2>2, <2>3, <2>5
<1> DEFINE reads == UNION {Reads(p) \X {p} : p \in LivePlaces}
           distant == {r \in reads : r[1].bb # r[2][1]}
<1>12. <<v, pc>> \in reads
    <2>1. <<v, pc>> \in Reads(pc) \X {pc}
        OBVIOUS
    <2> QED
        BY Zenon, <2>1
<1>13. /\ \A r \in reads : ~IsDead(<<r[1].bb, r[1].ix>>)
       /\ \A r \in reads \ distant : r[1].ix < r[2][2]
       /\ \A d \in {r[1].bb : r \in distant} :
            \A r \in distant : r[1].bb = d => r[2][1] \notin ReachableAvoiding(d)
    BY Zenon DEF Taking, Accepted, DefsDominateUses
<1> HIDE DEF reads
<1>14. ~IsDead(q)
    BY <1>9, <1>12, <1>13
<1>15. CASE v.bb = pc[1]
    <2>1. <<v, pc>> \in reads \ distant
        BY <1>12, <1>15
    <2>2. v.ix < pc[2]
        BY <1>13, <2>1
    <2>3. pc[1] \notin ReachableAvoiding(q[1])
        BY <1>9, <1>15, TakenReach
    <2>4. v.ix \in Nat /\ pc[2] \in Nat
        BY <1>1, <1>7, TakenBlocks DEF InstVals
    <2>5. ~Ahead(q)
        BY <1>9, <2>2, <2>3, <2>4 DEF Ahead
    <2> QED
        BY <1>2, <1>7, <1>8, <1>10, <1>11, <1>14, <2>5
<1>16. CASE v.bb # pc[1]
    <2>1. <<v, pc>> \in distant /\ <<v, pc>>[1].bb = v.bb
        BY <1>12, <1>16
    <2>2. v.bb \in {r[1].bb : r \in distant}
        BY <2>1
    <2>3. pc[1] \notin ReachableAvoiding(v.bb)
        BY <1>13, <2>1, <2>2
    <2>4. ~Ahead(q)
        BY <1>9, <1>16, <2>3 DEF Ahead
    <2> QED
        BY <1>2, <1>7, <1>8, <1>10, <1>11, <1>14, <2>4
<1> QED
    BY <1>15, <1>16

\* Executing leaves the function as it is.
LEMMA FunctionKept ==
    ASSUME UNCHANGED vars
    PROVE  /\ blocks' = blocks /\ Places' = Places /\ LivePlaces' = LivePlaces
           /\ \A d : ReachableAvoiding(d)' = ReachableAvoiding(d)
           /\ \A p : IsDead(p)' = IsDead(p) /\ InstrAt(p)' = InstrAt(p) /\ Writes(p)' = Writes(p)
           /\ Taking => Taking'
<1>1. blocks' = blocks /\ status' = status /\ [Next]_vars
    BY DEF vars
<1>2. ASSUME NEW d PROVE ReachableAvoiding(d)' = ReachableAvoiding(d)
    BY <1>1, SMT DEF ReachableAvoiding, Succ, Terminators
<1>3. Places' = Places
    BY <1>1 DEF Places, Blocks
<1>4. ASSUME NEW p PROVE IsDead(p)' = IsDead(p) /\ InstrAt(p)' = InstrAt(p) /\ Writes(p)' = Writes(p)
    BY <1>1 DEF IsDead, Terminators, InstrAt, Writes
<1>5. LivePlaces' = LivePlaces
    BY <1>1, SMT DEF LivePlaces, Places, Blocks, IsDead, Terminators, ReachableAvoiding, Succ
<1>6. Accepted' = Accepted
    <2>1. AllClosed' = AllClosed
        BY <1>1 DEF AllClosed, Blocks, IsClosed
    <2>2. NumberingOK' = NumberingOK
        BY <1>1, <1>3, <1>4 DEF NumberingOK
    <2>3. NoNullOperand' = NoNullOperand
        BY <1>1, <1>3, <1>4 DEF NoNullOperand
    <2>4. DefsDominateUses' = DefsDominateUses
        BY <1>1, SMT DEF DefsDominateUses, LivePlaces, Places, Blocks, IsDead, Terminators, ReachableAvoiding, Succ,
                         Reads, Operands, InstrAt
    <2> QED
        BY <2>1, <2>2, <2>3, <2>4 DEF Accepted
<1>7. Taking => Taking'
    BY <1>1, <1>6, GenStepInv DEF Taking
<1> QED
    BY <1>1, <1>2, <1>3, <1>4, <1>5, <1>7

\* Control moves to a live place, and what was ahead of it and is not passed stays ahead.
Moves ==
    /\ pc' \in LivePlaces'
    /\ \A q \in Places : ~IsDead(q) /\ q # pc /\ Ahead(q) => Ahead(q)'

LEMMA AdvanceMoves ==
    ASSUME Taking, pc \in LivePlaces, UNCHANGED vars, ~IsTerminator(InstrAt(pc)), Advance
    PROVE  Moves
<1>1. pc \in Places /\ ~IsDead(pc) /\ pc[1] \in ReachableAvoiding(0) /\ pc = <<pc[1], pc[2]>> /\ pc[2] \in Nat
    BY LiveFacts, TakenBlocks
<1>2. pc' = <<pc[1], pc[2] + 1>> /\ pc' \in Places /\ ~IsDead(pc')
    <2>1. PICK q : q = <<pc[1], pc[2] + 1>>
        OBVIOUS
    <2>2. q \in Places /\ ~IsDead(q)
        BY <1>1, <2>1, LastLive
    <2> QED
        BY <2>1, <2>2 DEF Advance
<1>3. pc'[1] = pc[1] /\ pc'[2] = pc[2] + 1
    BY <1>2
<1>4. pc' \in LivePlaces'
    BY <1>1, <1>2, <1>3, FunctionKept, LiveFacts
<1>5. ASSUME NEW q \in Places, q # pc, Ahead(q) PROVE Ahead(q)'
    <2>1. CASE pc[1] \in ReachableAvoiding(q[1])
        BY <1>3, <2>1, FunctionKept DEF Ahead
    <2>2. CASE pc[1] = q[1] /\ pc[2] <= q[2]
        <3>1. q = <<q[1], q[2]>> /\ q[2] \in Nat
            BY TakenBlocks
        <3>2. pc[2] # q[2]
            BY <1>1, <1>5, <2>2, <3>1
        <3>3. pc'[1] = q[1] /\ pc'[2] <= q[2]
            BY <1>1, <1>3, <2>2, <3>1, <3>2
        <3> QED
            BY <3>3 DEF Ahead
    <2> QED
        BY <1>5, <2>1, <2>2 DEF Ahead
<1> QED
    BY <1>4, <1>5 DEF Moves

LEMMA JumpMoves ==
    ASSUME Taking, pc \in LivePlaces, UNCHANGED vars, IsTerminator(InstrAt(pc)),
           NEW b \in Succ(pc[1]), JumpTo(b)
    PROVE  Moves
<1>1. /\ pc \in Places /\ ~IsDead(pc) /\ pc[1] \in ReachableAvoiding(0) /\ pc = <<pc[1], pc[2]>>
      /\ pc[1] \in Blocks /\ pc[2] \in Nat
    <2>1. pc \in Places /\ ~IsDead(pc) /\ pc[1] \in ReachableAvoiding(0)
        BY LiveFacts
    <2>2. pc = <<pc[1], pc[2]>> /\ pc[1] \in Blocks /\ pc[2] \in DOMAIN blocks[pc[1]]
        BY <2>1, TakenBlocks
    <2> QED
        BY <2>1, <2>2, TakenBlocks
<1>2. pc' = <<b, 1>> /\ pc'[1] = b /\ pc'[2] = 1
    BY DEF JumpTo
<1>3. b \in Blocks /\ 0 \notin Blocks
    BY <1>1, TakenTargets, TakenBlocks DEF Targets
<1>4. b \in ReachableAvoiding(0)
    BY <1>1, <1>3, TakenReach
<1>5. pc' \in LivePlaces'
    <2>1. PICK q : q = pc'
        OBVIOUS
    <2>2. q \in Places
        <3>1. 1 \in DOMAIN blocks[b]
            BY <1>3, TakenBlocks
        <3> QED
            BY <1>2, <1>3, <2>1, <3>1, TakenBlocks
    <2>3. ~IsDead(q)
        <3>1. DOMAIN blocks[b] = 1 .. Len(blocks[b])
            BY <1>3, TakenBlocks
        <3> QED
            BY <1>2, <2>1, <3>1 DEF IsDead, Terminators
    <2>4. q \in LivePlaces
        BY <1>2, <1>4, <2>1, <2>2, <2>3, LiveFacts
    <2> QED
        BY <2>1, <2>4, FunctionKept
<1>6. ASSUME NEW q \in Places, ~IsDead(q), q # pc, Ahead(q) PROVE Ahead(q)'
    <2>1. q = <<q[1], q[2]>> /\ q[2] \in Nat \ {0}
        BY TakenBlocks
    <2>2. pc[1] \in ReachableAvoiding(q[1])
        <3>1. CASE pc[1] = q[1] /\ pc[2] <= q[2]
            <4>1. pc[2] \in Terminators(q[1])
                BY <1>1, <3>1, TakenBlocks DEF Terminators, InstrAt
            <4>2. ~(pc[2] < q[2])
                BY <1>6, <4>1 DEF IsDead
            <4> QED
                BY <1>1, <1>6, <2>1, <3>1, <4>2
        <3> QED
            BY <1>6, <3>1 DEF Ahead
    <2>3. CASE b = q[1]
        BY <1>2, <2>1, <2>3 DEF Ahead
    <2>4. CASE b # q[1]
        <3>1. b \in ReachableAvoiding(q[1])
            BY <2>2, <2>4, TakenReach
        <3> QED
            BY <1>2, <3>1, FunctionKept DEF Ahead
    <2> QED
        BY <2>3, <2>4
<1> QED
    BY <1>5, <1>6 DEF Moves

LEMMA WriteFacts ==
    ASSUME NEW v, Write(v)
    PROVE  /\ DOMAIN regs' = DOMAIN regs \cup {pc} /\ regs'[pc] = v
           /\ \A r \in DOMAIN regs \ {pc} : regs'[r] = regs[r]
BY DEF Write

\* The registers that the instruction reads are written.
LEMMA ReadsWritten ==
    ASSUME RunInv, phase = "run", NEW v \in Reads(pc), NEW q, q = DefPlace(v)
    PROVE  q \in DOMAIN regs /\ Holds(InstrAt(q), regs[q])
<1>1. Taking /\ pc \in LivePlaces
    BY DEF RunInv
<1>2. q \in Places /\ ~IsDead(q) /\ Writes(q) /\ ~Ahead(q)
    BY <1>1, ReadsAreWritten
<1>3. q \in DOMAIN regs
    BY <1>1, <1>2 DEF RunInv, UnwrittenAhead
<1> QED
    BY <1>3 DEF RunInv, RegsOK

\* An address is that of the slot it was made for.
LEMMA SlotVarIs ==
    ASSUME RunInv, phase = "run", NEW v \in Operands(InstrAt(pc)), NEW x, IsSlot(v, x)
    PROVE  SlotVar(v) = x
<1>1. v \in Reads(pc)
    BY BuilderAssumption DEF IsSlot, InstVals, Reads
<1>2. PICK q : q = DefPlace(v)
    OBVIOUS
<1>3. Holds(InstrAt(q), regs[q]) /\ InstrAt(q) = Alloca(x)
    BY <1>1, <1>2, ReadsWritten, ReadsAreWritten DEF RunInv
<1> QED
    BY <1>2, <1>3 DEF Holds, Alloca, SlotVar

\* The registers that the instruction reads hold floats.
LEMMA OperandValue ==
    ASSUME RunInv, phase = "run", NEW v \in Operands(InstrAt(pc)), IsReg(v)
    PROVE  RegVal(v) \in Val
<1>1. Taking /\ pc \in LivePlaces
    BY DEF RunInv
<1>2. v \in Values /\ (v.kind = "inst" => v # NULL)
    BY BuilderAssumption DEF IsReg, Values
<1>3. CASE v.kind = "const"
    BY <1>2, <1>3 DEF RegVal, Values, InstVals
<1>4. CASE v.kind = "inst"
    <2>1. v \in Reads(pc)
        BY <1>2, <1>4 DEF Reads
    <2>2. PICK q : q = DefPlace(v)
        OBVIOUS
    <2>3. Holds(InstrAt(q), regs[q]) /\ InstrAt(q).ins # "alloca"
        BY <1>1, <2>1, <2>2, ReadsWritten, ReadsAreWritten
    <2> QED
        BY <1>4, <2>2, <2>3 DEF RegVal, Holds
<1> QED
    BY <1>2, <1>3, <1>4 DEF Values, InstVals

\* The instruction that control is at, and its operands.
LEMMA AtInstruction ==
    ASSUME RunInv, phase = "run"
    PROVE  /\ Taking /\ pc \in LivePlaces /\ pc \in Places
           /\ Instruction = InstrAt(pc) /\ Instruction \in Instr /\ OperandsOK(Instruction)
           /\ Instruction.ins = "load" => Instruction.ptr # NULL
           /\ Instruction.ins = "br" => Instruction.to # NULL
<1>1. Taking /\ pc \in LivePlaces /\ pc \in Places
    BY LiveFacts DEF RunInv
<1>2. pc[1] \in Blocks /\ pc[2] \in DOMAIN blocks[pc[1]] /\ blocks[pc[1]] \in Seq(Instr)
    BY <1>1, TakenBlocks
<1>3. Instruction = InstrAt(pc) /\ Instruction = blocks[pc[1]][pc[2]]
    BY DEF Instruction, InstrAt
<1>4. Instruction \in Instr
    BY <1>2, <1>3, LenProperties
<1>5. OperandsOK(Instruction)
    BY <1>1, <1>2, <1>3 DEF Taking, GenInv, OperandInv, InstrsOK, Blocks
<1>6. (Instruction.ins = "load" => Instruction.ptr # NULL) /\ (Instruction.ins = "br" => Instruction.to # NULL)
    BY <1>1, <1>3 DEF Taking, Accepted, NoNullOperand
<1> QED
    BY <1>1, <1>3, <1>4, <1>5, <1>6

\* What a step of the machine leaves to prove.
LEMMA RunKept ==
    ASSUME RunInv, phase = "run", phase' = "run", UNCHANGED vars, Moves,
           DOMAIN regs \subseteq DOMAIN regs', Writes(pc) => pc \in DOMAIN regs',
           RegsOK', MemoryOK'
    PROVE  RunInv'
<1>1. Taking' /\ Places' = Places /\ pc' \in LivePlaces'
    BY FunctionKept DEF RunInv, Moves
<1>2. ASSUME NEW q \in Places, Writes(q)', ~IsDead(q)', q \notin DOMAIN regs'
      PROVE  Ahead(q)'
    <2>1. Writes(q) /\ ~IsDead(q)
        BY <1>2, FunctionKept
    <2>2. q # pc /\ q \notin DOMAIN regs
        BY <1>2, <2>1
    <2>3. Ahead(q)
        BY <2>1, <2>2 DEF RunInv, UnwrittenAhead
    <2> QED
        BY <2>1, <2>2, <2>3 DEF Moves
<1> QED
    BY <1>1, <1>2 DEF RunInv, UnwrittenAhead

LEMMA ExecKeeps ==
    ASSUME RunInv, Exec
    PROVE  RunInv' /\ UNCHANGED vars /\ (phase' = "run" => Moves)
<1>1. phase = "run" /\ UNCHANGED vars
    BY DEF Exec, ExecAlloca, ExecLoad, ExecStore, ExecBinop, ExecBr, ExecCondBr, ExecRet, Executing
<1>2. PICK i : i = Instruction
    OBVIOUS
<1>3. /\ Taking /\ pc \in LivePlaces /\ pc \in Places /\ i = InstrAt(pc) /\ i \in Instr /\ OperandsOK(i)
      /\ i.ins = "load" => i.ptr # NULL
      /\ i.ins = "br" => i.to # NULL
    BY <1>1, <1>2, AtInstruction
<1>4. ASSUME ~IsTerminator(i), Advance PROVE Moves
    BY <1>1, <1>3, <1>4, AdvanceMoves
<1>5. ASSUME NEW v, Holds(i, v), Write(v)
      PROVE  DOMAIN regs \subseteq DOMAIN regs' /\ pc \in DOMAIN regs' /\ RegsOK'
    <2>1. /\ DOMAIN regs' = DOMAIN regs \cup {pc} /\ regs'[pc] = v
          /\ \A r \in DOMAIN regs \ {pc} : regs'[r] = regs[r]
        BY <1>5, WriteFacts
    <2>2. Places' = Places /\ \A r : InstrAt(r)' = InstrAt(r)
        BY <1>1, FunctionKept
    <2>3. ASSUME NEW r \in DOMAIN regs' PROVE Holds(InstrAt(r), regs'[r])
        BY <1>3, <1>5, <2>1 DEF RunInv, RegsOK
    <2> QED
        BY <1>3, <2>1, <2>2, <2>3 DEF RunInv, RegsOK, Holds
<1>6. ASSUME regs' = regs PROVE RegsOK'
    BY <1>1, <1>6, FunctionKept DEF RunInv, RegsOK, Holds
<1>7. ASSUME UNCHANGED <<unset, env, result>> PROVE MemoryOK'
    BY <1>7 DEF RunInv, MemoryOK
<1>8. CASE ExecAlloca
    <2>1. i.ins = "alloca" /\ i.var \in Var
        BY <1>2, <1>3, <1>8 DEF ExecAlloca, Executing, Instr
    <2>2. /\ Write(i.var) /\ unset' = unset \cup {i.var} /\ Advance
          /\ UNCHANGED <<phase, env, result>>
        BY <1>2, <1>8 DEF ExecAlloca
    <2>3. MemoryOK'
        BY <2>1, <2>2 DEF RunInv, MemoryOK
    <2>4. Moves
        BY <1>4, <2>1, <2>2 DEF IsTerminator
    <2>5. Holds(i, i.var)
        BY <2>1 DEF Holds
    <2> QED
        BY <1>1, <1>5, <2>2, <2>3, <2>4, <2>5, RunKept
<1>9. CASE ExecLoad
    <2>1. i.ins = "load" /\ Advance /\ UNCHANGED <<phase, unset, env, result>>
        BY <1>2, <1>9 DEF ExecLoad, Executing
    <2>2. PICK x \in Var : IsSlot(i.ptr, x)
        BY <1>3, <2>1 DEF OperandsOK, IsAddress
    <2>3. SlotVar(i.ptr) = x
        BY <1>1, <1>3, <2>1, <2>2, SlotVarIs DEF Operands
    <2>4. \E v \in Val : Write(v)
        <3>1. IF x \in unset THEN \E v \in Val : Write(v) ELSE Write(env[x])
            BY <1>2, <1>9, <2>3 DEF ExecLoad
        <3>2. x \notin unset => env[x] \in Val
            BY <2>2 DEF RunInv, MemoryOK
        <3> QED
            BY <3>1, <3>2
    <2>5. Moves
        BY <1>4, <2>1 DEF IsTerminator
    <2>6. \A v \in Val : Holds(i, v)
        BY <2>1 DEF Holds
    <2> QED
        BY <1>1, <1>5, <1>7, <2>1, <2>4, <2>5, <2>6, RunKept
<1>10. CASE ExecStore
    <2>1. i.ins = "store" /\ Advance /\ UNCHANGED <<phase, regs, result>>
        BY <1>2, <1>10 DEF ExecStore, Executing
    <2>2. PICK x \in Var : IsSlot(i.ptr, x)
        BY <1>3, <2>1 DEF OperandsOK, IsAddress
    <2>3. SlotVar(i.ptr) = x
        BY <1>1, <1>3, <2>1, <2>2, SlotVarIs DEF Operands
    <2>4. PICK v : v = RegVal(i.val)
        OBVIOUS
    <2>5. v \in Val
        BY <1>1, <1>3, <2>1, <2>4, OperandValue DEF OperandsOK, Operands
    <2>6. env' = [env EXCEPT ![x] = v] /\ unset' = unset \ {x}
        BY <1>2, <1>10, <2>3, <2>4 DEF ExecStore
    <2>7. MemoryOK'
        BY <2>1, <2>2, <2>5, <2>6 DEF RunInv, MemoryOK
    <2>8. Moves
        BY <1>4, <2>1 DEF IsTerminator
    <2> QED
        BY <1>1, <1>3, <1>6, <2>1, <2>7, <2>8, RunKept DEF Writes
<1>11. CASE ExecBinop
    <2>1. i.ins = "binop" /\ Advance /\ UNCHANGED <<phase, unset, env, result>>
        BY <1>2, <1>11 DEF ExecBinop, Executing
    <2>2. PICK v : v = Apply(i.op, RegVal(i.lhs), RegVal(i.rhs))
        OBVIOUS
    <2>3. v \in Val
        <3>1. RegVal(i.lhs) \in Val /\ RegVal(i.rhs) \in Val
            BY <1>1, <1>3, <2>1, OperandValue DEF OperandsOK, Operands
        <3>2. i.op \in Op
            BY <1>3, <2>1 DEF Instr
        <3> QED
            BY <2>2, <3>1, <3>2, ValueAssumption
    <2>4. Write(v)
        BY <1>2, <1>11, <2>2 DEF ExecBinop
    <2>5. Moves
        BY <1>4, <2>1 DEF IsTerminator
    <2>6. Holds(i, v)
        BY <2>1, <2>3 DEF Holds
    <2> QED
        BY <1>1, <1>5, <1>7, <2>1, <2>4, <2>5, <2>6, RunKept
<1>12. CASE ExecBr \/ ExecCondBr
    <2>1. i.ins \in {"br", "condbr"} /\ UNCHANGED <<phase, regs, unset, env, result>>
        BY <1>2, <1>12 DEF ExecBr, ExecCondBr, Executing
    <2>2. \E b \in Succ(pc[1]) : JumpTo(b)
        <3>1. ~IsDead(pc) /\ IsTerminator(i)
            BY <1>3, <2>1, LiveFacts DEF IsTerminator
        <3>2. Succ(pc[1]) = CASE i.ins = "br"     -> {i.to} \ {NULL}
                              [] i.ins = "condbr" -> {i.then, i.else}
                              [] i.ins = "ret"    -> {}
            BY <1>3, <3>1, LastLive
        <3>3. CASE ExecBr
            BY <1>2, <1>3, <3>2, <3>3 DEF ExecBr, Executing
        <3>4. CASE ExecCondBr
            <4>1. i.ins = "condbr" /\ (JumpTo(i.then) \/ JumpTo(i.else))
                BY <1>2, <3>4 DEF ExecCondBr, Executing
            <4> QED
                BY <3>2, <4>1
        <3> QED
            BY <1>12, <3>3, <3>4
    <2>3. Moves
        BY <1>1, <1>3, <2>1, <2>2, JumpMoves DEF IsTerminator
    <2> QED
        BY <1>1, <1>3, <1>6, <1>7, <2>1, <2>3, RunKept DEF Writes
<1>13. CASE ExecRet
    <2>1. i.ins = "ret" /\ phase' = "returned" /\ UNCHANGED <<pc, regs, unset, env>> /\ result' = RegVal(i.val)
        BY <1>2, <1>13 DEF ExecRet, Executing
    <2>2. PICK v : v = RegVal(i.val)
        OBVIOUS
    <2>3. v \in Val
        BY <1>1, <1>3, <2>1, <2>2, OperandValue DEF OperandsOK, Operands
    <2>4. MemoryOK'
        BY <2>1, <2>2, <2>3 DEF RunInv, MemoryOK
    <2>5. Taking'
        BY <1>1, <1>3, FunctionKept
    <2> QED
        BY <1>1, <1>6, <2>1, <2>4, <2>5 DEF RunInv
<1> QED
    BY <1>1, <1>8, <1>9, <1>10, <1>11, <1>12, <1>13 DEF Exec

LEMMA EntryAhead ==
    ASSUME Taking, pc = <<1, 1>>, NEW q \in Places
    PROVE  Ahead(q)
<1>1. q[2] \in Nat \ {0}
    BY TakenBlocks
<1>2. q[1] # 1 => 1 \in ReachableAvoiding(q[1])
    BY TakenReach
<1> QED
    BY <1>1, <1>2 DEF Ahead

\* llc takes the function: everything is ahead of the entry.
LEMMA AssembleKeeps ==
    ASSUME GenInv, RunInv, Assemble
    PROVE  RunInv'
<1>1. /\ phase = "compile" /\ UNCHANGED <<vars, machine>>
      /\ phase' = IF status = "done" /\ Accepted THEN "run" ELSE "rejected"
    BY DEF Assemble
<1>2. /\ pc' = pc /\ regs' = regs /\ unset' = unset /\ env' = env /\ result' = result
      /\ pc = <<1, 1>> /\ DOMAIN regs = {}
    BY <1>1 DEF machine, RunInv
<1>3. RegsOK' /\ MemoryOK'
    BY <1>2 DEF RunInv, RegsOK, MemoryOK
<1>4. CASE status = "done" /\ Accepted
    <2>1. Taking
        BY <1>4 DEF Taking
    <2>2. pc \in LivePlaces
        <3>1. pc \in Places
            <4>1. 1 \in Blocks /\ 1 \in DOMAIN blocks[1]
                BY <2>1, TakenBlocks
            <4> QED
                BY <1>2, <2>1, <4>1, TakenBlocks
        <3>2. ~IsDead(pc)
            <4>1. DOMAIN blocks[1] = 1 .. Len(blocks[1])
                BY <2>1, TakenBlocks
            <4> QED
                BY <1>2, <4>1 DEF IsDead, Terminators
        <3>3. 1 \in ReachableAvoiding(0)
            BY <2>1, TakenReach
        <3> QED
            BY <1>2, <3>1, <3>2, <3>3, LiveFacts
    <2>3. ASSUME NEW q \in Places PROVE Ahead(q)
        BY <1>2, <2>1, EntryAhead
    <2>4. Taking' /\ pc' \in LivePlaces'
        BY <1>1, <1>2, <2>1, <2>2, FunctionKept
    <2>5. ASSUME NEW q \in Places' PROVE Ahead(q)'
        <3>1. q \in Places
            BY <1>1, <2>5, FunctionKept
        <3>2. Ahead(q)
            BY <2>3, <3>1
        <3> QED
            BY <1>1, <1>2, <3>2, FunctionKept DEF Ahead
    <2>6. UnwrittenAhead'
        BY <2>5 DEF UnwrittenAhead
    <2> QED
        BY <1>1, <1>3, <1>4, <2>4, <2>6 DEF RunInv
<1>5. CASE ~(status = "done" /\ Accepted)
    BY <1>1, <1>2, <1>3, <1>5 DEF RunInv
<1> QED
    BY <1>4, <1>5

MachineInv == GenInv /\ RunInv

LEMMA InitMachine == MachineInit => MachineInv
<1> SUFFICES ASSUME MachineInit PROVE GenInv /\ RunInv
    BY DEF MachineInv
<1>1. GenInv
    BY InitGen DEF MachineInit
<1>2. RunInv
    BY DEF MachineInit, RunInv, RegsOK, MemoryOK
<1> QED
    BY <1>1, <1>2

LEMMA MachineNextIsNext == [MachineNext]_machineVars => [Next]_vars
BY DEF MachineNext, Compile, Assemble, Exec, ExecAlloca, ExecLoad, ExecStore, ExecBinop, ExecBr, ExecCondBr,
       ExecRet, Stopped, machineVars, Next

LEMMA MachineStep == MachineInv /\ [MachineNext]_machineVars => MachineInv'
<1> SUFFICES ASSUME GenInv, RunInv, [MachineNext]_machineVars PROVE GenInv' /\ RunInv'
    BY DEF MachineInv
<1>1. GenInv'
    BY MachineNextIsNext, GenStepInv
<1>2. CASE Compile
    <2>1. /\ phase = "compile" => phase' = "compile"
          /\ UNCHANGED <<phase, pc, regs, unset, env, result>>
        BY <1>2 DEF Compile, machine
    <2>2. status = "gen"
        BY <1>2 DEF Compile, GenStep, GenExprStep, GenStmtStep, GenId, GenConst, GenLhs, GenRhs, BuildOp,
                    GenAssign, BuildStore, GenIf, BuildIf, GenElse, EndIf, GenWhile, BuildWhile, EndWhile,
                    GenBreak, GenBlock, NextStmt, EndBlock, Finish, Crash, AtStmt, AtExpr, At
    <2>3. phase \notin {"run", "returned"}
        BY <2>2 DEF RunInv, Taking
    <2>4. RegsOK' /\ MemoryOK'
        BY <2>1, <2>3 DEF RunInv, RegsOK, MemoryOK
    <2> QED
        BY <1>1, <2>1, <2>3, <2>4 DEF RunInv
<1>3. CASE Assemble
    BY <1>1, <1>3, AssembleKeeps
<1>4. CASE Exec
    BY <1>1, <1>4, ExecKeeps
<1>5. CASE UNCHANGED machineVars
    <2>1. UNCHANGED vars /\ UNCHANGED <<phase, pc, regs, unset, env, result>>
        BY <1>5 DEF machineVars, machine
    <2>2. RegsOK' /\ MemoryOK'
        BY <2>1, FunctionKept DEF RunInv, RegsOK, Holds, MemoryOK
    <2>3. phase \in {"run", "returned"} => Taking'
        BY <2>1, FunctionKept DEF RunInv
    <2>4. ASSUME phase = "run" PROVE pc' \in LivePlaces' /\ UnwrittenAhead'
        <3>1. pc' \in LivePlaces'
            BY <2>1, <2>4, FunctionKept DEF RunInv
        <3>2. ASSUME NEW q \in Places', Writes(q)', ~IsDead(q)', q \notin DOMAIN regs' PROVE Ahead(q)'
            <4>1. q \in Places /\ Writes(q) /\ ~IsDead(q) /\ q \notin DOMAIN regs
                BY <2>1, <3>2, FunctionKept
            <4>2. Ahead(q)
                BY <2>4, <4>1 DEF RunInv, UnwrittenAhead
            <4> QED
                BY <2>1, <4>2, FunctionKept DEF Ahead
        <3> QED
            BY <3>1, <3>2 DEF UnwrittenAhead
    <2> QED
        BY <1>1, <2>1, <2>2, <2>3, <2>4 DEF RunInv
<1> QED
    BY <1>2, <1>3, <1>4, <1>5 DEF MachineNext, Stopped

LEMMA MachineInvariance == MachineSpec => []MachineInv
BY InitMachine, MachineStep, PTL DEF MachineSpec

\* Whatever branches an accepted function takes, control never runs past the end
\* of a block or jumps to a place that is none, and slots, the value that target()
\* returns and the registers that are not addresses hold floats: gen_stmt branches
\* to blocks it has created only, and stores to and loads from allocas only.
THEOREM MachineTypeCorrect == MachineSpec => []MachineTypeOK
<1>1. MachineInv => MachineTypeOK
    BY LiveFacts DEF MachineInv, RunInv, RegsOK, Holds, MemoryOK, MachineTypeOK
<1> QED
    BY MachineInvariance, <1>1, PTL

\* The verifier's test, which looks at paths of blocks, is enough: no run of an
\* accepted function reads a register that was not written on the way.
THEOREM ReadsAreOfWritten == MachineSpec => []WrittenBeforeRead
<1>1. MachineInv => WrittenBeforeRead
    BY ReadsWritten DEF MachineInv, WrittenBeforeRead
<1> QED
    BY MachineInvariance, <1>1, PTL

-----------------------------------------------------------------------------
(* Slots are stored to *)

(***************************************************************************)
(* gen_stmt makes a slot in the block of the first assignment and stores   *)
(* to it in the same block, after the code of the right-hand side, which   *)
(* does not read the slot: the parser has refused a name that is not yet   *)
(* assigned.  So control that comes to the alloca comes to the store       *)
(* before it can come to any load of the variable.                         *)
(***************************************************************************)

\* An instruction that neither leaves the block nor touches slot v.
Quiet(ins, v) == ins.ins = "binop" \/ (ins.ins = "load" /\ ins.ptr # v)

IsFirstStore(r, v, m) ==
    /\ m \in DOMAIN r /\ v.ix < m /\ r[m].ins = "store" /\ r[m].ptr = v
    /\ \A j \in DOMAIN r : v.ix < j /\ j < m => Quiet(r[j], v)
Initialised(v) == \E m \in DOMAIN blocks[v.bb] : IsFirstStore(blocks[v.bb], v, m)

\* The right-hand side is being generated: the frames over that of the store are
\* expressions that do not read x.
ReadsNot(f, x) == IsExprFrame(f) /\ x \notin FrameNeeds(f)
Awaits(s, v, x) ==
    \E i \in DOMAIN s : /\ s[i].kind = "store" /\ s[i].ptr = v
                        /\ \A n \in DOMAIN s : n < i => ReadsNot(s[n], x)
QuietFrom(r, v) == \A j \in DOMAIN r : v.ix < j => Quiet(r[j], v)
Pending(v, x) == v.bb = cur /\ QuietFrom(blocks[v.bb], v) /\ Awaits(stack, v, x)

SlotsStored == \A x \in Var : symbols[x] # NULL => Initialised(symbols[x]) \/ Pending(symbols[x], x)

StoreInv == ParserAccepts(ast) => ScopeInv /\ SlotsStored

LEMMA StaysInitialised ==
    ASSUME DataOK, DataOK', Keeps, NEW v \in InstVals, IsAt(v.bb, v.ix), Initialised(v)
    PROVE  Initialised(v)'
<1> DEFINE r == blocks[v.bb]
           q == blocks'[v.bb]
<1>1. PICK m \in DOMAIN r : IsFirstStore(r, v, m)
    BY DEF Initialised
<1>2. v.bb \in DOMAIN blocks /\ v.bb \in DOMAIN blocks' /\ \A j \in DOMAIN r : j \in DOMAIN q /\ q[j] = r[j]
    BY DEF Keeps, IsAt
<1>3. /\ Len(r) \in Nat /\ DOMAIN r = 1 .. Len(r) /\ Len(q) \in Nat /\ DOMAIN q = 1 .. Len(q)
      /\ v.ix \in Nat \ {0}
    BY <1>2, LenProperties DEF DataOK, InstVals
<1> HIDE DEF r, q
<1>4. IsFirstStore(q, v, m)
    <2>1. ASSUME NEW j \in DOMAIN q, v.ix < j, j < m PROVE Quiet(q[j], v)
        <3>1. j \in DOMAIN r
            BY <1>1, <1>3, <2>1
        <3> QED
            BY <1>1, <1>2, <2>1, <3>1 DEF IsFirstStore
    <2> QED
        BY <1>1, <1>2, <2>1 DEF IsFirstStore
<1>5. m \in DOMAIN q
    BY <1>1, <1>2
<1> QED
    BY <1>4, <1>5 DEF Initialised, IsFirstStore, Quiet, q

\* What is emitted leaves the slot alone.
LEMMA StaysQuiet ==
    ASSUME DataOK, NEW v \in InstVals, IsAt(v.bb, v.ix), v.bb = cur, QuietFrom(blocks[cur], v),
           blocks' = blocks \/ \E ins \in Instr : Grows(ins) /\ Quiet(ins, v)
    PROVE  QuietFrom(blocks'[cur], v)
<1>1. CASE blocks' = blocks
    BY <1>1
<1>2. CASE blocks' # blocks
    <2>1. PICK ins \in Instr : Grows(ins) /\ Quiet(ins, v)
        BY <1>2
    <2>2. ASSUME NEW j \in DOMAIN blocks'[cur], v.ix < j PROVE Quiet(blocks'[cur][j], v)
        <3>1. cur \in DOMAIN blocks'
            BY <2>1 DEF Grows, DataOK
        <3>2. Kept(cur, j) \/ blocks'[cur][j] = ins
            BY <2>1, <3>1, GrowsFacts
        <3> QED
            BY <2>1, <2>2, <3>2 DEF Kept, QuietFrom
    <2> QED
        BY <2>2 DEF QuietFrom
<1> QED
    BY <1>1, <1>2

\* gen_expr calls and returns over the frame of the store.
LEMMA StaysAwaited ==
    ASSUME StackOK, stack # <<>>, IsExprFrame(Top), NEW v, NEW x, Awaits(stack, v, x),
           \/ stack' = Tail(stack)
           \/ \E f, k : Call(f, k) /\ ReadsNot(f, x) /\ ReadsNot(k, x)
    PROVE  Awaits(stack', v, x)
<1>1. PICK i \in DOMAIN stack : /\ stack[i].kind = "store" /\ stack[i].ptr = v
                                /\ \A n \in DOMAIN stack : n < i => ReadsNot(stack[n], x)
    BY DEF Awaits
<1>2. Top = stack[1] /\ Len(stack) \in Nat \ {0} /\ DOMAIN stack = 1 .. Len(stack)
    BY PopFacts, LenProperties DEF StackOK, Top
<1>3. i \in 2 .. Len(stack)
    BY <1>1, <1>2 DEF IsExprFrame
<1>4. CASE stack' = Tail(stack)
    <2>1. /\ DOMAIN stack' = 1 .. Len(stack) - 1
          /\ \A j \in 2 .. Len(stack) : stack'[j - 1] = stack[j]
        BY <1>4, ReturnMoves
    <2>2. i - 1 \in DOMAIN stack' /\ stack'[i - 1] = stack[i]
        BY <1>2, <1>3, <2>1
    <2>3. ASSUME NEW n \in DOMAIN stack', n < i - 1 PROVE ReadsNot(stack'[n], x)
        <3>1. n + 1 \in 2 .. Len(stack) /\ (n + 1) - 1 = n /\ n + 1 < i
            BY <1>2, <1>3, <2>1, <2>3
        <3>2. stack'[(n + 1) - 1] = stack[n + 1] /\ n + 1 \in DOMAIN stack
            BY <1>2, <2>1, <3>1
        <3> QED
            BY <1>1, <3>1, <3>2
    <2> QED
        BY <1>1, <2>2, <2>3 DEF Awaits
<1>5. CASE \E f, k : Call(f, k) /\ ReadsNot(f, x) /\ ReadsNot(k, x)
    <2>1. PICK f, k : Call(f, k) /\ ReadsNot(f, x) /\ ReadsNot(k, x)
        BY <1>5
    <2>2. /\ DOMAIN stack' = 1 .. Len(stack) + 1
          /\ stack'[1] = f /\ stack'[2] = k
          /\ \A j \in 2 .. Len(stack) : stack'[j + 1] = stack[j]
        BY <2>1, CallMoves
    <2>3. i + 1 \in DOMAIN stack' /\ stack'[i + 1] = stack[i]
        <3>1. i + 1 \in 1 .. Len(stack) + 1
            BY <1>2, <1>3
        <3> QED
            BY <1>3, <2>2, <3>1
    <2>4. ASSUME NEW n \in DOMAIN stack', n < i + 1 PROVE ReadsNot(stack'[n], x)
        <3>1. n = 1 \/ n = 2 \/ (n - 1 \in 2 .. Len(stack) /\ (n - 1) + 1 = n /\ n - 1 < i)
            <4>1. n \in 1 .. Len(stack) + 1
                BY <2>2
            <4> QED
                BY <1>2, <1>3, <2>4, <4>1
        <3>2. CASE n - 1 \in 2 .. Len(stack) /\ (n - 1) + 1 = n /\ n - 1 < i
            <4>1. stack'[(n - 1) + 1] = stack[n - 1]
                BY <2>2, <3>2
            <4>2. n - 1 \in DOMAIN stack
                BY <1>2, <3>2
            <4> QED
                BY <1>1, <3>2, <4>1, <4>2
        <3> QED
            BY <2>1, <2>2, <3>1, <3>2
    <2> QED
        BY <1>1, <2>3, <2>4 DEF Awaits
<1> QED
    BY <1>4, <1>5

LEMMA PendingIs ==
    ASSUME NEW v, NEW x, v.bb = cur', QuietFrom(blocks'[cur'], v), Awaits(stack', v, x)
    PROVE  Pending(v, x)'
BY DEF Pending, QuietFrom, Quiet, Awaits, ReadsNot, IsExprFrame, FrameNeeds, BranchNeeds, ListNeeds, AssignedBefore

\* gen_expr does not come to the slot.
LEMMA ExprStores ==
    ASSUME StackOK, DataOK, OperandInv, GenExprStep,
           NEW x \in Var, NEW v, v = symbols[x], v # NULL, Pending(v, x)
    PROVE  Pending(v, x)'
<1>1. stack # <<>> /\ cur' = cur /\ IsExprFrame(Top)
    BY DEF GenExprStep, GenId, GenConst, GenLhs, GenRhs, BuildOp, AtExpr, At, IsExprFrame
<1>2. v \in InstVals /\ IsSlot(v, x) /\ IsAt(v.bb, v.ix)
    BY DEF OperandInv, SymbolsOK, IsSlot
<1>3. v.bb = cur /\ QuietFrom(blocks[cur], v) /\ Awaits(stack, v, x)
    BY DEF Pending
<1>4. x \notin FrameNeeds(Top)
    <2>1. PICK i \in DOMAIN stack : /\ stack[i].kind = "store"
                                    /\ \A n \in DOMAIN stack : n < i => ReadsNot(stack[n], x)
        BY <1>3 DEF Awaits
    <2>2. Top = stack[1] /\ DOMAIN stack = 1 .. Len(stack) /\ Len(stack) \in Nat \ {0}
        BY <1>1, PopFacts, LenProperties DEF StackOK, Top
    <2>3. i # 1
        BY <1>1, <2>1, <2>2 DEF IsExprFrame
    <2>4. 1 \in DOMAIN stack /\ 1 < i
        BY <2>2, <2>3
    <2> QED
        BY <2>1, <2>2, <2>4 DEF ReadsNot
<1>5. blocks' = blocks \/ \E ins \in Instr : Grows(ins) /\ Quiet(ins, v)
    <2>1. CASE GenConst \/ GenLhs \/ GenRhs
        BY <2>1 DEF GenConst, GenLhs, GenRhs
    <2>2. CASE GenId
        <3>1. PICK y : y = Top.node.id
            OBVIOUS
        <3>2. PICK u : u = symbols[y]
            OBVIOUS
        <3>3. Top.kind = "expr" /\ Top.node.type = "ID_EXPR" /\ blocks' = Emit(Load(u))
            BY <2>2, <3>1, <3>2 DEF GenId, AtExpr, At
        <3>4. Top.node \in Expr /\ y \in Var
            BY <1>1, <3>1, <3>3, TopFacts, NodeFacts
        <3>5. y # x
            <4>1. FrameNeeds(Top) = Uses[Top.node] /\ Uses[Top.node] = {y}
                BY <3>1, <3>3, <3>4, FrameFacts, ReadsFacts
            <4> QED
                BY <1>4, <4>1
        <3>6. u # v
            <4>1. ASSUME u = v PROVE FALSE
                <5>1. IsSlot(v, y)
                    BY <3>2, <3>4, <4>1 DEF OperandInv, SymbolsOK
                <5>2. Alloca(x) = Alloca(y)
                    BY <1>2, <5>1 DEF IsSlot
                <5> QED
                    BY <3>5, <5>2 DEF Alloca
            <4> QED
                BY <4>1
        <3>7. PICK ins : ins = Load(u)
            OBVIOUS
        <3>8. ins \in Instr /\ Quiet(ins, v)
            BY <3>2, <3>4, <3>6, <3>7 DEF Load, Instr, DataOK, Quiet
        <3> QED
            BY <3>3, <3>7, <3>8, EmitGrows
    <2>3. CASE BuildOp
        <3>1. CASE Top.l.kind = "const" /\ ret.kind = "const"
            BY <2>3, <3>1 DEF BuildOp
        <3>2. CASE ~(Top.l.kind = "const" /\ ret.kind = "const")
            <4>1. PICK ins : ins = [ins |-> "binop", op |-> Top.op, lhs |-> Top.l, rhs |-> ret]
                OBVIOUS
            <4>2. Top.kind = "rhs" /\ blocks' = Emit(ins)
                BY <2>3, <3>2, <4>1 DEF BuildOp, At
            <4>3. ret \in Values
                BY <1>1, <4>2 DEF StackOK, AwaitsValue
            <4>4. ins \in Instr /\ Quiet(ins, v)
                BY <1>1, <4>1, <4>2, <4>3, TopFacts DEF Instr, Quiet
            <4> QED
                BY <4>2, <4>4, EmitGrows
        <3> QED
            BY <3>1, <3>2
    <2> QED
        BY <2>1, <2>2, <2>3 DEF GenExprStep
<1>6. \/ stack' = Tail(stack)
      \/ \E f, k : Call(f, k) /\ ReadsNot(f, x) /\ ReadsNot(k, x)
    <2>1. CASE GenId \/ GenConst \/ BuildOp
        BY <2>1 DEF GenId, GenConst, BuildOp
    <2>2. CASE GenLhs
        <3>1. PICK f, k : /\ Call(f, k) /\ f.kind = "expr" /\ f.node = Top.node.lhs
                          /\ k.kind = "lhs" /\ k.node = Top.node
            BY <2>2 DEF GenLhs, ExprFrame
        <3>2. Top.kind = "expr" /\ Top.node \in Expr /\ Top.node.type = "BINOP_EXPR"
            BY <1>1, <2>2, TopFacts DEF GenLhs, AtExpr, At
        <3>3. FrameNeeds(Top) = Uses[Top.node.lhs] \cup Uses[Top.node.rhs]
            BY <3>2, FrameFacts, ReadsFacts
        <3>4. FrameNeeds(f) = Uses[Top.node.lhs] /\ FrameNeeds(k) = Uses[Top.node.rhs]
            BY <3>1, FrameFacts
        <3>5. ReadsNot(f, x) /\ ReadsNot(k, x)
            BY <1>4, <3>1, <3>3, <3>4 DEF ReadsNot, IsExprFrame
        <3> QED
            BY <3>1, <3>5
    <2>3. CASE GenRhs
        <3>1. PICK f, k : /\ Call(f, k) /\ f.kind = "expr" /\ f.node = Top.node.rhs /\ k.kind = "rhs"
            BY <2>3 DEF GenRhs, ExprFrame
        <3>2. Top.kind = "lhs"
            BY <2>3 DEF GenRhs, At
        <3>3. FrameNeeds(Top) = Uses[Top.node.rhs] /\ FrameNeeds(f) = Uses[Top.node.rhs] /\ FrameNeeds(k) = {}
            BY <3>1, <3>2, FrameFacts
        <3>4. ReadsNot(f, x) /\ ReadsNot(k, x)
            BY <1>4, <3>1, <3>3 DEF ReadsNot, IsExprFrame
        <3> QED
            BY <3>1, <3>4
    <2> QED
        BY <2>1, <2>2, <2>3 DEF GenExprStep
<1>7. QuietFrom(blocks'[cur], v)
    BY <1>2, <1>3, <1>5, StaysQuiet
<1>8. Awaits(stack', v, x)
    BY <1>1, <1>3, <1>6, StaysAwaited
<1> QED
    BY <1>1, <1>3, <1>7, <1>8, PendingIs

\* The store is built.
LEMMA StoreBuilt ==
    ASSUME StackOK, DataOK, OperandInv, BuildStore,
           NEW x \in Var, NEW v, v = symbols[x], v # NULL, Pending(v, x)
    PROVE  Initialised(v)'
<1>1. /\ stack # <<>> /\ Top.kind = "store" /\ blocks' = Emit(Store(ret, Top.ptr)) /\ cur' = cur
    BY DEF BuildStore, At
<1>2. v \in InstVals /\ IsAt(v.bb, v.ix)
    BY DEF OperandInv, SymbolsOK, IsSlot
<1>3. v.bb = cur /\ QuietFrom(blocks[cur], v) /\ Awaits(stack, v, x)
    BY DEF Pending
<1>4. Top.ptr = v
    <2>1. PICK i \in DOMAIN stack : /\ stack[i].kind = "store" /\ stack[i].ptr = v
                                    /\ \A n \in DOMAIN stack : n < i => ReadsNot(stack[n], x)
        BY <1>3 DEF Awaits
    <2>2. Top = stack[1] /\ DOMAIN stack = 1 .. Len(stack) /\ Len(stack) \in Nat \ {0}
        BY <1>1, PopFacts, LenProperties DEF StackOK, Top
    <2>3. ~ReadsNot(stack[1], x) /\ 1 \in DOMAIN stack
        BY <1>1, <2>2 DEF ReadsNot, IsExprFrame
    <2>4. i = 1
        BY <2>1, <2>2, <2>3
    <2> QED
        BY <2>1, <2>2, <2>4
<1>5. PICK w : w = ret
    OBVIOUS
<1>6. PICK ins : ins = Store(w, v)
    OBVIOUS
<1>7. ins \in Instr /\ ins.ins = "store" /\ ins.ptr = v
    <2>1. w \in Values
        BY <1>1, <1>5 DEF StackOK, AwaitsValue
    <2> QED
        BY <1>2, <1>6, <2>1 DEF Store, Instr
<1>8. Grows(ins)
    BY <1>1, <1>4, <1>5, <1>6, <1>7, EmitGrows
<1>9. PICK h : h = Here
    OBVIOUS
<1>10. /\ h.bb = cur /\ h.ix = Len(blocks[cur]) + 1
       /\ cur \in DOMAIN blocks' /\ h.ix \in DOMAIN blocks'[cur] /\ blocks'[cur][h.ix] = ins
       /\ \A i \in DOMAIN blocks'[cur] : (i \in DOMAIN blocks[cur] /\ blocks'[cur][i] = blocks[cur][i]) \/ i = h.ix
    <2>1. /\ Keeps /\ IsAt(h.bb, h.ix)' /\ blocks'[h.bb][h.ix] = ins
          /\ h.bb = cur /\ h.ix = Len(blocks[cur]) + 1
          /\ \A b \in DOMAIN blocks' : \A i \in DOMAIN blocks'[b] :
                 IsAt(b, i) \/ (b = h.bb /\ i = h.ix)
        BY <1>7, <1>8, <1>9, GrowsKeeps
    <2> QED
        BY <2>1 DEF IsAt, Keeps
<1>11. v.ix < h.ix
    <2>1. blocks[cur] \in Seq(Instr)
        BY LenProperties DEF DataOK
    <2> QED
        BY <1>2, <1>3, <1>10, <2>1, LenProperties DEF IsAt
<1>12. \A j \in DOMAIN blocks'[cur] : v.ix < j /\ j < h.ix => Quiet(blocks'[cur][j], v)
    BY <1>3, <1>10 DEF QuietFrom
<1>13. IsFirstStore(blocks'[cur], v, h.ix)
    BY <1>7, <1>10, <1>11, <1>12 DEF IsFirstStore
<1> QED
    BY <1>3, <1>10, <1>13 DEF Initialised, IsFirstStore, Quiet

\* An assignment that makes a slot goes on to what will be stored there, which does
\* not read it: what it reads has a slot.
LEMMA SlotMade ==
    ASSUME StackOK, DataOK, ScopeInv, GenAssign,
           NEW x \in Var, symbols[x] = NULL, NEW v, v = symbols'[x], v # NULL
    PROVE  Pending(v, x)'
<1>1. stack # <<>> /\ Top.kind = "stmt" /\ Top.node.type = "ASSIGN_STMT" /\ cur' = cur
    BY DEF GenAssign, AtStmt, At
<1>2. Top.node \in Stmt /\ Top.node.lhs \in Var /\ Top = stack[1] /\ 1 \in DOMAIN stack
    BY <1>1, TopFacts, NodeFacts, PopFacts, LenProperties DEF StackOK, Top
<1>3. PICK h : h = Here
    OBVIOUS
<1>4. x = Top.node.lhs
    BY <1>2 DEF GenAssign, DataOK
<1>5. v = h /\ blocks' = Emit(Alloca(x)) /\ Call(ExprFrame(Top.node.rhs), [kind |-> "store", ptr |-> h])
    BY <1>2, <1>3, <1>4 DEF GenAssign, DataOK
<1>6. PICK ins : ins = Alloca(x)
    OBVIOUS
<1>7. ins \in Instr
    BY <1>6 DEF Alloca, Instr
<1>8. Grows(ins)
    BY <1>5, <1>6, <1>7, EmitGrows
<1>9. /\ h.bb = cur /\ h.ix = Len(blocks[cur]) + 1 /\ cur \in DOMAIN blocks'
      /\ \A i \in DOMAIN blocks'[cur] : i \in DOMAIN blocks[cur] \/ i = h.ix
    <2>1. /\ IsAt(h.bb, h.ix)' /\ h.bb = cur /\ h.ix = Len(blocks[cur]) + 1
          /\ \A b \in DOMAIN blocks' : \A i \in DOMAIN blocks'[b] :
                 IsAt(b, i) \/ (b = h.bb /\ i = h.ix)
        BY <1>3, <1>7, <1>8, GrowsKeeps
    <2> QED
        BY <2>1 DEF IsAt
<1>10. QuietFrom(blocks'[cur], h)
    <2>1. blocks[cur] \in Seq(Instr)
        BY LenProperties DEF DataOK
    <2>2. Len(blocks[cur]) \in Nat /\ DOMAIN blocks[cur] = 1 .. Len(blocks[cur])
        BY <2>1, LenProperties
    <2>3. ASSUME NEW j \in DOMAIN blocks'[cur], h.ix < j PROVE FALSE
        <3>1. j \in 1 .. Len(blocks[cur]) \/ j = h.ix
            BY <1>9, <2>2, <2>3
        <3> QED
            BY <1>9, <2>2, <2>3, <3>1
    <2> QED
        BY <2>3 DEF QuietFrom
<1>11. Awaits(stack', h, x)
    <2>1. PICK f, k : /\ Call(f, k) /\ f.kind = "expr" /\ f.node = Top.node.rhs
                      /\ k.kind = "store" /\ k.ptr = h
        BY <1>5 DEF ExprFrame
    <2>2. /\ DOMAIN stack' = 1 .. Len(stack) + 1 /\ Len(stack) \in Nat \ {0}
          /\ stack'[1] = f /\ stack'[2] = k
        BY <1>1, <2>1, CallMoves
    <2>3. FrameNeeds(f) = FrameNeeds(Top)
        BY <1>1, <1>2, <2>1, FrameFacts, ReadsFacts
    <2>4. x \notin FrameNeeds(Top)
        <3>1. ASSUME x \in FrameNeeds(Top) PROVE FALSE
            <4>1. IsSeen(1, x)
                BY <1>2, <3>1 DEF ScopeInv
            <4>2. 1 .. 1 - 1 = {}
                OBVIOUS
            <4> QED
                BY <4>1, <4>2 DEF IsSeen, Have
        <3> QED
            BY <3>1
    <2>5. ReadsNot(f, x)
        BY <2>1, <2>3, <2>4 DEF ReadsNot, IsExprFrame
    <2>6. ASSUME NEW n \in DOMAIN stack', n < 2 PROVE ReadsNot(stack'[n], x)
        <3>1. n = 1
            BY <2>2, <2>6
        <3> QED
            BY <2>2, <2>5, <3>1
    <2>7. 2 \in DOMAIN stack'
        BY <2>2
    <2> QED
        BY <2>1, <2>2, <2>6, <2>7 DEF Awaits
<1> QED
    BY <1>1, <1>5, <1>9, <1>10, <1>11, PendingIs

\* Only under gen_expr is a store awaited.
LEMMA NotPending ==
    ASSUME StackOK, stack = <<>> \/ ~(Top.kind = "store" \/ IsExprFrame(Top)), NEW v, NEW x
    PROVE  ~Pending(v, x)
<1> SUFFICES ASSUME NEW i \in DOMAIN stack, stack[i].kind = "store",
                    \A n \in DOMAIN stack : n < i => ReadsNot(stack[n], x)
             PROVE  FALSE
    BY DEF Pending, Awaits
<1>1. stack # <<>>
    OBVIOUS
<1>2. Top = stack[1] /\ DOMAIN stack = 1 .. Len(stack) /\ Len(stack) \in Nat \ {0}
    BY <1>1, PopFacts, LenProperties DEF StackOK, Top
<1>3. i # 1 /\ ~ReadsNot(stack[1], x)
    BY <1>1, <1>2 DEF ReadsNot
<1>4. 1 \in DOMAIN stack /\ 1 < i
    BY <1>2, <1>3
<1> QED
    BY <1>3, <1>4

\* No step but Finish loses an instruction, nor does that.
LEMMA NextKeeps ==
    ASSUME IInv, OperandInv, GenExprStep \/ GenStmtStep \/ Finish
    PROVE  Keeps
<1>1. StackOK /\ DataOK
    BY TypeParts DEF IInv
<1>2. CASE GenExprStep \/ GenStmtStep
    <2>1. BlockStep
        BY <1>2, StraightBlocks, BranchBlocks DEF GenStmtStep
    <2>2. CASE blocks' = blocks
        BY <2>2 DEF Keeps
    <2>3. CASE \E ins \in Instr : Grows(ins)
        <3>1. PICK ins \in Instr : Grows(ins)
            BY <2>3
        <3>2. PICK h : h = Here
            OBVIOUS
        <3> QED
            BY <1>1, <3>1, <3>2, GrowsKeeps
    <2> QED
        BY <2>1, <2>2, <2>3 DEF BlockStep
<1>3. CASE Finish
    BY <1>3, FinishOperands
<1> QED
    BY <1>2, <1>3

LEMMA SlotsKept ==
    ASSUME IInv, IInv', OperandInv, ScopeInv, SlotsStored, GenExprStep \/ GenStmtStep \/ Finish
    PROVE  SlotsStored'
<1>1. StackOK /\ DataOK /\ DataOK' /\ Keeps
    BY TypeParts, NextKeeps DEF IInv, TypeOK, DataOK
<1>2. ASSUME NEW x \in Var, NEW v, v = symbols[x], v # NULL
      PROVE  /\ v \in InstVals /\ IsAt(v.bb, v.ix)
             /\ Initialised(v) \/ Pending(v, x)
             /\ Initialised(v) => Initialised(v)'
    <2>1. v \in InstVals /\ IsAt(v.bb, v.ix)
        BY <1>2 DEF OperandInv, SymbolsOK, IsSlot
    <2> QED
        BY <1>1, <1>2, <2>1, StaysInitialised DEF SlotsStored
<1> SUFFICES ASSUME NEW x \in Var, symbols'[x] # NULL
             PROVE  (Initialised(symbols[x]) \/ Pending(symbols[x], x))'
    BY DEF SlotsStored
<1>3. PICK v : v = symbols'[x]
    OBVIOUS
<1>4. PICK u : u = symbols[x]
    OBVIOUS
<1>5. Initialised(v)' \/ Pending(v, x)'
    <2>1. CASE GenAssign
        <3>1. CASE u = NULL
            BY <1>1, <1>3, <1>4, <2>1, <3>1, SlotMade
        <3>2. CASE u # NULL
            <4>1. v = u
                <5>1. stack # <<>> /\ Top.kind = "stmt" /\ Top.node.type = "ASSIGN_STMT"
                    BY <2>1 DEF GenAssign, AtStmt, At
                <5>2. Top.node.lhs \in Var
                    BY <1>1, <5>1, TopFacts, NodeFacts
                <5> QED
                    BY <1>1, <1>3, <1>4, <2>1, <3>2, <5>2 DEF GenAssign, DataOK
            <4>2. ~Pending(u, x)
                BY <1>1, <2>1, NotPending DEF GenAssign, AtStmt, At, IsExprFrame
            <4> QED
                BY <1>2, <1>4, <3>2, <4>1, <4>2
        <3> QED
            BY <3>1, <3>2
    <2>2. CASE ~GenAssign
        <3>1. symbols' = symbols
            BY <2>2 DEF GenExprStep, GenId, GenConst, GenLhs, GenRhs, BuildOp, GenStmtStep, BuildStore, GenIf,
                BuildIf, GenElse, EndIf, GenWhile, BuildWhile, EndWhile, GenBreak, GenBlock, NextStmt, EndBlock, Finish
        <3>2. v = u
            BY <1>3, <1>4, <3>1
        <3>3. CASE GenExprStep
            BY <1>1, <1>2, <1>3, <1>4, <3>2, <3>3, ExprStores
        <3>4. CASE BuildStore
            BY <1>1, <1>2, <1>3, <1>4, <3>2, <3>4, StoreBuilt
        <3>5. CASE ~GenExprStep /\ ~BuildStore
            <4>1. stack = <<>> \/ ~(Top.kind = "store" \/ IsExprFrame(Top))
                BY <2>2, <3>5 DEF GenStmtStep, GenIf, BuildIf, GenElse, EndIf, GenWhile, BuildWhile, EndWhile,
                    GenBreak, GenBlock, NextStmt, EndBlock, Finish, AtStmt, At, IsExprFrame
            <4>2. ~Pending(u, x)
                BY <1>1, <4>1, NotPending
            <4> QED
                BY <1>2, <1>3, <1>4, <3>2, <4>2
        <3> QED
            BY <3>3, <3>4, <3>5
    <2> QED
        BY <2>1, <2>2
<1> QED
    BY <1>3, <1>5

LEMMA StoreStep == GenInv /\ StoreInv /\ [Next]_vars => StoreInv'
<1> SUFFICES ASSUME GenInv, StoreInv, [Next]_vars, ParserAccepts(ast')
             PROVE  ScopeInv' /\ SlotsStored'
    BY DEF StoreInv, ParserAccepts
<1>1. ScopeInv /\ SlotsStored
    BY StepKeeps DEF StoreInv
<1>2. IInv /\ IInv' /\ OperandInv /\ StackOK /\ DataOK
    BY GenStepInv, TypeParts DEF GenInv, IInv
<1>3. CASE GenExprStep \/ GenStmtStep
    <2>1. \E n \in Nat \ {0}, d \in {-1, 0, 1} : FrameStep(n, d)
        BY <1>2, <1>3, StackSteps
    <2>2. ScopeInv'
        BY <1>1, <2>1, ScopeKept
    <2> QED
        BY <1>1, <1>2, <1>3, <2>2, SlotsKept
<1>4. ASSUME UNCHANGED <<stack, symbols>> PROVE ScopeInv'
    BY <1>1, <1>4 DEF ScopeInv, IsSeen, Have, FrameNeeds, FrameAdds, FrameStmts, BranchNeeds, ListNeeds,
                      AssignedBefore, Children
<1>5. CASE Finish
    BY <1>1, <1>2, <1>4, <1>5, SlotsKept DEF Finish
<1>6. CASE Crash \/ UNCHANGED vars
    <2>1. UNCHANGED <<stack, symbols, blocks, cur>>
        BY <1>6 DEF Crash, vars
    <2>2. SlotsStored'
        BY <1>1, <2>1 DEF SlotsStored, Initialised, IsFirstStore, Pending, QuietFrom, Quiet, Awaits, ReadsNot,
                          IsExprFrame, FrameNeeds, BranchNeeds, ListNeeds, AssignedBefore
    <2> QED
        BY <1>4, <2>1, <2>2
<1> QED
    BY <1>3, <1>5, <1>6 DEF Next, GenStep, Terminated

LEMMA InitStore == Init => StoreInv
<1> SUFFICES ASSUME Init, ParserAccepts(ast) PROVE ScopeInv /\ SlotsStored
    BY DEF StoreInv
<1>1. DOMAIN stack = {1} /\ stack[1] = StmtFrame(ast) /\ symbols = [x \in Var |-> NULL]
    BY DEF Init
<1>2. StmtFrame(ast).kind = "stmt" /\ StmtFrame(ast).node = ast
    BY DEF StmtFrame
<1>3. FrameNeeds(stack[1]) = {}
    BY <1>1, <1>2, FrameFacts DEF ParserAccepts
<1> QED
    BY <1>1, <1>3 DEF ScopeInv, SlotsStored

\* Until a slot is stored to, its first store is ahead.
FirstStoreAhead ==
    \A x \in unset :
        symbols[x] # NULL =>
            \A m \in Nat :
                LET q == <<symbols[x].bb, m>>
                IN IsFirstStore(blocks[symbols[x].bb], symbols[x], m) /\ ~IsDead(q) => Ahead(q)

SlotInv == StoreInv /\ (phase = "run" => FirstStoreAhead)

\* The slot whose address an instruction takes.
LEMMA SlotFacts ==
    ASSUME Taking, NEW x \in Var, NEW v, v = symbols[x], v # NULL
    PROVE  /\ v \in InstVals /\ v.ix \in Nat /\ IsSlot(v, x) /\ DefPlace(v) \in Places
           /\ \A m \in Nat : IsFirstStore(blocks[v.bb], v, m) => <<v.bb, m>> \in Places
<1>1. v \in InstVals /\ v.ix \in Nat /\ IsSlot(v, x) /\ v.bb \in Blocks /\ v.ix \in DOMAIN blocks[v.bb]
    BY DEF Taking, GenInv, OperandInv, SymbolsOK, IsSlot, IsAt, InstVals, Blocks
<1>2. PICK q : q = DefPlace(v)
    OBVIOUS
<1>3. q \in Places
    BY <1>1, <1>2, TakenBlocks DEF DefPlace
<1>4. ASSUME NEW m \in Nat, IsFirstStore(blocks[v.bb], v, m) PROVE <<v.bb, m>> \in Places
    BY <1>1, <1>4, TakenBlocks DEF IsFirstStore
<1> QED
    BY <1>1, <1>2, <1>3, <1>4

LEMMA AddressOf ==
    ASSUME Taking, NEW v, NEW x \in Var, IsSlot(v, x)
    PROVE  symbols[x] = v /\ v # NULL
<1>1. v \in InstVals /\ v = InstVal(v.bb, v.ix) /\ blocks[v.bb][v.ix] = Alloca(x)
      /\ v.bb \in DOMAIN blocks /\ v.ix \in DOMAIN blocks[v.bb]
    BY DEF IsSlot, IsAt, InstVals, InstVal
<1>2. Alloca(x).ins = "alloca" /\ Alloca(x).var = x
    BY DEF Alloca
<1> QED
    BY <1>1, <1>2, BuilderAssumption DEF Taking, GenInv, OperandInv, AllocasOK

\* A load that is reached comes after the first store.
LEMMA LoadsAfterStore ==
    ASSUME RunInv, SlotInv, ParserAccepts(ast), phase = "run", Instruction.ins = "load"
    PROVE  SlotVar(Instruction.ptr) \notin unset
<1>1. PICK i : i = Instruction
    OBVIOUS
<1>2. Taking /\ pc \in LivePlaces /\ pc \in Places /\ i = InstrAt(pc) /\ OperandsOK(i) /\ i.ptr # NULL
    BY <1>1, AtInstruction
<1>3. PICK x \in Var : IsSlot(i.ptr, x)
    BY <1>1, <1>2 DEF OperandsOK, IsAddress
<1>4. PICK v : v = i.ptr
    OBVIOUS
<1>5. SlotVar(i.ptr) = x /\ symbols[x] = v /\ v # NULL /\ IsSlot(v, x)
    <2>1. i.ptr \in Operands(InstrAt(pc))
        BY <1>1, <1>2 DEF Operands
    <2> QED
        BY <1>2, <1>3, <1>4, <2>1, SlotVarIs, AddressOf
<1>6. v \in InstVals /\ v.ix \in Nat /\ DefPlace(v) \in Places
    BY <1>2, <1>5, SlotFacts
<1>7. PICK m \in DOMAIN blocks[v.bb] : IsFirstStore(blocks[v.bb], v, m)
    <2>1. StackOK /\ stack = <<>>
        BY <1>2, TypeParts DEF Taking, GenInv, IInv
    <2>2. ~Pending(v, x)
        BY <2>1, NotPending
    <2>3. SlotsStored
        BY DEF SlotInv, StoreInv
    <2>4. Initialised(v)
        BY <1>5, <2>2, <2>3 DEF SlotsStored
    <2> QED
        BY <2>4 DEF Initialised
<1>8. v \in Reads(pc)
    <2>1. v.kind = "inst" /\ v \in Operands(i)
        BY <1>1, <1>4, <1>6 DEF Operands, InstVals
    <2> QED
        BY <1>2, <1>5, <2>1 DEF Reads
<1>9. PICK a : a = DefPlace(v)
    OBVIOUS
<1>10. a = <<v.bb, v.ix>> /\ a[1] = v.bb /\ a[2] = v.ix /\ ~IsDead(a) /\ ~Ahead(a)
    BY <1>2, <1>8, <1>9, ReadsAreWritten DEF DefPlace
<1>11. /\ v.bb \in Blocks /\ DOMAIN blocks[v.bb] = 1 .. Len(blocks[v.bb]) /\ Len(blocks[v.bb]) \in Nat
       /\ pc[1] \in Blocks /\ pc[2] \in DOMAIN blocks[pc[1]]
    <2>1. v.bb \in Blocks /\ pc[1] \in Blocks /\ pc[2] \in DOMAIN blocks[pc[1]]
        BY <1>2, <1>6, <1>9, <1>10, TakenBlocks
    <2> QED
        BY <1>2, <2>1, TakenBlocks
<1>12. PICK q : q = <<v.bb, m>>
    OBVIOUS
<1>13. q[1] = v.bb /\ q[2] = m /\ m \in Nat
    BY <1>11, <1>12
<1>14. ~IsDead(q)
    <2>1. ASSUME NEW t \in Terminators(v.bb), t < m PROVE FALSE
        <3>1. t \in DOMAIN blocks[v.bb] /\ IsTerminator(blocks[v.bb][t]) /\ t \in Nat
            BY <1>11 DEF Terminators
        <3>2. ~(t < v.ix)
            BY <1>10 DEF IsDead
        <3>3. t # v.ix
            BY <1>5, <3>1 DEF IsSlot, Alloca, IsTerminator
        <3>4. Quiet(blocks[v.bb][t], v)
            BY <1>6, <1>7, <2>1, <3>1, <3>2, <3>3 DEF IsFirstStore
        <3> QED
            BY <3>1, <3>4 DEF Quiet, IsTerminator
    <2> QED
        BY <1>13, <2>1 DEF IsDead
<1>15. ASSUME x \in unset PROVE FALSE
    <2>1. Ahead(q)
        BY <1>5, <1>7, <1>12, <1>13, <1>14, <1>15 DEF SlotInv, FirstStoreAhead
    <2>2. pc[1] = v.bb /\ v.ix < pc[2] /\ pc[2] <= m
        BY <1>6, <1>10, <1>11, <1>13, <2>1 DEF Ahead
    <2>3. i = blocks[v.bb][pc[2]] /\ pc[2] \in DOMAIN blocks[v.bb]
        BY <1>2, <1>11, <2>2 DEF InstrAt
    <2>4. pc[2] # m
        BY <1>1, <1>7, <2>3 DEF IsFirstStore
    <2>5. Quiet(i, v)
        BY <1>7, <1>11, <1>13, <2>2, <2>3, <2>4 DEF IsFirstStore
    <2> QED
        BY <1>1, <1>4, <2>5 DEF Quiet
<1> QED
    BY <1>1, <1>5, <1>15

\* A slot that becomes unset is one that control is at the alloca of; one that control
\* passes the first store of does not stay unset.
LEMMA ExecSlots ==
    ASSUME RunInv, Exec, FirstStoreAhead, phase' = "run"
    PROVE  FirstStoreAhead'
<1>1. phase = "run" /\ UNCHANGED vars /\ Moves
    BY ExecKeeps DEF Exec, ExecAlloca, ExecLoad, ExecStore, ExecBinop, ExecBr, ExecCondBr, ExecRet, Executing
<1>2. /\ blocks' = blocks /\ symbols' = symbols /\ \A p : IsDead(p)' = IsDead(p)
    BY <1>1, FunctionKept DEF vars
<1>3. PICK i : i = Instruction
    OBVIOUS
<1>4. /\ Taking /\ pc \in Places /\ i = InstrAt(pc) /\ i \in Instr /\ OperandsOK(i)
      /\ pc = <<pc[1], pc[2]>> /\ pc[1] \in Blocks /\ pc[2] \in DOMAIN blocks[pc[1]]
    <2>1. Taking /\ pc \in Places /\ i = InstrAt(pc) /\ i \in Instr /\ OperandsOK(i)
        BY <1>1, <1>3, AtInstruction
    <2> QED
        BY <2>1, TakenBlocks
<1>5. \/ unset' \subseteq unset
      \/ /\ i.ins = "alloca" /\ i.var \in Var
         /\ unset' = unset \cup {i.var} /\ Advance
    <2>1. CASE ExecAlloca
        <3>1. i.ins = "alloca" /\ unset' = unset \cup {i.var} /\ Advance
            BY <1>3, <2>1 DEF ExecAlloca, Executing
        <3> QED
            BY <1>4, <3>1 DEF Instr
    <2>2. CASE ~ExecAlloca
        BY <2>2 DEF Exec, ExecLoad, ExecStore, ExecBinop, ExecBr, ExecCondBr, ExecRet
    <2> QED
        BY <2>1, <2>2
<1>6. ASSUME NEW x \in unset', symbols[x] # NULL, NEW m \in Nat,
             NEW v, v = symbols[x], IsFirstStore(blocks[v.bb], v, m),
             NEW q, q = <<v.bb, m>>, ~IsDead(q)
      PROVE  Ahead(q)'
    <2>1. x \in Var
        BY <1>1, <1>5 DEF RunInv, MemoryOK
    <2>2. /\ v \in InstVals /\ v.ix \in Nat /\ IsSlot(v, x) /\ q \in Places
          /\ q[1] = v.bb /\ q[2] = m
        BY <1>4, <1>6, <2>1, SlotFacts
    <2>3. CASE x \in unset
        <3>1. Ahead(q)
            BY <1>6, <2>3 DEF FirstStoreAhead
        <3>2. q # pc
            <4>1. ASSUME q = pc PROVE FALSE
                <5>1. i.ins = "store" /\ i.ptr = v
                    BY <1>4, <1>6, <2>2, <4>1 DEF InstrAt, IsFirstStore
                <5>2. ExecStore
                    BY <1>3, <5>1 DEF Exec, ExecAlloca, ExecLoad, ExecStore, ExecBinop, ExecBr, ExecCondBr, ExecRet,
                                      Executing
                <5>3. SlotVar(v) = x
                    BY <1>1, <1>4, <2>2, <5>1, SlotVarIs DEF Operands
                <5>4. unset' = unset \ {x}
                    BY <1>3, <5>1, <5>2, <5>3 DEF ExecStore
                <5> QED
                    BY <1>6, <5>4
            <4> QED
                BY <4>1
        <3> QED
            BY <1>1, <1>6, <2>2, <3>1, <3>2 DEF Moves
    <2>4. CASE x \notin unset
        <3>1. i.ins = "alloca" /\ i.var = x /\ Advance
            BY <1>5, <1>6, <2>4
        <3>2. symbols[x] = InstVal(pc[1], pc[2])
            BY <1>4, <3>1 DEF Taking, GenInv, OperandInv, AllocasOK, InstrAt, Blocks
        <3>3. v.bb = pc[1] /\ v.ix = pc[2]
            BY <1>6, <3>2 DEF InstVal
        <3>4. pc' = <<pc[1], pc[2] + 1>> /\ pc'[1] = pc[1] /\ pc'[2] = pc[2] + 1
            BY <3>1 DEF Advance
        <3>5. pc[2] < m
            BY <1>6, <3>3 DEF IsFirstStore
        <3>6. pc'[1] = q[1] /\ pc'[2] <= q[2]
            BY <2>2, <3>3, <3>4, <3>5
        <3> QED
            BY <3>6 DEF Ahead
    <2> QED
        BY <2>3, <2>4
<1>7. ASSUME NEW x \in unset', symbols'[x] # NULL, NEW m \in Nat,
             IsFirstStore(blocks'[symbols'[x].bb], symbols'[x], m),
             ~IsDead(<<symbols[x].bb, m>>)'
      PROVE  Ahead(<<symbols[x].bb, m>>)'
    <2>1. PICK v, q : v = symbols[x] /\ q = <<v.bb, m>> /\ q = <<symbols'[x].bb, m>>
        BY <1>2
    <2>2. ~IsDead(q)
        <3>1. ~IsDead(q)'
            BY <1>7, <2>1
        <3> QED
            BY <1>2, <3>1
    <2>3. Ahead(q)'
        BY <1>2, <1>6, <1>7, <2>1, <2>2
    <2> QED
        BY <2>1, <2>3
<1> QED
    BY <1>7 DEF FirstStoreAhead, IsFirstStore, Quiet

LEMMA SlotStep == MachineInv /\ SlotInv /\ [MachineNext]_machineVars => SlotInv'
<1> SUFFICES ASSUME GenInv, RunInv, SlotInv, [MachineNext]_machineVars PROVE SlotInv'
    BY DEF MachineInv
<1>1. StoreInv'
    BY MachineNextIsNext, StoreStep DEF SlotInv
<1>2. ASSUME phase' = "run" PROVE FirstStoreAhead'
    <2>1. CASE Compile
        <3>1. phase = "run" /\ status = "gen"
            BY <1>2, <2>1 DEF Compile, GenStep, GenExprStep, GenStmtStep, GenId, GenConst, GenLhs, GenRhs, BuildOp,
                    GenAssign, BuildStore, GenIf, BuildIf, GenElse, EndIf, GenWhile, BuildWhile, EndWhile,
                    GenBreak, GenBlock, NextStmt, EndBlock, Finish, Crash, AtStmt, AtExpr, At
        <3> QED
            BY <3>1 DEF RunInv, Taking
    <2>2. CASE Exec
        <3>1. phase = "run"
            BY <2>2 DEF Exec, ExecAlloca, ExecLoad, ExecStore, ExecBinop, ExecBr, ExecCondBr, ExecRet, Executing
        <3> QED
            BY <1>2, <2>2, <3>1, ExecSlots DEF SlotInv
    <2>3. ASSUME UNCHANGED <<vars, machine>>, FirstStoreAhead PROVE FirstStoreAhead'
        <3>1. /\ blocks' = blocks /\ symbols' = symbols /\ pc' = pc /\ unset' = unset
              /\ \A d : ReachableAvoiding(d)' = ReachableAvoiding(d)
              /\ \A p : IsDead(p)' = IsDead(p)
            BY <2>3, FunctionKept DEF vars, machine
        <3>2. ASSUME NEW q PROVE Ahead(q)' = Ahead(q) /\ IsDead(q)' = IsDead(q)
            BY <3>1 DEF Ahead
        <3>3. ASSUME NEW x \in unset', symbols'[x] # NULL, NEW m \in Nat,
                     IsFirstStore(blocks'[symbols'[x].bb], symbols'[x], m),
                     ~IsDead(<<symbols[x].bb, m>>)'
              PROVE  Ahead(<<symbols[x].bb, m>>)'
            <4>1. PICK q : q = <<symbols[x].bb, m>> /\ q = <<symbols'[x].bb, m>>
                BY <3>1
            <4>2. ~IsDead(q)'
                BY <3>3, <4>1
            <4>3. ~IsDead(q)
                BY <3>2, <4>2
            <4>4. Ahead(q)
                BY <2>3, <3>1, <3>3, <4>1, <4>3 DEF FirstStoreAhead
            <4>5. Ahead(q)'
                BY <3>2, <4>4
            <4> QED
                BY <4>1, <4>5
        <3> QED
            BY <3>3 DEF FirstStoreAhead, IsFirstStore, Quiet
    <2>4. CASE Assemble
        <3>1. Taking /\ pc = <<1, 1>> /\ UNCHANGED <<vars, machine>> /\ unset \subseteq Var
            BY <1>2, <2>4 DEF Assemble, RunInv, Taking, MemoryOK
        <3>2. ASSUME NEW x \in unset, symbols[x] # NULL, NEW m \in Nat,
                     IsFirstStore(blocks[symbols[x].bb], symbols[x], m)
              PROVE  Ahead(<<symbols[x].bb, m>>)
            <4>1. PICK v, q : v = symbols[x] /\ q = <<v.bb, m>>
                OBVIOUS
            <4>2. q \in Places
                BY <3>1, <3>2, <4>1, SlotFacts
            <4> QED
                BY <3>1, <4>1, <4>2, EntryAhead
        <3>3. FirstStoreAhead
            BY <3>2 DEF FirstStoreAhead
        <3> QED
            BY <2>3, <3>1, <3>3
    <2>5. CASE UNCHANGED machineVars
        BY <1>2, <2>3, <2>5 DEF machineVars, machine, SlotInv
    <2> QED
        BY <2>1, <2>2, <2>4, <2>5 DEF MachineNext, Stopped
<1> QED
    BY <1>1, <1>2 DEF SlotInv

\* No run of an accepted function loads a slot before the first store to it, as long as
\* the parser has taken the program: although the alloca may be in a loop and so make
\* a new slot on every iteration, gen_stmt puts the store behind it in the same block, with
\* only the code of the right-hand side between them, and that does not read the name.
THEOREM SlotsAreStored == MachineSpec => []NoUndefinedRead
<1>1. MachineInit => SlotInv
    BY InitStore DEF MachineInit, SlotInv
<1>2. MachineSpec => []SlotInv
    BY <1>1, MachineInvariance, SlotStep, PTL DEF MachineSpec
<1>3. MachineInv /\ SlotInv => NoUndefinedRead
    BY LoadsAfterStore DEF MachineInv, NoUndefinedRead
<1> QED
    BY <1>2, <1>3, MachineInvariance, PTL
=============================================================================
