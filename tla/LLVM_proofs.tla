---------------------------- MODULE LLVM_proofs ----------------------------
(***************************************************************************)
(* Proofs about the printed function: what the parser lets through gives   *)
(* the builder no null pointer, and without a break no instruction follows *)
(* a terminator.  Both relate the generator's stack to the functions of    *)
(* Syntax on the tree; of these the proofs use their defining equations.   *)
(***************************************************************************)
EXTENDS LLVM, CodeGen_proofs

-----------------------------------------------------------------------------
(* The strengthened invariants *)

\* The statements that a frame has left to generate.
FrameStmts(f) ==
    CASE f.kind = "stmt"  -> {f.node}
      [] f.kind = "if"    -> Children(f.node)
      [] f.kind = "endif" -> {f.else} \ {NULL}
      [] f.kind = "while" -> {f.node.block}
      [] f.kind = "block" -> ToSet(f.stmts)
      [] OTHER            -> {}

\* The names that they assign.
FrameAdds(f) == UNION {Assigned[s] : s \in FrameStmts(f)}

BranchNeeds(s, t) == Needs[s] \cup IF t = NULL THEN {} ELSE Needs[t] \ Assigned[s]
ListNeeds(ss) == UNION {Needs[ss[i]] \ AssignedBefore(ss, i) : i \in DOMAIN ss}

\* The names that a frame reads before it assigns them.
FrameNeeds(f) ==
    CASE f.kind = "stmt"  -> Needs[f.node]
      [] f.kind = "expr"  -> Uses[f.node]
      [] f.kind = "lhs"   -> Uses[f.node.rhs]
      [] f.kind = "if"    -> BranchNeeds(f.node.if_block, f.node.else_block)
      [] f.kind = "endif" -> IF f.else = NULL THEN {} ELSE Needs[f.else]
      [] f.kind = "while" -> Needs[f.node.block]
      [] f.kind = "block" -> ListNeeds(f.stmts)
      [] OTHER            -> {}

\* The names that have an alloca.
Have == {x \in Var : symbols[x] # NULL}

\* What frame i will read has an alloca, or the frames that are done before it
\* make one: the walk of gen_stmt meets names in the order of the text.
IsSeen(i, x) == x \in Have \/ \E j \in 1 .. i - 1 : x \in FrameAdds(stack[j])
ScopeInv == \A i \in DOMAIN stack : \A x \in FrameNeeds(stack[i]) : IsSeen(i, x)

\* Where no loop is around, every break is in a loop of its own.
NoLoopFrom(s, i) == \A j \in DOMAIN s : j >= i => ~IsLoopFrame(s[j])
AllBreaksInLoops(S) == \A s \in S : BreaksInLoops[s]
BreakInv == \A i \in DOMAIN stack : NoLoopFrom(stack, i) => AllBreaksInLoops(FrameStmts(stack[i]))

HasNull(i) == (i.ins = "load" /\ i.ptr = NULL) \/ (i.ins = "br" /\ i.to = NULL)
NoNulls == \A b \in DOMAIN blocks : \A i \in DOMAIN blocks[b] : ~HasNull(blocks[b][i])

NullInv ==
    ParserAccepts(ast) /\ BreaksInLoops[ast] =>
        ScopeInv /\ BreakInv /\ NoNulls /\ status # "crashed"

\* A terminator is the last instruction of its block, and in a block that is being
\* filled there is none.
TerminatorsLast ==
    \A b \in DOMAIN blocks : \A i \in DOMAIN blocks[b] :
        IsTerminator(blocks[b][i]) => i = Len(blocks[b]) /\ (b = cur => status # "gen")

AllBreakFree(S) == \A s \in S : BreakFree[s]
NoBreakLeft == \A i \in DOMAIN stack : AllBreakFree(FrameStmts(stack[i]))

OnceInv == BreakFree[ast] => NoBreakLeft /\ TerminatorsLast
-----------------------------------------------------------------------------
(* The functions of Syntax *)

\* A monotone function on sets has a fixed point.
LEMMA FixedPoint ==
    ASSUME NEW S, NEW F \in [SUBSET S -> SUBSET S],
           \A R, Q \in SUBSET S : R \subseteq Q => F[R] \subseteq F[Q]
    PROVE  \E G \in SUBSET S : F[G] = G
<1> DEFINE Post == {R \in SUBSET S : R \subseteq F[R]}
           G == UNION Post
<1>1. G \in SUBSET S
    OBVIOUS
<1>2. F[G] \in SUBSET S
    BY <1>1
<1>3. G \subseteq F[G]
    <2> SUFFICES ASSUME NEW R \in Post PROVE R \subseteq F[G]
        OBVIOUS
    <2>1. R \in SUBSET S /\ R \subseteq G /\ R \subseteq F[R]
        OBVIOUS
    <2>2. F[R] \subseteq F[G]
        BY <1>1, <2>1
    <2> QED
        BY <2>1, <2>2
<1>4. F[G] \subseteq G
    <2>1. F[G] \subseteq F[F[G]]
        BY <1>1, <1>2, <1>3
    <2> QED
        BY <1>2, <2>1
<1> QED
    BY <1>1, <1>3, <1>4

\* Statements inside a statement are among the nodes in use.
LEMMA ChildrenFacts ==
    \A s \in Stmt :
        /\ Children(s) \subseteq Stmt
        /\ s.type = "IF_STMT" => Children(s) = {s.if_block, s.else_block} \ {NULL}
        /\ s.type = "WHILE_STMT" => Children(s) = {s.block}
        /\ s.type = "BLOCK" => Children(s) = ToSet(s.stmts)
        /\ s.type \in {"ASSIGN_STMT", "BREAK_STMT"} => Children(s) = {}
<1> SUFFICES ASSUME NEW s \in Stmt
             PROVE  /\ Children(s) \subseteq Stmt
                    /\ s.type = "IF_STMT" => Children(s) = {s.if_block, s.else_block} \ {NULL}
                    /\ s.type = "WHILE_STMT" => Children(s) = {s.block}
                    /\ s.type = "BLOCK" => Children(s) = ToSet(s.stmts)
                    /\ s.type \in {"ASSIGN_STMT", "BREAK_STMT"} => Children(s) = {}
    OBVIOUS
<1>1. CASE s.type = "IF_STMT"
    BY <1>1, NodeFacts DEF Children
<1>2. CASE s.type = "WHILE_STMT"
    BY <1>2, NodeFacts DEF Children
<1>3. CASE s.type = "BLOCK"
    <2>1. s.stmts \in Seq(Stmt)
        BY <1>3, NodeFacts
    <2>2. \A i \in DOMAIN s.stmts : s.stmts[i] \in Stmt
        BY <2>1, LenProperties
    <2> QED
        BY <1>3, <2>2 DEF Children, ToSet
<1>4. CASE s.type \in {"ASSIGN_STMT", "BREAK_STMT"}
    BY <1>4 DEF Children
<1> QED
    BY <1>1, <1>2, <1>3, <1>4, SyntaxAssumption DEF IsStmt

LEMMA BreakFreeIs ==
    BreakFree = [s \in Stmt |-> s.type # "BREAK_STMT" /\ \A c \in Children(s) : BreakFree[c]]
<1> DEFINE F == [R \in SUBSET Stmt |-> {s \in Stmt : s.type # "BREAK_STMT" /\ Children(s) \subseteq R}]
<1>1. /\ F \in [SUBSET Stmt -> SUBSET Stmt]
      /\ \A R, Q \in SUBSET Stmt : R \subseteq Q => F[R] \subseteq F[Q]
    OBVIOUS
<1> HIDE DEF F
<1>2. PICK G \in SUBSET Stmt : F[G] = G
    BY <1>1, FixedPoint
<1> DEFINE w == [s \in Stmt |-> s \in G]
<1>3. w = [s \in Stmt |-> s.type # "BREAK_STMT" /\ \A c \in Children(s) : w[c]]
    <2>1. ASSUME NEW s \in Stmt
          PROVE  (s \in G) = (s.type # "BREAK_STMT" /\ \A c \in Children(s) : w[c])
        <3>1. s \in G <=> s.type # "BREAK_STMT" /\ Children(s) \subseteq G
            BY <1>2 DEF F
        <3>2. (\A c \in Children(s) : w[c]) <=> Children(s) \subseteq G
            <4>1. \A c \in Children(s) : c \in Stmt
                BY ChildrenFacts
            <4> QED
                BY <4>1
        <3> QED
            BY <3>1, <3>2
    <2> QED
        BY <2>1
<1> HIDE DEF w
<1> QED
    BY <1>3 DEF BreakFree

LEMMA BreaksInLoopsIs ==
    BreaksInLoops =
        [s \in Stmt |->
            s.type # "BREAK_STMT" /\ (s.type # "WHILE_STMT" => \A c \in Children(s) : BreaksInLoops[c])]
<1> DEFINE F == [R \in SUBSET Stmt |->
                    {s \in Stmt : s.type # "BREAK_STMT" /\ (s.type # "WHILE_STMT" => Children(s) \subseteq R)}]
<1>1. /\ F \in [SUBSET Stmt -> SUBSET Stmt]
      /\ \A R, Q \in SUBSET Stmt : R \subseteq Q => F[R] \subseteq F[Q]
    OBVIOUS
<1> HIDE DEF F
<1>2. PICK G \in SUBSET Stmt : F[G] = G
    BY <1>1, FixedPoint
<1> DEFINE w == [s \in Stmt |-> s \in G]
<1>3. w = [s \in Stmt |->
             s.type # "BREAK_STMT" /\ (s.type # "WHILE_STMT" => \A c \in Children(s) : w[c])]
    <2>1. ASSUME NEW s \in Stmt
          PROVE  (s \in G) =
                 (s.type # "BREAK_STMT" /\ (s.type # "WHILE_STMT" => \A c \in Children(s) : w[c]))
        <3>1. s \in G <=> s.type # "BREAK_STMT" /\ (s.type # "WHILE_STMT" => Children(s) \subseteq G)
            BY <1>2 DEF F
        <3>2. (\A c \in Children(s) : w[c]) <=> Children(s) \subseteq G
            <4>1. \A c \in Children(s) : c \in Stmt
                BY ChildrenFacts
            <4> QED
                BY <4>1
        <3> QED
            BY <3>1, <3>2
    <2> QED
        BY <2>1
<1> HIDE DEF w
<1> QED
    BY <1>3 DEF BreaksInLoops

\* The set-valued functions are given by relations between nodes and names.
Names(V, G, n) == {x \in V : <<n, x>> \in G}

UsesFrom(u, e) ==
    CASE e.type = "ID_EXPR"    -> {e.id}
      [] e.type = "BINOP_EXPR" -> u[e.lhs] \cup u[e.rhs]
      [] OTHER                 -> {}

LEMMA UsesIs == Uses = [e \in Expr |-> UsesFrom(Uses, e)]
<1> DEFINE S == Expr \X Var
           F == [R \in SUBSET S |->
                    {p \in S : \/ p[1].type = "ID_EXPR" /\ p[2] = p[1].id
                               \/ /\ p[1].type = "BINOP_EXPR"
                                  /\ <<p[1].lhs, p[2]>> \in R \/ <<p[1].rhs, p[2]>> \in R}]
<1>1. /\ F \in [SUBSET S -> SUBSET S]
      /\ \A R, Q \in SUBSET S : R \subseteq Q => F[R] \subseteq F[Q]
    OBVIOUS
<1>2. \E G \in SUBSET S : F[G] = G
    <2> HIDE DEF S, F
    <2> QED
        BY <1>1, FixedPoint
<1>3. PICK G \in SUBSET S : F[G] = G
    BY <1>2
<1> DEFINE w == [e \in Expr |-> Names(Var, G, e)]
<1>4. ASSUME NEW e \in Expr, NEW x \in Var
      PROVE  <<e, x>> \in G <=> \/ e.type = "ID_EXPR" /\ x = e.id
                                \/ /\ e.type = "BINOP_EXPR"
                                   /\ <<e.lhs, x>> \in G \/ <<e.rhs, x>> \in G
    BY <1>3
<1>5. ASSUME NEW e \in Expr
      PROVE  Names(Var, G, e) = UsesFrom(w, e)
    <2>1. CASE e.type = "ID_EXPR"
        BY <1>4, <2>1, NodeFacts DEF UsesFrom, Names
    <2>2. CASE e.type = "BINOP_EXPR"
        <3>1. w[e.lhs] = Names(Var, G, e.lhs) /\ w[e.rhs] = Names(Var, G, e.rhs)
            BY <2>2, NodeFacts
        <3>2. UsesFrom(w, e) = w[e.lhs] \cup w[e.rhs]
            BY <2>2 DEF UsesFrom
        <3>3. \A x \in Var : <<e, x>> \in G <=> <<e.lhs, x>> \in G \/ <<e.rhs, x>> \in G
            BY <1>4, <2>2
        <3> HIDE DEF w
        <3> QED
            BY <3>1, <3>2, <3>3 DEF Names
    <2>3. CASE e.type \notin {"ID_EXPR", "BINOP_EXPR"}
        BY <1>4, <2>3 DEF UsesFrom, Names
    <2> QED
        BY <2>1, <2>2, <2>3
<1>6. w = [e \in Expr |-> UsesFrom(w, e)]
    BY <1>5
<1> HIDE DEF w
<1>7. w = [e \in Expr |-> CASE e.type = "ID_EXPR"    -> {e.id}
                            [] e.type = "BINOP_EXPR" -> w[e.lhs] \cup w[e.rhs]
                            [] OTHER                 -> {}]
    BY Zenon, <1>6 DEF UsesFrom
<1>8. Uses = [e \in Expr |-> CASE e.type = "ID_EXPR"    -> {e.id}
                               [] e.type = "BINOP_EXPR" -> Uses[e.lhs] \cup Uses[e.rhs]
                               [] OTHER                 -> {}]
    BY <1>7 DEF Uses
<1> QED
    BY Zenon, <1>8 DEF UsesFrom

AssignedFrom(a, s) ==
    IF s.type = "ASSIGN_STMT" THEN {s.lhs} ELSE UNION {a[c] : c \in Children(s)}

LEMMA AssignedIs == Assigned = [s \in Stmt |-> AssignedFrom(Assigned, s)]
<1> DEFINE S == Stmt \X Var
           AssignedAt(s, x, R) ==
               IF s.type = "ASSIGN_STMT" THEN x = s.lhs ELSE \E c \in Children(s) : <<c, x>> \in R
           F == [R \in SUBSET S |-> {p \in S : AssignedAt(p[1], p[2], R)}]
<1>1. /\ F \in [SUBSET S -> SUBSET S]
      /\ \A R, Q \in SUBSET S : R \subseteq Q => F[R] \subseteq F[Q]
    OBVIOUS
<1>2. \E G \in SUBSET S : F[G] = G
    <2> HIDE DEF S, F
    <2> QED
        BY <1>1, FixedPoint
<1>3. PICK G \in SUBSET S : F[G] = G
    BY <1>2
<1> DEFINE w == [s \in Stmt |-> Names(Var, G, s)]
<1>4. ASSUME NEW s \in Stmt, NEW x \in Var
      PROVE  <<s, x>> \in G <=> AssignedAt(s, x, G)
    <2> HIDE DEF AssignedAt
    <2> QED
        BY <1>3
<1>5. ASSUME NEW s \in Stmt
      PROVE  Names(Var, G, s) = AssignedFrom(w, s)
    <2>1. CASE s.type = "ASSIGN_STMT"
        BY <1>4, <2>1, NodeFacts DEF AssignedFrom, Names
    <2>2. CASE s.type # "ASSIGN_STMT"
        <3>1. \A c \in Children(s) : w[c] = Names(Var, G, c)
            BY ChildrenFacts
        <3>2. AssignedFrom(w, s) = UNION {w[c] : c \in Children(s)}
            BY <2>2 DEF AssignedFrom
        <3>3. \A x \in Var : <<s, x>> \in G <=> \E c \in Children(s) : <<c, x>> \in G
            BY <1>4, <2>2
        <3> HIDE DEF w
        <3>4. \A x : x \in Names(Var, G, s) <=> \E c \in Children(s) : x \in w[c]
            BY <3>1, <3>3 DEF Names
        <3>5. \A x : x \in AssignedFrom(w, s) <=> \E c \in Children(s) : x \in w[c]
            BY <3>2
        <3> QED
            BY <3>4, <3>5
    <2> QED
        BY <2>1, <2>2
<1>6. w = [s \in Stmt |-> AssignedFrom(w, s)]
    BY <1>5
<1> HIDE DEF w
<1>7. w = [s \in Stmt |-> IF s.type = "ASSIGN_STMT" THEN {s.lhs} ELSE UNION {w[c] : c \in Children(s)}]
    BY Zenon, <1>6 DEF AssignedFrom
<1>8. Assigned = [s \in Stmt |-> IF s.type = "ASSIGN_STMT" THEN {s.lhs}
                                 ELSE UNION {Assigned[c] : c \in Children(s)}]
    BY Zenon, <1>7 DEF Assigned
<1> QED
    BY Zenon, <1>8 DEF AssignedFrom

NeedsFrom(n, s) ==
    CASE s.type = "ASSIGN_STMT" -> Uses[s.rhs]
      [] s.type = "IF_STMT" ->
           Uses[s.condition] \cup n[s.if_block]
           \cup IF s.else_block = NULL THEN {} ELSE n[s.else_block] \ Assigned[s.if_block]
      [] s.type = "WHILE_STMT" -> Uses[s.condition] \cup n[s.block]
      [] s.type = "BLOCK" ->
           UNION {n[s.stmts[i]] \ AssignedBefore(s.stmts, i) : i \in DOMAIN s.stmts}
      [] OTHER -> {}

LEMMA NeedsIs == Needs = [s \in Stmt |-> NeedsFrom(Needs, s)]
<1> DEFINE V == UNION {Uses[e] : e \in Expr}
           S == Stmt \X V
           NeededAt(s, x, R) ==
               \/ s.type = "ASSIGN_STMT" /\ x \in Uses[s.rhs]
               \/ /\ s.type = "IF_STMT"
                  /\ \/ x \in Uses[s.condition] \/ <<s.if_block, x>> \in R
                     \/ /\ s.else_block # NULL /\ <<s.else_block, x>> \in R
                        /\ x \notin Assigned[s.if_block]
               \/ s.type = "WHILE_STMT" /\ (x \in Uses[s.condition] \/ <<s.block, x>> \in R)
               \/ /\ s.type = "BLOCK"
                  /\ \E i \in DOMAIN s.stmts : /\ <<s.stmts[i], x>> \in R
                                               /\ x \notin AssignedBefore(s.stmts, i)
           F == [R \in SUBSET S |-> {p \in S : NeededAt(p[1], p[2], R)}]
<1>1. /\ F \in [SUBSET S -> SUBSET S]
      /\ \A R, Q \in SUBSET S : R \subseteq Q => F[R] \subseteq F[Q]
    <2>1. ASSUME NEW s, NEW x, NEW R, NEW Q, R \subseteq Q, NeededAt(s, x, R)
          PROVE  NeededAt(s, x, Q)
        BY <2>1
    <2> HIDE DEF NeededAt, S
    <2> QED
        BY <2>1
<1>2. \E G \in SUBSET S : F[G] = G
    <2> HIDE DEF S, F
    <2> QED
        BY <1>1, FixedPoint
<1>3. PICK G \in SUBSET S : F[G] = G
    BY <1>2
<1> DEFINE w == [s \in Stmt |-> Names(V, G, s)]
<1>4. ASSUME NEW s \in Stmt, NEW x \in V
      PROVE  <<s, x>> \in G <=> NeededAt(s, x, G)
    <2> HIDE DEF NeededAt, V
    <2> QED
        BY <1>3
<1>5. ASSUME NEW s \in Stmt
      PROVE  Names(V, G, s) = NeedsFrom(w, s)
    <2>1. \A e \in Expr : Uses[e] \subseteq V
        OBVIOUS
    <2> HIDE DEF V
    <2>2. \A t \in Stmt : w[t] = Names(V, G, t)
        OBVIOUS
    <2> HIDE DEF w
    <2>3. CASE s.type = "ASSIGN_STMT"
        <3>1. NeedsFrom(w, s) = Uses[s.rhs] /\ s.rhs \in Expr
            BY <2>3, NodeFacts DEF NeedsFrom
        <3>2. \A x \in V : <<s, x>> \in G <=> x \in Uses[s.rhs]
            BY <1>4, <2>3
        <3> QED
            BY <2>1, <3>1, <3>2 DEF Names
    <2>4. CASE s.type = "IF_STMT"
        <3>1. NeedsFrom(w, s) = Uses[s.condition] \cup w[s.if_block]
                                \cup IF s.else_block = NULL THEN {} ELSE w[s.else_block] \ Assigned[s.if_block]
            BY <2>4 DEF NeedsFrom
        <3>2. s.condition \in Expr /\ s.if_block \in Stmt /\ (s.else_block # NULL => s.else_block \in Stmt)
            BY <2>4, NodeFacts
        <3>3. ASSUME NEW x \in V
              PROVE  <<s, x>> \in G <=> \/ x \in Uses[s.condition] \/ <<s.if_block, x>> \in G
                                        \/ /\ s.else_block # NULL /\ <<s.else_block, x>> \in G
                                           /\ x \notin Assigned[s.if_block]
            BY <1>4, <2>4
        <3>4. w[s.if_block] = {x \in V : <<s.if_block, x>> \in G}
            BY <2>2, <3>2 DEF Names
        <3>5. s.else_block # NULL => w[s.else_block] = {x \in V : <<s.else_block, x>> \in G}
            BY <2>2, <3>2 DEF Names
        <3>6. Uses[s.condition] \subseteq V
            BY <2>1, <3>2
        <3> HIDE DEF NeededAt
        <3> QED
            BY <3>1, <3>3, <3>4, <3>5, <3>6 DEF Names
    <2>5. CASE s.type = "WHILE_STMT"
        <3>1. NeedsFrom(w, s) = Uses[s.condition] \cup w[s.block]
            BY <2>5 DEF NeedsFrom
        <3>2. s.condition \in Expr /\ s.block \in Stmt
            BY <2>5, NodeFacts
        <3>3. \A x \in V : <<s, x>> \in G <=> x \in Uses[s.condition] \/ <<s.block, x>> \in G
            BY <1>4, <2>5
        <3>4. w[s.block] = {x \in V : <<s.block, x>> \in G}
            BY <2>2, <3>2 DEF Names
        <3>5. Uses[s.condition] \subseteq V
            BY <2>1, <3>2
        <3> HIDE DEF NeededAt
        <3> QED
            BY <3>1, <3>3, <3>4, <3>5 DEF Names
    <2>6. CASE s.type = "BLOCK"
        <3>1. NeedsFrom(w, s) = UNION {w[s.stmts[i]] \ AssignedBefore(s.stmts, i) : i \in DOMAIN s.stmts}
            BY <2>6 DEF NeedsFrom
        <3>2. \A i \in DOMAIN s.stmts : s.stmts[i] \in Stmt
            BY <2>6, NodeFacts, LenProperties
        <3>3. \A x \in V : <<s, x>> \in G <=>
                  \E i \in DOMAIN s.stmts : /\ <<s.stmts[i], x>> \in G
                                            /\ x \notin AssignedBefore(s.stmts, i)
            BY <1>4, <2>6
        <3>4. \A i \in DOMAIN s.stmts : w[s.stmts[i]] = {x \in V : <<s.stmts[i], x>> \in G}
            BY <2>2, <3>2 DEF Names
        <3> HIDE DEF NeededAt
        <3>5. \A x : x \in Names(V, G, s) <=>
                        \E i \in DOMAIN s.stmts : /\ x \in w[s.stmts[i]]
                                                  /\ x \notin AssignedBefore(s.stmts, i)
            BY <3>3, <3>4 DEF Names
        <3>6. \A x : x \in NeedsFrom(w, s) <=>
                        \E i \in DOMAIN s.stmts : /\ x \in w[s.stmts[i]]
                                                  /\ x \notin AssignedBefore(s.stmts, i)
            BY <3>1
        <3> QED
            BY <3>5, <3>6
    <2>7. CASE s.type \notin {"ASSIGN_STMT", "IF_STMT", "WHILE_STMT", "BLOCK"}
        BY <1>4, <2>7 DEF NeedsFrom, Names
    <2> QED
        BY <2>3, <2>4, <2>5, <2>6, <2>7
<1>6. w = [s \in Stmt |-> NeedsFrom(w, s)]
    BY <1>5
<1> HIDE DEF w
<1>7. w = [s \in Stmt |->
             CASE s.type = "ASSIGN_STMT" -> Uses[s.rhs]
               [] s.type = "IF_STMT" ->
                    Uses[s.condition] \cup w[s.if_block]
                    \cup IF s.else_block = NULL THEN {} ELSE w[s.else_block] \ Assigned[s.if_block]
               [] s.type = "WHILE_STMT" -> Uses[s.condition] \cup w[s.block]
               [] s.type = "BLOCK" ->
                    UNION {w[s.stmts[i]] \ AssignedBefore(s.stmts, i) : i \in DOMAIN s.stmts}
               [] OTHER -> {}]
    BY Zenon, <1>6 DEF NeedsFrom
<1>8. Needs = [s \in Stmt |->
                 CASE s.type = "ASSIGN_STMT" -> Uses[s.rhs]
                   [] s.type = "IF_STMT" ->
                        Uses[s.condition] \cup Needs[s.if_block]
                        \cup IF s.else_block = NULL THEN {} ELSE Needs[s.else_block] \ Assigned[s.if_block]
                   [] s.type = "WHILE_STMT" -> Uses[s.condition] \cup Needs[s.block]
                   [] s.type = "BLOCK" ->
                        UNION {Needs[s.stmts[i]] \ AssignedBefore(s.stmts, i) : i \in DOMAIN s.stmts}
                   [] OTHER -> {}]
    BY <1>7 DEF Needs
<1> QED
    BY Zenon, <1>8 DEF NeedsFrom

\* The equations that the proofs below use.
LEMMA ReadsFacts ==
    /\ \A e \in Expr : /\ e.type = "ID_EXPR" => Uses[e] = {e.id}
                       /\ e.type = "BINOP_EXPR" => Uses[e] = Uses[e.lhs] \cup Uses[e.rhs]
    /\ \A s \in Stmt :
        /\ s.type = "ASSIGN_STMT" => Needs[s] = Uses[s.rhs] /\ Assigned[s] = {s.lhs}
        /\ s.type = "IF_STMT" => Needs[s] = Uses[s.condition] \cup BranchNeeds(s.if_block, s.else_block)
        /\ s.type = "WHILE_STMT" => Needs[s] = Uses[s.condition] \cup Needs[s.block]
        /\ s.type = "BLOCK" => Needs[s] = ListNeeds(s.stmts)
        /\ s.type # "ASSIGN_STMT" => Assigned[s] = UNION {Assigned[c] : c \in Children(s)}
<1>1. ASSUME NEW e \in Expr
      PROVE  /\ e.type = "ID_EXPR" => Uses[e] = {e.id}
             /\ e.type = "BINOP_EXPR" => Uses[e] = Uses[e.lhs] \cup Uses[e.rhs]
    <2>1. Uses[e] = UsesFrom(Uses, e)
        BY UsesIs
    <2> QED
        BY <2>1 DEF UsesFrom
<1>2. ASSUME NEW s \in Stmt
      PROVE  /\ s.type = "ASSIGN_STMT" => Needs[s] = Uses[s.rhs]
             /\ s.type = "IF_STMT" => Needs[s] = Uses[s.condition] \cup BranchNeeds(s.if_block, s.else_block)
             /\ s.type = "WHILE_STMT" => Needs[s] = Uses[s.condition] \cup Needs[s.block]
             /\ s.type = "BLOCK" => Needs[s] = ListNeeds(s.stmts)
    <2>1. Needs[s] = NeedsFrom(Needs, s)
        BY NeedsIs
    <2> QED
        BY <2>1 DEF NeedsFrom, BranchNeeds, ListNeeds
<1>3. ASSUME NEW s \in Stmt
      PROVE  /\ s.type = "ASSIGN_STMT" => Assigned[s] = {s.lhs}
             /\ s.type # "ASSIGN_STMT" => Assigned[s] = UNION {Assigned[c] : c \in Children(s)}
    <2>1. Assigned[s] = AssignedFrom(Assigned, s)
        BY AssignedIs
    <2> QED
        BY <2>1 DEF AssignedFrom
<1> QED
    BY <1>1, <1>2, <1>3

LEMMA BreakFacts ==
    \A s \in Stmt :
        /\ BreakFree[s] => s.type # "BREAK_STMT" /\ AllBreakFree(Children(s))
        /\ BreaksInLoops[s] => s.type # "BREAK_STMT"
        /\ BreaksInLoops[s] /\ s.type # "WHILE_STMT" => AllBreaksInLoops(Children(s))
BY BreakFreeIs, BreaksInLoopsIs DEF AllBreakFree, AllBreaksInLoops

-----------------------------------------------------------------------------
(* What a step does to the frames *)

\* The statements that the running function has left to generate, inside its own if
\* it has just begun with it.
Inside(f) == IF f.kind = "stmt" THEN Children(f.node) ELSE FrameStmts(f)

\* The running function calls f and goes on as k.  What it reads and assigns is
\* divided among the two, and what k reads comes after what f assigns.
Divides(f, k) ==
    /\ FrameStmts(f) \cup FrameStmts(k) \subseteq Inside(Top)
    /\ FrameNeeds(f) \subseteq FrameNeeds(Top)
    /\ FrameNeeds(k) \subseteq FrameNeeds(Top) \cup FrameAdds(f)
    /\ FrameAdds(Top) \subseteq Have' \cup FrameAdds(f) \cup FrameAdds(k)
    /\ Have \subseteq Have'
    /\ ~IsLoopFrame(k) => ~IsLoopFrame(Top) /\ (Top.kind = "stmt" => Top.node.type # "WHILE_STMT")

\* It returns; what it was to assign has an alloca.
Completes == stack' = Tail(stack) /\ FrameAdds(Top) \subseteq Have' /\ Have \subseteq Have'

\* What the kind of a frame tells of them.
LEMMA FrameFacts ==
    ASSUME NEW f
    PROVE  /\ f.kind = "stmt"  => FrameStmts(f) = {f.node} /\ FrameNeeds(f) = Needs[f.node]
           /\ f.kind = "expr"  => FrameStmts(f) = {} /\ FrameNeeds(f) = Uses[f.node]
           /\ f.kind = "lhs"   => FrameStmts(f) = {} /\ FrameNeeds(f) = Uses[f.node.rhs]
           /\ f.kind = "if"    => /\ FrameStmts(f) = Children(f.node)
                                  /\ FrameNeeds(f) = BranchNeeds(f.node.if_block, f.node.else_block)
           /\ f.kind = "endif" => /\ FrameStmts(f) = {f.else} \ {NULL}
                                  /\ FrameNeeds(f) = IF f.else = NULL THEN {} ELSE Needs[f.else]
           /\ f.kind = "while" => FrameStmts(f) = {f.node.block} /\ FrameNeeds(f) = Needs[f.node.block]
           /\ f.kind = "block" => FrameStmts(f) = ToSet(f.stmts) /\ FrameNeeds(f) = ListNeeds(f.stmts)
           /\ f.kind \in {"rhs", "store", "loop"} => FrameStmts(f) = {} /\ FrameNeeds(f) = {}
BY DEF FrameStmts, FrameNeeds

\* A list of statements is its first one and then the others.
LEMMA ListFacts ==
    ASSUME NEW ss \in Seq(Stmt), ss # <<>>
    PROVE  /\ Head(ss) \in Stmt /\ ToSet(ss) = {Head(ss)} \cup ToSet(Tail(ss))
           /\ Needs[Head(ss)] \subseteq ListNeeds(ss)
           /\ ListNeeds(Tail(ss)) \subseteq ListNeeds(ss) \cup Assigned[Head(ss)]
<1> DEFINE tt == Tail(ss)
           n == Len(ss)
<1>1. /\ Head(ss) = ss[1] /\ ss[1] \in Stmt /\ n \in Nat \ {0} /\ DOMAIN ss = 1 .. n
      /\ DOMAIN tt = 1 .. n - 1
      /\ \A i \in 1 .. n - 1 : tt[i] = ss[i + 1]
    BY PopFacts, LenProperties
<1> HIDE DEF tt, n
<1>2. ToSet(ss) = {Head(ss)} \cup ToSet(tt)
    <2>1. ASSUME NEW s \in ToSet(ss) PROVE s = Head(ss) \/ s \in ToSet(tt)
        <3>1. PICK i \in 1 .. n : s = ss[i]
            BY <1>1 DEF ToSet
        <3>2. CASE i = 1
            BY <1>1, <3>1, <3>2
        <3>3. CASE i # 1
            <4>1. i - 1 \in 1 .. n - 1 /\ tt[i - 1] = ss[(i - 1) + 1] /\ (i - 1) + 1 = i
                BY <1>1, <3>3
            <4> QED
                BY <1>1, <3>1, <4>1 DEF ToSet
        <3> QED
            BY <3>2, <3>3
    <2>2. ASSUME NEW s \in ToSet(tt) PROVE s \in ToSet(ss)
        <3>1. PICK i \in 1 .. n - 1 : s = tt[i]
            BY <1>1 DEF ToSet
        <3>2. s = ss[i + 1] /\ i + 1 \in 1 .. n
            BY <1>1, <3>1
        <3> QED
            BY <1>1, <3>2 DEF ToSet
    <2>3. Head(ss) \in ToSet(ss)
        BY <1>1 DEF ToSet
    <2> QED
        BY <2>1, <2>2, <2>3
<1>3. \A x, i : x \in AssignedBefore(ss, i) <=> \E j \in 1 .. i - 1 : x \in Assigned[ss[j]]
    BY DEF AssignedBefore
<1>4. \A x, i : x \in AssignedBefore(tt, i) <=> \E j \in 1 .. i - 1 : x \in Assigned[tt[j]]
    BY DEF AssignedBefore
<1>5. \A x : x \in ListNeeds(ss) <=> \E i \in 1 .. n : x \in Needs[ss[i]] /\ x \notin AssignedBefore(ss, i)
    BY <1>1 DEF ListNeeds
<1>6. \A x : x \in ListNeeds(tt) <=>
                \E i \in 1 .. n - 1 : x \in Needs[tt[i]] /\ x \notin AssignedBefore(tt, i)
    BY <1>1 DEF ListNeeds
<1>7. Needs[Head(ss)] \subseteq ListNeeds(ss)
    BY <1>1, <1>3, <1>5
<1>8. ASSUME NEW x \in ListNeeds(tt), x \notin Assigned[Head(ss)]
      PROVE  x \in ListNeeds(ss)
    <2>1. PICK i \in 1 .. n - 1 : x \in Needs[tt[i]] /\ x \notin AssignedBefore(tt, i)
        BY <1>6
    <2>2. i + 1 \in 1 .. n /\ x \in Needs[ss[i + 1]]
        BY <1>1, <2>1
    <2>3. ASSUME NEW j \in 1 .. (i + 1) - 1 PROVE x \notin Assigned[ss[j]]
        <3>1. CASE j = 1
            BY <1>1, <1>8, <3>1
        <3>2. CASE j # 1
            <4>1. j - 1 \in 1 .. i - 1 /\ j - 1 \in 1 .. n - 1 /\ (j - 1) + 1 = j
                BY <1>1, <2>1, <3>2
            <4> QED
                BY <1>1, <1>4, <2>1, <4>1
        <3> QED
            BY <3>1, <3>2
    <2> QED
        BY <1>3, <1>5, <2>2, <2>3
<1> QED
    BY <1>1, <1>2, <1>7, <1>8 DEF tt

\* Names that have an alloca keep it.
LEMMA HaveKept ==
    ASSUME symbols' = symbols
    PROVE  Have' = Have
BY DEF Have

LEMMA FrameAddsOf ==
    ASSUME NEW f
    PROVE  /\ FrameStmts(f) = {} => FrameAdds(f) = {}
           /\ \A s : FrameStmts(f) = {s} => FrameAdds(f) = Assigned[s]
BY DEF FrameAdds

\* If what a frame has left is divided among two, so is what it assigns.
LEMMA AddsDivided ==
    ASSUME NEW f, NEW k, NEW S, S \subseteq FrameStmts(f) \cup FrameStmts(k)
    PROVE  UNION {Assigned[s] : s \in S} \subseteq FrameAdds(f) \cup FrameAdds(k)
BY DEF FrameAdds

LEMMA ExprCalls ==
    ASSUME StackOK, GenLhs \/ GenRhs \/ GenIf \/ GenWhile
    PROVE  \E f, k : Call(f, k) /\ Divides(f, k)
<1>1. stack # <<>> /\ Have' = Have
    BY HaveKept DEF GenLhs, GenRhs, GenIf, GenWhile, AtExpr, AtStmt, At
<1>2. CASE GenLhs
    <2> DEFINE f == ExprFrame(Top.node.lhs)
               k == [kind |-> "lhs", node |-> Top.node]
    <2>1. Call(f, k) /\ Top.kind = "expr" /\ Top.node \in Expr /\ Top.node.type = "BINOP_EXPR"
        BY <1>1, <1>2, TopFacts DEF GenLhs, AtExpr, At
    <2>2. f.kind = "expr" /\ f.node = Top.node.lhs /\ k.kind = "lhs" /\ k.node = Top.node
        BY DEF ExprFrame
    <2> HIDE DEF f, k
    <2>3. FrameStmts(Top) = {} /\ FrameStmts(f) = {} /\ FrameStmts(k) = {} /\ FrameAdds(Top) = {}
        BY <2>1, <2>2, FrameFacts, FrameAddsOf
    <2>4. /\ FrameNeeds(Top) = Uses[Top.node.lhs] \cup Uses[Top.node.rhs]
          /\ FrameNeeds(f) = Uses[Top.node.lhs] /\ FrameNeeds(k) = Uses[Top.node.rhs]
        BY <2>1, <2>2, FrameFacts, ReadsFacts
    <2>5. Divides(f, k)
        BY <1>1, <2>1, <2>2, <2>3, <2>4 DEF Divides, IsLoopFrame
    <2> QED
        BY <2>1, <2>5
<1>3. CASE GenRhs
    <2> DEFINE f == ExprFrame(Top.node.rhs)
               k == [kind |-> "rhs", op |-> Top.node.op, l |-> ret]
    <2>1. Call(f, k) /\ Top.kind = "lhs"
        BY <1>3 DEF GenRhs, At
    <2>2. f.kind = "expr" /\ f.node = Top.node.rhs /\ k.kind = "rhs"
        BY DEF ExprFrame
    <2> HIDE DEF f, k
    <2>3. FrameStmts(Top) = {} /\ FrameStmts(f) = {} /\ FrameStmts(k) = {} /\ FrameAdds(Top) = {}
        BY <2>1, <2>2, FrameFacts, FrameAddsOf
    <2>4. FrameNeeds(Top) = Uses[Top.node.rhs] /\ FrameNeeds(f) = Uses[Top.node.rhs] /\ FrameNeeds(k) = {}
        BY <2>1, <2>2, FrameFacts
    <2>5. Divides(f, k)
        BY <1>1, <2>1, <2>2, <2>3, <2>4 DEF Divides, IsLoopFrame
    <2> QED
        BY <2>1, <2>5
<1>4. CASE GenIf
    <2> DEFINE f == ExprFrame(Top.node.condition)
               k == [kind |-> "if", node |-> Top.node]
    <2>1. Call(f, k) /\ Top.kind = "stmt" /\ Top.node \in Stmt /\ Top.node.type = "IF_STMT"
        BY <1>1, <1>4, TopFacts DEF GenIf, AtStmt, At
    <2>2. f.kind = "expr" /\ f.node = Top.node.condition /\ k.kind = "if" /\ k.node = Top.node
        BY DEF ExprFrame
    <2> HIDE DEF f, k
    <2>3. /\ FrameStmts(Top) = {Top.node} /\ FrameStmts(f) = {} /\ FrameStmts(k) = Children(Top.node)
          /\ FrameAdds(Top) = UNION {Assigned[c] : c \in Children(Top.node)}
        <3>1. FrameStmts(Top) = {Top.node} /\ FrameStmts(f) = {} /\ FrameStmts(k) = Children(Top.node)
            BY <2>1, <2>2, FrameFacts
        <3>2. FrameAdds(Top) = Assigned[Top.node]
            BY <3>1, FrameAddsOf
        <3> QED
            BY <2>1, <3>1, <3>2, ReadsFacts
    <2>4. /\ FrameNeeds(Top) = Uses[Top.node.condition] \cup FrameNeeds(k)
          /\ FrameNeeds(f) = Uses[Top.node.condition]
        BY <2>1, <2>2, FrameFacts, ReadsFacts
    <2>5. FrameAdds(Top) \subseteq FrameAdds(f) \cup FrameAdds(k)
        BY <2>3, AddsDivided
    <2>6. Divides(f, k)
        BY <1>1, <2>1, <2>2, <2>3, <2>4, <2>5 DEF Divides, Inside, IsLoopFrame
    <2> QED
        BY <2>1, <2>6
<1>5. CASE GenWhile
    <2>1. PICK f, k : /\ Call(f, k) /\ f.kind = "expr" /\ f.node = Top.node.condition
                      /\ k.kind = "while" /\ k.node = Top.node
        BY <1>5 DEF GenWhile, ExprFrame
    <2>2. Top.kind = "stmt" /\ Top.node \in Stmt /\ Top.node.type = "WHILE_STMT"
        BY <1>1, <1>5, TopFacts DEF GenWhile, AtStmt, At
    <2>3. Children(Top.node) = {Top.node.block}
        BY <2>2, ChildrenFacts
    <2>4. /\ FrameStmts(Top) = {Top.node} /\ FrameStmts(f) = {} /\ FrameStmts(k) = Children(Top.node)
          /\ FrameAdds(Top) = UNION {Assigned[c] : c \in Children(Top.node)}
        <3>1. FrameStmts(Top) = {Top.node} /\ FrameStmts(f) = {} /\ FrameStmts(k) = Children(Top.node)
            BY <2>1, <2>2, <2>3, FrameFacts
        <3>2. FrameAdds(Top) = Assigned[Top.node]
            BY <3>1, FrameAddsOf
        <3> QED
            BY <2>2, <3>1, <3>2, ReadsFacts
    <2>5. /\ FrameNeeds(Top) = Uses[Top.node.condition] \cup FrameNeeds(k)
          /\ FrameNeeds(f) = Uses[Top.node.condition]
        BY <2>1, <2>2, FrameFacts, ReadsFacts
    <2>6. FrameAdds(Top) \subseteq FrameAdds(f) \cup FrameAdds(k)
        BY <2>4, AddsDivided
    <2>7. Divides(f, k)
        BY <1>1, <2>1, <2>2, <2>4, <2>5, <2>6 DEF Divides, Inside, IsLoopFrame
    <2> QED
        BY <2>1, <2>7
<1> QED
    BY <1>2, <1>3, <1>4, <1>5

\* An assignment gives its name an alloca before it reads its right-hand side.
LEMMA AssignCall ==
    ASSUME StackOK, DataOK, GenAssign
    PROVE  \E f, k : Call(f, k) /\ Divides(f, k)
<1> DEFINE x == Top.node.lhs
           ptr == IF symbols[x] = NULL THEN Here ELSE symbols[x]
           f == ExprFrame(Top.node.rhs)
           k == [kind |-> "store", ptr |-> ptr]
<1>1. /\ stack # <<>> /\ Call(f, k) /\ Top.kind = "stmt"
      /\ Top.node \in Stmt /\ Top.node.type = "ASSIGN_STMT" /\ x \in Var
      /\ symbols' = [symbols EXCEPT ![x] = ptr]
    BY TopFacts, NodeFacts DEF GenAssign, AtStmt, At
<1>2. ptr # NULL
    BY HereFact, BuilderAssumption DEF DataOK
<1>3. f.kind = "expr" /\ f.node = Top.node.rhs /\ k.kind = "store"
    BY DEF ExprFrame
<1> HIDE DEF f, k, ptr
<1>4. Have' = Have \cup {x}
    BY <1>1, <1>2 DEF Have, DataOK
<1>5. FrameStmts(Top) = {Top.node} /\ FrameStmts(f) = {} /\ FrameStmts(k) = {}
    BY <1>1, <1>3, FrameFacts
<1>6. FrameAdds(Top) = {x}
    <2>1. FrameAdds(Top) = Assigned[Top.node]
        BY <1>5, FrameAddsOf
    <2> QED
        BY <1>1, <2>1, ReadsFacts
<1>7. FrameNeeds(Top) = Uses[Top.node.rhs] /\ FrameNeeds(f) = Uses[Top.node.rhs] /\ FrameNeeds(k) = {}
    BY <1>1, <1>3, FrameFacts, ReadsFacts
<1>8. Divides(f, k)
    BY <1>1, <1>3, <1>4, <1>5, <1>6, <1>7 DEF Divides, IsLoopFrame
<1> QED
    BY <1>1, <1>8

\* Calls for the parts of an if or a loop, and for the first statement of a list.
LEMMA StmtCalls ==
    ASSUME StackOK, BuildIf \/ GenElse \/ BuildWhile \/ NextStmt
    PROVE  \E f, k : Call(f, k) /\ Divides(f, k)
<1>1. stack # <<>> /\ Have' = Have
    BY HaveKept DEF BuildIf, GenElse, BuildWhile, NextStmt, At
<1>2. ASSUME NEW f, NEW k, Call(f, k), Top.kind \in {"if", "endif", "while", "block"},
             FrameStmts(Top) = FrameStmts(f) \cup FrameStmts(k),
             FrameNeeds(f) \subseteq FrameNeeds(Top),
             FrameNeeds(k) \subseteq FrameNeeds(Top) \cup FrameAdds(f),
             Top.kind = "while" => k.kind = "loop"
      PROVE  Divides(f, k)
    <2>1. FrameAdds(Top) = UNION {Assigned[s] : s \in FrameStmts(Top)}
        BY DEF FrameAdds
    <2>2. FrameAdds(Top) \subseteq FrameAdds(f) \cup FrameAdds(k)
        BY <1>2, <2>1, AddsDivided
    <2> QED
        BY <1>1, <1>2, <2>2 DEF Divides, Inside, IsLoopFrame
<1>3. CASE BuildIf
    <2> DEFINE s == Top.node.if_block
               t == Top.node.else_block
    <2>1. PICK f, k : Call(f, k) /\ f.kind = "stmt" /\ f.node = s /\ k.kind = "endif" /\ k.else = t
        BY <1>3 DEF BuildIf, StmtFrame
    <2>2. Top.kind = "if" /\ Top.node \in Stmt /\ Top.node.type = "IF_STMT" /\ s \in Stmt
        BY <1>1, <1>3, TopFacts, NodeFacts DEF BuildIf, At
    <2>3. /\ FrameStmts(Top) = {s, t} \ {NULL} /\ FrameStmts(f) = {s} /\ FrameStmts(k) = {t} \ {NULL}
          /\ FrameNeeds(Top) = BranchNeeds(s, t) /\ FrameNeeds(f) = Needs[s]
          /\ FrameNeeds(k) = IF t = NULL THEN {} ELSE Needs[t]
        BY <2>1, <2>2, FrameFacts, ChildrenFacts
    <2>4. FrameAdds(f) = Assigned[s]
        BY <2>3, FrameAddsOf
    <2>5. FrameStmts(Top) = FrameStmts(f) \cup FrameStmts(k)
        BY <2>2, <2>3, NullAssumption
    <2>6. FrameNeeds(f) \subseteq FrameNeeds(Top) /\ FrameNeeds(k) \subseteq FrameNeeds(Top) \cup FrameAdds(f)
        BY <2>3, <2>4 DEF BranchNeeds
    <2>7. Divides(f, k)
        BY <1>2, <2>1, <2>2, <2>5, <2>6
    <2> QED
        BY <2>1, <2>7
<1>4. CASE GenElse
    <2> DEFINE f == StmtFrame(Top.else)
               k == [Top EXCEPT !.else = NULL, !.else_bb = NULL]
    <2>1. Top.kind = "endif" /\ Top.else # NULL /\ Call(f, k)
        BY <1>4 DEF GenElse, At
    <2>2. Top = [kind |-> "endif", else |-> Top.else, else_bb |-> Top.else_bb, cont |-> Top.cont]
        BY <1>1, <2>1, TopFacts
    <2>3. f.kind = "stmt" /\ f.node = Top.else /\ k.kind = "endif" /\ k.else = NULL
        BY <2>2 DEF StmtFrame
    <2> HIDE DEF f, k
    <2>4. /\ FrameStmts(Top) = {Top.else} \ {NULL} /\ FrameStmts(f) = {Top.else}
          /\ FrameStmts(k) = {NULL} \ {NULL}
          /\ FrameNeeds(Top) = Needs[Top.else] /\ FrameNeeds(f) = Needs[Top.else] /\ FrameNeeds(k) = {}
        BY <2>1, <2>3, FrameFacts
    <2>5. Divides(f, k)
        BY <1>2, <2>1, <2>4
    <2> QED
        BY <2>1, <2>5
<1>5. CASE BuildWhile
    <2>1. PICK f, k : Call(f, k) /\ f.kind = "stmt" /\ f.node = Top.node.block /\ k.kind = "loop"
        BY <1>5 DEF BuildWhile, StmtFrame
    <2>2. Top.kind = "while"
        BY <1>5 DEF BuildWhile, At
    <2>3. /\ FrameStmts(Top) = {Top.node.block} /\ FrameStmts(f) = {Top.node.block} /\ FrameStmts(k) = {}
          /\ FrameNeeds(Top) = Needs[Top.node.block] /\ FrameNeeds(f) = Needs[Top.node.block]
          /\ FrameNeeds(k) = {}
        BY <2>1, <2>2, FrameFacts
    <2>4. Divides(f, k)
        BY <1>2, <2>1, <2>2, <2>3
    <2> QED
        BY <2>1, <2>4
<1>6. CASE NextStmt
    <2> DEFINE ss == Top.stmts
               f == StmtFrame(Head(ss))
               k == [Top EXCEPT !.stmts = Tail(@)]
    <2>1. Top.kind = "block" /\ ss \in Seq(Stmt) /\ ss # <<>> /\ Call(f, k)
        BY <1>1, <1>6, TopFacts DEF NextStmt, At
    <2>2. Top \in [kind : {"block"}, stmts : Seq(Stmt)]
        BY <1>1, <2>1, TopFacts DEF Frame, EndIfFrame, WhileFrame
    <2>3. f.kind = "stmt" /\ f.node = Head(ss) /\ k.kind = "block" /\ k.stmts = Tail(ss)
        BY <2>2 DEF StmtFrame
    <2> HIDE DEF f, k
    <2>4. /\ FrameStmts(Top) = ToSet(ss) /\ FrameStmts(f) = {Head(ss)} /\ FrameStmts(k) = ToSet(Tail(ss))
          /\ FrameNeeds(Top) = ListNeeds(ss) /\ FrameNeeds(f) = Needs[Head(ss)]
          /\ FrameNeeds(k) = ListNeeds(Tail(ss))
        BY <2>1, <2>3, FrameFacts
    <2>5. FrameAdds(f) = Assigned[Head(ss)]
        BY <2>4, FrameAddsOf
    <2>6. /\ FrameStmts(Top) = FrameStmts(f) \cup FrameStmts(k)
          /\ FrameNeeds(f) \subseteq FrameNeeds(Top)
          /\ FrameNeeds(k) \subseteq FrameNeeds(Top) \cup FrameAdds(f)
        BY <2>1, <2>4, <2>5, ListFacts
    <2>7. Divides(f, k)
        BY <1>2, <2>1, <2>6
    <2> QED
        BY <2>1, <2>7
<1> QED
    BY <1>3, <1>4, <1>5, <1>6

\* Functions that return have assigned what they were to assign.
LEMMA Returns ==
    ASSUME StackOK, GenId \/ GenConst \/ BuildOp \/ BuildStore \/ GenBreak \/ EndIf \/ EndWhile \/ EndBlock
    PROVE  stack # <<>> /\ Completes
<1>1. /\ stack # <<>> /\ stack' = Tail(stack) /\ symbols' = symbols
      /\ \/ Top.kind \in {"expr", "rhs", "store", "loop"}
         \/ Top.kind = "stmt" /\ Top.node.type = "BREAK_STMT"
         \/ Top.kind = "endif" /\ Top.else = NULL
         \/ Top.kind = "block" /\ Top.stmts = <<>>
    BY DEF GenId, GenConst, BuildOp, BuildStore, GenBreak, EndIf, EndWhile, EndBlock, AtExpr, AtStmt, At
<1>2. FrameAdds(Top) = {}
    <2>1. CASE Top.kind \in {"expr", "rhs", "store", "loop"}
        BY <2>1, FrameFacts, FrameAddsOf
    <2>2. CASE Top.kind = "stmt" /\ Top.node.type = "BREAK_STMT"
        <3>1. FrameStmts(Top) = {Top.node} /\ Top.node \in Stmt
            BY <1>1, <2>2, FrameFacts, TopFacts
        <3>2. FrameAdds(Top) = Assigned[Top.node]
            BY <3>1, FrameAddsOf
        <3>3. Children(Top.node) = {}
            BY <2>2, <3>1, ChildrenFacts
        <3>4. Assigned[Top.node] = UNION {Assigned[c] : c \in Children(Top.node)}
            BY <2>2, <3>1, ReadsFacts
        <3> QED
            BY <3>2, <3>3, <3>4
    <2>3. CASE Top.kind = "endif" /\ Top.else = NULL
        BY <2>3, FrameFacts, FrameAddsOf
    <2>4. CASE Top.kind = "block" /\ Top.stmts = <<>>
        <3>1. ToSet(<<>>) = {}
            BY DEF ToSet
        <3> QED
            BY <2>4, <3>1, FrameFacts, FrameAddsOf
    <2> QED
        BY <1>1, <2>1, <2>2, <2>3, <2>4
<1> QED
    BY <1>1, <1>2, HaveKept DEF Completes

\* gen_stmt on a block goes on as a loop over its statements.
LEMMA Opens ==
    ASSUME StackOK, GenBlock
    PROVE  \E f : /\ stack # <<>> /\ Len(stack') = Len(stack) /\ stack'[1] = f
                  /\ stack' \in Seq(Frame) /\ \A i \in 2 .. Len(stack) : stack'[i] = stack[i]
                  /\ FrameStmts(f) = Inside(Top) /\ FrameNeeds(f) = FrameNeeds(Top)
                  /\ FrameAdds(f) = FrameAdds(Top) /\ Have' = Have
                  /\ ~IsLoopFrame(Top) /\ ~IsLoopFrame(f)
                  /\ Top.kind = "stmt" /\ Top.node.type = "BLOCK"
<1> DEFINE f == [kind |-> "block", stmts |-> Top.node.stmts]
<1>1. /\ stack # <<>> /\ Top.kind = "stmt" /\ Top.node \in Stmt /\ Top.node.type = "BLOCK"
      /\ stack' = Cons(f, Tail(stack)) /\ Have' = Have
    BY TopFacts, HaveKept DEF GenBlock, AtStmt, At
<1>2. f \in Frame
    BY <1>1, NodeFacts DEF Frame
<1>3. f.kind = "block" /\ f.stmts = Top.node.stmts
    OBVIOUS
<1> HIDE DEF f
<1>4. /\ StackOK' /\ Len(stack') = Len(stack) /\ stack'[1] = f
      /\ \A i \in 2 .. Len(stack) : stack'[i] = stack[i]
    BY <1>1, <1>2, <1>3, ReplaceFacts DEF AwaitsValue, IsExprFrame
<1>5. Children(Top.node) = ToSet(Top.node.stmts)
    BY <1>1, ChildrenFacts
<1>6. FrameStmts(f) = Children(Top.node) /\ FrameStmts(Top) = {Top.node}
    BY <1>1, <1>3, <1>5, FrameFacts
<1>7. FrameNeeds(f) = FrameNeeds(Top)
    BY <1>1, <1>3, FrameFacts, ReadsFacts
<1>8. FrameAdds(f) = FrameAdds(Top)
    <2>1. FrameAdds(Top) = Assigned[Top.node]
        BY <1>6, FrameAddsOf
    <2>2. FrameAdds(f) = UNION {Assigned[c] : c \in Children(Top.node)}
        BY <1>6 DEF FrameAdds
    <2> QED
        BY <1>1, <2>1, <2>2, ReadsFacts
<1> QED
    BY <1>1, <1>3, <1>4, <1>6, <1>7, <1>8 DEF Inside, IsLoopFrame, StackOK

-----------------------------------------------------------------------------
(* The invariants on the frames *)

\* The frames under the top one move by d; those put on top read what the top one
\* did, or what comes before them, and assign no less.
LEMMA ScopeStep ==
    ASSUME ScopeInv, NEW n \in Nat \ {0}, NEW d \in {-1, 0, 1},
           DOMAIN stack = 1 .. n, DOMAIN stack' = 1 .. n + d,
           \A i \in 2 .. n : stack'[i + d] = stack[i], Have \subseteq Have',
           \A i \in 1 .. 1 + d : \A x \in FrameNeeds(stack'[i]) :
               x \in FrameNeeds(stack[1]) \/ \E j \in 1 .. i - 1 : x \in FrameAdds(stack'[j]),
           \A x \in FrameAdds(stack[1]) :
               x \in Have' \/ \E j \in 1 .. 1 + d : x \in FrameAdds(stack'[j])
    PROVE  ScopeInv'
<1>1. (\A i \in DOMAIN stack' : \A x \in FrameNeeds(stack'[i]) :
          x \in Have' \/ \E j \in 1 .. i - 1 : x \in FrameAdds(stack'[j]))
      => ScopeInv'
    BY DEF ScopeInv, IsSeen, FrameNeeds, FrameAdds, FrameStmts, BranchNeeds, ListNeeds, AssignedBefore, Children
<1> SUFFICES ASSUME NEW i \in 1 .. n + d, NEW x \in FrameNeeds(stack'[i])
             PROVE  x \in Have' \/ \E j \in 1 .. i - 1 : x \in FrameAdds(stack'[j])
    BY <1>1
<1>2. \A x_1 \in FrameNeeds(stack[1]) : x_1 \in Have
    BY DEF ScopeInv, IsSeen
<1>3. CASE i \in 1 .. 1 + d
    BY <1>2, <1>3
<1>4. CASE i \notin 1 .. 1 + d
    <2>1. i - d \in 2 .. n /\ (i - d) + d = i
        BY <1>4
    <2>2. stack'[i] = stack[i - d]
        BY <2>1
    <2>3. x \in Have \/ \E j \in 1 .. (i - d) - 1 : x \in FrameAdds(stack[j])
        BY <2>1, <2>2 DEF ScopeInv, IsSeen
    <2>4. ASSUME NEW j \in 1 .. (i - d) - 1, x \in FrameAdds(stack[j])
          PROVE  x \in Have' \/ \E k \in 1 .. i - 1 : x \in FrameAdds(stack'[k])
        <3>1. CASE j = 1
            <4>1. 1 .. 1 + d \subseteq 1 .. i - 1
                BY <1>4
            <4> QED
                BY <2>4, <3>1, <4>1
        <3>2. CASE j # 1
            <4>1. j \in 2 .. n /\ j + d \in 1 .. i - 1
                BY <2>1, <3>2
            <4> QED
                BY <2>4, <4>1
        <3> QED
            BY <3>1, <3>2
    <2> QED
        BY <2>3, <2>4
<1> QED
    BY <1>3, <1>4

\* f is not of a loop and does not begin one.
OutsideLoop(f) == ~IsLoopFrame(f) /\ (f.kind = "stmt" => f.node.type # "WHILE_STMT")

\* What the steps of gen_expr and gen_stmt do to the frames: those under the top one
\* move by d, and those put in its place have its statements left.
FrameStep(n, d) ==
    /\ DOMAIN stack = 1 .. n /\ DOMAIN stack' = 1 .. n + d
    /\ \A i \in 2 .. n : stack'[i + d] = stack[i]
    /\ Have \subseteq Have'
    /\ \A i \in 1 .. 1 + d : FrameStmts(stack'[i]) \subseteq Inside(stack[1])
    /\ \A i \in 1 .. 1 + d : \A x \in FrameNeeds(stack'[i]) :
          x \in FrameNeeds(stack[1]) \/ \E j \in 1 .. i - 1 : x \in FrameAdds(stack'[j])
    /\ \A x \in FrameAdds(stack[1]) :
          x \in Have' \/ \E j \in 1 .. 1 + d : x \in FrameAdds(stack'[j])
    /\ d # -1 => (~IsLoopFrame(stack'[1 + d]) => OutsideLoop(stack[1]))

LEMMA ReturnIsStep ==
    ASSUME StackOK, stack # <<>>, Completes
    PROVE  \E n \in Nat \ {0}, d \in {-1, 0, 1} : FrameStep(n, d)
<1> DEFINE n == Len(stack)
           d == -1
<1>1. /\ Top = stack[1] /\ n \in Nat \ {0} /\ DOMAIN stack = 1 .. n
      /\ DOMAIN stack' = 1 .. n + d
      /\ \A i \in 2 .. n : stack'[i + d] = stack[i]
    BY ReturnMoves DEF Completes
<1>2. 1 .. 1 + d = {} /\ d \in {-1, 0, 1} /\ d = -1
    OBVIOUS
<1> HIDE DEF n, d
<1>3. FrameStep(n, d)
    BY <1>1, <1>2 DEF FrameStep, Completes
<1> QED
    BY <1>1, <1>2, <1>3

LEMMA CallIsStep ==
    ASSUME StackOK, stack # <<>>, NEW f, NEW k, Call(f, k), Divides(f, k)
    PROVE  \E n \in Nat \ {0}, d \in {-1, 0, 1} : FrameStep(n, d)
<1> DEFINE n == Len(stack)
           d == 1
<1>1. /\ Top = stack[1] /\ n \in Nat \ {0} /\ DOMAIN stack = 1 .. n
      /\ DOMAIN stack' = 1 .. n + d
      /\ stack'[1] = f /\ stack'[2] = k
      /\ \A i \in 2 .. n : stack'[i + d] = stack[i]
    BY CallMoves
<1>2. 1 .. 1 + d = {1, 2} /\ d \in {-1, 0, 1} /\ 1 + d = 2 /\ 1 .. 2 - 1 = {1}
    OBVIOUS
<1> HIDE DEF n, d
<1>3. ASSUME NEW i \in 1 .. 1 + d, NEW x \in FrameNeeds(stack'[i])
      PROVE  x \in FrameNeeds(stack[1]) \/ \E j \in 1 .. i - 1 : x \in FrameAdds(stack'[j])
    BY <1>1, <1>2, <1>3 DEF Divides
<1>4. FrameStep(n, d)
    BY <1>1, <1>2, <1>3 DEF FrameStep, Divides, OutsideLoop
<1> QED
    BY <1>1, <1>2, <1>4

LEMMA StackSteps ==
    ASSUME StackOK, DataOK, GenExprStep \/ GenStmtStep
    PROVE  stack # <<>> /\ \E n \in Nat \ {0}, d \in {-1, 0, 1} : FrameStep(n, d)
<1>1. CASE GenId \/ GenConst \/ BuildOp \/ BuildStore \/ GenBreak \/ EndIf \/ EndWhile \/ EndBlock
    BY <1>1, Returns, ReturnIsStep
<1>2. CASE \/ GenLhs \/ GenRhs \/ GenIf \/ GenWhile \/ GenAssign
           \/ BuildIf \/ GenElse \/ BuildWhile \/ NextStmt
    <2>1. stack # <<>>
        BY <1>2 DEF GenLhs, GenRhs, GenIf, GenWhile, GenAssign, BuildIf, GenElse, BuildWhile, NextStmt,
                    AtExpr, AtStmt, At
    <2>2. PICK f, k : Call(f, k) /\ Divides(f, k)
        BY <1>2, ExprCalls, AssignCall, StmtCalls
    <2> QED
        BY <2>1, <2>2, CallIsStep
<1>3. CASE GenBlock
    <2> DEFINE n == Len(stack)
               d == 0
    <2>1. PICK f : /\ stack # <<>> /\ Len(stack') = n /\ stack'[1] = f
                   /\ stack' \in Seq(Frame) /\ \A i \in 2 .. n : stack'[i] = stack[i]
                   /\ FrameStmts(f) = Inside(Top) /\ FrameNeeds(f) = FrameNeeds(Top)
                   /\ FrameAdds(f) = FrameAdds(Top) /\ Have' = Have
                   /\ ~IsLoopFrame(Top) /\ ~IsLoopFrame(f)
                   /\ Top.kind = "stmt" /\ Top.node.type = "BLOCK"
        BY <1>3, Opens
    <2>2. /\ Top = stack[1] /\ n \in Nat \ {0} /\ DOMAIN stack = 1 .. n
        BY <2>1, PopFacts, LenProperties DEF StackOK, Top
    <2>3. DOMAIN stack' = 1 .. n
        BY <2>1, LenProperties
    <2>4. 1 .. 1 + d = {1} /\ d \in {-1, 0, 1} /\ 1 + d = 1 /\ n + d = n /\ \A i \in 2 .. n : i + d = i
        BY <2>2
    <2> HIDE DEF n, d
    <2>5. FrameStep(n, d)
        BY <2>1, <2>2, <2>3, <2>4 DEF FrameStep, OutsideLoop
    <2> QED
        BY <2>1, <2>2, <2>4, <2>5
<1> QED
    BY <1>1, <1>2, <1>3 DEF GenExprStep, GenStmtStep

LEMMA ScopeKept ==
    ASSUME ScopeInv, NEW n \in Nat \ {0}, NEW d \in {-1, 0, 1}, FrameStep(n, d)
    PROVE  ScopeInv'
BY ScopeStep DEF FrameStep

\* A frame that stays is in as many loops as before.
LEMMA LoopsKept ==
    ASSUME NEW n \in Nat \ {0}, NEW d \in {-1, 0, 1}, FrameStep(n, d),
           NEW i \in DOMAIN stack', i > 1 + d, NoLoopFrom(stack', i)
    PROVE  i - d \in 2 .. n /\ stack'[i] = stack[i - d] /\ NoLoopFrom(stack, i - d)
<1>1. i - d \in 2 .. n /\ (i - d) + d = i
    BY DEF FrameStep
<1>2. stack'[i] = stack[i - d]
    BY <1>1 DEF FrameStep
<1>3. ASSUME NEW j \in DOMAIN stack, j >= i - d PROVE ~IsLoopFrame(stack[j])
    <2>1. j \in 2 .. n /\ j + d \in DOMAIN stack' /\ j + d >= i
        BY <1>1, <1>3 DEF FrameStep
    <2>2. stack'[j + d] = stack[j]
        BY <2>1 DEF FrameStep
    <2> QED
        BY <2>1, <2>2 DEF NoLoopFrom
<1> QED
    BY <1>1, <1>2, <1>3 DEF NoLoopFrom

LEMMA BreaksKept ==
    ASSUME BreakInv, StackOK, stack # <<>>,
           NEW n \in Nat \ {0}, NEW d \in {-1, 0, 1}, FrameStep(n, d)
    PROVE  BreakInv'
<1>1. (\A i \in DOMAIN stack' : NoLoopFrom(stack', i) => AllBreaksInLoops(FrameStmts(stack'[i])))
      => BreakInv'
    BY DEF BreakInv, NoLoopFrom, IsLoopFrame, AllBreaksInLoops, FrameStmts, Children
<1> SUFFICES ASSUME NEW i \in DOMAIN stack', NoLoopFrom(stack', i)
             PROVE  AllBreaksInLoops(FrameStmts(stack'[i]))
    BY <1>1
<1>2. Top = stack[1] /\ 1 \in DOMAIN stack
    BY PopFacts, LenProperties DEF StackOK, Top
<1>3. CASE i > 1 + d
    <2>1. i - d \in 2 .. n /\ stack'[i] = stack[i - d] /\ NoLoopFrom(stack, i - d)
        BY <1>3, LoopsKept
    <2>2. i - d \in DOMAIN stack
        BY <2>1 DEF FrameStep
    <2> QED
        BY <2>1, <2>2 DEF BreakInv
<1>4. CASE ~(i > 1 + d)
    <2>1. d # -1 /\ i \in 1 .. 1 + d /\ 1 + d \in DOMAIN stack' /\ 1 + d >= i
        BY <1>4 DEF FrameStep
    <2>2. OutsideLoop(Top)
        BY <1>2, <2>1 DEF FrameStep, NoLoopFrom
    <2>3. NoLoopFrom(stack, 1)
        <3> SUFFICES ASSUME NEW j \in DOMAIN stack PROVE ~IsLoopFrame(stack[j])
            BY DEF NoLoopFrom
        <3>1. CASE j = 1
            BY <1>2, <2>2, <3>1 DEF OutsideLoop
        <3>2. CASE j # 1
            <4>1. j \in 2 .. n /\ j + d \in DOMAIN stack' /\ j + d >= i
                BY <2>1, <3>2 DEF FrameStep
            <4>2. stack'[j + d] = stack[j]
                BY <4>1 DEF FrameStep
            <4> QED
                BY <4>1, <4>2 DEF NoLoopFrom
        <3> QED
            BY <3>1, <3>2
    <2>4. AllBreaksInLoops(FrameStmts(Top))
        BY <1>2, <2>3 DEF BreakInv
    <2>5. AllBreaksInLoops(Inside(Top))
        <3>1. CASE Top.kind = "stmt"
            <4>1. BreaksInLoops[Top.node] /\ Top.node \in Stmt /\ Top.node.type # "WHILE_STMT"
                BY <2>2, <2>4, <3>1, FrameFacts, TopFacts DEF AllBreaksInLoops, OutsideLoop
            <4> QED
                BY <3>1, <4>1, BreakFacts DEF Inside
        <3>2. CASE Top.kind # "stmt"
            BY <2>4, <3>2 DEF Inside
        <3> QED
            BY <3>1, <3>2
    <2>6. FrameStmts(stack'[i]) \subseteq Inside(Top)
        BY <1>2, <2>1 DEF FrameStep
    <2> QED
        BY <2>5, <2>6 DEF AllBreaksInLoops
<1> QED
    BY <1>2, <1>3, <1>4

\* No statement of a program without breaks is one.
LEMMA NoBreakKept ==
    ASSUME NoBreakLeft, StackOK, stack # <<>>,
           NEW n \in Nat \ {0}, NEW d \in {-1, 0, 1}, FrameStep(n, d)
    PROVE  NoBreakLeft'
<1>1. (\A i \in DOMAIN stack' : AllBreakFree(FrameStmts(stack'[i]))) => NoBreakLeft'
    BY DEF NoBreakLeft, AllBreakFree, FrameStmts, Children
<1> SUFFICES ASSUME NEW i \in DOMAIN stack' PROVE AllBreakFree(FrameStmts(stack'[i]))
    BY <1>1
<1>2. Top = stack[1] /\ 1 \in DOMAIN stack
    BY PopFacts, LenProperties DEF StackOK, Top
<1>3. CASE i > 1 + d
    <2>1. i - d \in 2 .. n /\ (i - d) + d = i
        BY <1>3 DEF FrameStep
    <2>2. i - d \in DOMAIN stack /\ stack'[i] = stack[i - d]
        BY <2>1 DEF FrameStep
    <2> QED
        BY <2>2 DEF NoBreakLeft
<1>4. CASE ~(i > 1 + d)
    <2>1. i \in 1 .. 1 + d
        BY <1>4 DEF FrameStep
    <2>2. AllBreakFree(FrameStmts(Top))
        BY <1>2 DEF NoBreakLeft
    <2>3. AllBreakFree(Inside(Top))
        <3>1. CASE Top.kind = "stmt"
            <4>1. BreakFree[Top.node] /\ Top.node \in Stmt
                BY <2>2, <3>1, FrameFacts, TopFacts DEF AllBreakFree
            <4> QED
                BY <3>1, <4>1, BreakFacts DEF Inside
        <3>2. CASE Top.kind # "stmt"
            BY <2>2, <3>2 DEF Inside
        <3> QED
            BY <3>1, <3>2
    <2>4. FrameStmts(stack'[i]) \subseteq Inside(Top)
        BY <1>2, <2>1 DEF FrameStep
    <2> QED
        BY <2>3, <2>4 DEF AllBreakFree
<1> QED
    BY <1>3, <1>4

-----------------------------------------------------------------------------
(* What a step does to the blocks *)

\* ins is appended to the current block, and empty blocks to the function.
Grows(ins) ==
    /\ DOMAIN blocks \subseteq DOMAIN blocks'
    /\ \A b \in DOMAIN blocks : b # cur => blocks'[b] = blocks[b]
    /\ \A b \in DOMAIN blocks' : b \notin DOMAIN blocks => blocks'[b] = <<>>
    /\ blocks'[cur] = Append(blocks[cur], ins)

\* The builder is about to be given a null pointer.
NullGiven ==
    \/ AtExpr("ID_EXPR") /\ symbols[Top.node.id] = NULL
    \/ AtStmt("BREAK_STMT") /\ break_target = NULL

\* But for a break, a terminator is followed by a move to an empty block.
BlockStep ==
    \/ blocks' = blocks /\ cur' = cur
    \/ \E ins \in Instr :
         /\ Grows(ins)
         /\ HasNull(ins) => NullGiven
         /\ IF IsTerminator(ins) /\ ~AtStmt("BREAK_STMT")
            THEN cur' # cur /\ cur' \in DOMAIN blocks' /\ blocks'[cur'] = <<>>
            ELSE cur' = cur

LEMMA EmitGrows ==
    ASSUME DataOK, NEW ins \in Instr, blocks' = Emit(ins)
    PROVE  Grows(ins) /\ DOMAIN blocks' = DOMAIN blocks
<1>1. /\ DOMAIN blocks' = DOMAIN blocks /\ blocks'[cur] = Append(blocks[cur], ins)
      /\ \A b \in DOMAIN blocks : b # cur => blocks'[b] = blocks[b]
    BY EmitFacts DEF DataOK
<1> QED
    BY <1>1 DEF Grows

LEMMA BranchGrows ==
    ASSUME DataOK, NEW ins \in Instr, NEW n \in {2, 3}, blocks' = Emit(ins) \o NewBlocks(n)
    PROVE  /\ Grows(ins) /\ Len(blocks) + 1 \in DOMAIN blocks'
           /\ blocks'[Len(blocks) + 1] = <<>> /\ Len(blocks) + 1 # cur
<1> DEFINE B == Emit(ins)
           N == Len(blocks)
<1>1. /\ B \in Seq(Seq(Instr)) /\ Len(B) = N /\ N \in Nat \ {0}
      /\ DOMAIN blocks = 1 .. N /\ B[cur] = Append(blocks[cur], ins) /\ cur \in 1 .. N
      /\ \A b \in 1 .. N : b # cur => B[b] = blocks[b]
    BY EmitFacts DEF DataOK
<1> HIDE DEF B, N
<1>2. /\ blocks' \in Seq(Seq(Instr)) /\ Len(blocks') = Len(B) + n
      /\ \A b \in 1 .. Len(B) : blocks'[b] = B[b]
      /\ \A b \in Len(B) + 1 .. Len(B) + n : blocks'[b] = <<>>
    BY <1>1, NewBlocksFacts DEF B
<1>3. DOMAIN blocks' = 1 .. N + n
    BY <1>1, <1>2, LenProperties
<1>4. \A b \in 1 .. N + n : b \notin 1 .. N => b \in N + 1 .. N + n
    BY <1>1
<1>5. Grows(ins)
    <2>1. DOMAIN blocks \subseteq DOMAIN blocks'
        BY <1>1, <1>3
    <2>2. ASSUME NEW b \in DOMAIN blocks', b \notin DOMAIN blocks PROVE blocks'[b] = <<>>
        BY <1>1, <1>2, <1>3, <1>4, <2>2
    <2>3. blocks'[cur] = Append(blocks[cur], ins)
        BY <1>1, <1>2
    <2> QED
        BY <1>1, <1>2, <2>1, <2>2, <2>3 DEF Grows
<1>6. N + 1 \in 1 .. N + n /\ N + 1 \in N + 1 .. N + n /\ N + 1 # cur
    BY <1>1
<1> QED
    BY <1>1, <1>2, <1>3, <1>5, <1>6 DEF N

\* The block that the frame on top owes is an empty one.
LEMMA OwedIsEmpty ==
    ASSUME IInv, stack # <<>>, NEW b \in Owed(Top)
    PROVE  b # cur /\ b \in DOMAIN blocks /\ blocks[b] = <<>>
<1>1. Top = stack[1] /\ 1 \in DOMAIN stack
    BY TypeParts, PopFacts, LenProperties DEF IInv, StackOK, Top
<1> QED
    BY <1>1 DEF IInv, BlocksFilledOnce

LEMMA StraightBlocks ==
    ASSUME IInv, \/ GenExprStep
                 \/ GenAssign \/ BuildStore \/ GenIf \/ GenBreak \/ GenBlock \/ NextStmt \/ EndBlock
    PROVE  BlockStep
<1>1. StackOK /\ DataOK
    BY TypeParts DEF IInv
<1>2. Here \in InstVals
    BY <1>1, HereFact DEF DataOK
<1>3. CASE GenConst \/ GenLhs \/ GenRhs \/ GenIf \/ GenBlock \/ NextStmt \/ EndBlock
    BY <1>3 DEF GenConst, GenLhs, GenRhs, GenIf, GenBlock, NextStmt, EndBlock, BlockStep
<1>4. CASE GenId
    <2> DEFINE ins == Load(symbols[Top.node.id])
    <2>1. /\ AtExpr("ID_EXPR") /\ stack # <<>> /\ Top.kind = "expr" /\ Top.node.type = "ID_EXPR"
          /\ blocks' = Emit(ins) /\ cur' = cur
        BY <1>4 DEF GenId, AtExpr, At
    <2>2. Top.node.id \in Var
        BY <1>1, <2>1, TopFacts, NodeFacts
    <2>3. ins \in Instr /\ ~IsTerminator(ins) /\ (HasNull(ins) => symbols[Top.node.id] = NULL)
        BY <1>1, <2>2 DEF Load, Instr, IsTerminator, HasNull, DataOK
    <2> HIDE DEF ins
    <2> QED
        BY <1>1, <2>1, <2>3, EmitGrows DEF BlockStep, NullGiven
<1>5. CASE BuildOp
    <2>1. CASE Top.l.kind = "const" /\ ret.kind = "const"
        BY <1>5, <2>1 DEF BuildOp, BlockStep
    <2>2. CASE ~(Top.l.kind = "const" /\ ret.kind = "const")
        <3> DEFINE ins == [ins |-> "binop", op |-> Top.op, lhs |-> Top.l, rhs |-> ret]
        <3>1. stack # <<>> /\ Top.kind = "rhs" /\ blocks' = Emit(ins) /\ cur' = cur
            BY <1>5, <2>2 DEF BuildOp, At
        <3>2. ret \in Values
            BY <1>1, <3>1 DEF StackOK, AwaitsValue
        <3>3. ins \in Instr /\ ~IsTerminator(ins) /\ ~HasNull(ins)
            BY <1>1, <3>1, <3>2, TopFacts DEF Instr, IsTerminator, HasNull
        <3> HIDE DEF ins
        <3> QED
            BY <1>1, <3>1, <3>3, EmitGrows DEF BlockStep
    <2> QED
        BY <2>1, <2>2
<1>6. CASE GenAssign
    <2> DEFINE ins == Alloca(Top.node.lhs)
    <2>1. CASE blocks' = blocks
        BY <1>6, <2>1 DEF GenAssign, BlockStep
    <2>2. CASE blocks' # blocks
        <3>1. /\ stack # <<>> /\ Top.kind = "stmt" /\ Top.node.type = "ASSIGN_STMT"
              /\ blocks' = Emit(ins) /\ cur' = cur
            BY <1>6, <2>2 DEF GenAssign, AtStmt, At
        <3>2. Top.node.lhs \in Var
            BY <1>1, <3>1, TopFacts, NodeFacts
        <3>3. ins \in Instr /\ ~IsTerminator(ins) /\ ~HasNull(ins)
            BY <3>2 DEF Alloca, Instr, IsTerminator, HasNull
        <3> HIDE DEF ins
        <3> QED
            BY <1>1, <3>1, <3>3, EmitGrows DEF BlockStep
    <2> QED
        BY <2>1, <2>2
<1>7. CASE BuildStore
    <2> DEFINE ins == Store(ret, Top.ptr)
    <2>1. stack # <<>> /\ Top.kind = "store" /\ blocks' = Emit(ins) /\ cur' = cur
        BY <1>7 DEF BuildStore, At
    <2>2. ret \in Values /\ Top.ptr \in InstVals
        BY <1>1, <2>1, TopFacts DEF StackOK, AwaitsValue
    <2>3. ins \in Instr /\ ~IsTerminator(ins) /\ ~HasNull(ins)
        BY <2>2 DEF Store, Instr, IsTerminator, HasNull
    <2> HIDE DEF ins
    <2> QED
        BY <1>1, <2>1, <2>3, EmitGrows DEF BlockStep
<1>8. CASE GenBreak
    <2> DEFINE ins == Br(break_target)
    <2>1. AtStmt("BREAK_STMT") /\ blocks' = Emit(ins) /\ cur' = cur
        BY <1>8 DEF GenBreak
    <2>2. ins \in Instr /\ (HasNull(ins) => break_target = NULL)
        BY <1>1 DEF Br, Instr, HasNull, DataOK
    <2> HIDE DEF ins
    <2> QED
        BY <1>1, <2>1, <2>2, EmitGrows DEF BlockStep, NullGiven
<1> QED
    BY <1>3, <1>4, <1>5, <1>6, <1>7, <1>8 DEF GenExprStep

LEMMA BranchBlocks ==
    ASSUME IInv, BuildIf \/ GenWhile \/ GenElse \/ EndIf \/ BuildWhile \/ EndWhile
    PROVE  BlockStep
<1>1. StackOK /\ DataOK /\ stack # <<>> /\ ~AtStmt("BREAK_STMT")
    BY TypeParts DEF IInv, BuildIf, GenWhile, GenElse, EndIf, BuildWhile, EndWhile, AtStmt, At
<1>2. Len(blocks) \in Nat \ {0}
    BY <1>1, EmptySeq, LenProperties DEF DataOK
<1>3. ASSUME NEW ins \in Instr, IsTerminator(ins), ~HasNull(ins),
             blocks' = Emit(ins), cur' \in Owed(Top)
      PROVE  BlockStep
    <2>1. Grows(ins) /\ DOMAIN blocks' = DOMAIN blocks
        BY <1>1, <1>3, EmitGrows
    <2>2. cur' # cur /\ cur' \in DOMAIN blocks /\ blocks[cur'] = <<>>
        BY <1>1, <1>3, OwedIsEmpty
    <2>3. cur' \in DOMAIN blocks' /\ blocks'[cur'] = <<>>
        BY <2>1, <2>2 DEF Grows
    <2> QED
        BY <1>1, <1>3, <2>1, <2>2, <2>3 DEF BlockStep
<1>4. ASSUME NEW ins \in Instr, IsTerminator(ins), ~HasNull(ins), NEW n \in {2, 3},
             blocks' = Emit(ins) \o NewBlocks(n), cur' = Len(blocks) + 1
      PROVE  BlockStep
    <2>1. /\ Grows(ins) /\ Len(blocks) + 1 \in DOMAIN blocks'
          /\ blocks'[Len(blocks) + 1] = <<>> /\ Len(blocks) + 1 # cur
        BY <1>1, <1>4, BranchGrows
    <2> QED
        BY <1>1, <1>4, <2>1 DEF BlockStep
<1>5. ASSUME NEW b \in BlockNo
      PROVE  Br(b) \in Instr /\ IsTerminator(Br(b)) /\ ~HasNull(Br(b)) /\ b # NULL
    BY NullAssumption DEF Br, Instr, IsTerminator, HasNull, BlockNo
<1>6. ASSUME NEW v \in Values, NEW t \in BlockNo, NEW e \in BlockNo
      PROVE  CondBr(v, t, e) \in Instr /\ IsTerminator(CondBr(v, t, e)) /\ ~HasNull(CondBr(v, t, e))
    BY DEF CondBr, Instr, IsTerminator, HasNull
<1>7. CASE GenElse \/ EndIf
    <2>1. /\ Top.kind = "endif" /\ blocks' = Emit(Br(Top.cont))
          /\ cur' \in {Top.else_bb, Top.cont} /\ (cur' = NULL => cur' = Top.cont \/ Top.else # NULL)
        BY <1>7 DEF GenElse, EndIf, At
    <2>2. Top.cont \in BlockNo /\ (Top.else_bb = NULL => Top.else = NULL)
        BY <1>1, <2>1, TopFacts
    <2>3. cur' # NULL
        BY <1>5, <2>1, <2>2
    <2>4. cur' \in Owed(Top)
        BY <2>1, <2>3, OwedFacts
    <2> QED
        BY <1>3, <1>5, <2>1, <2>2, <2>4
<1>8. CASE BuildWhile
    <2>1. /\ Top.kind = "while" /\ blocks' = Emit(CondBr(ret, Top.body, Top.cont)) /\ cur' = Top.body
        BY <1>8 DEF BuildWhile, At
    <2>2. ret \in Values /\ Top.body \in BlockNo /\ Top.cont \in BlockNo
        BY <1>1, <2>1, TopFacts DEF StackOK, AwaitsValue
    <2>3. cur' \in Owed(Top)
        BY <2>1, OwedFacts
    <2> QED
        BY <1>3, <1>6, <2>1, <2>2, <2>3
<1>9. CASE EndWhile
    <2>1. /\ Top.kind = "loop" /\ blocks' = Emit(Br(Top.cond)) /\ cur' = Top.cont
        BY <1>9 DEF EndWhile, At
    <2>2. Top.cond \in BlockNo
        BY <1>1, <2>1, TopFacts
    <2>3. cur' \in Owed(Top)
        BY <2>1, OwedFacts
    <2> QED
        BY <1>3, <1>5, <2>1, <2>2, <2>3
<1>10. CASE GenWhile
    <2>1. blocks' = Emit(Br(Len(blocks) + 1)) \o << <<>>, <<>>, <<>> >> /\ cur' = Len(blocks) + 1
        BY <1>10 DEF GenWhile, NewBlock
    <2>2. blocks' = Emit(Br(Len(blocks) + 1)) \o NewBlocks(3)
        BY <2>1 DEF NewBlocks
    <2>3. Len(blocks) + 1 \in BlockNo
        BY <1>2 DEF BlockNo
    <2> QED
        BY <1>4, <1>5, <2>1, <2>2, <2>3
<1>11. CASE BuildIf
    <2> DEFINE else == Top.node.else_block
               n == IF else = NULL THEN 2 ELSE 3
               ins == CondBr(ret, Len(blocks) + 1, Len(blocks) + 2)
    <2>1. Top.kind = "if" /\ cur' = Len(blocks) + 1 /\ blocks' = Emit(ins) \o NewBlocks(n)
        BY <1>11 DEF BuildIf, At, NewBlock, NewBlocks
    <2>2. ret \in Values
        BY <1>1, <2>1 DEF StackOK, AwaitsValue
    <2>3. Len(blocks) + 1 \in BlockNo /\ Len(blocks) + 2 \in BlockNo /\ n \in {2, 3}
        BY <1>2 DEF BlockNo
    <2>4. ins \in Instr /\ IsTerminator(ins) /\ ~HasNull(ins)
        BY <1>6, <2>2, <2>3
    <2> HIDE DEF ins, n
    <2> QED
        BY <1>4, <2>1, <2>3, <2>4
<1> QED
    BY <1>7, <1>8, <1>9, <1>10, <1>11

LEMMA StepKeeps ==
    ASSUME [Next]_vars
    PROVE  /\ ast' = ast
           /\ GenExprStep \/ GenStmtStep => status = "gen" /\ status' = "gen"
BY DEF Next, GenStep, GenExprStep, GenStmtStep, GenId, GenConst, GenLhs, GenRhs, BuildOp, GenAssign,
       BuildStore, GenIf, BuildIf, GenElse, EndIf, GenWhile, BuildWhile, EndWhile, GenBreak, GenBlock,
       NextStmt, EndBlock, Finish, Crash, Terminated, vars, AtExpr, AtStmt, At

\* Instruction i of block b was there before the step.
Kept(b, i) ==
    /\ b \in DOMAIN blocks /\ i \in DOMAIN blocks[b] /\ blocks'[b][i] = blocks[b][i]
    /\ b # cur => blocks'[b] = blocks[b]

LEMMA GrowsFacts ==
    ASSUME DataOK, NEW ins \in Instr, Grows(ins),
           NEW b \in DOMAIN blocks', NEW i \in DOMAIN blocks'[b]
    PROVE  Kept(b, i) \/ (b = cur /\ blocks'[b][i] = ins /\ i = Len(blocks'[b]))
<1>1. blocks[cur] \in Seq(Instr) /\ cur \in DOMAIN blocks
    BY LenProperties DEF DataOK
<1>2. CASE b # cur
    <2>1. CASE b \in DOMAIN blocks
        BY <1>2, <2>1 DEF Grows, Kept
    <2>2. CASE b \notin DOMAIN blocks
        <3>1. blocks'[b] = <<>>
            BY <2>2 DEF Grows
        <3>2. DOMAIN blocks'[b] = {}
            BY <3>1
        <3> QED
            BY <3>2
    <2> QED
        BY <2>1, <2>2
<1>3. CASE b = cur
    <2> DEFINE s == blocks[cur]
               r == Append(s, ins)
    <2>1. /\ r \in Seq(Instr) /\ Len(r) = Len(s) + 1 /\ Len(s) \in Nat /\ r[Len(s) + 1] = ins
          /\ \A j \in 1 .. Len(s) : r[j] = s[j]
          /\ DOMAIN s = 1 .. Len(s) /\ DOMAIN r = 1 .. Len(r)
        BY <1>1, AppendProperties, LenProperties
    <2>2. blocks'[b] = r
        BY <1>3 DEF Grows
    <2> HIDE DEF s, r
    <2>3. i \in 1 .. Len(s) \/ i = Len(s) + 1
        BY <2>1, <2>2
    <2> QED
        BY <1>1, <1>3, <2>1, <2>2, <2>3 DEF Kept, s
<1> QED
    BY <1>2, <1>3

LEMMA FinishFacts ==
    ASSUME DataOK, Finish, NEW b \in DOMAIN blocks', NEW i \in DOMAIN blocks'[b]
    PROVE  \/ Kept(b, i)
           \/ ~HasNull(blocks'[b][i]) /\ (IsTerminator(blocks'[b][i]) => i = Len(blocks'[b]))
<1>1. /\ blocks[cur] \in Seq(Instr) /\ cur \in DOMAIN blocks /\ Here \in InstVals
      /\ ReturnValue \in Var /\ Zero \in Val
    BY HereFact, LenProperties, ValueAssumption DEF DataOK
<1>2. CASE symbols[ReturnValue] = NULL
    <2> DEFINE ins == Ret(ConstVal(Zero))
    <2>1. blocks' = Emit(ins)
        BY <1>2 DEF Finish
    <2>2. ins \in Instr /\ ~HasNull(ins)
        BY <1>1 DEF Ret, Instr, HasNull, ConstVal, Values
    <2> HIDE DEF ins
    <2>3. Grows(ins)
        BY <2>1, <2>2, EmitGrows
    <2> QED
        BY <2>2, <2>3, GrowsFacts
<1>3. CASE symbols[ReturnValue] # NULL
    <2> DEFINE ld == Load(symbols[ReturnValue])
               rt == Ret(Here)
               s  == blocks[cur]
               r  == s \o <<ld, rt>>
    <2>1. blocks' = [blocks EXCEPT ![cur] = r]
        BY <1>3 DEF Finish
    <2>2. ld \in Instr /\ rt \in Instr /\ ~HasNull(ld) /\ ~HasNull(rt) /\ ~IsTerminator(ld)
        BY <1>1, <1>3 DEF DataOK, Load, Ret, Instr, IsTerminator, Values, HasNull
    <2> HIDE DEF ld, rt
    <2>3. CASE b # cur
        BY <2>1, <2>3 DEF Kept
    <2>4. CASE b = cur
        <3>1. blocks'[b] = r
            BY <1>1, <2>1, <2>4
        <3>2. <<ld, rt>> \in Seq(Instr) /\ Len(<<ld, rt>>) = 2
            BY <2>2
        <3>3. /\ r \in Seq(Instr) /\ Len(r) = Len(s) + 2 /\ Len(s) \in Nat
              /\ \A j \in 1 .. Len(s) + 2 : r[j] = IF j <= Len(s) THEN s[j] ELSE <<ld, rt>>[j - Len(s)]
            BY <1>1, <3>2, ConcatProperties, LenProperties
        <3>4. DOMAIN s = 1 .. Len(s) /\ DOMAIN r = 1 .. Len(s) + 2
            BY <1>1, <3>3, LenProperties
        <3> HIDE DEF s, r
        <3>5. CASE i \in 1 .. Len(s)
            BY <1>1, <2>4, <3>1, <3>3, <3>4, <3>5 DEF Kept, s
        <3>6. CASE i = Len(s) + 1
            <4>1. r[i] = ld
                BY <3>3, <3>6
            <4> QED
                BY <2>2, <3>1, <4>1
        <3>7. CASE i = Len(s) + 2
            <4>1. r[i] = rt /\ i = Len(r)
                BY <3>3, <3>7
            <4> QED
                BY <2>2, <3>1, <4>1
        <3> QED
            BY <3>1, <3>3, <3>4, <3>5, <3>6, <3>7
    <2> QED
        BY <2>3, <2>4
<1> QED
    BY <1>2, <1>3

-----------------------------------------------------------------------------
(* No null pointer *)

\* What the top frame is about to read has an alloca, and a break has a target.
LEMMA NoNullGiven ==
    ASSUME StackOK, ScopeInv, BreakInv, BreakTargetIsInnermost
    PROVE  ~NullGiven
<1>1. ASSUME AtExpr("ID_EXPR"), symbols[Top.node.id] = NULL
      PROVE  FALSE
    <2>1. stack # <<>> /\ Top.kind = "expr" /\ Top.node.type = "ID_EXPR"
        BY <1>1 DEF AtExpr, At
    <2>2. Top = stack[1] /\ 1 \in DOMAIN stack /\ Top.node \in Expr
        BY <2>1, TopFacts, PopFacts, LenProperties DEF StackOK, Top
    <2>3. FrameNeeds(Top) = {Top.node.id}
        BY <2>1, <2>2, FrameFacts, ReadsFacts
    <2>4. IsSeen(1, Top.node.id)
        BY <2>2, <2>3 DEF ScopeInv
    <2>5. 1 .. 1 - 1 = {}
        OBVIOUS
    <2> QED
        BY <1>1, <2>4, <2>5 DEF IsSeen, Have
<1>2. ASSUME AtStmt("BREAK_STMT"), break_target = NULL
      PROVE  FALSE
    <2>1. stack # <<>> /\ Top.kind = "stmt" /\ Top.node.type = "BREAK_STMT"
        BY <1>2 DEF AtStmt, At
    <2>2. /\ Top = stack[1] /\ 1 \in DOMAIN stack /\ Top.node \in Stmt
          /\ \A i \in DOMAIN stack : i >= 1 /\ stack[i] \in Frame
        BY <2>1, TopFacts, PopFacts, LenProperties DEF StackOK, Top
    <2>3. ~AllBreaksInLoops(FrameStmts(Top))
        BY <2>1, <2>2, FrameFacts, BreakFacts DEF AllBreaksInLoops
    <2>4. ~NoLoopFrom(stack, 1)
        BY <2>2, <2>3 DEF BreakInv
    <2>5. PICK i \in DOMAIN stack : IsLoopFrame(stack[i]) /\ stack[i].cont = NULL
        BY <1>2, <2>4 DEF BreakTargetIsInnermost, IsTarget, NoLoopFrom
    <2>6. stack[i].cont \in BlockNo
        BY <2>2, <2>5 DEF IsLoopFrame, Frame, EndIfFrame, WhileFrame
    <2> QED
        BY <2>5, <2>6, NullAssumption DEF BlockNo
<1> QED
    BY <1>1, <1>2 DEF NullGiven

LEMMA NullsKept ==
    ASSUME DataOK, NoNulls, (BlockStep /\ ~NullGiven) \/ Finish
    PROVE  NoNulls'
<1>1. (\A b \in DOMAIN blocks' : \A i \in DOMAIN blocks'[b] : ~HasNull(blocks'[b][i])) => NoNulls'
    BY DEF NoNulls, HasNull
<1> SUFFICES ASSUME NEW b \in DOMAIN blocks', NEW i \in DOMAIN blocks'[b]
             PROVE  ~HasNull(blocks'[b][i])
    BY <1>1
<1>2. Kept(b, i) => ~HasNull(blocks'[b][i])
    BY DEF Kept, NoNulls
<1>3. CASE BlockStep /\ ~NullGiven
    <2>1. CASE blocks' = blocks
        BY <2>1 DEF NoNulls
    <2>2. CASE blocks' # blocks
        <3>1. PICK ins \in Instr : Grows(ins) /\ ~HasNull(ins)
            BY <1>3, <2>2 DEF BlockStep
        <3>2. Kept(b, i) \/ blocks'[b][i] = ins
            BY <3>1, GrowsFacts
        <3> QED
            BY <1>2, <3>1, <3>2
    <2> QED
        BY <2>1, <2>2
<1>4. CASE Finish
    BY <1>2, <1>4, FinishFacts
<1> QED
    BY <1>3, <1>4

LEMMA NullStep == IInv /\ BreakTargetIsInnermost /\ NullInv /\ [Next]_vars => NullInv'
<1> SUFFICES ASSUME IInv, BreakTargetIsInnermost, NullInv, [Next]_vars,
                    ParserAccepts(ast'), BreaksInLoops[ast']
             PROVE  (ScopeInv /\ BreakInv /\ NoNulls /\ status # "crashed")'
    BY DEF NullInv, ParserAccepts
<1>1. ast' = ast
    BY StepKeeps
<1>2. ScopeInv /\ BreakInv /\ NoNulls /\ status # "crashed"
    BY <1>1 DEF NullInv
<1>3. StackOK /\ DataOK /\ ~NullGiven
    BY <1>2, TypeParts, NoNullGiven DEF IInv
<1>4. CASE GenExprStep \/ GenStmtStep
    <2>1. stack # <<>> /\ \E n \in Nat \ {0}, d \in {-1, 0, 1} : FrameStep(n, d)
        BY <1>3, <1>4, StackSteps
    <2>2. ScopeInv'
        BY <1>2, <2>1, ScopeKept
    <2>3. BreakInv'
        BY <1>2, <1>3, <2>1, BreaksKept
    <2>4. BlockStep
        BY <1>4, StraightBlocks, BranchBlocks DEF GenStmtStep
    <2>5. NoNulls'
        BY <1>2, <1>3, <2>4, NullsKept
    <2>6. status' = status
        BY <1>4, StepKeeps
    <2> QED
        BY <1>2, <2>2, <2>3, <2>5, <2>6
<1>5. CASE Finish
    <2>1. UNCHANGED <<stack, symbols>> /\ status' = "done"
        BY <1>5 DEF Finish
    <2>2. ScopeInv' /\ BreakInv'
        BY <1>2, <2>1 DEF ScopeInv, IsSeen, Have, FrameNeeds, FrameAdds, FrameStmts, BranchNeeds, ListNeeds,
                          AssignedBefore, Children, BreakInv, NoLoopFrom, IsLoopFrame, AllBreaksInLoops
    <2>3. NoNulls'
        BY <1>2, <1>3, <1>5, NullsKept
    <2> QED
        BY <2>1, <2>2, <2>3
<1>6. CASE Crash
    BY <1>3, <1>6 DEF Crash, NullGiven
<1>7. CASE UNCHANGED vars
    BY <1>2, <1>7 DEF vars, ScopeInv, IsSeen, Have, FrameNeeds, FrameAdds, FrameStmts, BranchNeeds, ListNeeds,
                      AssignedBefore, Children, BreakInv, NoLoopFrom, IsLoopFrame, AllBreaksInLoops,
                      NoNulls, HasNull
<1> QED
    BY <1>4, <1>5, <1>6, <1>7 DEF Next, GenStep, Terminated

LEMMA InitNull == Init => NullInv
<1> SUFFICES ASSUME Init, ParserAccepts(ast), BreaksInLoops[ast]
             PROVE  ScopeInv /\ BreakInv /\ NoNulls /\ status # "crashed"
    BY DEF NullInv
<1>1. /\ DOMAIN stack = {1} /\ stack[1] = StmtFrame(ast) /\ status = "gen"
      /\ DOMAIN blocks = {1} /\ blocks[1] = <<>>
    BY DEF Init
<1>2. StmtFrame(ast).kind = "stmt" /\ StmtFrame(ast).node = ast
    BY DEF StmtFrame
<1>3. FrameNeeds(stack[1]) = {} /\ FrameStmts(stack[1]) = {ast}
    BY <1>1, <1>2, FrameFacts DEF ParserAccepts
<1> QED
    BY <1>1, <1>3 DEF ScopeInv, BreakInv, AllBreaksInLoops, NoNulls

\* What the parser lets through gives the builder no null pointer, for any program in
\* which breaks are in loops: each name that gen_expr reads has an alloca by then, since
\* gen_stmt walks the tree in the order in which the parser asked the symbol table, and
\* each break has a target.
THEOREM ReadsOnlyAllocated == Spec => []NoNullPointer
<1>1. Spec => []NullInv
    <2>1. IInv /\ BreakTargetIsInnermost /\ NullInv /\ [Next]_vars => NullInv'
        BY NullStep
    <2> QED
        BY <2>1, InitNull, Invariance, BreakLeavesInnermost, PTL DEF Spec
<1>2. NullInv => NoNullPointer
    <2> SUFFICES ASSUME NullInv, ParserAccepts(ast), BreaksInLoops[ast]
                 PROVE  NoNullOperand /\ status # "crashed"
        BY DEF NoNullPointer
    <2>1. NoNulls /\ status # "crashed"
        BY DEF NullInv
    <2>2. ASSUME NEW p \in Places PROVE ~HasNull(InstrAt(p))
        BY <2>1 DEF Places, Blocks, InstrAt, NoNulls
    <2> QED
        BY <2>1, <2>2 DEF NoNullOperand, HasNull
<1> QED
    BY <1>1, <1>2, PTL

-----------------------------------------------------------------------------
(* One terminator *)

LEMMA TerminatorsKept ==
    ASSUME DataOK, TerminatorsLast, status = "gen",
           (BlockStep /\ ~AtStmt("BREAK_STMT") /\ status' = "gen") \/ Finish
    PROVE  TerminatorsLast'
<1>1. (\A b \in DOMAIN blocks' : \A i \in DOMAIN blocks'[b] :
          IsTerminator(blocks'[b][i]) => i = Len(blocks'[b]) /\ (b = cur' => status' # "gen"))
      => TerminatorsLast'
    BY DEF TerminatorsLast, IsTerminator
<1> SUFFICES ASSUME NEW b \in DOMAIN blocks', NEW i \in DOMAIN blocks'[b], IsTerminator(blocks'[b][i])
             PROVE  i = Len(blocks'[b]) /\ (b = cur' => status' # "gen")
    BY <1>1
<1>2. Kept(b, i) => i = Len(blocks'[b]) /\ b # cur
    BY DEF Kept, TerminatorsLast
<1>3. CASE BlockStep /\ ~AtStmt("BREAK_STMT") /\ status' = "gen"
    <2>1. CASE blocks' = blocks /\ cur' = cur
        BY <2>1 DEF TerminatorsLast
    <2>2. ASSUME NEW ins \in Instr, Grows(ins),
                 IF IsTerminator(ins) THEN cur' # cur /\ cur' \in DOMAIN blocks' /\ blocks'[cur'] = <<>>
                 ELSE cur' = cur
          PROVE  i = Len(blocks'[b]) /\ b # cur'
        <3>1. Kept(b, i) \/ (b = cur /\ blocks'[b][i] = ins /\ i = Len(blocks'[b]))
            BY <2>2, GrowsFacts
        <3>2. DOMAIN <<>> = {}
            OBVIOUS
        <3>3. blocks'[cur'] = <<>> => b # cur'
            BY <3>2
        <3> QED
            BY <1>2, <2>2, <3>1, <3>3
    <2> QED
        BY <1>3, <2>1, <2>2 DEF BlockStep
<1>4. CASE Finish
    <2>1. status' = "done"
        BY <1>4 DEF Finish
    <2> QED
        BY <1>2, <1>4, <2>1, FinishFacts
<1> QED
    BY <1>3, <1>4

LEMMA OnceStep == IInv /\ OnceInv /\ [Next]_vars => OnceInv'
<1> SUFFICES ASSUME IInv, OnceInv, [Next]_vars, BreakFree[ast']
             PROVE  (NoBreakLeft /\ TerminatorsLast)'
    BY DEF OnceInv
<1>1. ast' = ast
    BY StepKeeps
<1>2. NoBreakLeft /\ TerminatorsLast
    BY <1>1 DEF OnceInv
<1>3. StackOK /\ DataOK
    BY TypeParts DEF IInv
<1>4. ~AtStmt("BREAK_STMT")
    <2> SUFFICES ASSUME stack # <<>>, Top.kind = "stmt", Top.node.type = "BREAK_STMT" PROVE FALSE
        BY DEF AtStmt, At
    <2>1. Top = stack[1] /\ 1 \in DOMAIN stack /\ Top.node \in Stmt
        BY <1>3, TopFacts, PopFacts, LenProperties DEF StackOK, Top
    <2>2. BreakFree[Top.node]
        BY <1>2, <2>1, FrameFacts DEF NoBreakLeft, AllBreakFree
    <2> QED
        BY <2>1, <2>2, BreakFacts
<1>5. CASE GenExprStep \/ GenStmtStep
    <2>1. stack # <<>> /\ \E n \in Nat \ {0}, d \in {-1, 0, 1} : FrameStep(n, d)
        BY <1>3, <1>5, StackSteps
    <2>2. NoBreakLeft'
        BY <1>2, <1>3, <2>1, NoBreakKept
    <2>3. BlockStep
        BY <1>5, StraightBlocks, BranchBlocks DEF GenStmtStep
    <2>4. status = "gen" /\ status' = "gen"
        BY <1>5, StepKeeps
    <2> QED
        BY <1>2, <1>3, <1>4, <2>2, <2>3, <2>4, TerminatorsKept
<1>6. CASE Finish
    <2>1. stack' = stack /\ status = "gen"
        BY <1>6 DEF Finish
    <2>2. NoBreakLeft'
        BY <1>2, <2>1 DEF NoBreakLeft, AllBreakFree, FrameStmts, Children
    <2> QED
        BY <1>2, <1>3, <1>6, <2>1, <2>2, TerminatorsKept
<1>7. CASE Crash
    <2>1. UNCHANGED <<stack, blocks, cur>> /\ status' # "gen"
        BY <1>7 DEF Crash
    <2> QED
        BY <1>2, <2>1 DEF NoBreakLeft, AllBreakFree, FrameStmts, Children, TerminatorsLast, IsTerminator
<1>8. CASE UNCHANGED vars
    BY <1>2, <1>8 DEF vars, NoBreakLeft, AllBreakFree, FrameStmts, Children, TerminatorsLast, IsTerminator
<1> QED
    BY <1>5, <1>6, <1>7, <1>8 DEF Next, GenStep, Terminated

LEMMA InitOnce == Init => OnceInv
<1> SUFFICES ASSUME Init, BreakFree[ast] PROVE NoBreakLeft /\ TerminatorsLast
    BY DEF OnceInv
<1>1. /\ DOMAIN stack = {1} /\ stack[1] = StmtFrame(ast) /\ DOMAIN blocks = {1} /\ blocks[1] = <<>>
    BY DEF Init
<1>2. StmtFrame(ast).kind = "stmt" /\ StmtFrame(ast).node = ast
    BY DEF StmtFrame
<1>3. FrameStmts(stack[1]) = {ast}
    BY <1>1, <1>2, FrameFacts
<1> QED
    BY <1>1, <1>3 DEF NoBreakLeft, AllBreakFree, TerminatorsLast

\* However ifs and loops are nested in a program without breaks, no instruction of the
\* function comes after a terminator: every block has exactly one.
THEOREM NothingDead == Spec => []OneTerminatorWithoutBreak
<1>1. Spec => []OnceInv
    BY OnceStep, InitOnce, Invariance, PTL DEF Spec
<1>2. TypeOK /\ OnceInv => OneTerminatorWithoutBreak
    <2> SUFFICES ASSUME TypeOK, OnceInv, BreakFree[ast], NEW p \in Places, IsDead(p)
                 PROVE  FALSE
        BY DEF OneTerminatorWithoutBreak, OneTerminator
    <2>1. p[1] \in DOMAIN blocks /\ p[2] \in DOMAIN blocks[p[1]]
        BY DEF Places, Blocks
    <2>2. PICK i \in DOMAIN blocks[p[1]] : IsTerminator(blocks[p[1]][i]) /\ i < p[2]
        BY DEF IsDead, Terminators
    <2>3. i = Len(blocks[p[1]])
        BY <2>1, <2>2 DEF OnceInv, TerminatorsLast
    <2>4. p[2] <= Len(blocks[p[1]]) /\ p[2] \in Nat /\ i \in Nat
        BY <2>1, LenProperties DEF TypeOK
    <2> QED
        BY <2>2, <2>3, <2>4
<1> QED
    BY <1>1, <1>2, TypeCorrect, PTL
=============================================================================
