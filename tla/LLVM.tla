-------------------------------- MODULE LLVM --------------------------------
(***************************************************************************)
(* What the compiler's output means to the tool it is handed to.  LLVM is  *)
(* not under src/: generate_object_code has llc read the printed module,   *)
(* and llc parses the text, numbers the unnamed values, verifies the       *)
(* function and compiles it, or rejects it.  The variable blocks of        *)
(* CodeGen is the function as LLVMPrintModuleToString lists it: the blocks *)
(* in append order.  Every block has a name ("entry", "ifBlock", ...) and  *)
(* so has every value but a load, so that only loads are numbered.         *)
(***************************************************************************)
EXTENDS CodeGen

Blocks == DOMAIN blocks
Places == UNION {{<<b, i>> : i \in DOMAIN blocks[b]} : b \in Blocks}
InstrAt(p) == blocks[p[1]][p[2]]

Terminators(b) == {i \in DOMAIN blocks[b] : IsTerminator(blocks[b][i])}

\* Control never passes the first terminator: what follows it in the text
\* opens an implicit, unnamed block that nothing branches to.
IsDead(p) == \E i \in Terminators(p[1]) : i < p[2]

TextBefore(p, q) == p[1] < q[1] \/ (p[1] = q[1] /\ p[2] < q[2])

(***************************************************************************)
(* llc's text parser.                                                      *)
(***************************************************************************)
\* Every label comes after a terminator.
AllClosed == \A b \in Blocks : IsClosed(blocks[b])

\* An implicit block takes the next value number, which the printer, who
\* knows one block there, has given to the next load of the text.
NumberingOK ==
    \A p, q \in Places :
        IsDead(p) /\ InstrAt(q).ins = "load" => TextBefore(q, p)

NoNullOperand ==
    \A p \in Places :
        /\ InstrAt(p).ins = "load" => InstrAt(p).ptr # NULL
        /\ InstrAt(p).ins = "br" => InstrAt(p).to # NULL

(***************************************************************************)
(* llc's verifier: a definition dominates each of its reachable uses.      *)
(***************************************************************************)
Succ(b) ==
    IF Terminators(b) = {} THEN {}
    ELSE LET t == blocks[b][CHOOSE i \in Terminators(b) : \A j \in Terminators(b) : i <= j]
         IN CASE t.ins = "br"     -> {t.to} \ {NULL}
              [] t.ins = "condbr" -> {t.then, t.else}
              [] t.ins = "ret"    -> {}

\* The blocks that paths from the entry reach without entering block d.
ReachableAvoiding(d) ==
    LET reach[n \in 0 .. Len(blocks)] ==
            (IF n = 0 THEN {1} ELSE UNION {{b} \cup Succ(b) : b \in reach[n - 1]}) \ {d}
    IN reach[Len(blocks)]

Operands(i) ==
    CASE i.ins = "load"   -> {i.ptr}
      [] i.ins = "store"  -> {i.val, i.ptr}
      [] i.ins = "binop"  -> {i.lhs, i.rhs}
      [] i.ins = "condbr" -> {i.cond}
      [] i.ins = "ret"    -> {i.val}
      [] OTHER            -> {}

\* The registers that the instruction at p reads.
Reads(p) == {v \in Operands(InstrAt(p)) \ {NULL} : v.kind = "inst"}

LivePlaces ==
    LET reachable == ReachableAvoiding(0)
    IN {p \in Places : p[1] \in reachable /\ ~IsDead(p)}

\* A register is written before it is read if that is in one block, and
\* otherwise no path reaches the read that avoids the block of the write.
DefsDominateUses ==
    LET reads   == UNION {Reads(p) \X {p} : p \in LivePlaces}
        distant == {r \in reads : r[1].bb # r[2][1]}
    IN /\ \A r \in reads : ~IsDead(<<r[1].bb, r[1].ix>>)
       /\ \A r \in reads \ distant : r[1].ix < r[2][2]
       /\ \A d \in {r[1].bb : r \in distant} :
            LET avoiding == ReachableAvoiding(d)
            IN \A r \in distant : r[1].bb = d => r[2][1] \notin avoiding

\* llc produces an object file.
Accepted == AllClosed /\ NumberingOK /\ NoNullOperand /\ DefsDominateUses

-----------------------------------------------------------------------------
(* Properties of the finished function *)

\* README.md, "an LLVM basic block must contain exactly one terminating
\* statement": nothing is emitted after a terminator.
OneTerminator == status = "done" => \A p \in Places : ~IsDead(p)

\* Without a break the generator keeps that rule, however ifs and loops nest.
OneTerminatorWithoutBreak == BreakFree[ast] => OneTerminator

\* An identifier that the parser let through has an alloca by the time it is
\* read, and a break in a loop has a target: the builder gets no null pointer.
\* This is what ties parser.y's check of the symbol table, made in the order
\* of the text, to the order in which gen_stmt walks the tree.
NoNullPointer ==
    ParserAccepts(ast) /\ BreaksInLoops[ast] => NoNullOperand /\ status # "crashed"

\* The names that the statements themselves assign, not those inside them.
TopAssigned(ss) == {s.lhs : s \in {t \in ToSet(ss) : t.type = "ASSIGN_STMT"}}

\* Names treated as if they were local to the block of their first
\* assignment: each later mention of a name in a statement is in that block or
\* nested in it.  seen holds the names assigned earlier in the text, local those
\* that are in scope in this sense.
BlockScoped[s \in Stmt, seen, local \in SUBSET Var] ==
    CASE s.type = "ASSIGN_STMT" -> Uses[s.rhs] \subseteq local /\ (s.lhs \in local \/ s.lhs \notin seen)
      [] s.type = "IF_STMT" ->
           /\ Uses[s.condition] \subseteq local
           /\ BlockScoped[s.if_block, seen, local]
           /\ s.else_block # NULL =>
                BlockScoped[s.else_block, seen \cup Assigned[s.if_block], local]
      [] s.type = "WHILE_STMT" -> Uses[s.condition] \subseteq local /\ BlockScoped[s.block, seen, local]
      [] s.type = "BLOCK" ->
           \A i \in DOMAIN s.stmts :
              BlockScoped[s.stmts[i], seen \cup AssignedBefore(s.stmts, i),
                          local \cup TopAssigned(SubSeq(s.stmts, 1, i - 1))]
      [] OTHER -> TRUE

\* Every name is used in the block of its first assignment, or deeper, and
\* return_value also at the end of the program.
IsBlockScoped(p) ==
    /\ BlockScoped[p, {}, {}]
    /\ ReturnValue \in Assigned[p] => ReturnValue \in TopAssigned(p.stmts)

\* The alloca stands where the first assignment is, so what the verifier asks
\* of the function is block scope in the source, whatever breaks are around;
\* and without breaks that is all that llc asks.
ScopeDecidesAcceptance ==
    status = "done" =>
        /\ IsBlockScoped(ast) => DefsDominateUses
        /\ BreakFree[ast] => (Accepted <=> IsBlockScoped(ast))

(* Claims that the generator does not live up to *)

\* README.md, "the IR you generate should exactly reproduce the computation
\* specified in the source program": an if/else or a loop may be the first to
\* assign a name that is used after it.
BreakFreeProgramsCompile ==
    status = "done" /\ ParserAccepts(ast) /\ BreakFree[ast] => Accepted

\* README.md tests the textual IR with llc: a break in a loop does not upset
\* the value numbers of the text.
BreaksKeepNumbering ==
    status = "done" /\ IsBlockScoped(ast) /\ BreaksInLoops[ast] => NumberingOK

\* README.md, "you may treat a break statement that is not within a loop as a
\* no-op": such a break gives the builder no null pointer.
StrayBreakIsHarmless == ParserAccepts(ast) => NoNullOperand /\ status # "crashed"
=============================================================================
