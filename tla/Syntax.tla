------------------------------- MODULE Syntax -------------------------------
(***************************************************************************)
(* What the specifications say of whole programs: functions on the nodes   *)
(* in use, by recursion over the tree.                                     *)
(***************************************************************************)
EXTENDS Nodes, Naturals, Sequences, SequencesExt

CONSTANTS Expr, Stmt     \* the nodes in use: records that hold their children

-----------------------------------------------------------------------------
\* The statements directly inside a statement.
Children(s) ==
    CASE s.type = "IF_STMT"    -> {s.if_block, s.else_block} \ {NULL}
      [] s.type = "WHILE_STMT" -> {s.block}
      [] s.type = "BLOCK"      -> ToSet(s.stmts)
      [] OTHER                 -> {}

\* The names that an expression reads.
Uses[e \in Expr] ==
    CASE e.type = "ID_EXPR"    -> {e.id}
      [] e.type = "BINOP_EXPR" -> Uses[e.lhs] \cup Uses[e.rhs]
      [] OTHER                 -> {}

Assigned[s \in Stmt] ==
    IF s.type = "ASSIGN_STMT" THEN {s.lhs} ELSE UNION {Assigned[c] : c \in Children(s)}

BreakFree[s \in Stmt] ==
    s.type # "BREAK_STMT" /\ \A c \in Children(s) : BreakFree[c]

\* Every break is in a loop.
BreaksInLoops[s \in Stmt] ==
    s.type # "BREAK_STMT" /\ (s.type # "WHILE_STMT" => \A c \in Children(s) : BreaksInLoops[c])

-----------------------------------------------------------------------------
AssignedBefore(ss, i) == UNION {Assigned[ss[j]] : j \in 1 .. i - 1}

\* The names that a statement reads before it assigns them, in the order of the
\* text.  primary_expression of parser.y asks the symbol table for each name, and
\* every assignment earlier in the text has put its name there.
Needs[s \in Stmt] ==
    CASE s.type = "ASSIGN_STMT" -> Uses[s.rhs]
      [] s.type = "IF_STMT" ->
           Uses[s.condition] \cup Needs[s.if_block]
           \cup IF s.else_block = NULL THEN {} ELSE Needs[s.else_block] \ Assigned[s.if_block]
      [] s.type = "WHILE_STMT" -> Uses[s.condition] \cup Needs[s.block]
      [] s.type = "BLOCK" ->
           UNION {Needs[s.stmts[i]] \ AssignedBefore(s.stmts, i) : i \in DOMAIN s.stmts}
      [] OTHER -> {}

\* The programs the parser takes without an error.
ParserAccepts(p) == Needs[p] = {}
=============================================================================
