-------------------------------- MODULE AST --------------------------------
(***************************************************************************)
(* The abstract syntax trees of a set of programs, and what the nodes of   *)
(* src/ast/_ast_internal.h hold.                                           *)
(***************************************************************************)
EXTENDS Syntax

CONSTANTS
    Var, Val, Op,        \* names, float values, binary operators
    Programs,            \* the roots of whole programs
    ReturnValue,         \* the variable "return_value"
    Zero,                \* the float 0.0
    Apply(_, _, _)       \* Apply(op, x, y): the float that op computes

IsExpr(e) ==
    \/ e.type = "ID_EXPR" /\ e.id \in Var
    \/ e.type = "CONST_EXPR" /\ e.val \in Val
    \/ e.type = "BINOP_EXPR" /\ e.op \in Op /\ e.lhs \in Expr /\ e.rhs \in Expr

\* Children of a node are nodes; an else block may be missing.
IsStmt(s) ==
    \/ s.type = "ASSIGN_STMT" /\ s.lhs \in Var /\ s.rhs \in Expr
    \/ /\ s.type = "IF_STMT"
       /\ s.condition \in Expr /\ s.if_block \in Stmt
       /\ s.else_block \in Stmt \cup {NULL}
    \/ s.type = "WHILE_STMT" /\ s.condition \in Expr /\ s.block \in Stmt
    \/ s.type = "BREAK_STMT"
    \/ s.type = "BLOCK" /\ s.stmts \in Seq(Stmt)

ASSUME SyntaxAssumption ==
    /\ \A e \in Expr : IsExpr(e)
    /\ \A s \in Stmt : IsStmt(s)
    /\ Programs \subseteq Stmt

ASSUME ValueAssumption ==
    /\ ReturnValue \in Var /\ Zero \in Val
    /\ \A op \in Op, x, y \in Val : Apply(op, x, y) \in Val

\* The null pointer is no node and no basic block.
ASSUME NullAssumption == NULL \notin Stmt /\ NULL \notin Nat
=============================================================================
