------------------------------- MODULE Nodes -------------------------------
(***************************************************************************)
(* Nodes of an abstract syntax tree: struct ast_node of                    *)
(* src/ast/_ast_internal.h as the constructors of src/ast/ast_create.c     *)
(* make them.  A node is a record that holds its children.  FLOAT_EXPR,    *)
(* INT_EXPR and BOOL_EXPR, which differ in how their value is written and  *)
(* not in what it is used for, are one CONST_EXPR.                         *)
(***************************************************************************)
CONSTANT NULL            \* the C null pointer

Id(v)          == [type |-> "ID_EXPR", id |-> v]
Const(c)       == [type |-> "CONST_EXPR", val |-> c]
Binop(o, l, r) == [type |-> "BINOP_EXPR", op |-> o, lhs |-> l, rhs |-> r]

Assign(v, e)   == [type |-> "ASSIGN_STMT", lhs |-> v, rhs |-> e]
If(c, s, t)    == [type |-> "IF_STMT", condition |-> c, if_block |-> s, else_block |-> t]
While(c, s)    == [type |-> "WHILE_STMT", condition |-> c, block |-> s]
Break          == [type |-> "BREAK_STMT"]
Block(ss)      == [type |-> "BLOCK", stmts |-> ss]
=============================================================================
