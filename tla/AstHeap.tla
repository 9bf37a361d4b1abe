------------------------------ MODULE AstHeap ------------------------------
(***************************************************************************)
(* The memory of the tree: the constructors and ast_node_free of           *)
(* src/ast/ast_create.c on a heap of nodes and of the lexemes that the     *)
(* scanner copies.  A heap is the sequence of all allocations, in which    *)
(* freed ones are marked; a pointer is an index or NULL.  A struct         *)
(* ast_node and its node_data are allocated and freed together and are one *)
(* object.  The allocator itself is external; addresses are not reused.    *)
(***************************************************************************)
EXTENDS Nodes, Naturals, Sequences, SequencesExt, FiniteSets

CONSTANT AST_NODE_MAX_CHILDREN     \* statements that a block has room for

ASSUME HeapAssumption == AST_NODE_MAX_CHILDREN \in Nat \ {0} /\ NULL \notin Nat

-----------------------------------------------------------------------------
\* ptrs are the pointers that the object owns, data is the rest of it.
Object(type, data, ptrs) == [type |-> type, data |-> data, ptrs |-> ptrs]
Lexeme(text) == Object("LEXEME", text, <<>>)
FREED == Object("FREED", NULL, <<>>)

Live(h) == {p \in DOMAIN h : h[p] # FREED}
Owned(h, p) == ToSet(h[p].ptrs) \ {NULL}

\* malloc, and a function that returns the pointer to a new object.
Alloc(h, o) == Append(h, o)
New(h, o)   == [heap |-> Alloc(h, o), ptr |-> Len(h) + 1]
Nothing(h)  == [heap |-> h, ptr |-> NULL]

\* An object and all that it owns.
Tree(h, p) ==
    LET tree[q \in DOMAIN h] == {q} \cup UNION {tree[c] : c \in Owned(h, q)}
    IN IF p = NULL THEN {} ELSE tree[p]

Release(h, ps) == [p \in DOMAIN h |-> IF p \in ps THEN FREED ELSE h[p]]

\* ast_node_free, which frees the children of a node, if there is one, and the node.
AstNodeFree(h, p) == Release(h, Tree(h, p))

-----------------------------------------------------------------------------
(* The constructors.  They own what they are given: it is in the node that *)
(* they return, or freed.                                                  *)

IdExprNodeCreate(h, id) == New(h, Object("ID_EXPR", NULL, <<id>>))

\* The three constructors of constants; parser.y frees the lexeme.
ConstExprNodeCreate(h, lexeme) ==
    New(Release(h, {lexeme}), Object("CONST_EXPR", h[lexeme].data, <<>>))

\* Mutant: only the right operand is tested.
BinopExprNodeCreate_HalfTested(h, op, lhs, rhs) ==
    IF rhs = NULL THEN Nothing(AstNodeFree(h, lhs))
    ELSE New(h, Object("BINOP_EXPR", op, <<lhs, rhs>>))

BinopExprNodeCreate(h, op, lhs, rhs) ==
    IF lhs = NULL \/ rhs = NULL THEN Nothing(AstNodeFree(AstNodeFree(h, lhs), rhs))
    ELSE New(h, Object("BINOP_EXPR", op, <<lhs, rhs>>))

AssignStmtNodeCreate(h, lhs, rhs) ==
    IF rhs = NULL THEN Nothing(Release(h, {lhs}))
    ELSE New(h, Object("ASSIGN_STMT", NULL, <<lhs, rhs>>))

\* Mutant: an else block is forgotten when the condition failed.
IfStmtNodeCreate_KeepsElse(h, condition, if_block, else_block) ==
    IF condition = NULL THEN Nothing(AstNodeFree(h, if_block))
    ELSE New(h, Object("IF_STMT", NULL, <<condition, if_block, else_block>>))

IfStmtNodeCreate(h, condition, if_block, else_block) ==
    IF condition = NULL THEN Nothing(AstNodeFree(AstNodeFree(h, if_block), else_block))
    ELSE New(h, Object("IF_STMT", NULL, <<condition, if_block, else_block>>))

\* Mutant: the block is freed whether the node has it or not.
WhileStmtNodeCreate_FreesBlock(h, condition, block) ==
    IF condition = NULL THEN Nothing(AstNodeFree(h, block))
    ELSE New(AstNodeFree(h, block), Object("WHILE_STMT", NULL, <<condition, block>>))

WhileStmtNodeCreate(h, condition, block) ==
    IF condition = NULL THEN Nothing(AstNodeFree(h, block))
    ELSE New(h, Object("WHILE_STMT", NULL, <<condition, block>>))

BreakStmtNodeCreate(h) == New(h, Object("BREAK_STMT", NULL, <<>>))

BlockNodeCreate(h, first_stmt) ==
    New(h, Object("BLOCK", NULL, IF first_stmt = NULL THEN <<>> ELSE <<first_stmt>>))

\* Mutant: one statement more than there is room for.
IsFull_OneMore(h, block) == Len(h[block].ptrs) > AST_NODE_MAX_CHILDREN

\* block_node_append_stmt, which exits when the block is full, whatever the statement.
IsFull(h, block) == Len(h[block].ptrs) >= AST_NODE_MAX_CHILDREN

BlockNodeAppendStmt(h, block, stmt) ==
    IF stmt = NULL THEN h ELSE [h EXCEPT ![block].ptrs = Append(@, stmt)]
=============================================================================
