------------------------------ MODULE CodeGen ------------------------------
(***************************************************************************)
(* The IR generator of src/ast/ast_llvm.c: gen_expr, gen_stmt and          *)
(* generate_llvm_ir, which walk the AST by recursion and drive LLVM's      *)
(* IRBuilder.  The C call stack is the variable stack (its top is the      *)
(* Head); an action is one stretch of a C function between two recursive   *)
(* calls, with every builder call of that stretch.                         *)
(*                                                                         *)
(* An SSA value is a constant or the place of the instruction that         *)
(* computes it.  The fcmp of a condition is part of the condbr it feeds,   *)
(* and the fcmp + uitofp of a comparison is one binop.                     *)
(***************************************************************************)
EXTENDS AST

VARIABLES
    ast,           \* the root of the program being compiled
    stack,         \* C call stack: what is left to do, innermost first
    ret,           \* the value gen_expr returned last
    blocks,        \* the function's basic blocks, in append order
    cur,           \* the block the builder is positioned at the end of
    break_target,  \* the static break_target
    symbols,       \* values of the symbol table: a variable's alloca or NULL
    status         \* "gen", "done" or "crashed"

vars == <<ast, stack, ret, blocks, cur, break_target, symbols, status>>

-----------------------------------------------------------------------------
(* Values, instructions and frames *)

ConstVal(c)   == [kind |-> "const", val |-> c]
InstVal(b, i) == [kind |-> "inst", bb |-> b, ix |-> i]

InstVals == [kind : {"inst"}, bb : Nat \ {0}, ix : Nat \ {0}]
Values   == [kind : {"const"}, val : Val] \cup InstVals

\* The builder returns no null pointer.
ASSUME BuilderAssumption == NULL \notin InstVals

BlockNo == Nat \ {0}

Instr ==
    [ins : {"alloca"}, var : Var]
    \cup [ins : {"load"}, ptr : InstVals \cup {NULL}]
    \cup [ins : {"store"}, val : Values, ptr : InstVals]
    \cup [ins : {"binop"}, op : Op, lhs : Values, rhs : Values]
    \cup [ins : {"br"}, to : BlockNo \cup {NULL}]
    \cup [ins : {"condbr"}, cond : Values, then : BlockNo, else : BlockNo]
    \cup [ins : {"ret"}, val : Values]

\* The if, or else, block is being generated; an else block may be left to do.
EndIfFrame ==
    {f \in [kind : {"endif"}, else : Stmt \cup {NULL}, else_bb : BlockNo \cup {NULL},
             cont : BlockNo] :
        (f.else = NULL <=> f.else_bb = NULL) /\ f.else_bb # f.cont}

\* The condition is being generated.
WhileFrame ==
    {f \in [kind : {"while"}, node : {s \in Stmt : s.type = "WHILE_STMT"}, cond : BlockNo,
             body : BlockNo, cont : BlockNo, old : BlockNo \cup {NULL}] : f.body # f.cont}

Frame ==
    [kind : {"stmt"}, node : Stmt]
    \cup [kind : {"expr"}, node : Expr]
    \cup [kind : {"lhs"}, node : {e \in Expr : e.type = "BINOP_EXPR"}]
    \cup [kind : {"rhs"}, op : Op, l : Values]
    \cup [kind : {"store"}, ptr : InstVals]
    \cup [kind : {"if"}, node : {s \in Stmt : s.type = "IF_STMT"}]
    \cup EndIfFrame \cup WhileFrame
    \cup [kind : {"loop"}, cond : BlockNo, cont : BlockNo, old : BlockNo \cup {NULL}]
    \cup [kind : {"block"}, stmts : Seq(Stmt)]

StmtFrame(s) == [kind |-> "stmt", node |-> s]
ExprFrame(e) == [kind |-> "expr", node |-> e]

IsTerminator(i) == i.ins \in {"br", "condbr", "ret"}

\* The block ends in a terminator, as LLVM wants of every block.
IsClosed(b) == b # <<>> /\ IsTerminator(b[Len(b)])

(***************************************************************************)
(* The builder: LLVMBuild* appends to the current block,                   *)
(* LLVMAppendBasicBlockInContext appends an empty block.                   *)
(***************************************************************************)
Emit(ins)  == [blocks EXCEPT ![cur] = Append(@, ins)]
Here       == InstVal(cur, Len(blocks[cur]) + 1)
NewBlock(n) == Len(blocks) + n

Br(b)              == [ins |-> "br", to |-> b]
CondBr(c, t, e)    == [ins |-> "condbr", cond |-> c, then |-> t, else |-> e]
Load(p)            == [ins |-> "load", ptr |-> p]
Store(v, p)        == [ins |-> "store", val |-> v, ptr |-> p]
Alloca(x)          == [ins |-> "alloca", var |-> x]
Ret(v)             == [ins |-> "ret", val |-> v]

-----------------------------------------------------------------------------
Top == Head(stack)

At(kind) == status = "gen" /\ stack # <<>> /\ Top.kind = kind

AtStmt(type) == At("stmt") /\ Top.node.type = type
AtExpr(type) == At("expr") /\ Top.node.type = type

\* The running function calls another and will go on as frame k.
Call(f, k) == stack' = Cons(f, Cons(k, Tail(stack)))

(***************************************************************************)
(* gen_expr.                                                               *)
(***************************************************************************)
\* A variable that has no alloca gives a load from NULL: undefined behaviour,
\* which either aborts (Crash) or leaves an instruction with a null operand.
GenId ==
    /\ AtExpr("ID_EXPR")
    /\ blocks' = Emit(Load(symbols[Top.node.id]))
    /\ ret' = Here
    /\ stack' = Tail(stack)
    /\ UNCHANGED <<ast, cur, break_target, symbols, status>>

\* Mutant: no case for the node's type, so that gen_expr returns NULL.
GenConst_NoCase ==
    /\ AtExpr("CONST_EXPR")
    /\ ret' = NULL
    /\ stack' = Tail(stack)
    /\ UNCHANGED <<ast, blocks, cur, break_target, symbols, status>>

GenConst ==
    /\ AtExpr("CONST_EXPR")
    /\ ret' = ConstVal(Top.node.val)
    /\ stack' = Tail(stack)
    /\ UNCHANGED <<ast, blocks, cur, break_target, symbols, status>>

\* The left operand is generated first, then the right one.
GenLhs ==
    /\ AtExpr("BINOP_EXPR")
    /\ Call(ExprFrame(Top.node.lhs), [kind |-> "lhs", node |-> Top.node])
    /\ UNCHANGED <<ast, ret, blocks, cur, break_target, symbols, status>>

GenRhs ==
    /\ At("lhs")
    /\ Call(ExprFrame(Top.node.rhs), [kind |-> "rhs", op |-> Top.node.op, l |-> ret])
    /\ UNCHANGED <<ast, ret, blocks, cur, break_target, symbols, status>>

\* The builder folds an operator on two constants and emits nothing.
BuildOp ==
    /\ At("rhs")
    /\ IF Top.l.kind = "const" /\ ret.kind = "const"
       THEN /\ ret' = ConstVal(Apply(Top.op, Top.l.val, ret.val))
            /\ UNCHANGED blocks
       ELSE /\ ret' = Here
            /\ blocks' = Emit([ins |-> "binop", op |-> Top.op, lhs |-> Top.l, rhs |-> ret])
    /\ stack' = Tail(stack)
    /\ UNCHANGED <<ast, cur, break_target, symbols, status>>

(***************************************************************************)
(* gen_stmt.                                                               *)
(***************************************************************************)
\* Mutant: no test whether the variable has an alloca.
GenAssign_AlwaysAlloca ==
    /\ AtStmt("ASSIGN_STMT")
    /\ blocks' = Emit(Alloca(Top.node.lhs))
    /\ symbols' = [symbols EXCEPT ![Top.node.lhs] = Here]
    /\ Call(ExprFrame(Top.node.rhs), [kind |-> "store", ptr |-> Here])
    /\ UNCHANGED <<ast, ret, cur, break_target, status>>

\* The first assignment a variable meets in the walk creates its alloca, at
\* the current position, and enters it in the symbol table; then gen_expr(rhs).
GenAssign ==
    /\ AtStmt("ASSIGN_STMT")
    /\ LET x == Top.node.lhs
           ptr == IF symbols[x] = NULL THEN Here ELSE symbols[x]
       IN /\ blocks' = IF symbols[x] = NULL THEN Emit(Alloca(x)) ELSE blocks
          /\ symbols' = [symbols EXCEPT ![x] = ptr]
          /\ Call(ExprFrame(Top.node.rhs), [kind |-> "store", ptr |-> ptr])
    /\ UNCHANGED <<ast, ret, cur, break_target, status>>

\* Mutant: the store is forgotten.
BuildStore_Forgotten ==
    /\ At("store")
    /\ stack' = Tail(stack)
    /\ UNCHANGED <<ast, ret, blocks, cur, break_target, symbols, status>>

BuildStore ==
    /\ At("store")
    /\ blocks' = Emit(Store(ret, Top.ptr))
    /\ stack' = Tail(stack)
    /\ UNCHANGED <<ast, ret, cur, break_target, symbols, status>>

GenIf ==
    /\ AtStmt("IF_STMT")
    /\ Call(ExprFrame(Top.node.condition), [kind |-> "if", node |-> Top.node])
    /\ UNCHANGED <<ast, ret, blocks, cur, break_target, symbols, status>>

\* Appends ifBlock, elseBlock (when there is one) and ifContinueBlock,
\* branches, and generates the if block at the end of ifBlock.
BuildIf ==
    /\ At("if")
    /\ LET else == Top.node.else_block
           if_bb == NewBlock(1)
           else_bb == IF else = NULL THEN NULL ELSE NewBlock(2)
           cont_bb == IF else = NULL THEN NewBlock(2) ELSE NewBlock(3)
       IN /\ blocks' = Emit(CondBr(ret, if_bb, IF else = NULL THEN cont_bb ELSE else_bb))
                         \o (IF else = NULL THEN << <<>>, <<>> >> ELSE << <<>>, <<>>, <<>> >>)
          /\ cur' = if_bb
          /\ Call(StmtFrame(Top.node.if_block),
                  [kind |-> "endif", else |-> else, else_bb |-> else_bb, cont |-> cont_bb])
    /\ UNCHANGED <<ast, ret, break_target, symbols, status>>

\* Mutant: the if block does not jump over the else block.
GenElse_NoBr ==
    /\ At("endif") /\ Top.else # NULL
    /\ cur' = Top.else_bb
    /\ Call(StmtFrame(Top.else), [Top EXCEPT !.else = NULL, !.else_bb = NULL])
    /\ UNCHANGED <<ast, ret, blocks, break_target, symbols, status>>

\* The if block is generated and there is an else block to generate.
GenElse ==
    /\ At("endif") /\ Top.else # NULL
    /\ blocks' = Emit(Br(Top.cont))
    /\ cur' = Top.else_bb
    /\ Call(StmtFrame(Top.else), [Top EXCEPT !.else = NULL, !.else_bb = NULL])
    /\ UNCHANGED <<ast, ret, break_target, symbols, status>>

\* Mutant: the builder is not moved to ifContinueBlock.
EndIf_StaysPut ==
    /\ At("endif") /\ Top.else = NULL
    /\ blocks' = Emit(Br(Top.cont))
    /\ stack' = Tail(stack)
    /\ UNCHANGED <<ast, ret, cur, break_target, symbols, status>>

\* The last branch of the if is generated.
EndIf ==
    /\ At("endif") /\ Top.else = NULL
    /\ blocks' = Emit(Br(Top.cont))
    /\ cur' = Top.cont
    /\ stack' = Tail(stack)
    /\ UNCHANGED <<ast, ret, break_target, symbols, status>>

\* Mutant: break_target is saved but not set.
GenWhile_NoTarget ==
    /\ AtStmt("WHILE_STMT")
    /\ blocks' = Emit(Br(NewBlock(1))) \o << <<>>, <<>>, <<>> >>
    /\ cur' = NewBlock(1)
    /\ Call(ExprFrame(Top.node.condition),
            [kind |-> "while", node |-> Top.node, cond |-> NewBlock(1),
             body |-> NewBlock(2), cont |-> NewBlock(3), old |-> break_target])
    /\ UNCHANGED <<ast, ret, break_target, symbols, status>>

\* Appends whileCondBlock, whileBlock and whileContinueBlock, saves and sets
\* break_target, jumps to the condition and generates it there.
GenWhile ==
    /\ AtStmt("WHILE_STMT")
    /\ LET cond_bb == NewBlock(1)
           body_bb == NewBlock(2)
           cont_bb == NewBlock(3)
       IN /\ blocks' = Emit(Br(cond_bb)) \o << <<>>, <<>>, <<>> >>
          /\ cur' = cond_bb
          /\ break_target' = cont_bb
          /\ Call(ExprFrame(Top.node.condition),
                  [kind |-> "while", node |-> Top.node, cond |-> cond_bb,
                   body |-> body_bb, cont |-> cont_bb, old |-> break_target])
    /\ UNCHANGED <<ast, ret, symbols, status>>

BuildWhile ==
    /\ At("while")
    /\ blocks' = Emit(CondBr(ret, Top.body, Top.cont))
    /\ cur' = Top.body
    /\ Call(StmtFrame(Top.node.block),
            [kind |-> "loop", cond |-> Top.cond, cont |-> Top.cont, old |-> Top.old])
    /\ UNCHANGED <<ast, ret, break_target, symbols, status>>

\* Mutant: the target of the enclosing loop is not restored.
EndWhile_NoRestore ==
    /\ At("loop")
    /\ blocks' = Emit(Br(Top.cond))
    /\ cur' = Top.cont
    /\ stack' = Tail(stack)
    /\ UNCHANGED <<ast, ret, break_target, symbols, status>>

\* Mutant: no jump back to the condition.
EndWhile_NoBr ==
    /\ At("loop")
    /\ break_target' = Top.old
    /\ cur' = Top.cont
    /\ stack' = Tail(stack)
    /\ UNCHANGED <<ast, ret, blocks, symbols, status>>

EndWhile ==
    /\ At("loop")
    /\ blocks' = Emit(Br(Top.cond))
    /\ break_target' = Top.old
    /\ cur' = Top.cont
    /\ stack' = Tail(stack)
    /\ UNCHANGED <<ast, ret, symbols, status>>

\* The builder stays where it is: what follows the break in the source is
\* emitted after the branch.  Outside a loop the target is NULL: undefined
\* behaviour, an abort (Crash) or a branch with a null operand.
GenBreak ==
    /\ AtStmt("BREAK_STMT")
    /\ blocks' = Emit(Br(break_target))
    /\ stack' = Tail(stack)
    /\ UNCHANGED <<ast, ret, cur, break_target, symbols, status>>

GenBlock ==
    /\ AtStmt("BLOCK")
    /\ stack' = Cons([kind |-> "block", stmts |-> Top.node.stmts], Tail(stack))
    /\ UNCHANGED <<ast, ret, blocks, cur, break_target, symbols, status>>

NextStmt ==
    /\ At("block") /\ Top.stmts # <<>>
    /\ Call(StmtFrame(Head(Top.stmts)), [Top EXCEPT !.stmts = Tail(@)])
    /\ UNCHANGED <<ast, ret, blocks, cur, break_target, symbols, status>>

EndBlock ==
    /\ At("block") /\ Top.stmts = <<>>
    /\ stack' = Tail(stack)
    /\ UNCHANGED <<ast, ret, blocks, cur, break_target, symbols, status>>

(***************************************************************************)
(* generate_llvm_ir, around gen_stmt(root).                                *)
(***************************************************************************)
\* Returns the value of return_value, or 0 when nothing assigned it.
Finish ==
    /\ status = "gen" /\ stack = <<>>
    /\ blocks' =
         IF symbols[ReturnValue] = NULL
         THEN Emit(Ret(ConstVal(Zero)))
         ELSE [blocks EXCEPT ![cur] = @ \o <<Load(symbols[ReturnValue]), Ret(Here)>>]
    /\ status' = "done"
    /\ UNCHANGED <<ast, stack, ret, cur, break_target, symbols>>

\* The abort that a NULL pointer given to the builder may lead to.
Crash ==
    /\ \/ AtExpr("ID_EXPR") /\ symbols[Top.node.id] = NULL
       \/ AtStmt("BREAK_STMT") /\ break_target = NULL
    /\ status' = "crashed"
    /\ UNCHANGED <<ast, stack, ret, blocks, cur, break_target, symbols>>

Terminated == status # "gen" /\ UNCHANGED vars

Init ==
    /\ ast \in Programs
    /\ stack = <<StmtFrame(ast)>>
    /\ ret = NULL
    /\ blocks = << <<>> >>
    /\ cur = 1
    /\ break_target = NULL
    /\ symbols = [x \in Var |-> NULL]
    /\ status = "gen"

GenExprStep == GenId \/ GenConst \/ GenLhs \/ GenRhs \/ BuildOp
GenStmtStep ==
    \/ GenAssign \/ BuildStore
    \/ GenIf \/ BuildIf \/ GenElse \/ EndIf
    \/ GenWhile \/ BuildWhile \/ EndWhile
    \/ GenBreak
    \/ GenBlock \/ NextStmt \/ EndBlock

GenStep == GenExprStep \/ GenStmtStep \/ Finish \/ Crash

Next == GenStep \/ Terminated

Spec == Init /\ [][Next]_vars /\ WF_vars(GenStep)

-----------------------------------------------------------------------------
(* Properties *)

IsExprFrame(f) == f.kind \in {"expr", "lhs", "rhs"}

\* Frames that go on with the value of an expression.
AwaitsValue(f) == f.kind \in {"lhs", "rhs", "store", "if", "while"}

\* Every variable is of the expected type; the frames that await a value are
\* those right under a gen_expr, and when one is on top the value is there.
TypeOK ==
    /\ ast \in Programs
    /\ stack \in Seq(Frame)
    /\ \A i \in 1 .. Len(stack) - 1 : AwaitsValue(stack[i + 1]) <=> IsExprFrame(stack[i])
    /\ ret \in Values \cup {NULL}
    /\ stack # <<>> /\ AwaitsValue(Top) => ret \in Values
    /\ blocks \in Seq(Seq(Instr)) /\ cur \in DOMAIN blocks
    /\ break_target \in BlockNo \cup {NULL}
    /\ symbols \in [Var -> InstVals \cup {NULL}]
    /\ status \in {"gen", "done", "crashed"}

IsLoopFrame(f) == f.kind \in {"while", "loop"}

\* t is where a break in the code of the frames of s from j on should go: the
\* continuation of the innermost loop among them, or NULL if there is none.
IsTarget(s, j, t) ==
    \/ /\ t = NULL
       /\ \A i \in DOMAIN s : i >= j => ~IsLoopFrame(s[i])
    \/ \E i \in DOMAIN s :
         /\ i >= j /\ IsLoopFrame(s[i]) /\ t = s[i].cont
         /\ \A k \in DOMAIN s : k >= j /\ k < i => ~IsLoopFrame(s[k])

\* The one global break_target, saved and restored around each loop, is at any
\* time the continuation of the loop whose code is being generated, however
\* loops, ifs and blocks are nested: a break leaves the immediate loop.
BreakTargetIsInnermost == IsTarget(stack, 1, break_target)

\* The blocks in which frame f still has to put its first instruction.
Owed(f) ==
    CASE f.kind = "endif" -> {f.else_bb, f.cont} \ {NULL}
      [] f.kind = "while" -> {f.body, f.cont}
      [] f.kind = "loop"  -> {f.cont}
      [] OTHER            -> {}

\* A block is closed by a terminator, or is being filled, or is empty and
\* waits for the one frame that will fill it.  A block is therefore never
\* left open, and never resumed once it is left.
BlocksFilledOnce ==
    /\ \A b \in DOMAIN blocks :
         b = cur \/ IsClosed(blocks[b]) \/ \E i \in DOMAIN stack : b \in Owed(stack[i])
    /\ \A i \in DOMAIN stack : \A b \in Owed(stack[i]) :
         /\ b # cur /\ b \in DOMAIN blocks /\ blocks[b] = <<>>
         /\ \A j \in DOMAIN stack : b \in Owed(stack[j]) => i = j

\* At the end every block ends in a terminator: the text has no label that
\* control could fall into.
EveryBlockClosed == status = "done" => \A b \in DOMAIN blocks : IsClosed(blocks[b])
=============================================================================
