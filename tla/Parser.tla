------------------------------- MODULE Parser -------------------------------
(***************************************************************************)
(* The push parser that bison makes of src/parser.y.  The stack holds      *)
(* symbols with their semantic values: pointers into the heap of AstHeap,  *)
(* or the operator of an OP.  A reduction is an action; one that leads to  *)
(* another without looking at a token (a statement that joins its          *)
(* statements, a primary_expression that is an expression) includes it.    *)
(*                                                                         *)
(* bison's tables are modelled by what they do, in terms of the symbols on *)
(* top of the stack.  A state with one reduction and nothing else reduces  *)
(* before the next token is asked for; a state that can reduce and shift   *)
(* shifts what it can and reduces on any other token, wrong ones included, *)
(* except where an error is acceptable.  FLOAT, INTEGER and BOOLEAN are    *)
(* CONST, the operators with productions are OP, and every token that no   *)
(* production has (also the DEF, ELIF, FOR, NOT, ... of the scanner) is    *)
(* UNKNOWN.                                                                *)
(***************************************************************************)
EXTENDS AstHeap, Integers

CONSTANT Precedence      \* of the operators, by the order of the %left lines

\* The terminals and the nonterminals of the grammar; "error" is bison's.
Tokens ==
    {"IDENTIFIER", "CONST", "OP", "ASSIGN", "LPAREN", "RPAREN", "COLON", "IF", "ELSE", "WHILE",
     "BREAK", "UNKNOWN", "NEWLINE", "INDENT", "DEDENT", "EOF"}
Nonterminals ==
    {"error", "expression", "condition", "statement", "statements", "block", "program"}

\* NULL is no symbol with its value.
ASSUME ParserAssumption == NULL \notin [sym : Tokens \cup Nonterminals, val : Nat \cup {NULL}]

VARIABLES
    stack,       \* yyss and yyvs: symbols and their values, the last is on top
    lookahead,   \* the token that was pushed and not shifted, or NULL
    errstatus,   \* yyerrstatus: shifts to go until errors are reported again
    yynerrs,     \* number of syntax errors reported
    have_err,
    symbols,     \* the names in the symbol table
    ast,
    heap,
    unknown,     \* history: lexemes of the unknown names that were reported
    status       \* of yypush_parse: "more", "accepted", "aborted"; or "exit"

parserVars ==
    <<stack, lookahead, errstatus, yynerrs, have_err, symbols, ast, heap, unknown, status>>
errorVars == <<errstatus, yynerrs, have_err, unknown>>

Symbol(s, v) == [sym |-> s, val |-> v]
Token(t)     == Symbol(t, NULL)

-----------------------------------------------------------------------------
(* The states of the automaton *)

Symbols == [i \in DOMAIN stack |-> stack[i].sym]
Ends(syms) == IsSuffix(syms, Symbols)
Value(n) == stack[Len(stack) - n].val          \* n symbols below the top
Below(n) == SubSeq(stack, 1, Len(stack) - n)   \* without the top n symbols

\* Where a statement may begin, and where an error is acceptable.
AtStatement(st) == st = <<>> \/ st[Len(st)].sym \in {"INDENT", "statements"}

BeforeOperand == {"ASSIGN", "OP", "LPAREN", "IF", "WHILE"}
AtOperand(st) == st # <<>> /\ st[Len(st)].sym \in BeforeOperand

EndsOperand(sym) == Ends(<<sym>>) /\ AtOperand(Below(1))
EndsHeader(keyword) == Ends(<<keyword, "condition", "COLON", "NEWLINE", "block">>)

\* The state has one reduction and needs no token for it.
IsConsistent ==
    \/ EndsOperand("IDENTIFIER") \/ Ends(<<"CONST">>) \/ Ends(<<"RPAREN">>)
    \/ Ends(<<"expression", "NEWLINE">>) \/ Ends(<<"BREAK", "NEWLINE">>)
    \/ Ends(<<"error", "NEWLINE">>)
    \/ Ends(<<"DEDENT">>) \/ EndsHeader("WHILE")
    \/ Ends(<<"ELSE", "COLON", "NEWLINE", "block">>)

NeedsToken == status = "more" /\ lookahead = NULL /\ ~IsConsistent

\* Operators are left-associative.
ShiftsOperator(op) ==
    /\ Ends(<<"expression">>)
    /\ Ends(<<"OP", "expression">>) => Precedence[op] > Precedence[Value(1)]

\* The other tokens that the state has a shift for.
Expected ==
    CASE AtStatement(stack) -> {"IDENTIFIER", "IF", "WHILE", "BREAK"}
                               \cup IF Ends(<<"INDENT", "statements">>) THEN {"DEDENT"} ELSE {}
      [] AtOperand(stack)                  -> {"IDENTIFIER", "CONST", "LPAREN"}
      [] Ends(<<"LPAREN", "expression">>)  -> {"RPAREN"}
      [] Ends(<<"ASSIGN", "expression">>)  -> {"NEWLINE"}
      [] Ends(<<"IDENTIFIER">>)            -> {"ASSIGN"}
      [] Ends(<<"condition">>)             -> {"COLON"}
      [] Ends(<<"COLON">>)                 -> {"NEWLINE"}
      [] Ends(<<"NEWLINE">>)               -> {"INDENT"}
      [] EndsHeader("IF")                  -> {"ELSE"}
      [] Ends(<<"ELSE">>)                  -> {"COLON"}
      [] Ends(<<"BREAK">>)                 -> {"NEWLINE"}
      [] Ends(<<"error">>)                 -> {"NEWLINE"}
      [] OTHER                             -> {}

Shifts ==
    \/ lookahead.sym = "OP" /\ ShiftsOperator(lookahead.val)
    \/ lookahead.sym \in Expected

HasDefault ==
    \/ Ends(<<"OP", "expression">>)
    \/ Ends(<<"IF", "expression">>) \/ Ends(<<"WHILE", "expression">>)
    \/ EndsHeader("IF")
    \/ Symbols = <<"statements">> /\ lookahead.sym = "EOF"

Running == status = "more"
Deciding == Running /\ lookahead # NULL
Defaults == Deciding /\ ~Shifts

-----------------------------------------------------------------------------
(* Tokens *)

\* PUSH_TOKEN: the scanner copies the lexemes of identifiers and numbers.
PushToken(t) ==
    /\ NeedsToken
    /\ IF t.sym \in {"IDENTIFIER", "CONST"}
       THEN LET new == New(heap, Lexeme(t.val))
            IN heap' = new.heap /\ lookahead' = Symbol(t.sym, new.ptr)
       ELSE lookahead' = t /\ UNCHANGED heap
    /\ UNCHANGED <<stack, symbols, ast, status, errorVars>>

\* Mutant: the count goes below zero.
Shift_Underflow ==
    /\ Deciding /\ Shifts
    /\ stack' = Append(stack, lookahead)
    /\ lookahead' = NULL
    /\ errstatus' = errstatus - 1
    /\ UNCHANGED <<yynerrs, have_err, symbols, ast, heap, unknown, status>>

Shift ==
    /\ Deciding /\ Shifts
    /\ stack' = Append(stack, lookahead)
    /\ lookahead' = NULL
    /\ errstatus' = IF errstatus = 0 THEN 0 ELSE errstatus - 1
    /\ UNCHANGED <<yynerrs, have_err, symbols, ast, heap, unknown, status>>

-----------------------------------------------------------------------------
(* Reductions *)

\* The top n symbols become sym, with what a constructor returned.
Reduce(n, sym, new) ==
    /\ stack' = Append(Below(n), Symbol(sym, new.ptr))
    /\ heap' = new.heap

\* The top n symbols are a statement: it begins its statements, or joins them.
ReduceStatement(n, new) ==
    LET rest == Below(n) IN
    IF rest = <<>> \/ rest[Len(rest)].sym = "INDENT"
    THEN LET block == BlockNodeCreate(new.heap, new.ptr)
         IN /\ stack' = Append(rest, Symbol("statements", block.ptr))
            /\ heap' = block.heap
            /\ UNCHANGED status
    ELSE LET block == rest[Len(rest)].val
         IN IF IsFull(new.heap, block)
            THEN /\ status' = "exit"
                 /\ stack' = Append(rest, Symbol("statement", new.ptr))
                 /\ heap' = new.heap
            ELSE /\ stack' = rest
                 /\ heap' = BlockNodeAppendStmt(new.heap, block, new.ptr)
                 /\ UNCHANGED status

\* Mutant: an unknown name is reported, and the error not remembered.
ReduceIdentifier_Forgets ==
    /\ Running /\ EndsOperand("IDENTIFIER")
    /\ IF heap[Value(0)].data \in symbols
       THEN /\ Reduce(1, "expression", IdExprNodeCreate(heap, Value(0)))
            /\ UNCHANGED unknown
       ELSE /\ Reduce(1, "expression", Nothing(heap))
            /\ unknown' = unknown \cup {Value(0)}
    /\ UNCHANGED <<lookahead, errstatus, yynerrs, have_err, symbols, ast, status>>

\* primary_expression: a name must be in the symbol table; else it is reported,
\* and its lexeme stays allocated.
ReduceIdentifier ==
    /\ Running /\ EndsOperand("IDENTIFIER")
    /\ IF heap[Value(0)].data \in symbols
       THEN /\ Reduce(1, "expression", IdExprNodeCreate(heap, Value(0)))
            /\ UNCHANGED <<have_err, unknown>>
       ELSE /\ Reduce(1, "expression", Nothing(heap))
            /\ have_err' = 1
            /\ unknown' = unknown \cup {Value(0)}
    /\ UNCHANGED <<lookahead, errstatus, yynerrs, symbols, ast, status>>

ReduceConst ==
    /\ Running /\ Ends(<<"CONST">>)
    /\ Reduce(1, "expression", ConstExprNodeCreate(heap, Value(0)))
    /\ UNCHANGED <<lookahead, symbols, ast, status, errorVars>>

ReduceParentheses ==
    /\ Running /\ Ends(<<"LPAREN", "expression", "RPAREN">>)
    /\ stack' = Append(Below(3), Symbol("expression", Value(1)))
    /\ UNCHANGED <<lookahead, symbols, ast, heap, status, errorVars>>

\* Mutant: the operator's precedence is not looked at.
ReduceBinop_Eager ==
    /\ Deciding /\ Ends(<<"expression", "OP", "expression">>)
    /\ Reduce(3, "expression", BinopExprNodeCreate(heap, Value(1), Value(2), Value(0)))
    /\ UNCHANGED <<lookahead, symbols, ast, status, errorVars>>

ReduceBinop ==
    /\ Defaults /\ Ends(<<"expression", "OP", "expression">>)
    /\ Reduce(3, "expression", BinopExprNodeCreate(heap, Value(1), Value(2), Value(0)))
    /\ UNCHANGED <<lookahead, symbols, ast, status, errorVars>>

ReduceCondition ==
    /\ Defaults /\ (Ends(<<"IF", "expression">>) \/ Ends(<<"WHILE", "expression">>))
    /\ stack' = Append(Below(1), Symbol("condition", Value(0)))
    /\ UNCHANGED <<lookahead, symbols, ast, heap, status, errorVars>>

\* assign_statement: the name is entered before the node is made, and also if
\* none is made.
ReduceAssign ==
    /\ Running /\ Ends(<<"IDENTIFIER", "ASSIGN", "expression", "NEWLINE">>)
    /\ symbols' = symbols \cup {heap[Value(3)].data}
    /\ ReduceStatement(4, AssignStmtNodeCreate(heap, Value(3), Value(1)))
    /\ UNCHANGED <<lookahead, ast, errorVars>>

ReduceBlock ==
    /\ Running /\ Ends(<<"INDENT", "statements", "DEDENT">>)
    /\ stack' = Append(Below(3), Symbol("block", Value(1)))
    /\ UNCHANGED <<lookahead, symbols, ast, heap, status, errorVars>>

\* if_statement with an empty else_block: any token but an ELSE ends it.
ReduceIf ==
    /\ Defaults /\ EndsHeader("IF")
    /\ ReduceStatement(5, IfStmtNodeCreate(heap, Value(3), Value(0), NULL))
    /\ UNCHANGED <<lookahead, symbols, ast, errorVars>>

ReduceIfElse ==
    /\ Running /\ Ends(<<"ELSE", "COLON", "NEWLINE", "block">>)
    /\ ReduceStatement(9, IfStmtNodeCreate(heap, Value(7), Value(4), Value(0)))
    /\ UNCHANGED <<lookahead, symbols, ast, errorVars>>

ReduceWhile ==
    /\ Running /\ EndsHeader("WHILE")
    /\ ReduceStatement(5, WhileStmtNodeCreate(heap, Value(3), Value(0)))
    /\ UNCHANGED <<lookahead, symbols, ast, errorVars>>

ReduceBreak ==
    /\ Running /\ Ends(<<"BREAK", "NEWLINE">>)
    /\ ReduceStatement(2, BreakStmtNodeCreate(heap))
    /\ UNCHANGED <<lookahead, symbols, ast, errorVars>>

\* Mutant: the production is "error", and the NEWLINE may follow or not.
ReduceError_AnyToken ==
    /\ Running
    /\ have_err' = 1
    /\ \E n \in {1, 2} :
          /\ Ends(SubSeq(<<"error", "NEWLINE">>, 1, n))
          /\ ReduceStatement(n, Nothing(heap))
    /\ UNCHANGED <<lookahead, errstatus, yynerrs, symbols, ast, unknown>>

\* Mutant: the line that could not be read is not remembered.
ReduceError_Forgets ==
    /\ Running /\ Ends(<<"error", "NEWLINE">>)
    /\ ReduceStatement(2, Nothing(heap))
    /\ UNCHANGED <<lookahead, symbols, ast, errorVars>>

ReduceError ==
    /\ Running /\ Ends(<<"error", "NEWLINE">>)
    /\ have_err' = 1
    /\ ReduceStatement(2, Nothing(heap))
    /\ UNCHANGED <<lookahead, errstatus, yynerrs, symbols, ast, unknown>>

\* program, at the end of the input, which is then accepted.
ReduceProgram ==
    /\ Defaults /\ Symbols = <<"statements">> /\ lookahead.sym = "EOF"
    /\ ast' = Value(0)
    /\ stack' = <<Token("program")>>
    /\ lookahead' = NULL
    /\ status' = "accepted"
    /\ UNCHANGED <<symbols, heap, errorVars>>

-----------------------------------------------------------------------------
(* Errors.  No symbol has a %destructor: what is popped or discarded stays *)
(* allocated.                                                              *)

IsError == Defaults /\ ~HasDefault

\* The longest part of the stack on top of which an error is acceptable.
Recovered ==
    LET n == CHOOSE i \in 0 .. Len(stack) :
                /\ AtStatement(SubSeq(stack, 1, i))
                /\ \A j \in i + 1 .. Len(stack) : ~AtStatement(SubSeq(stack, 1, j))
    IN SubSeq(stack, 1, n)

\* Mutant: a token that cannot be used twice in a row is not discarded.
SyntaxError_KeepsToken ==
    /\ IsError /\ ~(errstatus = 3 /\ lookahead.sym = "EOF")
    /\ yynerrs' = IF errstatus = 0 THEN yynerrs + 1 ELSE yynerrs
    /\ errstatus' = 3
    /\ stack' = Append(Recovered, Token("error"))
    /\ UNCHANGED <<lookahead, have_err, symbols, ast, heap, unknown, status>>

\* An error is reported unless one was, less than three tokens ago.  After an
\* error that followed no shift the token is discarded; the next must be a NEWLINE.
SyntaxError ==
    /\ IsError /\ ~(errstatus = 3 /\ lookahead.sym = "EOF")
    /\ yynerrs' = IF errstatus = 0 THEN yynerrs + 1 ELSE yynerrs
    /\ lookahead' = IF errstatus = 3 THEN NULL ELSE lookahead
    /\ errstatus' = 3
    /\ stack' = Append(Recovered, Token("error"))
    /\ UNCHANGED <<have_err, symbols, ast, heap, unknown, status>>

\* The input ends before the NEWLINE that recovery waits for.
Abort ==
    /\ IsError /\ errstatus = 3 /\ lookahead.sym = "EOF"
    /\ status' = "aborted"
    /\ stack' = <<>> /\ lookahead' = NULL
    /\ UNCHANGED <<symbols, ast, heap, errorVars>>

-----------------------------------------------------------------------------
ParserInit ==
    /\ stack = <<>> /\ lookahead = NULL
    /\ errstatus = 0 /\ yynerrs = 0 /\ have_err = 0
    /\ symbols = {} /\ ast = NULL /\ heap = <<>>
    /\ unknown = {} /\ status = "more"

\* yypush_parse, until it needs another token.
ParserStep ==
    \/ Shift
    \/ ReduceIdentifier \/ ReduceConst \/ ReduceParentheses
    \/ ReduceBinop \/ ReduceCondition
    \/ ReduceAssign \/ ReduceBlock \/ ReduceIf \/ ReduceIfElse \/ ReduceWhile
    \/ ReduceBreak \/ ReduceError \/ ReduceProgram
    \/ SyntaxError \/ Abort
=============================================================================
