------------------------------ MODULE FrontEnd ------------------------------
(***************************************************************************)
(* The front end as main drives it: the scanner (IndentScanner) reads the  *)
(* source line by line and pushes tokens, the parser (Parser) works on     *)
(* each token until it needs the next, and main frees the tree of a        *)
(* program that was accepted.  source is the input: a sequence of lines as *)
(* IndentScanner sees them, each with the text that it has after its       *)
(* indentation.  A text is given by its tokens and, for the reference      *)
(* reading of module Reading, by what it is.                               *)
(***************************************************************************)
EXTENDS Parser

CONSTANTS
    Sources,             \* the inputs: sequences of [line, text]
    Width, MAX_INDENT_LEVELS, MaxLines   \* as in IndentScanner

\* A text is a sequence of tokens that the rules of the scanner push between the
\* indentation and the end of a line; only names, numbers and operators have a value.
TextTokens == Tokens \ {"NEWLINE", "INDENT", "DEDENT", "EOF"}
IsTextToken(t) ==
    /\ t = Symbol(t.sym, t.val) /\ t.sym \in TextTokens
    /\ t.sym \notin {"IDENTIFIER", "CONST", "OP"} => t.val = NULL
    /\ t.sym = "OP" => t.val \in DOMAIN Precedence

ASSUME SourcesAssumption ==
    \A s \in Sources :
        /\ Len(s) \in Nat /\ DOMAIN s = 1 .. Len(s)
        /\ \A i \in DOMAIN s :
              LET ts == s[i].text.tokens
              IN /\ Len(ts) \in Nat /\ ts = [j \in 1 .. Len(ts) |-> ts[j]]
                 /\ \A j \in 1 .. Len(ts) : IsTextToken(ts[j])

VARIABLES
    source,
    at,          \* the number of the next line
    input,       \* tokens of the scanner that the parser was not given yet
    main,        \* "yylex" or "exited"
    indent_stack, top, pc, line, yylineno, widths, tokens   \* IndentScanner's

Scanner == INSTANCE IndentScanner

scannerVars == <<indent_stack, top, pc, line, yylineno, widths, tokens>>
allVars == <<source, at, input, main, scannerVars, parserVars>>

-----------------------------------------------------------------------------
(* The scanner, which goes on when yypush_parse returns YYPUSH_MORE.       *)

\* What a step of the scanner pushes: the CODE of a line is its text.
Plain(ts) == [i \in DOMAIN ts |-> Token(ts[i])]
Pushed ==
    LET new == SubSeq(tokens', Len(tokens) + 1, Len(tokens'))
    IN (IF new # <<>> /\ new[1] = "CODE"
        THEN source[at - 1].text.tokens \o Plain(Tail(new)) ELSE Plain(new))
       \o IF pc' = "done" THEN <<Token("EOF")>> ELSE <<>>

Scanning == main = "yylex" /\ input = <<>> /\ NeedsToken

ReadLine ==
    /\ Scanning /\ at <= Len(source)
    /\ line' = source[at].line
    /\ Scanner!ReadLine
    /\ at' = at + 1
    /\ UNCHANGED <<source, input, main, parserVars>>

ReadEof ==
    /\ Scanning /\ at > Len(source)
    /\ Scanner!ReadEof
    /\ UNCHANGED <<source, at, input, main, parserVars>>

Scan ==
    /\ Scanning
    /\ Scanner!Scan
    /\ input' = Pushed
    /\ UNCHANGED <<source, at, main, parserVars>>

Push ==
    /\ input # <<>>
    /\ PushToken(Head(input))
    /\ input' = Tail(input)
    /\ UNCHANGED <<source, at, main, scannerVars>>

Parse ==
    /\ ParserStep
    /\ UNCHANGED <<source, at, input, main, scannerVars>>

\* yylex returned: a status of 0 means that the program was accepted, and there
\* is a tree.  After it was compiled, main frees it.
Compiles == main = "yylex" /\ status = "accepted"

FreeTree ==
    /\ Compiles
    /\ heap' = AstNodeFree(heap, ast)
    /\ main' = "exited"
    /\ UNCHANGED <<source, at, input, scannerVars, stack, lookahead, symbols, ast, status,
                   errorVars>>

Returned == status # "more" \/ pc \in {"error", "exit", "no_pstate"}

\* exit(1), a crash without a parser, or another status than 0.
NoTree ==
    /\ main = "yylex" /\ Returned /\ ~Compiles
    /\ main' = "exited"
    /\ UNCHANGED <<source, at, input, scannerVars, parserVars>>

Terminated == main = "exited" /\ UNCHANGED allVars

FrontInit ==
    /\ source \in Sources
    /\ at = 1 /\ input = <<>> /\ main = "yylex"
    /\ Scanner!Init
    /\ ParserInit

Work == ReadLine \/ ReadEof \/ Scan \/ Push \/ Parse \/ FreeTree \/ NoTree
FrontNext == Work \/ Terminated

\* The compiler is sequential, and nothing but itself keeps it from going on.
FrontSpec == FrontInit /\ [][FrontNext]_allVars /\ WF_allVars(Work)

-----------------------------------------------------------------------------
(* Properties *)

FrontTypeOK ==
    /\ at \in 1 .. Len(source) + 1
    /\ main \in {"yylex", "exited"}
    /\ status \in {"more", "accepted", "aborted", "exit"}
    /\ errstatus \in 0 .. 3 /\ have_err \in {0, 1}
    /\ pc # "stopped"
    /\ ast \in DOMAIN heap \cup {NULL} /\ unknown \subseteq DOMAIN heap

\* The places that hold a pointer: the symbols on the stack, the lookahead, the
\* children of the objects, and main's ast until it is freed.
Pointed(e) == IF e = NULL \/ e.sym = "OP" THEN NULL ELSE e.val
Places ==
    {<<"stack", 0, i>> : i \in DOMAIN stack}
    \cup (UNION {{<<"heap", p, i>> : i \in DOMAIN heap[p].ptrs} : p \in DOMAIN heap})
    \cup {<<"lookahead", 0, 0>>} \cup IF main = "yylex" THEN {<<"ast", 0, 0>>} ELSE {}
PointerAt(a) ==
    CASE a[1] = "stack"     -> Pointed(stack[a[3]])
      [] a[1] = "heap"      -> heap[a[2]].ptrs[a[3]]
      [] a[1] = "lookahead" -> Pointed(lookahead)
      [] a[1] = "ast"       -> ast

Held == {a \in Places : PointerAt(a) # NULL}
Pointers == {PointerAt(a) : a \in Held}

\* A constructor that drops a statement frees each part once: nothing that was freed
\* is pointed to, and nothing is owned twice, so that nothing is freed again.
OneOwner == Cardinality(Pointers) = Cardinality(Held) /\ Pointers \subseteq Live(heap)

\* Without a syntax error all that was allocated has an owner, but for the lexemes
\* of names that were reported as unknown; at the end ast_node_free leaves only those.
NothingLost == yynerrs = 0 => Live(heap) \subseteq Pointers \cup unknown

\* The generator is given what it relies on: nothing in the tree is freed, no part of
\* a node is missing but an else block, and no block has more statements than its
\* array, whatever was dropped on the way.
NodesComplete ==
    Compiles =>
        \A p \in Tree(heap, ast) :
            LET ptrs == heap[p].ptrs
            IN /\ p \in Live(heap)
               /\ \A i \in DOMAIN ptrs : ptrs[i] = NULL => heap[p].type = "IF_STMT" /\ i = 3
               /\ heap[p].type = "BLOCK" => Len(ptrs) <= AST_NODE_MAX_CHILDREN
=============================================================================
