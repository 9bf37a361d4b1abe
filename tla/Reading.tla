------------------------------ MODULE Reading ------------------------------
(***************************************************************************)
(* The reference for FrontEnd: how the layout, precedence and parentheses  *)
(* of a source say that it is to be read, and the properties that compare  *)
(* the tree of the parser with it.                                         *)
(***************************************************************************)
EXTENDS FrontEnd, FiniteSetsExt

-----------------------------------------------------------------------------
(* The reference: how the lines of a program are to be read.               *)

Lines == SelectSeq(source, LAMBDA l : l.line.kind = "code")

\* Line k is in a block that is still open at line i.
IsOpen(k, i) == \A j \in k .. i : Lines[j].line.width >= Lines[k].line.width

\* Spaces after the last newline do no harm if they are those of an open block.
IsHarmless(l) ==
    l.line.kind = "tail" =>
        /\ ~l.line.code
        /\ \E k \in DOMAIN Lines :
              Lines[k].line.width = l.line.width /\ IsOpen(k, Len(Lines))

\* The lines that are indented more than the first, up to the next that is not.
BodyLength(ls) ==
    Min({i \in DOMAIN ls : i > 1 /\ ls[i].line.width <= ls[1].line.width} \cup {Len(ls) + 1}) - 2
Body(ls) == SubSeq(ls, 2, BodyLength(ls) + 1)
After(ls) == SubSeq(ls, BodyLength(ls) + 2, Len(ls))

IsHeader(l) == l.text.is \in {"if", "else", "while"}

\* The lines are the statements of a block: one width, a deeper body just after
\* a header, an else just after an if.  A line that is "bad" stands for itself.
RECURSIVE IsBlock(_, _)
IsBlock(ls, previous) ==
    ls = <<>> \/
        /\ ls[1].text.is = "else" => previous = "if"
        /\ IF IsHeader(ls[1]) THEN Body(ls) # <<>> /\ IsBlock(Body(ls), "none")
           ELSE Body(ls) = <<>>
        /\ LET next == After(ls)
           IN /\ next # <<>> => next[1].line.width = ls[1].line.width
              /\ IsBlock(next, ls[1].text.is)

IsProgram ==
    /\ Lines # <<>> /\ Lines[1].line.width = 0 /\ IsBlock(Lines, "none")
    /\ \A i \in DOMAIN source : IsHarmless(source[i])

HasBadLine == \E i \in DOMAIN Lines : Lines[i].text.is = "bad"

\* More blocks are open at a line than the scanner has levels for.
IsTooDeep ==
    \E i \in DOMAIN Lines :
        Cardinality({Lines[k].line.width : k \in {j \in 1 .. i : IsOpen(j, i)}})
            > MAX_INDENT_LEVELS

\* Reading adds the statements of the lines to r: those kept, the names seen so
\* far, whether a statement was dropped, and what came to a block without room: a
\* statement (full), or one that was dropped (nullAtFull).  A statement is dropped
\* that cannot be read or has a name not seen.
Keep(r, s, known) ==
    [r EXCEPT !.stmts = IF known THEN Append(@, s) ELSE @,
              !.dropped = @ \/ ~known,
              !.full = @ \/ (known /\ Len(r.stmts) = AST_NODE_MAX_CHILDREN),
              !.nullAtFull = @ \/ (~known /\ Len(r.stmts) = AST_NODE_MAX_CHILDREN)]

RECURSIVE NamesIn(_)
NamesIn(e) ==
    CASE e.type = "ID_EXPR"    -> {e.id}
      [] e.type = "BINOP_EXPR" -> NamesIn(e.lhs) \cup NamesIn(e.rhs)
      [] OTHER                 -> {}

RECURSIVE Read(_, _)
Read(ls, r) ==
    IF ls = <<>> THEN r
    ELSE LET text   == ls[1].text
             known  == NamesIn(text.expr) \subseteq r.seen
             next   == After(ls)
             body   == Read(Body(ls), [r EXCEPT !.stmts = <<>>])
             inner  == [body EXCEPT !.stmts = r.stmts]
         IN CASE text.is = "assign" ->
                   Read(next, [Keep(r, Assign(text.lhs, text.expr), known)
                               EXCEPT !.seen = @ \cup {text.lhs}])
              [] text.is = "break" -> Read(next, Keep(r, Break, TRUE))
              [] text.is = "bad"   -> Read(next, Keep(r, NULL, FALSE))
              [] text.is = "while" ->
                   Read(next, Keep(inner, While(text.expr, Block(body.stmts)), known))
              [] text.is = "if" /\ (next = <<>> \/ next[1].text.is # "else") ->
                   Read(next, Keep(inner, If(text.expr, Block(body.stmts), NULL), known))
              [] OTHER ->
                   LET other == Read(Body(next), [body EXCEPT !.stmts = <<>>])
                   IN Read(After(next),
                           Keep([other EXCEPT !.stmts = r.stmts],
                                If(text.expr, Block(body.stmts), Block(other.stmts)), known))

Reading == Read(Lines, [stmts |-> <<>>, seen |-> {}, dropped |-> FALSE, full |-> FALSE,
                        nullAtFull |-> FALSE])

\* The tree that the object p of the heap is.
RECURSIVE NodeAt(_)
NodeAt(p) ==
    LET o == heap[p]
        child(i) == NodeAt(o.ptrs[i])
    IN CASE p = NULL                -> NULL
         [] o.type = "ID_EXPR"      -> Id(heap[o.ptrs[1]].data)
         [] o.type = "CONST_EXPR"   -> Const(o.data)
         [] o.type = "BINOP_EXPR"   -> Binop(o.data, child(1), child(2))
         [] o.type = "ASSIGN_STMT"  -> Assign(heap[o.ptrs[1]].data, child(2))
         [] o.type = "IF_STMT"      -> If(child(1), child(2), child(3))
         [] o.type = "WHILE_STMT"   -> While(child(1), child(2))
         [] o.type = "BREAK_STMT"   -> Break
         [] o.type = "BLOCK"        -> Block([i \in DOMAIN o.ptrs |-> child(i)])

\* The nodes of the tree that goes on to the generator.
ParsedNodes == {NodeAt(p) : p \in {q \in Tree(heap, ast) : heap[q].type # "LEXEME"}}
Parsed == INSTANCE Syntax WITH Expr <- ParsedNodes, Stmt <- ParsedNodes

\* What a tree says in the order of the text: statements, and conditions of headers.
Header(keyword, e) == [type |-> keyword, expr |-> e]

RECURSIVE Said(_)
Said(s) ==
    CASE s = NULL             -> <<>>
      [] s.type = "BLOCK"      -> FlattenSeq([i \in DOMAIN s.stmts |-> Said(s.stmts[i])])
      [] s.type = "IF_STMT"    ->
           <<Header("if", s.condition)>> \o Said(s.if_block) \o Said(s.else_block)
      [] s.type = "WHILE_STMT" -> <<Header("while", s.condition)>> \o Said(s.block)
      [] OTHER                 -> <<s>>

SaidBy(text) ==
    CASE text.is = "assign"         -> <<Assign(text.lhs, text.expr)>>
      [] text.is = "break"          -> <<Break>>
      [] text.is \in {"if", "while"} -> <<Header(text.is, text.expr)>>
      [] OTHER                      -> <<>>

RECURSIVE IsPartOf(_, _)
IsPartOf(s, t) ==
    s = <<>> \/ (t # <<>> /\ IsPartOf(IF s[1] = t[1] THEN Tail(s) ELSE s, Tail(t)))

-----------------------------------------------------------------------------
(* Properties *)

HasRoom == ~Reading.full /\ ~IsTooDeep

\* A source whose lines are laid out as a program is read to its end and accepted,
\* whatever is wrong within its lines, if its blocks and its indentation have room; if
\* they have none the compiler exits.  A dropped statement that comes to a full block is
\* left out: block_node_append_stmt says that NULL is ignored, but tests the room first.
AcceptsPrograms ==
    main = "exited" /\ IsProgram =>
        /\ HasRoom /\ ~Reading.nullAtFull => status = "accepted"
        /\ ~HasRoom => "exit" \in {status, pc}

\* Its tree is the one that the layout, precedence and parentheses say, without the
\* statements that could not be read, and the symbol table has the assigned names.
TreeIsReading ==
    Compiles /\ IsProgram => NodeAt(ast) = Block(Reading.stmts) /\ symbols = Reading.seen

\* An accepted source was reported as wrong, and is remembered by have_err, exactly if
\* it is not a program, or has a line or a name that is wrong.
ErrorsReported ==
    Compiles =>
        /\ yynerrs = 0 <=> IsProgram /\ ~HasBadLine
        /\ have_err = 0 <=> IsProgram /\ ~Reading.dropped

\* Recovery drops text, whole lines of it: what is left of any source is in its
\* order, once, and was written just so.
RecoveryOnlyDrops ==
    Compiles => IsPartOf(Said(NodeAt(ast)),
                         FlattenSeq([i \in DOMAIN Lines |-> SaidBy(Lines[i].text)]))

\* Without an error every name in the tree that the generator is given is assigned
\* earlier in the text.
NamesAssigned == Compiles /\ have_err = 0 => Parsed!ParserAccepts(NodeAt(ast))

\* The compiler always ends: each round of recovery discards a token of a finite input.
CompilerEnds == <>(main = "exited")

\* "... and if an AST is successfully generated": what goes on to the generator is all
\* of the source program.
CompilesWholePrograms == Compiles => IsProgram /\ ~Reading.dropped
=============================================================================
