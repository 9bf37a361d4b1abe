------------------------------ MODULE Graphviz ------------------------------
(***************************************************************************)
(* generate_graphviz of src/ast/ast_graphviz.c: a tree as a GraphViz       *)
(* graph, which README.md describes; main does not call it any more.  The  *)
(* text of a string is the sequence of what it was put together from: a    *)
(* name is the name of the root and what was appended to it, a             *)
(* specification is its lines.  The two lines around them are left out.    *)
(* The value of a constant is [kind, val], where val of a float is in      *)
(* units of 10^-7.                                                         *)
(***************************************************************************)
EXTENDS Nodes, Integers, FiniteSets, Sequences, SequencesExt, FiniteSetsExt

CONSTANT Trees            \* the roots to draw

VARIABLES
    root,
    strings,   \* all that were allocated: their text, their maker, how often they were freed
    spec       \* the string that was returned; NULL before

vars == <<root, strings, spec>>

-----------------------------------------------------------------------------
(* The heap.  A function of the code maps a heap h to one in which its     *)
(* result is the string ptr.                                               *)

Alloc(h, maker, text) ==
    [h   |-> Append(h, [text |-> text, maker |-> maker, freed |-> 0]),
     ptr |-> Len(h) + 1]

Free(h, ps) == [p \in DOMAIN h |-> IF p \in ps THEN [h[p] EXCEPT !.freed = @ + 1] ELSE h[p]]

\* What a pointer reads; garbage, if the string was freed.
Str(h, p) == IF h[p].freed = 0 THEN h[p].text ELSE <<>>

-----------------------------------------------------------------------------
(* strutils.c *)

\* strncat copies at most l characters, the room that is left.
ConcatStrings(h, texts) ==
    LET Put(done, s) ==
            [result |-> done.result \o SubSeq(s, 1, IF Len(s) < done.l THEN Len(s) ELSE done.l),
             l |-> done.l - Len(s)]
        total == FoldLeft(LAMBDA n, s : n + Len(s), 0, texts)
    IN Alloc(h, "concat_strings", FoldLeft(Put, [result |-> <<>>, l |-> total], texts).result)

\* Mutant: no room for the terminator, which takes that of the last digit.
FloatToStr_Short(h, val) == Alloc(h, "float_to_str", <<((val + 5) \div 10) \div 10>>)

\* Six decimals are printed; no value of an instance is half way between two.
FloatToStr(h, val) == Alloc(h, "float_to_str", <<(val + 5) \div 10>>)

\* All digits are printed.
IntToStr(h, val) == Alloc(h, "int_to_str", <<val>>)

-----------------------------------------------------------------------------
(* The nodes of the graph *)

NodeLine(h, name, label, sublabel) ==
    ConcatStrings(h, <<<<[line |-> "node", name |-> name, label |-> label, sublabel |-> sublabel]>>>>)
EdgeLine(h, tail, head, label) ==
    ConcatStrings(h, <<<<[line |-> "edge", tail |-> tail, head |-> head, label |-> label]>>>>)

RECURSIVE AstNodeGraphviz(_, _, _)

Edge(suffix, label, child) == [suffix |-> suffix, label |-> label, child |-> child]

\* What a function has made so far: texts that it will put together, and names.
Locals(own) == [h |-> own.h, texts |-> <<own.ptr>>, names |-> {}]

\* lhs_name, lhs_edge_gv and lhs_subtree_gv, or the like of another child: its name is
\* the parent's with a suffix.
MakeChild(made, name, e) ==
    LET named   == ConcatStrings(made.h, <<name, e.suffix>>)
        edge    == EdgeLine(named.h, name, Str(named.h, named.ptr), e.label)
        subtree == AstNodeGraphviz(edge.h, e.child, Str(edge.h, named.ptr))
    IN [h |-> subtree.h, texts |-> made.texts \o <<edge.ptr, subtree.ptr>>,
        names |-> made.names \cup {named.ptr}]

\* A text, and the children that are made after it.
Children(own, name, edges) ==
    FoldLeft(LAMBDA made, e : MakeChild(made, name, e), Locals(own), edges)

Join(made) == ConcatStrings(made.h, [i \in DOMAIN made.texts |-> Str(made.h, made.texts[i])])
Freeing(result, ps) == [result EXCEPT !.h = Free(@, ps)]

\* Mutant: the first text is forgotten, which another replaces.
Strings_NotOwn(made) == made.names \cup ToSet(Tail(made.texts))
Strings(made) == made.names \cup ToSet(made.texts)

\* All is put together and freed.
Finish(made) == Freeing(Join(made), Strings(made))

\* A number is converted, printed and freed.
ConstGraphviz(h, node, name) ==
    LET val == IF node.val.kind = "FLOAT" THEN FloatToStr(h, node.val.val)
               ELSE IntToStr(h, node.val.val)
    IN Freeing(NodeLine(val.h, name, node.val.kind, Str(val.h, val.ptr)), {val.ptr})

\* Mutant: both operands get one name.
RhsSuffix_AsLhs == <<"_lhs">>
RhsSuffix == <<"_rhs">>

BinopGraphviz(h, node, name) ==
    Finish(Children(NodeLine(h, name, node.op, NULL), name,
                    <<Edge(<<"_lhs">>, NULL, node.lhs), Edge(RhsSuffix, NULL, node.rhs)>>))

AssignGraphviz(h, node, name) ==
    Finish(Children(NodeLine(h, name, "ASSIGNMENT", node.lhs), name,
                    <<Edge(RhsSuffix, NULL, node.rhs)>>))

\* The index of a statement is converted in the call that takes it; the text so far is
\* old_gv, which a longer one replaces.
BlockGraphviz(h, node, name) ==
    LET AddStmt(gv, i) ==
            LET index == IntToStr(gv.h, i - 1)
            IN Finish(Children([h |-> index.h, ptr |-> gv.ptr], name,
                          <<Edge(<<"_">> \o Str(index.h, index.ptr), NULL, node.stmts[i])>>))
    IN FoldLeft(AddStmt, NodeLine(h, name, "BLOCK", NULL), [i \in DOMAIN node.stmts |-> i])

\* An else is added as a statement is to a block; then the other strings are freed.
IfGraphviz(h, node, name) ==
    LET AddElse(gv) ==
            IF node.else_block = NULL THEN gv
            ELSE Finish(Children(gv, name, <<Edge(<<"_else">>, "else", node.else_block)>>))
        FinishIf(made) == Freeing(AddElse(Join(made)), Strings(made))
    IN FinishIf(Children(NodeLine(h, name, "IF", NULL), name,
                         <<Edge(<<"_cond">>, "cond", node.condition),
                           Edge(<<"_block">>, "if", node.if_block)>>))

WhileGraphviz(h, node, name) ==
    Finish(Children(NodeLine(h, name, "WHILE", NULL), name,
                    <<Edge(<<"_cond">>, "cond", node.condition),
                      Edge(<<"_block">>, NULL, node.block)>>))

\* _ast_node_graphviz; no part of a tree is NULL.
AstNodeGraphviz(h, node, name) ==
    CASE node.type = "ID_EXPR"     -> NodeLine(h, name, "IDENTIFIER", node.id)
      [] node.type = "CONST_EXPR"  -> ConstGraphviz(h, node, name)
      [] node.type = "BINOP_EXPR"  -> BinopGraphviz(h, node, name)
      [] node.type = "ASSIGN_STMT" -> AssignGraphviz(h, node, name)
      [] node.type = "IF_STMT"     -> IfGraphviz(h, node, name)
      [] node.type = "BLOCK"       -> BlockGraphviz(h, node, name)
      [] node.type = "WHILE_STMT"  -> WhileGraphviz(h, node, name)
      [] node.type = "BREAK_STMT"  -> NodeLine(h, name, "BREAK", NULL)

-----------------------------------------------------------------------------
Init == root \in Trees /\ strings = <<>> /\ spec = NULL

GenerateGraphviz ==
    /\ spec = NULL
    /\ LET tree == AstNodeGraphviz(strings, root, <<"n0">>)
           full == Finish(Locals(tree))
       IN strings' = full.h /\ spec' = full.ptr
    /\ UNCHANGED root

Done == spec # NULL /\ UNCHANGED vars

Next == GenerateGraphviz \/ Done
Spec == Init /\ [][Next]_vars

-----------------------------------------------------------------------------
(* Properties *)

gv == Str(strings, spec)
Names == {gv[i].name : i \in {j \in DOMAIN gv : gv[j].line = "node"}}

\* "Each node must have a unique identifier": a name is declared once, and every
\* edge leads from and to a name that is declared.
NamesUnique ==
    spec # NULL =>
        /\ \A i, j \in DOMAIN gv :
              gv[i].line = "node" /\ gv[j].line = "node" /\ gv[i].name = gv[j].name => i = j
        /\ \A i \in DOMAIN gv : gv[i].line = "edge" => {gv[i].tail, gv[i].head} \subseteq Names

\* The tree that a reader sees below a name, who does not know how names are made:
\* the node, and its edges in their order.
RECURSIVE Seen(_)
Seen(name) ==
    LET node  == gv[CHOOSE i \in DOMAIN gv : gv[i].line = "node" /\ gv[i].name = name]
        edges == SelectSeq(gv, LAMBDA l : l.line = "edge" /\ l.tail = name)
        child(i) == Seen(edges[i].head)
        labels == [i \in DOMAIN edges |-> edges[i].label]
    IN CASE node.label = "IDENTIFIER" -> Id(node.sublabel)
         [] node.label \in {"FLOAT", "INTEGER", "BOOLEAN"} ->
              Const([kind |-> node.label, val |-> Head(node.sublabel)])
         [] node.label = "ASSIGNMENT" -> Assign(node.sublabel, child(1))
         [] labels = <<"cond", "if">>         -> If(child(1), child(2), NULL)
         [] labels = <<"cond", "if", "else">> -> If(child(1), child(2), child(3))
         [] node.label = "WHILE" -> While(child(1), child(2))
         [] node.label = "BREAK" -> Break
         [] node.label = "BLOCK" -> Block([i \in DOMAIN edges |-> child(i)])
         [] OTHER                -> Binop(node.label, child(1), child(2))

\* A tree with its floats as six decimals show them.
Rounded(val) == CHOOSE n \in {val \div 10, val \div 10 + 1} : 2 * (10 * n - val) \in -9 .. 9

RECURSIVE Printed(_)
Printed(n) ==
    CASE n = NULL                -> NULL
      [] n.type = "CONST_EXPR"   ->
           IF n.val.kind = "FLOAT" THEN [n EXCEPT !.val.val = Rounded(@)] ELSE n
      [] n.type = "BINOP_EXPR"   -> Binop(n.op, Printed(n.lhs), Printed(n.rhs))
      [] n.type = "ASSIGN_STMT"  -> Assign(n.lhs, Printed(n.rhs))
      [] n.type = "IF_STMT"      ->
           If(Printed(n.condition), Printed(n.if_block), Printed(n.else_block))
      [] n.type = "WHILE_STMT"   -> While(Printed(n.condition), Printed(n.block))
      [] n.type = "BLOCK"        -> Block([i \in DOMAIN n.stmts |-> Printed(n.stmts[i])])
      [] OTHER                   -> n

\* The graph shows the whole tree, but for what six decimals do not.
DrawsTree == spec # NULL => Seen(<<"n0">>) = Printed(root)

\* The statements in the blocks of a tree.
RECURSIVE Stmts(_)
Stmts(n) ==
    CASE n = NULL              -> 0
      [] n.type = "IF_STMT"    -> Stmts(n.if_block) + Stmts(n.else_block)
      [] n.type = "WHILE_STMT" -> Stmts(n.block)
      [] n.type = "BLOCK"      -> FoldLeft(LAMBDA k, s : k + 1 + Stmts(s), 0, n.stmts)
      [] OTHER                 -> 0

\* The strings that nobody can free any more.
Lost == {p \in DOMAIN strings : strings[p].freed = 0} \ {spec}

\* Strings of strutils "must be freed by the caller".  Whatever was copied, replaced and
\* freed on the way, no string is freed twice, and all are freed but the one returned and
\* the index of each statement in a block.
LosesOnlyIndexes ==
    spec # NULL =>
        /\ \A p \in DOMAIN strings : strings[p].freed <= 1
        /\ \A p \in Lost : strings[p].maker = "int_to_str"
        /\ Cardinality(Lost) = Stmts(root)
=============================================================================
