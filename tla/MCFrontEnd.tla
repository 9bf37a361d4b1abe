----------------------------- MODULE MCFrontEnd -----------------------------
(***************************************************************************)
(* Small sources for TLC: lines of a dozen texts, at up to four widths.    *)
(***************************************************************************)
EXTENDS Reading

CONSTANTS X, Y            \* the names in the texts

MCWidth == 0 .. 3
MCPrecedence == [op \in {"LT", "PLUS", "TIMES"} |->
                    CASE op = "LT" -> 1 [] op = "PLUS" -> 2 [] op = "TIMES" -> 3]

-----------------------------------------------------------------------------
(* Texts *)

V(x) == Symbol("IDENTIFIER", x)
N    == Symbol("CONST", 1)
O(o) == Symbol("OP", o)
T(t) == Token(t)

Text(is, toks, lhs, e) == [is |-> is, tokens |-> toks, lhs |-> lhs, expr |-> e]
AssignText(x, toks, e) == Text("assign", <<V(x), T("ASSIGN")>> \o toks, x, e)
Bad(toks) == Text("bad", toks, NULL, NULL)

SetX == AssignText(X, <<N>>, Const(1))
\* x = x + 1 * x
Precedes == AssignText(X, <<V(X), O("PLUS"), N, O("TIMES"), V(X)>>,
                       Binop("PLUS", Id(X), Binop("TIMES", Const(1), Id(X))))
\* y = x * (1 + y) < 1
Groups == AssignText(Y, <<V(X), O("TIMES"), T("LPAREN"), N, O("PLUS"), V(Y), T("RPAREN"), O("LT"), N>>,
                     Binop("LT", Binop("TIMES", Id(X), Binop("PLUS", Const(1), Id(Y))), Const(1)))
\* y = x + x + 1
Associates == AssignText(Y, <<V(X), O("PLUS"), V(X), O("PLUS"), N>>,
                         Binop("PLUS", Binop("PLUS", Id(X), Id(X)), Const(1)))
UseY == AssignText(X, <<V(Y)>>, Id(Y))

IfX    == Text("if", <<T("IF"), V(X), T("COLON")>>, NULL, Id(X))
WhileY == Text("while", <<T("WHILE"), V(X), O("LT"), V(Y), T("COLON")>>, NULL,
               Binop("LT", Id(X), Id(Y)))
Else   == Text("else", <<T("ELSE"), T("COLON")>>, NULL, NULL)
Brk    == Text("break", <<T("BREAK")>>, NULL, NULL)

\* x x = 1;  x = (1;  x = x + );  ?;  if x without its colon.
NoAssign == Bad(<<V(X), V(X), T("ASSIGN"), N>>)
Unclosed == Bad(<<V(X), T("ASSIGN"), T("LPAREN"), N>>)
Operand  == Bad(<<V(X), T("ASSIGN"), V(X), O("PLUS"), T("RPAREN")>>)
Strange  == Bad(<<T("UNKNOWN")>>)
NoColon  == Bad(<<T("IF"), V(X)>>)

-----------------------------------------------------------------------------
(* Sources *)

At(w, text) == [line |-> [kind |-> "code", width |-> w], text |-> text]
NoText  == Text("none", <<>>, NULL, NULL)
Skipped == [line |-> [kind |-> "skipped", width |-> 0], text |-> NoText]
\* Without a newline: a text, or only the spaces.
Unended(w, text) == [line |-> [kind |-> "tail", width |-> w, code |-> TRUE], text |-> text]
Spaces(w) == [line |-> [kind |-> "tail", width |-> w, code |-> FALSE], text |-> NoText]

\* Any three lines, a header's body among them.
Texts == {SetX, Precedes, Groups, UseY, IfX, WhileY, Else, Brk, NoAssign, Strange, NoColon}
Short ==
    {<<At(0, t)>> : t \in Texts}
    \cup {<<At(0, t), At(1, IfX), At(1, SetX)>> : t \in Texts}
    \cup {<<At(0, s), At(v, t), At(w, u)>> :
              s \in Texts \ {Precedes, Groups, UseY, Brk, Strange},
              v \in {0, 1}, t \in Texts, w \in {0, 1}, u \in Texts}

\* Conditions with an unknown name, whose blocks are dropped with all that is in them.
Unknown == {<<At(0, IfX), At(1, t), At(0, Else), At(1, u), At(0, g)>> :
               t, u \in {SetX, UseY, Brk, Strange}, g \in {UseY, WhileY}}

\* x = 1; a loop with a header in it, the header's body, an else, and what follows at
\* any level.
Long ==
    {<<At(0, SetX), At(0, y), At(0, h), At(1, g), At(2, t)>> \o e \o <<At(w, u)>> :
        y \in {Associates, UseY},
        h \in {WhileY, NoColon}, g \in {IfX, SetX, NoColon}, t \in {Groups, NoAssign},
        e \in {<<>>, <<At(1, Else), At(2, Brk)>>, <<At(1, Else), At(2, Brk), At(2, Strange)>>,
               <<At(1, Else), At(1, Brk)>>},
        w \in {0, 1, 2}, u \in {UseY, Associates, Else, Unclosed}}

\* Blocks with more statements than there is room for, some of them dropped.
Full == {<<At(0, SetX), At(0, t), At(0, SetX), At(0, u), At(0, IfX), At(1, t), At(1, Brk)>> :
            t, u \in {SetX, UseY, Strange}}
        \cup {<<At(0, SetX), At(0, IfX), At(1, t), At(1, t), At(1, SetX), At(1, u)>> :
            t \in {SetX, UseY, Brk}, u \in {SetX, Operand}}

\* More levels than there is room for, levels that are not open, and inputs that end early.
Deep == {<<At(0, SetX), At(0, IfX), At(1, IfX), At(2, t), At(3, u)>> : t, u \in {IfX, SetX}}
Uneven == {<<At(0, SetX), At(0, IfX), At(2, SetX), At(w, SetX), At(v, SetX)>> : w, v \in 1 .. 3}
          \cup {<<At(1, SetX)>>, <<At(1, SetX), At(0, SetX)>>}
Ending == {<<>>, <<Skipped>>, <<Skipped, At(0, SetX), Skipped>>, <<Spaces(1)>>, <<Unended(0, SetX)>>}
          \cup {<<At(0, SetX), At(0, h), Skipped, At(1, Precedes), l>> :
                  h \in {IfX, SetX},
                  l \in {Spaces(1), Spaces(2), Unended(0, SetX), Unended(1, Brk), Unended(2, SetX)}}

MCSources == Short \cup Unknown \cup Long \cup Full \cup Deep \cup Uneven \cup Ending
=============================================================================
