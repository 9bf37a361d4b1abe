----------------------------- MODULE MCPrograms -----------------------------
(***************************************************************************)
(* Small source programs for TLC.  Every program is                        *)
(*     x = 0;  <statement>;  [<statement>;]  [return_value = x]            *)
(* where one statement nests up to two levels of if, if/else, while and    *)
(* break around assignments to x and to a name, y, that is first assigned  *)
(* wherever the program first mentions it.                                 *)
(***************************************************************************)
EXTENDS Syntax

CONSTANTS X, Y, R         \* x, y and return_value

MCVar == {X, Y, R}
MCVal == 0 .. 2
MCOp  == {"PLUS", "LT"}
MCApply(op, a, b) == IF op = "PLUS" THEN (a + b) % 3 ELSE IF a < b THEN 1 ELSE 0
MCTruthy(a) == a # 0

Inc   == Assign(X, Binop("PLUS", Id(X), Const(1)))
SetY  == Assign(Y, Binop("PLUS", Const(1), Const(1)))
UseY  == Assign(X, Id(Y))
XLow  == Binop("LT", Id(X), Const(2))
XSet  == Id(X)

Leaf == {Inc, SetY, UseY, Break}
SeqUpTo2(S) == {<<s>> : s \in S} \cup (S \X S)

Bodies1 == {Block(<<s>>) : s \in Leaf}
Inner ==
    {If(XSet, b, NULL) : b \in Bodies1}
    \cup {If(XSet, b, c) : b \in Bodies1, c \in Bodies1}
    \cup {While(XLow, b) : b \in Bodies1}
Bodies2 == {Block(ss) : ss \in SeqUpTo2(Leaf \cup Inner)}

Nested ==
    {While(XLow, b) : b \in Bodies2}
    \cup {If(XSet, b, c) : b \in Bodies1, c \in Bodies1 \cup {NULL}}
    \cup {If(XLow, Block(<<s>>), Block(<<t>>)) : s \in Leaf \cup Inner, t \in Leaf}

Init0  == Assign(X, Const(0))
Result == Assign(R, Id(X))
Program(ss) == Block(<<Init0>> \o ss \o <<Result>>)

\* Programs that assign return_value in a branch or in a loop, or never: with a
\* break, these are the ones in which no load follows it in the text.
SetsResult == Block(<<Inc, Result>>)
Unreturned ==
    {Block(<<Break>>)} \cup
    {Block(<<Init0, s>>) :
        s \in Nested \cup Leaf \cup {If(XSet, SetsResult, NULL), While(XLow, SetsResult),
                                    If(XSet, SetsResult, SetsResult)}}

\* What the parser leaves of a program after errors.  A statement it cannot read is
\* dropped, so that a block may be empty; and in "x = <unknown name>; return_value
\* = x" the first statement is dropped after x was entered in the symbol table.
EmptyIf == If(XSet, Block(<<>>), NULL)
Recovered == {Block(<<>>), Block(<<Result>>), Program(<<EmptyIf>>)}

Candidates ==
    {Program(<<s>>) : s \in Nested \cup Leaf}
    \cup {Program(<<s, UseY>>) : s \in Nested}
    \cup {Program(<<SetY, s>>) : s \in Nested}
    \cup Unreturned

AllExprs == {Id(X), Id(Y), Const(0), Const(1), Const(2), Inc.rhs, SetY.rhs, XLow}
AllStmts ==
    Leaf \cup Inner \cup Bodies2 \cup Nested \cup {Init0, Result, SetsResult}
    \cup {EmptyIf, EmptyIf.if_block}
    \cup UNION {ToSet(p.stmts) : p \in Unreturned} \cup Candidates \cup Recovered

\* As the parser passes them on: but for Recovered, every name that is used is
\* assigned earlier in the text.
AllPrograms == {p \in Candidates : ParserAccepts(p)} \cup Recovered

\* TLC evaluates the body of a definition that replaces a constant each time it
\* meets the constant, and these bodies once.
MCExpr == AllExprs
MCStmt == AllStmts
EveryProgram == AllPrograms
=============================================================================
