--------------------------- MODULE IndentScanner ---------------------------
(***************************************************************************)
(* Indentation in src/scanner.l: the stack of widths and the INDENT and    *)
(* DEDENT tokens that the flex rules push to the parser.  The input is     *)
(* read line by line; what a rule matches after the indentation of a line  *)
(* is the one token CODE.  A line that ends in a newline is blank or a     *)
(* whole-line comment ("skipped"), or code; what follows the last newline  *)
(* ("tail") is indented like code, also if it is only spaces or a comment. *)
(***************************************************************************)
EXTENDS Integers, FiniteSets, Sequences, SequencesExt

CONSTANTS
    Width,               \* the numbers of leading spaces and tabs in the input
    MAX_INDENT_LEVELS,
    MaxLines             \* bound on yylineno

ASSUME ScannerAssumption ==
    /\ Width \subseteq Nat
    /\ MAX_INDENT_LEVELS \in Nat \ {0}
    /\ MaxLines \in Nat

VARIABLES
    indent_stack, top,   \* _indent_stack and _indent_stack_top
    pc,                  \* what the scanner is doing, see Step
    line,                \* the line that is being scanned
    yylineno,
    widths,              \* history: the widths of the lines that had an effect
    tokens               \* history: the tokens pushed, that is PUSH_TOKEN calls

vars == <<indent_stack, top, pc, line, yylineno, widths, tokens>>

Line == [kind : {"skipped"}, width : {0}] \cup
        [kind : {"code"}, width : Width] \cup
        [kind : {"tail"}, width : Width, code : BOOLEAN]

-----------------------------------------------------------------------------
\* indent_stack_top()
IndentStackTop == IF top >= 0 THEN indent_stack[top] ELSE -1

\* indent_stack_pop(): its test compares the address of a function and is true.
Pop == top' = top - 1 /\ UNCHANGED indent_stack

\* Mutant: the bound of the array is passed by one.
Push_OffByOne(l) ==
    /\ top < MAX_INDENT_LEVELS
    /\ top' = top + 1
    /\ indent_stack' = [indent_stack EXCEPT ![top + 1] = l]

\* indent_stack_push(l), when there is room.
Push(l) ==
    /\ top + 1 < MAX_INDENT_LEVELS
    /\ top' = top + 1
    /\ indent_stack' = [indent_stack EXCEPT ![top + 1] = l]

PushToken(t) == tokens' = Append(tokens, t)

-----------------------------------------------------------------------------
\* The next line of the input, and the rule that its beginning matches.
ReadLine ==
    /\ pc = "line" /\ yylineno <= MaxLines
    /\ line' \in Line
    /\ pc' = IF line'.kind = "skipped" THEN "skip"
             ELSE IF line'.width > 0 THEN "indentation" ELSE "unindented"
    /\ line'.kind = "tail" /\ ~line'.code => line'.width > 0
    /\ UNCHANGED <<indent_stack, top, yylineno, widths, tokens>>

ReadEof ==
    /\ pc = "line"
    /\ pc' = "eof"
    /\ UNCHANGED <<indent_stack, top, line, yylineno, widths, tokens>>

SkipLine ==
    /\ pc = "skip"
    /\ pc' = "line"
    /\ yylineno' = yylineno + 1
    /\ UNCHANGED <<indent_stack, top, line, widths, tokens>>

(***************************************************************************)
(* The rule ^[ \t]+ for a line that is indented.                           *)
(***************************************************************************)
Indent ==
    /\ pc = "indentation" /\ IndentStackTop < line.width
    /\ Push(line.width)
    /\ PushToken("INDENT")
    /\ widths' = Append(widths, line.width)
    /\ pc' = "code"
    /\ UNCHANGED <<line, yylineno>>

\* indent_stack_push finds no room and calls exit(1).
TooManyLevels ==
    /\ pc = "indentation" /\ IndentStackTop < line.width
    /\ top + 1 >= MAX_INDENT_LEVELS
    /\ top' = top + 1
    /\ pc' = "exit"
    /\ UNCHANGED <<indent_stack, line, yylineno, widths, tokens>>

\* Mutant: the loop pops before it compares.
NoIndent_PopFirst ==
    /\ pc = "indentation" /\ IndentStackTop >= line.width
    /\ Pop
    /\ PushToken("DEDENT")
    /\ pc' = "dedent"
    /\ UNCHANGED <<line, yylineno, widths>>

NoIndent ==
    /\ pc = "indentation" /\ IndentStackTop >= line.width
    /\ pc' = "dedent"
    /\ UNCHANGED <<indent_stack, top, line, yylineno, widths, tokens>>

\* Mutant: a level too many is popped.
Dedent_Twice ==
    /\ pc = "dedent" /\ top >= 0 /\ IndentStackTop # line.width
    /\ top' = top - 2
    /\ PushToken("DEDENT")
    /\ UNCHANGED <<indent_stack, pc, line, yylineno, widths>>

\* Mutant: one level is popped at most.
Dedent_Once ==
    /\ pc = "dedent" /\ top >= 0 /\ IndentStackTop # line.width
    /\ Pop
    /\ PushToken("DEDENT")
    /\ pc' = "code" /\ widths' = Append(widths, line.width)
    /\ UNCHANGED <<line, yylineno>>

\* A turn of the loop that pops levels until the top is the line's.
Dedent ==
    /\ pc = "dedent" /\ top >= 0 /\ IndentStackTop # line.width
    /\ Pop
    /\ PushToken("DEDENT")
    /\ UNCHANGED <<pc, line, yylineno, widths>>

EndDedent ==
    /\ pc = "dedent" /\ ~(top >= 0 /\ IndentStackTop # line.width)
    /\ IF top < 0
       THEN pc' = "error" /\ UNCHANGED widths
       ELSE pc' = "code" /\ widths' = Append(widths, line.width)
    /\ UNCHANGED <<indent_stack, top, line, yylineno, tokens>>

(***************************************************************************)
(* The rule ^[^ \t\r\n]+ for a line that is not indented; its REJECT lets  *)
(* the rules of the tokens match the same text.                            *)
(***************************************************************************)
Unindent ==
    /\ pc = "unindented" /\ IndentStackTop # 0
    /\ Pop
    /\ PushToken("DEDENT")
    /\ UNCHANGED <<pc, line, yylineno, widths>>

Reject ==
    /\ pc = "unindented" /\ IndentStackTop = 0
    /\ pc' = "code"
    /\ widths' = Append(widths, 0)
    /\ UNCHANGED <<indent_stack, top, line, yylineno, tokens>>

(***************************************************************************)
(* The rest of the line.                                                   *)
(***************************************************************************)
ScanCode ==
    /\ pc = "code" /\ line.kind = "code"
    /\ tokens' = tokens \o <<"CODE", "NEWLINE">>
    /\ yylineno' = yylineno + 1
    /\ pc' = "line"
    /\ UNCHANGED <<indent_stack, top, line, widths>>

ScanTail ==
    /\ pc = "code" /\ line.kind = "tail"
    /\ IF line.code THEN PushToken("CODE") ELSE UNCHANGED tokens
    /\ pc' = "eof"
    /\ UNCHANGED <<indent_stack, top, line, yylineno, widths>>

(***************************************************************************)
(* The rule <<EOF>>.                                                       *)
(***************************************************************************)
\* Mutant: the levels that are open at the end are popped without a token.
EofDedent_Silent ==
    /\ pc = "eof" /\ IndentStackTop # 0
    /\ Pop
    /\ UNCHANGED <<pc, line, yylineno, widths, tokens>>

EofDedent ==
    /\ pc = "eof" /\ IndentStackTop # 0
    /\ Pop
    /\ PushToken("DEDENT")
    /\ UNCHANGED <<pc, line, yylineno, widths>>

\* The last yypush_parse; pstate is NULL if no token was pushed before.
EndParse ==
    /\ pc = "eof" /\ IndentStackTop = 0
    /\ pc' = IF tokens = <<>> THEN "no_pstate" ELSE "done"
    /\ UNCHANGED <<indent_stack, top, line, yylineno, widths, tokens>>

\* PUSH_TOKEN returns from yylex when the parser stops.
ParserStops ==
    /\ pc \in {"line", "code", "dedent", "unindented", "eof"} /\ tokens # <<>>
    /\ pc' = "stopped"
    /\ UNCHANGED <<indent_stack, top, line, yylineno, widths, tokens>>

Returned == {"done", "error", "exit", "no_pstate", "stopped"}
Terminated == pc \in Returned /\ UNCHANGED vars

-----------------------------------------------------------------------------
Init ==
    /\ indent_stack = [i \in 0 .. MAX_INDENT_LEVELS - 1 |-> 0]
    /\ top = 0
    /\ pc = "line"
    /\ line = [kind |-> "skipped", width |-> 0]
    /\ yylineno = 1
    /\ widths = <<>>
    /\ tokens = <<>>

\* What follows when the next line, or the end of the input, is met.
Scan ==
    \/ SkipLine
    \/ Indent \/ TooManyLevels \/ NoIndent \/ Dedent \/ EndDedent
    \/ Unindent \/ Reject
    \/ ScanCode \/ ScanTail
    \/ EofDedent \/ EndParse

Step == ReadLine \/ ReadEof \/ Scan \/ ParserStops

Next == Step \/ Terminated

Spec == Init /\ [][Next]_vars

-----------------------------------------------------------------------------
(* Properties *)

TypeOK ==
    /\ indent_stack \in [0 .. MAX_INDENT_LEVELS - 1 -> Width \cup {0}]
    /\ top \in -1 .. MAX_INDENT_LEVELS
    /\ pc \in {"line", "skip", "indentation", "dedent", "unindented", "code", "eof"} \cup Returned
    /\ line \in Line
    /\ yylineno \in 1 .. MaxLines + 1
    /\ widths \in Seq(Width \cup {0})
    /\ tokens \in Seq({"INDENT", "DEDENT", "CODE", "NEWLINE"})

Levels == {indent_stack[i] : i \in 0 .. top}

\* A line's level is open as long as no later line is indented less.
OpenLevels ==
    {0} \cup {widths[j] : j \in {i \in DOMAIN widths :
                                   \A k \in i .. Len(widths) : widths[k] >= widths[i]}}

Number(t) == Cardinality({i \in DOMAIN tokens : tokens[i] = t})

\* Between two lines the stack holds, in increasing order, the levels that the
\* lines read so far leave open: a block ends just where a line is indented less
\* than it, whatever blank lines and comments are between.  The 0 at its bottom
\* also ends the loops that pop until they find one.
StackIsOpenLevels ==
    pc \in {"line", "code"} =>
        /\ top >= 0 /\ Levels = OpenLevels
        /\ \A i \in 0 .. top - 1 : indent_stack[i] < indent_stack[i + 1]

\* An INDENT is pushed for every level that is opened, and a DEDENT for every one
\* that is closed, so a program that is scanned to its end is balanced.
Balanced ==
    /\ pc # "exit" => Number("INDENT") - Number("DEDENT") = top
    /\ pc \in {"done", "no_pstate"} => top = 0

\* A program is refused only when a line returns to a level that is not open.
RefusesOnlyBadLevels == pc = "error" => line.width \notin OpenLevels

\* The index of the array stays in it, but for the exit.
StackInBounds == pc # "exit" => top \in -1 .. MAX_INDENT_LEVELS - 1

\* "Initialize a parser state to be sent to the parser on each push parse call":
\* the parser that the end of the file is sent to exists.
ParserExists == pc # "no_pstate"
=============================================================================
