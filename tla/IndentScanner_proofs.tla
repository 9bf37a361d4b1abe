------------------------ MODULE IndentScanner_proofs ------------------------
(***************************************************************************)
(* For every input and every size of the stack: the scanner's stack stays  *)
(* in its array, although indent_stack_pop does not test; between lines it *)
(* holds just the levels that are open; and only a line at a level that is *)
(* not open is refused.                                                    *)
(***************************************************************************)
EXTENDS IndentScanner, FiniteSetTheorems, TLAPS

\* The width 0 that the scanner begins with is never popped but on the way to an
\* error, nor overwritten; that is why the loops that pop until they find it end.
BottomInv ==
    /\ pc \notin {"dedent", "error", "exit", "stopped"} => top >= 0
    /\ top >= 0 => indent_stack[0] = 0
    /\ pc = "dedent" => line.width > 0
    /\ pc = "indentation" => line.width > 0
    /\ pc \in {"skip", "indentation", "dedent", "unindented", "code"} => yylineno <= MaxLines

IInv == TypeOK /\ StackInBounds /\ BottomInv

-----------------------------------------------------------------------------
LEMMA InitInv == Init => IInv
BY ScannerAssumption DEF Init, IInv, TypeOK, StackInBounds, BottomInv, Line, Returned

LEMMA AppendToken ==
    ASSUME TypeOK, NEW t \in {"INDENT", "DEDENT", "CODE", "NEWLINE"}
    PROVE  Append(tokens, t) \in Seq({"INDENT", "DEDENT", "CODE", "NEWLINE"})
BY DEF TypeOK

LEMMA AppendLine ==
    ASSUME TypeOK
    PROVE  tokens \o <<"CODE", "NEWLINE">> \in Seq({"INDENT", "DEDENT", "CODE", "NEWLINE"})
<1>1. <<"CODE", "NEWLINE">> \in Seq({"INDENT", "DEDENT", "CODE", "NEWLINE"})
    OBVIOUS
<1> QED
    BY <1>1 DEF TypeOK

LEMMA AppendWidth ==
    ASSUME TypeOK
    PROVE  /\ line.width \in Width \cup {0}
           /\ Append(widths, line.width) \in Seq(Width \cup {0})
           /\ Append(widths, 0) \in Seq(Width \cup {0})
<1>1. line.width \in Width \cup {0}
    BY DEF TypeOK, Line
<1> QED
    BY <1>1 DEF TypeOK

\* Every action keeps the invariant.  Those that pop find a level above the 0, or are
\* on the way to an error; the one that pushes has tested for room.
LEMMA StepInv == IInv /\ [Next]_vars => IInv'
<1> SUFFICES ASSUME IInv, [Next]_vars PROVE IInv'
    OBVIOUS
<1> USE ScannerAssumption DEF IInv, TypeOK, StackInBounds, BottomInv, Returned
<1>1. CASE ReadLine
    BY <1>1 DEF ReadLine, Line
<1>2. CASE ReadEof
    BY <1>2 DEF ReadEof
<1>3. CASE SkipLine
    BY <1>3 DEF SkipLine
<1>4. CASE Indent
    BY <1>4, AppendToken, AppendWidth DEF Indent, Push, PushToken, IndentStackTop, Line
<1>5. CASE TooManyLevels
    BY <1>5 DEF TooManyLevels, IndentStackTop, Line
<1>6. CASE NoIndent
    BY <1>6 DEF NoIndent, Line
<1>7. CASE Dedent
    BY <1>7, AppendToken DEF Dedent, Pop, PushToken, IndentStackTop
<1>8. CASE EndDedent
    <2>1. CASE top < 0
        BY <1>8, <2>1 DEF EndDedent, IndentStackTop
    <2>2. CASE ~(top < 0)
        <3>1. UNCHANGED <<indent_stack, top, line, yylineno, tokens>>
            BY <1>8 DEF EndDedent
        <3>2. pc' = "code" /\ widths' = Append(widths, line.width)
            BY <1>8, <2>2 DEF EndDedent
        <3>3. pc = "dedent"
            BY <1>8 DEF EndDedent
        <3> QED
            BY <2>2, <3>1, <3>2, <3>3, AppendWidth
    <2> QED
        BY <2>1, <2>2
<1>9. CASE Unindent
    BY <1>9, AppendToken DEF Unindent, Pop, PushToken, IndentStackTop
<1>10. CASE Reject
    BY <1>10, AppendWidth DEF Reject
<1>11. CASE ScanCode
    BY <1>11, AppendLine DEF ScanCode
<1>12. CASE ScanTail
    BY <1>12, AppendToken DEF ScanTail, PushToken
<1>13. CASE EofDedent
    BY <1>13, AppendToken DEF EofDedent, Pop, PushToken, IndentStackTop
<1>14. CASE EndParse
    BY <1>14 DEF EndParse, IndentStackTop
<1>15. CASE ParserStops
    BY <1>15 DEF ParserStops
<1>16. CASE UNCHANGED vars
    BY <1>16 DEF vars
<1> QED
    BY <1>1, <1>2, <1>3, <1>4, <1>5, <1>6, <1>7, <1>8, <1>9, <1>10, <1>11, <1>12, <1>13, <1>14, <1>15, <1>16 DEF Next, Step, Scan, Terminated

LEMMA Invariance == Spec => []IInv
BY InitInv, StepInv, PTL DEF Spec

\* The scanner's state is of its type, whatever the input.
THEOREM ScannerTypeCorrect == Spec => []TypeOK
<1>1. IInv => TypeOK
    BY DEF IInv
<1> QED
    BY Invariance, <1>1, PTL

\* The index of the indentation stack stays in the array until indent_stack_push exits,
\* although the test in indent_stack_pop is void: no input pops the empty stack.
THEOREM IndexInBounds == Spec => []StackInBounds
<1>1. IInv => StackInBounds
    BY DEF IInv
<1> QED
    BY Invariance, <1>1, PTL
-----------------------------------------------------------------------------
(* What the stack holds: its levels are the open ones *)

OpenOf(s) == {0} \cup {s[j] : j \in {i \in DOMAIN s : \A k \in i .. Len(s) : s[k] >= s[i]}}
LevelsOf(stk, t) == {stk[i] : i \in 0 .. t}
UpTo(open, w) == {l \in open : l <= w}
Ascending(stk, t) == \A i, j \in 0 .. t : i < j => stk[i] < stk[j]

\* A further line closes the levels above its own and opens its own.
LEMMA OpenAfter ==
    ASSUME NEW s \in Seq(Nat), NEW w \in Nat
    PROVE  OpenOf(Append(s, w)) = UpTo(OpenOf(s), w) \cup {w}
<1> DEFINE r == Append(s, w)
           n == Len(s)
<1>1. n \in Nat /\ DOMAIN s = 1 .. n /\ DOMAIN r = 1 .. n + 1 /\ Len(r) = n + 1
    OBVIOUS
<1>2. r[n + 1] = w /\ \A i \in 1 .. n : r[i] = s[i] /\ s[i] \in Nat
    OBVIOUS
<1> HIDE DEF r, n
<1>3. ASSUME NEW l \in OpenOf(r) PROVE l \in UpTo(OpenOf(s), w) \cup {w}
    <2>1. CASE l = 0
        BY <2>1 DEF OpenOf, UpTo
    <2>2. ASSUME NEW j \in 1 .. n + 1, \A k \in j .. n + 1 : r[k] >= r[j], l = r[j]
          PROVE  l \in UpTo(OpenOf(s), w) \cup {w}
        <3>1. CASE j = n + 1
            BY <2>2, <3>1, <1>2
        <3>2. CASE j \in 1 .. n
            <4>1. l = s[j] /\ l <= w
                BY <1>1, <1>2, <2>2, <3>2
            <4>2. \A k \in j .. n : s[k] >= s[j]
                BY <1>1, <1>2, <2>2, <3>2
            <4>3. s[j] \in OpenOf(s)
                BY <1>1, <3>2, <4>2 DEF OpenOf, n
            <4> QED
                BY <4>1, <4>3 DEF UpTo
        <3> QED
            BY <1>1, <3>1, <3>2
    <2> QED
        BY <1>1, <2>1, <2>2 DEF OpenOf
<1>4. ASSUME NEW l \in UpTo(OpenOf(s), w) \cup {w} PROVE l \in OpenOf(r)
    <2>1. CASE l = w
        <3>1. n + 1 \in DOMAIN r /\ \A k \in n + 1 .. Len(r) : r[k] >= r[n + 1]
            BY <1>1, <1>2
        <3> QED
            BY <1>2, <2>1, <3>1 DEF OpenOf
    <2>2. CASE l = 0
        BY <2>2 DEF OpenOf
    <2>3. ASSUME NEW j \in 1 .. n, \A k \in j .. n : s[k] >= s[j], l = s[j], l <= w
          PROVE  l \in OpenOf(r)
        <3>1. j \in DOMAIN r /\ r[j] = l /\ \A k \in j .. Len(r) : r[k] >= r[j]
            BY <1>1, <1>2, <2>3
        <3> QED
            BY <3>1 DEF OpenOf
    <2> QED
        BY <1>1, <2>1, <2>2, <2>3 DEF OpenOf, n, UpTo
<1> QED
    BY <1>3, <1>4 DEF r

\* What is left of a stack below its top.
LEMMA LevelsBelow ==
    ASSUME NEW stk, NEW t \in Nat, \A i \in 0 .. t : stk[i] \in Nat, Ascending(stk, t),
           NEW open \in SUBSET Nat, LevelsOf(stk, t) = UpTo(open, stk[t])
    PROVE  /\ Ascending(stk, t - 1)
           /\ LevelsOf(stk, t - 1) = LevelsOf(stk, t) \ {stk[t]}
           /\ t - 1 >= 0 => LevelsOf(stk, t - 1) = UpTo(open, stk[t - 1])
<1>1. Ascending(stk, t - 1)
    BY DEF Ascending
<1>2. LevelsOf(stk, t - 1) = LevelsOf(stk, t) \ {stk[t]}
    <2>1. \A i \in 0 .. t - 1 : stk[i] < stk[t]
        BY DEF Ascending
    <2>2. \A i \in 0 .. t : i \in 0 .. t - 1 \/ i = t
        OBVIOUS
    <2>3. \A i \in 0 .. t - 1 : i \in 0 .. t /\ stk[i] # stk[t]
        BY <2>1
    <2> QED
        BY <2>2, <2>3 DEF LevelsOf
<1>3. ASSUME t - 1 >= 0 PROVE LevelsOf(stk, t - 1) = UpTo(open, stk[t - 1])
    <2>1. t - 1 \in 0 .. t /\ t \in 0 .. t /\ stk[t - 1] < stk[t]
        BY <1>3 DEF Ascending
    <2>2. ASSUME NEW l \in LevelsOf(stk, t - 1) PROVE l \in open /\ l <= stk[t - 1]
        <3>1. l \in open
            BY <1>2 DEF UpTo
        <3>2. PICK i \in 0 .. t - 1 : l = stk[i]
            BY DEF LevelsOf
        <3>3. CASE i = t - 1
            BY <3>1, <3>2, <3>3, <2>1
        <3>4. CASE i < t - 1
            BY <3>1, <3>2, <3>4, <2>1 DEF Ascending
        <3> QED
            BY <3>3, <3>4
    <2>3. ASSUME NEW l \in open, l <= stk[t - 1] PROVE l \in LevelsOf(stk, t - 1)
        <3>1. l <= stk[t] /\ l # stk[t]
            BY <2>1, <2>3
        <3> QED
            BY <1>2, <3>1 DEF UpTo
    <2> QED
        BY <2>2, <2>3 DEF UpTo
<1> QED
    BY <1>1, <1>2, <1>3

LEMMA OpenNat == ASSUME NEW s \in Seq(Nat) PROVE OpenOf(s) \in SUBSET Nat
BY DEF OpenOf

\* A line at the level of the top closes nothing more and opens nothing.
LEMMA AtTopLevel ==
    ASSUME NEW stk, NEW t \in Nat, NEW s \in Seq(Nat), stk[t] \in Nat,
           LevelsOf(stk, t) = UpTo(OpenOf(s), stk[t])
    PROVE  /\ LevelsOf(stk, t) = OpenOf(Append(s, stk[t]))
           /\ \A l \in OpenOf(Append(s, stk[t])) : l <= stk[t]
<1>1. OpenOf(Append(s, stk[t])) = UpTo(OpenOf(s), stk[t]) \cup {stk[t]}
    BY OpenAfter
<1>2. stk[t] \in LevelsOf(stk, t)
    BY DEF LevelsOf
<1> QED
    BY <1>1, <1>2 DEF UpTo

\* A deeper line opens a level above the top.
LEMMA AboveTop ==
    ASSUME NEW stk, NEW r, NEW t \in Nat, NEW u, u = t + 1, NEW s \in Seq(Nat), NEW w \in Nat,
           \A i \in 0 .. t : stk[i] \in Nat /\ r[i] = stk[i], r[u] = w, stk[t] < w,
           Ascending(stk, t), LevelsOf(stk, t) = OpenOf(s), \A l \in OpenOf(s) : l <= stk[t]
    PROVE  /\ Ascending(r, u)
           /\ LevelsOf(r, u) = OpenOf(Append(s, w))
           /\ \A l \in OpenOf(Append(s, w)) : l <= w
<1>1. OpenOf(Append(s, w)) = UpTo(OpenOf(s), w) \cup {w}
    BY OpenAfter
<1>2. \A l \in OpenOf(s) : l \in Nat /\ l <= w
    BY OpenNat
<1>3. \A i \in 0 .. t + 1 : i \in 0 .. t \/ i = t + 1
    OBVIOUS
<1>4. Ascending(r, t + 1)
    <2>1. \A i \in 0 .. t : stk[i] < w
        <3>1. ASSUME NEW i \in 0 .. t PROVE stk[i] < w
            <4>1. CASE i = t
                BY <4>1
            <4>2. CASE i # t
                <5>1. i < t /\ t \in 0 .. t
                    BY <4>2
                <5>2. stk[i] < stk[t]
                    BY <5>1 DEF Ascending
                <5>3. stk[i] \in Nat /\ stk[t] \in Nat
                    BY <5>1
                <5> QED
                    BY <5>2, <5>3
            <4> QED
                BY <4>1, <4>2
        <3> QED
            BY <3>1
    <2>2. ASSUME NEW i \in 0 .. t + 1, NEW j \in 0 .. t + 1, i < j PROVE r[i] < r[j]
        <3>1. i \in 0 .. t
            BY <2>2
        <3>2. CASE j = t + 1
            BY <2>1, <3>1, <3>2
        <3>3. CASE j \in 0 .. t
            <4>1. stk[i] < stk[j]
                BY <2>2, <3>1, <3>3 DEF Ascending
            <4> QED
                BY <3>1, <3>3, <4>1
        <3> QED
            BY <1>3, <3>2, <3>3
    <2> QED
        BY <2>2 DEF Ascending
<1>5. LevelsOf(r, t + 1) = LevelsOf(stk, t) \cup {w}
    <2>1. \A i \in 0 .. t : i \in 0 .. t + 1
        OBVIOUS
    <2> QED
        BY <1>3, <2>1 DEF LevelsOf
<1> QED
    BY <1>1, <1>2, <1>4, <1>5 DEF UpTo

-----------------------------------------------------------------------------
\* The stack holds the open levels up to its top, in order; between the loops that
\* pop, all of them.  What such a loop has popped is not the level of the line.
OpenInv ==
    /\ pc # "exit" => Ascending(indent_stack, top)
    /\ pc # "exit" /\ top >= 0 =>
          LevelsOf(indent_stack, top) = UpTo(OpenOf(widths), indent_stack[top])
    /\ pc \in {"line", "skip", "indentation", "code"} =>
          \A l \in OpenOf(widths) : l <= indent_stack[top]
    /\ pc = "dedent" /\ line.width \in OpenOf(widths) =>
          line.width \in LevelsOf(indent_stack, top)
    /\ pc = "error" => line.width \notin OpenOf(widths)

LEMMA Ranges ==
    ASSUME IInv
    PROVE  /\ widths \in Seq(Nat) /\ line.width \in Nat /\ top \in Int
           /\ pc # "exit" => \A i \in 0 .. top : indent_stack[i] \in Nat
<1>1. widths \in Seq(Nat)
    <2>1. Width \cup {0} \subseteq Nat /\ widths \in Seq(Width \cup {0})
        BY ScannerAssumption DEF IInv, TypeOK
    <2>2. \A i \in 1 .. Len(widths) : widths[i] \in Nat
        BY <2>1
    <2> QED
        BY <2>1, <2>2
<1>2. line.width \in Nat
    <2>1. line.width \in Width \cup {0}
        BY AppendWidth DEF IInv
    <2>2. \A w \in Width \cup {0} : w \in Nat
        BY ScannerAssumption
    <2> QED
        BY <2>1, <2>2, Zenon
<1>3. ASSUME pc # "exit", NEW i \in 0 .. top PROVE indent_stack[i] \in Nat
    <2>1. i \in 0 .. MAX_INDENT_LEVELS - 1
        BY <1>3, ScannerAssumption DEF IInv, TypeOK, StackInBounds
    <2> QED
        BY <2>1, ScannerAssumption DEF IInv, TypeOK
<1> QED
    BY <1>1, <1>2, <1>3 DEF IInv, TypeOK

LEMMA InitOpen == Init => OpenInv
<1> SUFFICES ASSUME Init PROVE OpenInv
    OBVIOUS
<1>1. OpenOf(widths) = {0}
    BY DEF Init, OpenOf
<1>2. indent_stack[0] = 0 /\ top = 0 /\ pc = "line"
    BY ScannerAssumption DEF Init
<1>3. LevelsOf(indent_stack, 0) = {0}
    BY <1>2 DEF LevelsOf
<1> QED
    BY <1>1, <1>2, <1>3 DEF OpenInv, Ascending, UpTo

LEMMA StepOpen == IInv /\ OpenInv /\ [Next]_vars => OpenInv'
<1> SUFFICES ASSUME IInv, OpenInv, [Next]_vars PROVE OpenInv'
    OBVIOUS
<1> USE Ranges
<1>1. CASE ReadLine
    BY <1>1 DEF ReadLine, OpenInv
<1>2. CASE ReadEof
    BY <1>2 DEF ReadEof, OpenInv
<1>3. CASE SkipLine
    BY <1>3 DEF SkipLine, OpenInv
<1>4. CASE Indent
    <2>1. top \in Nat /\ top + 1 <= MAX_INDENT_LEVELS - 1 /\ indent_stack[top] < line.width
        BY <1>4, ScannerAssumption DEF Indent, Push, IndentStackTop, IInv, TypeOK, BottomInv, Returned
    <2>2. /\ top' = top + 1 /\ pc' = "code" /\ widths' = Append(widths, line.width)
          /\ indent_stack' = [indent_stack EXCEPT ![top + 1] = line.width] /\ pc = "indentation"
        BY <1>4 DEF Indent, Push
    <2>3. indent_stack'[top + 1] = line.width /\ \A i \in 0 .. top : indent_stack'[i] = indent_stack[i]
        BY <2>1, <2>2, ScannerAssumption DEF IInv, TypeOK
    <2>4. /\ \A l \in OpenOf(widths) : l <= indent_stack[top]
          /\ LevelsOf(indent_stack, top) = UpTo(OpenOf(widths), indent_stack[top])
          /\ Ascending(indent_stack, top)
        BY <2>1, <2>2 DEF OpenInv
    <2>5. LevelsOf(indent_stack, top) = OpenOf(widths)
        BY <2>4 DEF UpTo
    <2>6. \A i \in 0 .. top : indent_stack[i] \in Nat /\ indent_stack'[i] = indent_stack[i]
        BY <2>2, <2>3
    <2>7. widths \in Seq(Nat) /\ line.width \in Nat
        OBVIOUS
    <2>8. /\ Ascending(indent_stack', top + 1)
          /\ LevelsOf(indent_stack', top + 1) = OpenOf(Append(widths, line.width))
          /\ \A l \in OpenOf(Append(widths, line.width)) : l <= line.width
        <3>1. indent_stack'[top + 1] = line.width
            BY <2>3
        <3> QED
            BY <2>1, <2>4, <2>5, <2>6, <2>7, <3>1, AboveTop
    <2> QED
        BY <2>2, <2>3, <2>8 DEF OpenInv, UpTo
<1>5. CASE TooManyLevels
    BY <1>5 DEF TooManyLevels, OpenInv
<1>6. CASE NoIndent
    <2>1. top >= 0
        BY <1>6 DEF NoIndent, IInv, BottomInv
    <2> QED
        BY <1>6, <2>1 DEF NoIndent, OpenInv, UpTo
<1>7. ASSUME top >= 0, pc \notin {"exit", "line", "skip", "indentation", "code", "error"},
             pc' = pc, Pop, UNCHANGED <<line, widths>>,
             pc = "dedent" => line.width # indent_stack[top]
      PROVE  OpenInv'
    <2>1. top \in Nat /\ widths \in Seq(Nat) /\ \A i \in 0 .. top : indent_stack[i] \in Nat
        BY <1>7
    <2>2. OpenOf(widths) \in SUBSET Nat
        BY <2>1, OpenNat
    <2>3. /\ Ascending(indent_stack, top)
          /\ LevelsOf(indent_stack, top) = UpTo(OpenOf(widths), indent_stack[top])
        BY <1>7 DEF OpenInv
    <2>4. /\ Ascending(indent_stack, top - 1)
          /\ LevelsOf(indent_stack, top - 1) = LevelsOf(indent_stack, top) \ {indent_stack[top]}
          /\ top - 1 >= 0 => LevelsOf(indent_stack, top - 1)
                               = UpTo(OpenOf(widths), indent_stack[top - 1])
        BY <2>1, <2>2, <2>3, LevelsBelow
    <2>5. top' = top - 1 /\ indent_stack' = indent_stack /\ pc' = pc /\ line' = line /\ widths' = widths
        BY <1>7 DEF Pop
    <2>6. pc = "dedent" /\ line.width \in OpenOf(widths) => line.width \in LevelsOf(indent_stack, top - 1)
        BY <1>7, <2>4 DEF OpenInv
    <2> QED
        BY <1>7, <2>4, <2>5, <2>6 DEF OpenInv
<1>8. CASE Dedent
    BY <1>7, <1>8 DEF Dedent, IndentStackTop
<1>9. CASE Unindent
    <2>1. top >= 0
        BY <1>9 DEF Unindent, IInv, BottomInv
    <2> QED
        BY <1>7, <1>9, <2>1 DEF Unindent
<1>10. CASE EofDedent
    <2>1. top >= 0
        BY <1>10 DEF EofDedent, IInv, BottomInv
    <2> QED
        BY <1>7, <1>10, <2>1 DEF EofDedent
<1>11. ASSUME top >= 0, pc # "exit", NEW w, w = indent_stack[top], widths' = Append(widths, w), pc' = "code",
              UNCHANGED <<indent_stack, top>>
       PROVE  OpenInv'
    <2>1. /\ LevelsOf(indent_stack, top) = OpenOf(Append(widths, w))
          /\ \A l \in OpenOf(Append(widths, w)) : l <= w
        BY <1>11, AtTopLevel DEF OpenInv
    <2> QED
        BY <1>11, <2>1 DEF OpenInv, UpTo
<1>12. CASE EndDedent
    <2>1. CASE top < 0
        <3>1. LevelsOf(indent_stack, top) = {}
            BY <2>1 DEF LevelsOf
        <3> QED
            BY <1>12, <2>1, <3>1 DEF EndDedent, OpenInv
    <2>2. CASE top >= 0
        BY <1>11, <1>12, <2>2 DEF EndDedent, IndentStackTop
    <2> QED
        BY <2>1, <2>2
<1>13. CASE Reject
    <2>1. top >= 0
        BY <1>13 DEF Reject, IInv, BottomInv
    <2> QED
        BY <1>11, <1>13, <2>1 DEF Reject, IndentStackTop
<1>14. CASE ScanCode
    BY <1>14 DEF ScanCode, OpenInv
<1>15. CASE ScanTail
    BY <1>15 DEF ScanTail, OpenInv
<1>16. CASE EndParse
    BY <1>16 DEF EndParse, OpenInv
<1>17. CASE ParserStops
    BY <1>17 DEF ParserStops, OpenInv
<1>18. CASE UNCHANGED vars
    BY <1>18 DEF vars, OpenInv
<1> QED
    BY <1>1, <1>2, <1>3, <1>4, <1>5, <1>6, <1>8, <1>9, <1>10, <1>12, <1>13, <1>14, <1>15,
       <1>16, <1>17, <1>18 DEF Next, Step, Scan, Terminated

LEMMA OpenInvariance == Spec => [](IInv /\ OpenInv)
<1>1. Init => IInv /\ OpenInv
    BY InitInv, InitOpen
<1>2. IInv /\ OpenInv /\ [Next]_vars => (IInv /\ OpenInv)'
    BY StepInv, StepOpen
<1> QED
    BY <1>1, <1>2, PTL DEF Spec

\* Between two lines the stack holds, in order, just the levels that the lines read so
\* far leave open, whatever the input.
THEOREM HoldsOpenLevels == Spec => []StackIsOpenLevels
<1>1. IInv /\ OpenInv => StackIsOpenLevels
    <2> SUFFICES ASSUME IInv, OpenInv, pc \in {"line", "code"}
                 PROVE  /\ top >= 0 /\ Levels = OpenLevels
                        /\ \A i \in 0 .. top - 1 : indent_stack[i] < indent_stack[i + 1]
        BY DEF StackIsOpenLevels
    <2>1. top \in Nat
        BY DEF IInv, TypeOK, BottomInv
    <2>2. LevelsOf(indent_stack, top) = OpenOf(widths)
        BY <2>1 DEF OpenInv, UpTo
    <2>3. Ascending(indent_stack, top)
        BY DEF OpenInv
    <2>4. ASSUME NEW i \in 0 .. top - 1 PROVE indent_stack[i] < indent_stack[i + 1]
        <3>1. i \in 0 .. top /\ i + 1 \in 0 .. top /\ i < i + 1
            BY <2>1
        <3> QED
            BY <2>3, <3>1 DEF Ascending
    <2>5. Levels = OpenLevels
        BY <2>2 DEF Levels, OpenLevels, LevelsOf, OpenOf
    <2> QED
        BY <2>1, <2>4, <2>5
<1> QED
    BY OpenInvariance, <1>1, PTL

\* The scanner refuses a line only when its level is not open, whatever the input.
THEOREM RefusesOnlyBad == Spec => []RefusesOnlyBadLevels
<1>1. OpenInv => RefusesOnlyBadLevels
    BY DEF OpenInv, RefusesOnlyBadLevels, OpenOf, OpenLevels
<1> QED
    BY OpenInvariance, <1>1, PTL
-----------------------------------------------------------------------------
(* The tokens are balanced *)

Token == {"INDENT", "DEDENT", "CODE", "NEWLINE"}
PlacesOf(s, t) == {i \in DOMAIN s : s[i] = t}
Count(s, t) == Cardinality(PlacesOf(s, t))

\* A token more is counted as itself and not as another.
LEMMA CountAppend ==
    ASSUME NEW s \in Seq(Token), NEW u \in Token, NEW t \in Token
    PROVE  /\ Count(s, t) \in Nat
           /\ Count(Append(s, u), t) = IF u = t THEN Count(s, t) + 1 ELSE Count(s, t)
<1> DEFINE n == Len(s)
           r == Append(s, u)
<1>1. n \in Nat /\ DOMAIN s = 1 .. n /\ DOMAIN r = 1 .. n + 1
    OBVIOUS
<1>2. r[n + 1] = u /\ \A i \in 1 .. n : r[i] = s[i]
    OBVIOUS
<1>3. n + 1 \notin 1 .. n /\ 1 .. n + 1 = (1 .. n) \cup {n + 1}
    BY <1>1
<1>4. IsFiniteSet(PlacesOf(s, t))
    <2>1. IsFiniteSet(1 .. n)
        BY <1>1, FS_Interval
    <2> QED
        BY <2>1, <1>1, FS_Subset DEF PlacesOf
<1> HIDE DEF n, r
<1>5. CASE u = t
    <2>1. PlacesOf(r, t) = PlacesOf(s, t) \cup {n + 1} /\ n + 1 \notin PlacesOf(s, t)
        BY <1>1, <1>2, <1>3, <1>5 DEF PlacesOf
    <2> QED
        BY <1>4, <1>5, <2>1, FS_AddElement, FS_CardinalityType DEF Count, r
<1>6. CASE u # t
    <2>1. PlacesOf(r, t) = PlacesOf(s, t)
        BY <1>1, <1>2, <1>3, <1>6 DEF PlacesOf
    <2> QED
        BY <1>4, <1>6, <2>1, FS_CardinalityType DEF Count, r
<1> QED
    BY <1>5, <1>6

LEMMA CountEmpty == ASSUME NEW t PROVE Count(<<>>, t) = 0
<1>1. PlacesOf(<<>>, t) = {}
    BY DEF PlacesOf
<1> QED
    BY <1>1, FS_EmptySet DEF Count

\* Every level that is open was opened by one INDENT and not closed by a DEDENT yet.
BalanceInv ==
    /\ pc # "exit" => Count(tokens, "INDENT") - Count(tokens, "DEDENT") = top
    /\ pc \in {"done", "no_pstate"} => top = 0

LEMMA PushesToken ==
    ASSUME TypeOK, NEW u \in Token, PushToken(u)
    PROVE  \A t \in Token : /\ Count(tokens, t) \in Nat
                            /\ Count(tokens', t) = IF u = t THEN Count(tokens, t) + 1 ELSE Count(tokens, t)
BY CountAppend DEF TypeOK, PushToken, Token

LEMMA PushesLine ==
    ASSUME TypeOK, tokens' = tokens \o <<"CODE", "NEWLINE">>
    PROVE  /\ Count(tokens', "INDENT") = Count(tokens, "INDENT")
           /\ Count(tokens', "DEDENT") = Count(tokens, "DEDENT")
<1>1. tokens \in Seq(Token)
    BY DEF TypeOK, Token
<1>2. Append(tokens, "CODE") \in Seq(Token) /\ tokens' = Append(Append(tokens, "CODE"), "NEWLINE")
    BY <1>1 DEF Token
<1> QED
    BY <1>1, <1>2, CountAppend DEF Token

\* The only 0 in the stack is at its bottom.
LEMMA ZeroIsBottom ==
    ASSUME IInv, OpenInv, pc # "exit", IndentStackTop = 0
    PROVE  top = 0
<1>1. top \in Int /\ top >= 0 /\ indent_stack[top] = 0 /\ indent_stack[0] = 0
    BY DEF IInv, TypeOK, BottomInv, IndentStackTop
<1>2. Ascending(indent_stack, top)
    BY DEF OpenInv
<1>3. CASE top > 0
    <2>1. 0 \in 0 .. top /\ top \in 0 .. top
        BY <1>1
    <2>2. indent_stack[0] < indent_stack[top]
        BY <1>2, <1>3, <2>1 DEF Ascending
    <2> QED
        BY <1>1, <2>2
<1> QED
    BY <1>1, <1>3

LEMMA StepBalance == IInv /\ OpenInv /\ BalanceInv /\ [Next]_vars => BalanceInv'
<1> SUFFICES ASSUME IInv, OpenInv, BalanceInv, [Next]_vars PROVE BalanceInv'
    OBVIOUS
<1>1. TypeOK /\ top \in Int
    BY DEF IInv, TypeOK
<1>2. ASSUME PushToken("DEDENT"), Pop, pc' = pc, pc \notin Returned PROVE BalanceInv'
    <2>1. /\ Count(tokens', "INDENT") = Count(tokens, "INDENT")
          /\ Count(tokens', "DEDENT") = Count(tokens, "DEDENT") + 1
          /\ Count(tokens, "INDENT") \in Nat /\ Count(tokens, "DEDENT") \in Nat
        BY <1>1, <1>2, PushesToken DEF Token
    <2> QED
        BY <1>1, <1>2, <2>1 DEF BalanceInv, Pop, Returned
<1>3. CASE Indent
    <2>1. /\ Count(tokens', "INDENT") = Count(tokens, "INDENT") + 1
          /\ Count(tokens', "DEDENT") = Count(tokens, "DEDENT")
          /\ Count(tokens, "INDENT") \in Nat /\ Count(tokens, "DEDENT") \in Nat
        BY <1>1, <1>3, PushesToken DEF Token, Indent
    <2>2. pc = "indentation" /\ pc' = "code" /\ top' = top + 1
        BY <1>3 DEF Indent, Push
    <2> QED
        BY <1>1, <2>1, <2>2 DEF BalanceInv
<1>4. CASE Dedent
    BY <1>2, <1>4 DEF Dedent, Returned
<1>5. CASE Unindent
    BY <1>2, <1>5 DEF Unindent, Returned
<1>6. CASE EofDedent
    BY <1>2, <1>6 DEF EofDedent, Returned
<1>7. CASE ScanCode
    BY <1>1, <1>7, PushesLine DEF ScanCode, BalanceInv
<1>8. CASE ScanTail
    <2>1. /\ Count(tokens', "INDENT") = Count(tokens, "INDENT")
          /\ Count(tokens', "DEDENT") = Count(tokens, "DEDENT")
        BY <1>1, <1>8, PushesToken DEF Token, ScanTail
    <2>2. pc = "code" /\ pc' = "eof" /\ top' = top
        BY <1>8 DEF ScanTail
    <2> QED
        BY <2>1, <2>2 DEF BalanceInv
<1>9. CASE EndParse
    <2>1. pc = "eof" /\ IndentStackTop = 0 /\ top' = top /\ tokens' = tokens
        BY <1>9 DEF EndParse
    <2>2. top = 0
        BY <2>1, ZeroIsBottom
    <2> QED
        BY <2>1, <2>2 DEF BalanceInv
<1>10. CASE ReadLine
    BY <1>10 DEF ReadLine, BalanceInv
<1>11. CASE ReadEof
    BY <1>11 DEF ReadEof, BalanceInv
<1>12. CASE SkipLine
    BY <1>12 DEF SkipLine, BalanceInv
<1>13. CASE TooManyLevels
    BY <1>13 DEF TooManyLevels, BalanceInv
<1>14. CASE NoIndent
    BY <1>14 DEF NoIndent, BalanceInv
<1>15. CASE EndDedent
    BY <1>15 DEF EndDedent, BalanceInv
<1>16. CASE Reject
    BY <1>16 DEF Reject, BalanceInv
<1>17. CASE ParserStops
    BY <1>17 DEF ParserStops, BalanceInv
<1>18. CASE UNCHANGED vars
    BY <1>18 DEF vars, BalanceInv
<1> QED
    BY <1>3, <1>4, <1>5, <1>6, <1>7, <1>8, <1>9, <1>10, <1>11, <1>12, <1>13, <1>14, <1>15,
       <1>16, <1>17, <1>18 DEF Next, Step, Scan, Terminated

\* INDENT and DEDENT always differ by the levels that are open, and a program scanned
\* to its end has as many of one as of the other, whatever the input.
THEOREM TokensBalance == Spec => []Balanced
<1>1. Init => BalanceInv
    BY CountEmpty DEF Init, BalanceInv
<1>2. BalanceInv => Balanced
    BY DEF BalanceInv, Balanced, Number, Count, PlacesOf
<1> QED
    BY <1>1, <1>2, OpenInvariance, StepBalance, PTL DEF Spec
=============================================================================
