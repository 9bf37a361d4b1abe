--------------------------- MODULE CodeGen_proofs ---------------------------
(***************************************************************************)
(* Proofs about CodeGen, for every set of programs.                        *)
(***************************************************************************)
EXTENDS CodeGen, SequenceTheorems, TLAPS

-----------------------------------------------------------------------------
(* Facts about the call stack and the blocks *)

\* A return: what is under the top frame.
LEMMA PopFacts ==
    ASSUME NEW S, NEW s \in Seq(S), s # <<>>
    PROVE  /\ Head(s) = s[1] /\ s[1] \in S
           /\ Tail(s) \in Seq(S) /\ Len(Tail(s)) = Len(s) - 1 /\ Len(s) \in Nat \ {0}
           /\ \A i \in 1 .. Len(s) - 1 : Tail(s)[i] = s[i + 1]
<1>1. Len(s) \in Nat \ {0} /\ Head(s) = s[1] /\ s[1] \in S
    BY EmptySeq, LenProperties
<1>2. /\ Tail(s) \in Seq(S) /\ Len(Tail(s)) = Len(s) - 1
      /\ \A i \in 1 .. Len(Tail(s)) : Tail(s)[i] = s[i + 1]
    BY HeadTailProperties
<1> QED
    BY <1>1, <1>2

\* Cons puts its first argument on top of the second.
LEMMA ConsFacts ==
    ASSUME NEW S, NEW f \in S, NEW s \in Seq(S)
    PROVE  /\ Cons(f, s) \in Seq(S) /\ Cons(f, s) # <<>>
           /\ Len(Cons(f, s)) = Len(s) + 1 /\ Len(s) \in Nat
           /\ Head(Cons(f, s)) = f /\ Cons(f, s)[1] = f
           /\ \A i \in 1 .. Len(s) : Cons(f, s)[i + 1] = s[i]
<1>1. <<f>> \in Seq(S) /\ Len(<<f>>) = 1 /\ <<f>>[1] = f
    OBVIOUS
<1>2. /\ Cons(f, s) \in Seq(S)
      /\ Len(Cons(f, s)) = Len(s) + 1 /\ Len(s) \in Nat
      /\ \A i \in 1 .. Len(s) + 1 :
            Cons(f, s)[i] = IF i <= 1 THEN <<f>>[i] ELSE s[i - 1]
    BY <1>1, ConcatProperties, LenProperties DEF Cons
<1>3. Cons(f, s)[1] = f /\ Cons(f, s) # <<>>
    BY <1>1, <1>2
<1>4. Head(Cons(f, s)) = f
    BY <1>2, <1>3, PopFacts
<1>5. ASSUME NEW i \in 1 .. Len(s)
      PROVE  Cons(f, s)[i + 1] = s[i]
    BY <1>2
<1> QED
    BY <1>2, <1>3, <1>4, <1>5

\* An instruction is appended to the current block and to no other.
LEMMA EmitFacts ==
    ASSUME blocks \in Seq(Seq(Instr)), cur \in DOMAIN blocks, NEW ins \in Instr
    PROVE  /\ Emit(ins) \in Seq(Seq(Instr)) /\ Len(Emit(ins)) = Len(blocks)
           /\ Len(blocks) \in Nat \ {0} /\ DOMAIN blocks = 1 .. Len(blocks)
           /\ DOMAIN Emit(ins) = DOMAIN blocks
           /\ Emit(ins)[cur] = Append(blocks[cur], ins)
           /\ \A b \in DOMAIN blocks : b # cur => Emit(ins)[b] = blocks[b]
<1>1. blocks \in [1 .. Len(blocks) -> Seq(Instr)] /\ Len(blocks) \in Nat
    BY LenProperties
<1>2. Append(blocks[cur], ins) \in Seq(Instr)
    BY <1>1, AppendProperties
<1>3. Emit(ins) \in Seq(Seq(Instr)) /\ Len(Emit(ins)) = Len(blocks)
    BY <1>1, <1>2, ExceptSeq DEF Emit
<1> QED
    BY <1>1, <1>2, <1>3, LenProperties DEF Emit

\* The place of the next instruction is a register.
LEMMA HereFact ==
    ASSUME blocks \in Seq(Seq(Instr)), cur \in DOMAIN blocks
    PROVE  Here \in InstVals
<1>1. cur \in Nat \ {0} /\ blocks[cur] \in Seq(Instr)
    BY LenProperties
<1>2. Len(blocks[cur]) \in Nat
    BY <1>1, LenProperties
<1> QED
    BY <1>1, <1>2 DEF Here, InstVal, InstVals

-----------------------------------------------------------------------------
(* Type correctness *)

\* The conjuncts of TypeOK that the call stack takes part in.
StackOK ==
    /\ stack \in Seq(Frame)
    /\ \A i \in 1 .. Len(stack) - 1 : AwaitsValue(stack[i + 1]) <=> IsExprFrame(stack[i])
    /\ stack # <<>> /\ AwaitsValue(Top) => ret \in Values

\* What the kind of the top frame tells of its fields.
LEMMA TopFacts ==
    ASSUME StackOK, stack # <<>>
    PROVE  /\ Top \in Frame
           /\ Top.kind = "stmt" => Top.node \in Stmt
           /\ Top.kind = "expr" => Top.node \in Expr
           /\ Top.kind = "lhs" => Top.node \in Expr /\ Top.node.type = "BINOP_EXPR"
           /\ Top.kind = "rhs" => Top.op \in Op /\ Top.l \in Values
           /\ Top.kind = "store" => Top.ptr \in InstVals
           /\ Top.kind = "if" => Top.node \in Stmt /\ Top.node.type = "IF_STMT"
           /\ Top.kind = "endif" => /\ Top.else \in Stmt \cup {NULL}
                                    /\ Top.else_bb \in BlockNo \cup {NULL} /\ Top.cont \in BlockNo
                                    /\ Top.else = NULL <=> Top.else_bb = NULL
                                    /\ Top.else_bb # Top.cont
                                    /\ Top = [kind |-> "endif", else |-> Top.else,
                                              else_bb |-> Top.else_bb, cont |-> Top.cont]
           /\ Top.kind = "while" => /\ Top.node \in Stmt /\ Top.node.type = "WHILE_STMT"
                                    /\ Top.cond \in BlockNo /\ Top.body \in BlockNo
                                    /\ Top.cont \in BlockNo /\ Top.old \in BlockNo \cup {NULL}
                                    /\ Top.body # Top.cont
           /\ Top.kind = "loop" => /\ Top.cond \in BlockNo /\ Top.cont \in BlockNo
                                   /\ Top.old \in BlockNo \cup {NULL}
           /\ Top.kind = "block" => Top.stmts \in Seq(Stmt)
           /\ AwaitsValue(Top) => ret \in Values
<1>1. Top \in Frame
    BY PopFacts DEF StackOK, Top
<1>2. CASE Top.kind \in {"stmt", "expr", "lhs", "rhs"}
    BY <1>1, <1>2 DEF StackOK, Frame, WhileFrame, EndIfFrame, AwaitsValue
<1>3. CASE Top.kind \in {"store", "if", "while", "loop", "block"}
    BY <1>1, <1>3 DEF StackOK, Frame, WhileFrame, EndIfFrame, AwaitsValue
<1>4. CASE Top.kind = "endif"
    <2>1. /\ Top \in [kind : {"endif"}, else : Stmt \cup {NULL},
                      else_bb : BlockNo \cup {NULL}, cont : BlockNo]
          /\ Top.else = NULL <=> Top.else_bb = NULL
          /\ Top.else_bb # Top.cont
        BY <1>1, <1>4 DEF Frame, EndIfFrame, WhileFrame
    <2> QED
        BY <2>1, <1>1, <1>4 DEF AwaitsValue
<1>5. Top.kind \in {"stmt", "expr", "lhs", "rhs", "store", "if", "while", "loop", "block", "endif"}
    BY <1>1 DEF Frame, WhileFrame, EndIfFrame
<1> QED
    BY <1>2, <1>3, <1>4, <1>5

\* A function that returns leaves the stack in order, if gen_expr has set ret.
LEMMA ReturnFacts ==
    ASSUME StackOK, stack # <<>>, stack' = Tail(stack),
           IsExprFrame(Top) => ret' \in Values
    PROVE  StackOK'
<1>1. /\ Top = stack[1] /\ stack' \in Seq(Frame) /\ Len(stack') = Len(stack) - 1
      /\ Len(stack) \in Nat \ {0}
      /\ \A i \in 1 .. Len(stack) - 1 : stack'[i] = stack[i + 1]
    BY PopFacts DEF StackOK, Top
<1>2. ASSUME NEW i \in 1 .. Len(stack') - 1
      PROVE  AwaitsValue(stack'[i + 1]) <=> IsExprFrame(stack'[i])
    BY <1>1 DEF StackOK
<1>3. ASSUME stack' # <<>>, AwaitsValue(Top')
      PROVE  ret' \in Values
    <2>1. Top' = stack'[1] /\ Len(stack') \in Nat \ {0}
        BY <1>1, <1>3, PopFacts DEF Top
    <2>2. Top' = stack[2] /\ 1 \in 1 .. Len(stack) - 1
        BY <1>1, <2>1
    <2> QED
        BY <1>1, <1>3, <2>2 DEF StackOK
<1> QED
    BY <1>1, <1>2, <1>3 DEF StackOK

\* So does a call of f from a frame that goes on as k, if k awaits a value just
\* when f is gen_expr, and is a gen_expr just when the calling frame is.
LEMMA CallFacts ==
    ASSUME StackOK, stack # <<>>, NEW f \in Frame, NEW k \in Frame, Call(f, k),
           ~AwaitsValue(f), AwaitsValue(k) <=> IsExprFrame(f), IsExprFrame(k) <=> IsExprFrame(Top)
    PROVE  /\ StackOK'
           /\ stack' # <<>> /\ Len(stack') = Len(stack) + 1 /\ stack'[1] = f /\ stack'[2] = k
           /\ \A i \in 2 .. Len(stack) : stack'[i + 1] = stack[i]
<1> DEFINE below == Tail(stack)
           rest  == Cons(k, below)
<1>1. /\ Top = stack[1] /\ below \in Seq(Frame) /\ Len(below) = Len(stack) - 1
      /\ Len(stack) \in Nat \ {0}
      /\ \A i \in 1 .. Len(stack) - 1 : below[i] = stack[i + 1]
    BY PopFacts DEF StackOK, Top
<1>2. stack' = Cons(f, rest)
    BY DEF Call
<1> HIDE DEF below
<1>3. /\ rest \in Seq(Frame) /\ Len(rest) = Len(stack) /\ rest[1] = k
      /\ \A i \in 1 .. Len(stack) - 1 : rest[i + 1] = stack[i + 1]
    <2>1. /\ rest \in Seq(Frame) /\ Len(rest) = Len(below) + 1 /\ rest[1] = k
          /\ \A i \in 1 .. Len(below) : rest[i + 1] = below[i]
        BY <1>1, ConsFacts
    <2> QED
        BY <1>1, <2>1
<1> HIDE DEF rest
<1>4. /\ stack' \in Seq(Frame) /\ stack' # <<>> /\ Len(stack') = Len(stack) + 1
      /\ Head(stack') = f /\ stack'[1] = f
      /\ \A i \in 1 .. Len(stack) : stack'[i + 1] = rest[i]
    <2>1. /\ Cons(f, rest) \in Seq(Frame) /\ Cons(f, rest) # <<>>
          /\ Len(Cons(f, rest)) = Len(rest) + 1
          /\ Head(Cons(f, rest)) = f /\ Cons(f, rest)[1] = f
          /\ \A i \in 1 .. Len(rest) : Cons(f, rest)[i + 1] = rest[i]
        BY <1>3, ConsFacts
    <2> QED
        BY <1>2, <1>3, <2>1
<1>5. stack'[2] = k
    BY <1>1, <1>3, <1>4
<1>6. ASSUME NEW i \in 2 .. Len(stack)
      PROVE  stack'[i + 1] = stack[i]
    <2>1. i \in 1 .. Len(stack) /\ i - 1 \in 1 .. Len(stack) - 1 /\ (i - 1) + 1 = i
        BY <1>1
    <2>2. rest[(i - 1) + 1] = stack[(i - 1) + 1]
        BY <1>3, <2>1
    <2> QED
        BY <1>4, <2>1, <2>2
<1>7. ASSUME NEW i \in 1 .. Len(stack') - 1
      PROVE  AwaitsValue(stack'[i + 1]) <=> IsExprFrame(stack'[i])
    <2>1. CASE i = 1
        BY <1>4, <1>5, <2>1
    <2>2. CASE i = 2
        <3>1. stack'[3] = stack[2] /\ 1 \in 1 .. Len(stack) - 1
            BY <1>1, <1>4, <1>6, <2>2
        <3>2. AwaitsValue(stack[2]) <=> IsExprFrame(Top)
            BY <1>1, <3>1 DEF StackOK
        <3> QED
            BY <1>5, <2>2, <3>1, <3>2
    <2>3. CASE i > 2
        <3>1. i - 1 \in 2 .. Len(stack) /\ i \in 2 .. Len(stack) /\ i - 1 \in 1 .. Len(stack) - 1
            BY <1>1, <1>4, <2>3
        <3>2. stack'[i] = stack[i - 1] /\ stack'[i + 1] = stack[i]
            BY <1>6, <3>1
        <3>3. AwaitsValue(stack[(i - 1) + 1]) <=> IsExprFrame(stack[i - 1])
            BY <3>1 DEF StackOK
        <3> QED
            BY <3>1, <3>2, <3>3
    <2> QED
        BY <1>1, <1>4, <2>1, <2>2, <2>3
<1>8. ~AwaitsValue(Top')
    BY <1>4 DEF Top
<1> QED
    BY <1>4, <1>5, <1>6, <1>7, <1>8 DEF StackOK

\* A frame that becomes another one of the same sort: gen_stmt enters a block.
LEMMA ReplaceFacts ==
    ASSUME StackOK, stack # <<>>, NEW f \in Frame, stack' = Cons(f, Tail(stack)),
           ~AwaitsValue(f), ~IsExprFrame(f), ~IsExprFrame(Top)
    PROVE  /\ StackOK'
           /\ stack' # <<>> /\ Len(stack') = Len(stack) /\ stack'[1] = f
           /\ \A i \in 2 .. Len(stack) : stack'[i] = stack[i]
<1> DEFINE below == Tail(stack)
<1>1. /\ Top = stack[1] /\ below \in Seq(Frame) /\ Len(below) = Len(stack) - 1
      /\ Len(stack) \in Nat \ {0}
      /\ \A i \in 1 .. Len(stack) - 1 : below[i] = stack[i + 1]
    BY PopFacts DEF StackOK, Top
<1> HIDE DEF below
<1>2. /\ Cons(f, below) \in Seq(Frame) /\ Cons(f, below) # <<>>
      /\ Len(Cons(f, below)) = Len(below) + 1
      /\ Head(Cons(f, below)) = f /\ Cons(f, below)[1] = f
      /\ \A i \in 1 .. Len(below) : Cons(f, below)[i + 1] = below[i]
    BY <1>1, ConsFacts
<1>3. stack' = Cons(f, below)
    BY DEF below
<1>4. ASSUME NEW i \in 2 .. Len(stack)
      PROVE  stack'[i] = stack[i]
    <2>1. i - 1 \in 1 .. Len(below) /\ i - 1 \in 1 .. Len(stack) - 1 /\ (i - 1) + 1 = i
        BY <1>1
    <2>2. Cons(f, below)[(i - 1) + 1] = below[i - 1] /\ below[i - 1] = stack[(i - 1) + 1]
        BY <1>1, <1>2, <2>1
    <2> QED
        BY <1>3, <2>1, <2>2
<1>5. ASSUME NEW i \in 1 .. Len(stack') - 1
      PROVE  AwaitsValue(stack'[i + 1]) <=> IsExprFrame(stack'[i])
    <2>1. i + 1 \in 2 .. Len(stack) /\ i \in 1 .. Len(stack) - 1 /\ stack'[i + 1] = stack[i + 1]
        BY <1>1, <1>2, <1>3, <1>4
    <2>2. AwaitsValue(stack[i + 1]) <=> IsExprFrame(stack[i])
        BY <2>1 DEF StackOK
    <2>3. CASE i = 1
        BY <1>1, <1>2, <1>3, <2>1, <2>2, <2>3
    <2>4. CASE i \in 2 .. Len(stack)
        BY <1>4, <2>1, <2>2, <2>4
    <2> QED
        BY <1>1, <2>1, <2>3, <2>4
<1>6. ~AwaitsValue(Top')
    BY <1>2, <1>3 DEF Top
<1> QED
    BY <1>1, <1>2, <1>3, <1>4, <1>5, <1>6 DEF StackOK

NewBlocks(n) == IF n = 2 THEN << <<>>, <<>> >> ELSE << <<>>, <<>>, <<>> >>

\* Appending empty blocks.
LEMMA NewBlocksFacts ==
    ASSUME NEW B \in Seq(Seq(Instr)), NEW n \in {2, 3}
    PROVE  /\ B \o NewBlocks(n) \in Seq(Seq(Instr))
           /\ Len(B \o NewBlocks(n)) = Len(B) + n /\ Len(B) \in Nat
           /\ \A b \in 1 .. Len(B) : (B \o NewBlocks(n))[b] = B[b]
           /\ \A b \in Len(B) + 1 .. Len(B) + n : (B \o NewBlocks(n))[b] = <<>>
<1> DEFINE new == NewBlocks(n)
<1>1. <<>> \in Seq(Instr)
    BY EmptySeq
<1>2. new \in Seq(Seq(Instr)) /\ Len(new) = n /\ \A i \in 1 .. n : new[i] = <<>>
    BY <1>1 DEF NewBlocks
<1> HIDE DEF Instr, new
<1>3. /\ B \o new \in Seq(Seq(Instr)) /\ Len(B \o new) = Len(B) + Len(new)
      /\ \A b \in 1 .. Len(B) + Len(new) :
            (B \o new)[b] = IF b <= Len(B) THEN B[b] ELSE new[b - Len(B)]
    BY <1>2, ConcatProperties
<1>4. Len(B) \in Nat
    BY LenProperties
<1>5. ASSUME NEW b \in Len(B) + 1 .. Len(B) + n
      PROVE  (B \o new)[b] = <<>>
    <2>1. b \in 1 .. Len(B) + Len(new) /\ ~(b <= Len(B)) /\ b - Len(B) \in 1 .. n
        BY <1>2, <1>4
    <2> QED
        BY <1>2, <1>3, <2>1
<1> QED
    BY <1>2, <1>3, <1>4, <1>5 DEF new

-----------------------------------------------------------------------------
(* Blocks are filled once *)

\* A step of the generator changes the top of the stack and at most one more
\* frame: d is the change of height, O and K are what the top frame owed and what
\* the frame in its place owes.  If the step changes no block but the current one,
\* appends only empty blocks, moves on only from a closed block, and every block
\* that was owed or is new is now owed or current, the blocks stay in order.
LEMMA FilledOnceStep ==
    ASSUME BlocksFilledOnce, NEW d \in {-1, 0, 1}, NEW K,
           stack # <<>>, Len(stack) \in Nat \ {0}, DOMAIN stack = 1 .. Len(stack),
           DOMAIN stack' = 1 .. Len(stack) + d,
           \A i \in 2 .. Len(stack) : stack'[i + d] = stack[i],
           d = 1 => Owed(stack'[1]) = {},
           IF d = -1 THEN K = {} ELSE Owed(stack'[1 + d]) = K,
           DOMAIN blocks \subseteq DOMAIN blocks', cur \in DOMAIN blocks,
           \A b \in DOMAIN blocks : b # cur => blocks'[b] = blocks[b],
           \A b \in DOMAIN blocks' \ DOMAIN blocks : blocks'[b] = <<>>,
           K \cup {cur'} \subseteq DOMAIN blocks', cur' \notin K,
           K \subseteq Owed(stack[1]) \cup (DOMAIN blocks' \ DOMAIN blocks),
           Owed(stack[1]) \cup (DOMAIN blocks' \ DOMAIN blocks) \subseteq K \cup {cur'},
           \/ cur' = cur
           \/ /\ cur' \in Owed(stack[1]) \cup (DOMAIN blocks' \ DOMAIN blocks)
              /\ IsClosed(blocks'[cur])
    PROVE  BlocksFilledOnce'
<1> DEFINE O   == Owed(stack[1])
           New == DOMAIN blocks' \ DOMAIN blocks
<1>1. ASSUME NEW b \in DOMAIN blocks'
      PROVE  b = cur' \/ IsClosed(blocks'[b]) \/ \E i \in DOMAIN stack' : b \in Owed(stack'[i])
    <2>1. CASE b \in O \cup New
        <3>1. b \in K \/ b = cur'
            BY <2>1
        <3>2. ASSUME b \in K
              PROVE  \E i \in DOMAIN stack' : b \in Owed(stack'[i])
            <4>1. d # -1 /\ 1 + d \in DOMAIN stack' /\ Owed(stack'[1 + d]) = K
                BY <3>2
            <4> QED
                BY <3>2, <4>1
        <3> QED
            BY <3>1, <3>2
    <2>2. CASE b \in DOMAIN blocks /\ b # cur /\ IsClosed(blocks[b])
        BY <2>2
    <2>3. CASE b = cur
        BY <2>3
    <2>4. CASE \E i \in DOMAIN stack : i # 1 /\ b \in Owed(stack[i])
        <3>1. PICK i \in DOMAIN stack : i # 1 /\ b \in Owed(stack[i])
            BY <2>4
        <3>2. i + d \in DOMAIN stack' /\ stack'[i + d] = stack[i]
            BY <3>1
        <3> QED
            BY <3>1, <3>2
    <2> QED
        BY <2>1, <2>2, <2>3, <2>4 DEF BlocksFilledOnce
<1>2. ASSUME NEW i \in DOMAIN stack, i # 1, NEW b \in Owed(stack[i])
      PROVE  b \in DOMAIN blocks /\ b # cur' /\ blocks'[b] = <<>> /\ b \notin K
    <2>1. b # cur /\ b \in DOMAIN blocks /\ blocks[b] = <<>> /\ b \notin O
        BY <1>2 DEF BlocksFilledOnce
    <2> QED
        BY <2>1
<1>3. ASSUME NEW b \in K
      PROVE  b \in DOMAIN blocks' /\ b # cur' /\ blocks'[b] = <<>>
    BY <1>3 DEF BlocksFilledOnce
<1>4. ASSUME NEW j \in DOMAIN stack', NEW b \in Owed(stack'[j])
      PROVE  \/ j = 1 + d /\ d # -1 /\ b \in K
             \/ j - d \in DOMAIN stack /\ j - d # 1 /\ stack'[j] = stack[j - d]
    <2>1. CASE j <= 1 + d
        BY <1>4, <2>1
    <2>2. CASE j > 1 + d
        <3>1. j - d \in 2 .. Len(stack) /\ (j - d) + d = j
            BY <2>2
        <3> QED
            BY <3>1
    <2> QED
        BY <2>1, <2>2
<1>5. ASSUME NEW i \in DOMAIN stack', NEW b \in Owed(stack'[i])
      PROVE  /\ b # cur' /\ b \in DOMAIN blocks' /\ blocks'[b] = <<>>
             /\ \A j \in DOMAIN stack' : b \in Owed(stack'[j]) => i = j
    <2>1. b # cur' /\ b \in DOMAIN blocks' /\ blocks'[b] = <<>>
        BY <1>2, <1>3, <1>4, <1>5
    <2>2. ASSUME NEW j \in DOMAIN stack', b \in Owed(stack'[j])
          PROVE  i = j
        <3>1. CASE b \in K
            BY <1>2, <1>4, <1>5, <2>2, <3>1
        <3>2. CASE b \notin K
            <4>1. /\ i - d \in DOMAIN stack /\ b \in Owed(stack[i - d])
                  /\ j - d \in DOMAIN stack /\ b \in Owed(stack[j - d])
                BY <1>4, <1>5, <2>2, <3>2
            <4>2. i - d = j - d
                BY <4>1 DEF BlocksFilledOnce
            <4> QED
                BY <4>2
        <3> QED
            BY <3>1, <3>2
    <2> QED
        BY <2>1, <2>2
<1> QED
    BY <1>1, <1>5 DEF BlocksFilledOnce

\* What each kind of frame owes.
LEMMA OwedFacts ==
    ASSUME NEW f
    PROVE  /\ f.kind \in {"stmt", "expr", "lhs", "rhs", "store", "if", "block"} => Owed(f) = {}
           /\ f.kind = "endif" => Owed(f) = {f.else_bb, f.cont} \ {NULL}
           /\ f.kind = "while" => Owed(f) = {f.body, f.cont}
           /\ f.kind = "loop" => Owed(f) = {f.cont}
BY DEF Owed

\* The strengthening of TypeOK and BlocksFilledOnce that every step preserves.
IInv ==
    /\ TypeOK
    /\ BlocksFilledOnce
    /\ status = "done" => stack = <<>> /\ IsClosed(blocks[cur])

\* TypeOK without the stack.
DataOK ==
    /\ ast \in Programs
    /\ ret \in Values \cup {NULL}
    /\ blocks \in Seq(Seq(Instr)) /\ cur \in DOMAIN blocks
    /\ break_target \in BlockNo \cup {NULL}
    /\ symbols \in [Var -> InstVals \cup {NULL}]
    /\ status \in {"gen", "done", "crashed"}

LEMMA TypeParts == TypeOK <=> StackOK /\ DataOK
BY DEF TypeOK, StackOK, DataOK

\* A step that at most emits an instruction keeps the current block and, one
\* frame returning that owes nothing, the invariant.
LEMMA ReturnStep ==
    ASSUME IInv, status = "gen", stack # <<>>, DataOK',
           Top.kind \in {"stmt", "expr", "rhs", "store", "block"},
           stack' = Tail(stack), cur' = cur, status' = "gen",
           blocks' = blocks \/ \E ins \in Instr : blocks' = Emit(ins),
           IsExprFrame(Top) => ret' \in Values
    PROVE  IInv'
<1>1. StackOK /\ DataOK
    BY TypeParts DEF IInv
<1>2. StackOK'
    BY <1>1, ReturnFacts
<1>3. /\ Top = stack[1] /\ Len(stack') = Len(stack) - 1 /\ Len(stack) \in Nat \ {0}
      /\ \A i \in 1 .. Len(stack) - 1 : stack'[i] = stack[i + 1]
    BY <1>1, PopFacts DEF StackOK, Top
<1> DEFINE d == -1
           K == {}
<1>4. DOMAIN stack = 1 .. Len(stack) /\ DOMAIN stack' = 1 .. Len(stack) + d
    BY <1>1, <1>2, <1>3, LenProperties DEF StackOK
<1>5. d \in {-1, 0, 1} /\ d = -1 /\ \A i \in 2 .. Len(stack) : stack'[i + d] = stack[i]
    BY <1>3
<1>6. Owed(stack[1]) = {} /\ K = {}
    BY <1>3, OwedFacts
<1>7. /\ cur \in DOMAIN blocks /\ DOMAIN blocks' = DOMAIN blocks
      /\ \A b \in DOMAIN blocks : b # cur => blocks'[b] = blocks[b]
    BY <1>1, EmitFacts DEF DataOK
<1> HIDE DEF d, K
<1>8. /\ d = 1 => Owed(stack'[1]) = {}
      /\ IF d = -1 THEN K = {} ELSE Owed(stack'[1 + d]) = K
      /\ DOMAIN blocks' \ DOMAIN blocks = {}
    BY <1>5, <1>6, <1>7
<1>9. BlocksFilledOnce'
    BY <1>3, <1>4, <1>5, <1>6, <1>7, <1>8, FilledOnceStep DEF IInv
<1> QED
    BY <1>2, <1>9 DEF IInv, TypeOK, StackOK, DataOK

\* Likewise a call between frames that owe nothing.
LEMMA CallStep ==
    ASSUME IInv, status = "gen", stack # <<>>, DataOK', NEW f \in Frame, NEW k \in Frame,
           Top.kind \in {"stmt", "expr", "lhs", "block"}, Call(f, k),
           f.kind \in {"stmt", "expr"}, k.kind \in {"lhs", "rhs", "store", "if", "block"},
           AwaitsValue(k) <=> IsExprFrame(f), IsExprFrame(k) <=> IsExprFrame(Top),
           cur' = cur, status' = "gen",
           blocks' = blocks \/ \E ins \in Instr : blocks' = Emit(ins)
    PROVE  IInv'
<1>1. StackOK /\ DataOK
    BY TypeParts DEF IInv
<1>2. ~AwaitsValue(f)
    BY DEF AwaitsValue
<1>3. /\ StackOK'
      /\ Len(stack') = Len(stack) + 1 /\ stack'[1] = f /\ stack'[2] = k
      /\ \A i \in 2 .. Len(stack) : stack'[i + 1] = stack[i]
    BY <1>1, <1>2, CallFacts
<1>4. Top = stack[1] /\ Len(stack) \in Nat \ {0}
    BY <1>1, PopFacts DEF StackOK, Top
<1>5. DOMAIN stack = 1 .. Len(stack) /\ DOMAIN stack' = 1 .. Len(stack) + 1
    BY <1>1, <1>3, LenProperties DEF StackOK
<1>6. Owed(stack[1]) = {} /\ Owed(stack'[1]) = {} /\ Owed(stack'[1 + 1]) = {}
    BY <1>3, <1>4, OwedFacts
<1>7. /\ cur \in DOMAIN blocks /\ DOMAIN blocks' = DOMAIN blocks
      /\ \A b \in DOMAIN blocks : b # cur => blocks'[b] = blocks[b]
    BY <1>1, EmitFacts DEF DataOK
<1>8. BlocksFilledOnce'
    BY <1>3, <1>4, <1>5, <1>6, <1>7, FilledOnceStep DEF IInv
<1> QED
    BY <1>3, <1>8 DEF IInv, TypeOK, StackOK, DataOK

\* The children of a node.
LEMMA NodeFacts ==
    /\ \A e \in Expr : /\ e.type = "ID_EXPR" => e.id \in Var
                       /\ e.type = "CONST_EXPR" => e.val \in Val
                       /\ e.type = "BINOP_EXPR" => e.op \in Op /\ e.lhs \in Expr /\ e.rhs \in Expr
    /\ \A s \in Stmt : /\ s.type = "ASSIGN_STMT" => s.lhs \in Var /\ s.rhs \in Expr
                       /\ s.type = "IF_STMT" => /\ s.condition \in Expr /\ s.if_block \in Stmt
                                                /\ s.else_block \in Stmt \cup {NULL}
                       /\ s.type = "WHILE_STMT" => s.condition \in Expr /\ s.block \in Stmt
                       /\ s.type = "BLOCK" => s.stmts \in Seq(Stmt)
BY SyntaxAssumption DEF IsExpr, IsStmt

LEMMA GenExprStepInv ==
    ASSUME IInv, GenExprStep
    PROVE  IInv'
<1>1. StackOK /\ DataOK /\ stack # <<>> /\ status = "gen"
    BY TypeParts DEF IInv, GenExprStep, GenId, GenConst, GenLhs, GenRhs, BuildOp, AtExpr, At
<1>2. Here \in InstVals /\ Here \in Values
    BY <1>1, HereFact DEF DataOK, Values
<1>3. ASSUME NEW ins \in Instr
      PROVE  Emit(ins) \in Seq(Seq(Instr)) /\ cur \in DOMAIN Emit(ins)
    BY <1>1, EmitFacts DEF DataOK
<1>4. CASE GenId
    <2>1. Top.kind = "expr" /\ Top.node.id \in Var
        BY <1>1, <1>4, TopFacts, NodeFacts DEF GenId, AtExpr, At
    <2>2. Load(symbols[Top.node.id]) \in Instr
        BY <1>1, <2>1 DEF DataOK, Load, Instr
    <2>3. DataOK'
        BY <1>1, <1>2, <1>3, <1>4, <2>2 DEF DataOK, GenId
    <2> QED
        BY <1>1, <1>2, <1>4, <2>1, <2>2, <2>3, ReturnStep DEF GenId
<1>5. CASE GenConst
    <2>1. Top.kind = "expr" /\ ConstVal(Top.node.val) \in Values
        BY <1>1, <1>5, TopFacts, NodeFacts DEF GenConst, AtExpr, At, ConstVal, Values
    <2>2. DataOK'
        BY <1>1, <1>5, <2>1 DEF DataOK, GenConst
    <2> QED
        BY <1>1, <1>5, <2>1, <2>2, ReturnStep DEF GenConst
<1>6. CASE GenLhs
    <2> DEFINE f == ExprFrame(Top.node.lhs)
               k == [kind |-> "lhs", node |-> Top.node]
    <2>1. Top.kind = "expr" /\ f \in Frame /\ k \in Frame
        BY <1>1, <1>6, TopFacts, NodeFacts DEF GenLhs, AtExpr, At, ExprFrame, Frame
    <2>2. DataOK'
        BY <1>1, <1>6 DEF DataOK, GenLhs
    <2> QED
        BY <1>1, <1>6, <2>1, <2>2, CallStep DEF GenLhs, ExprFrame, AwaitsValue, IsExprFrame
<1>7. CASE GenRhs
    <2> DEFINE f == ExprFrame(Top.node.rhs)
               k == [kind |-> "rhs", op |-> Top.node.op, l |-> ret]
    <2>1. Top.kind = "lhs" /\ f \in Frame /\ k \in Frame
        BY <1>1, <1>7, TopFacts, NodeFacts DEF GenRhs, At, ExprFrame, Frame, AwaitsValue
    <2>2. DataOK'
        BY <1>1, <1>7 DEF DataOK, GenRhs
    <2> QED
        BY <1>1, <1>7, <2>1, <2>2, CallStep DEF GenRhs, ExprFrame, AwaitsValue, IsExprFrame
<1>8. CASE BuildOp
    <2>1. Top.kind = "rhs" /\ Top.op \in Op /\ Top.l \in Values /\ ret \in Values
        BY <1>1, <1>8, TopFacts DEF BuildOp, At, AwaitsValue
    <2>2. CASE Top.l.kind = "const" /\ ret.kind = "const"
        <3>1. Top.l.val \in Val /\ ret.val \in Val
            BY <2>1, <2>2 DEF Values, InstVals
        <3>2. ConstVal(Apply(Top.op, Top.l.val, ret.val)) \in Values
            BY <2>1, <3>1, ValueAssumption DEF ConstVal, Values
        <3>3. ret' \in Values /\ blocks' = blocks
            BY <1>8, <2>2, <3>2 DEF BuildOp
        <3>4. DataOK'
            BY <1>1, <1>8, <3>3 DEF DataOK, BuildOp
        <3> QED
            BY <1>1, <1>8, <2>1, <3>3, <3>4, ReturnStep DEF BuildOp
    <2>3. CASE ~(Top.l.kind = "const" /\ ret.kind = "const")
        <3> DEFINE ins == [ins |-> "binop", op |-> Top.op, lhs |-> Top.l, rhs |-> ret]
        <3>1. ins \in Instr
            BY <2>1 DEF Instr
        <3>2. ret' \in Values /\ blocks' = Emit(ins)
            BY <1>2, <1>8, <2>3 DEF BuildOp
        <3>3. DataOK'
            BY <1>1, <1>3, <1>8, <3>1, <3>2 DEF DataOK, BuildOp
        <3> QED
            BY <1>1, <1>8, <2>1, <3>1, <3>2, <3>3, ReturnStep DEF BuildOp
    <2> QED
        BY <2>2, <2>3
<1> QED
    BY <1>4, <1>5, <1>6, <1>7, <1>8 DEF GenExprStep

\* The steps of gen_stmt that stay in the current block.
LEMMA StraightStepInv ==
    ASSUME IInv, GenAssign \/ BuildStore \/ GenIf \/ GenBreak \/ GenBlock \/ NextStmt \/ EndBlock
    PROVE  IInv'
<1>1. StackOK /\ DataOK /\ stack # <<>> /\ status = "gen"
    BY TypeParts DEF IInv, GenAssign, BuildStore, GenIf, GenBreak, GenBlock, NextStmt, EndBlock,
                     AtStmt, At
<1>2. Here \in InstVals
    BY <1>1, HereFact DEF DataOK
<1>3. ASSUME NEW ins \in Instr
      PROVE  Emit(ins) \in Seq(Seq(Instr)) /\ cur \in DOMAIN Emit(ins)
    BY <1>1, EmitFacts DEF DataOK
<1>4. CASE GenAssign
    <2> DEFINE x == Top.node.lhs
               ptr == IF symbols[x] = NULL THEN Here ELSE symbols[x]
               f == ExprFrame(Top.node.rhs)
               k == [kind |-> "store", ptr |-> ptr]
    <2>1. Top.kind = "stmt" /\ x \in Var /\ Top.node.rhs \in Expr
        BY <1>1, <1>4, TopFacts, NodeFacts DEF GenAssign, AtStmt, At
    <2>2. ptr \in InstVals
        BY <1>1, <1>2, <2>1 DEF DataOK
    <2>3. f \in Frame /\ k \in Frame
        BY <2>1, <2>2 DEF ExprFrame, Frame
    <2>4. /\ blocks' = IF symbols[x] = NULL THEN Emit(Alloca(x)) ELSE blocks
          /\ symbols' = [symbols EXCEPT ![x] = ptr]
          /\ Call(f, k)
          /\ UNCHANGED <<ast, ret, cur, break_target, status>>
        BY <1>4 DEF GenAssign
    <2>5. Alloca(x) \in Instr
        BY <2>1 DEF Alloca, Instr
    <2>6. DataOK'
        BY <1>1, <1>3, <2>1, <2>2, <2>4, <2>5 DEF DataOK
    <2>7. f.kind = "expr" /\ k.kind = "store"
        BY DEF ExprFrame
    <2> HIDE DEF f, k, x, ptr
    <2> QED
        BY <1>1, <2>1, <2>3, <2>4, <2>5, <2>6, <2>7, CallStep DEF AwaitsValue, IsExprFrame
<1>5. CASE BuildStore
    <2>1. Top.kind = "store" /\ Top.ptr \in InstVals /\ ret \in Values
        BY <1>1, <1>5, TopFacts DEF BuildStore, At, AwaitsValue
    <2>2. Store(ret, Top.ptr) \in Instr
        BY <2>1 DEF Store, Instr
    <2>3. DataOK'
        BY <1>1, <1>3, <1>5, <2>2 DEF DataOK, BuildStore
    <2> QED
        BY <1>1, <1>5, <2>1, <2>2, <2>3, ReturnStep DEF BuildStore, IsExprFrame
<1>6. CASE GenIf
    <2> DEFINE f == ExprFrame(Top.node.condition)
               k == [kind |-> "if", node |-> Top.node]
    <2>1. Top.kind = "stmt" /\ f \in Frame /\ k \in Frame
        BY <1>1, <1>6, TopFacts, NodeFacts DEF GenIf, AtStmt, At, ExprFrame, Frame
    <2>2. DataOK'
        BY <1>1, <1>6 DEF DataOK, GenIf
    <2> QED
        BY <1>1, <1>6, <2>1, <2>2, CallStep DEF GenIf, ExprFrame, AwaitsValue, IsExprFrame
<1>7. CASE GenBreak
    <2>1. Top.kind = "stmt" /\ Br(break_target) \in Instr
        BY <1>1, <1>7 DEF GenBreak, AtStmt, At, Br, Instr, DataOK
    <2>2. DataOK'
        BY <1>1, <1>3, <1>7, <2>1 DEF DataOK, GenBreak
    <2> QED
        BY <1>1, <1>7, <2>1, <2>2, ReturnStep DEF GenBreak, IsExprFrame
<1>8. CASE GenBlock
    <2> DEFINE f == [kind |-> "block", stmts |-> Top.node.stmts]
    <2>1. Top.kind = "stmt" /\ f \in Frame
        BY <1>1, <1>8, TopFacts, NodeFacts DEF GenBlock, AtStmt, At, Frame
    <2>2. /\ DataOK' /\ stack' = Cons(f, Tail(stack)) /\ cur' = cur /\ blocks' = blocks
          /\ status' = status
        BY <1>1, <1>8 DEF DataOK, GenBlock
    <2>3. /\ StackOK' /\ Len(stack') = Len(stack) /\ stack'[1] = f
          /\ \A i \in 2 .. Len(stack) : stack'[i] = stack[i]
        BY <1>1, <2>1, <2>2, ReplaceFacts DEF AwaitsValue, IsExprFrame
    <2>4. Top = stack[1] /\ Len(stack) \in Nat \ {0}
        BY <1>1, PopFacts DEF StackOK, Top
    <2> DEFINE d == 0
               K == {}
    <2>5. DOMAIN stack = 1 .. Len(stack) /\ DOMAIN stack' = 1 .. Len(stack) + d
        BY <1>1, <2>3, <2>4, LenProperties DEF StackOK
    <2>6. d \in {-1, 0, 1} /\ d = 0 /\ \A i \in 2 .. Len(stack) : stack'[i + d] = stack[i]
        BY <2>3, <2>4
    <2>7. Owed(stack[1]) = {} /\ Owed(stack'[1 + d]) = K /\ K = {}
        BY <2>1, <2>3, <2>4, OwedFacts
    <2> HIDE DEF d, K
    <2>8. /\ d = 1 => Owed(stack'[1]) = {}
          /\ IF d = -1 THEN K = {} ELSE Owed(stack'[1 + d]) = K
        BY <2>6, <2>7
    <2>9. DOMAIN blocks' \ DOMAIN blocks = {} /\ cur \in DOMAIN blocks
        BY <1>1, <2>2 DEF DataOK
    <2>10. BlocksFilledOnce'
        BY <1>1, <2>2, <2>4, <2>5, <2>6, <2>7, <2>8, <2>9, FilledOnceStep DEF IInv
    <2> QED
        BY <1>1, <2>2, <2>3, <2>10 DEF IInv, TypeOK, StackOK, DataOK
<1>9. CASE NextStmt
    <2> DEFINE f == StmtFrame(Head(Top.stmts))
               k == [Top EXCEPT !.stmts = Tail(@)]
    <2>1. Top \in Frame /\ Top.kind = "block" /\ Top.stmts \in Seq(Stmt) /\ Top.stmts # <<>>
        BY <1>1, <1>9, TopFacts DEF NextStmt, At
    <2>2. Head(Top.stmts) \in Stmt /\ Tail(Top.stmts) \in Seq(Stmt)
        BY <2>1, PopFacts
    <2>3. Top \in [kind : {"block"}, stmts : Seq(Stmt)]
        BY <2>1 DEF Frame, WhileFrame, EndIfFrame
    <2>4. k \in [kind : {"block"}, stmts : Seq(Stmt)]
        BY <2>2, <2>3
    <2>5. f \in Frame /\ k \in Frame /\ f.kind = "stmt" /\ k.kind = "block"
        BY <2>2, <2>4 DEF StmtFrame, Frame
    <2>6. DataOK' /\ Call(f, k) /\ cur' = cur /\ blocks' = blocks /\ status' = "gen"
        BY <1>1, <1>9 DEF DataOK, NextStmt
    <2> HIDE DEF f, k
    <2> QED
        BY <1>1, <2>1, <2>5, <2>6, CallStep DEF AwaitsValue, IsExprFrame
<1>10. CASE EndBlock
    <2>1. Top.kind = "block" /\ DataOK'
        BY <1>1, <1>10 DEF EndBlock, At, DataOK
    <2> QED
        BY <1>1, <1>10, <2>1, ReturnStep DEF EndBlock, IsExprFrame
<1> QED
    BY <1>4, <1>5, <1>6, <1>7, <1>8, <1>9, <1>10

\* A block that is left after a terminator is closed.
LEMMA ClosedFacts ==
    ASSUME blocks \in Seq(Seq(Instr)), cur \in DOMAIN blocks,
           NEW ins \in Instr, IsTerminator(ins)
    PROVE  IsClosed(Emit(ins)[cur])
<1>1. blocks[cur] \in Seq(Instr) /\ Emit(ins)[cur] = Append(blocks[cur], ins)
    BY EmitFacts, LenProperties
<1>2. /\ Len(blocks[cur]) \in Nat
      /\ Append(blocks[cur], ins) \in Seq(Instr)
      /\ Len(Append(blocks[cur], ins)) = Len(blocks[cur]) + 1
      /\ Append(blocks[cur], ins)[Len(blocks[cur]) + 1] = ins
    BY <1>1, AppendProperties, LenProperties
<1>3. Append(blocks[cur], ins) # <<>>
    BY <1>1, AppendProperties
<1> QED
    BY <1>1, <1>2, <1>3 DEF IsClosed

\* A step that closes the current block and goes on in one that the top frame owed,
\* leaving one frame that owes the rest.
LEMMA NextBlockStep ==
    ASSUME IInv, status = "gen", stack # <<>>, DataOK', StackOK', status' = "gen",
           NEW ins \in Instr, IsTerminator(ins), blocks' = Emit(ins),
           NEW d \in {-1, 1}, NEW K,
           Len(stack') = Len(stack) + d,
           \A i \in 2 .. Len(stack) : stack'[i + d] = stack[i],
           d = 1 => Owed(stack'[1]) = {},
           IF d = -1 THEN K = {} ELSE Owed(stack'[1 + d]) = K,
           cur' \in Owed(Top), K = Owed(Top) \ {cur'}
    PROVE  IInv'
<1>1. StackOK /\ DataOK
    BY TypeParts DEF IInv
<1>2. Top = stack[1] /\ Len(stack) \in Nat \ {0}
    BY <1>1, PopFacts DEF StackOK, Top
<1>3. DOMAIN stack = 1 .. Len(stack) /\ DOMAIN stack' = 1 .. Len(stack) + d
    BY <1>1, LenProperties DEF StackOK
<1>4. /\ cur \in DOMAIN blocks /\ DOMAIN blocks' = DOMAIN blocks
      /\ \A b \in DOMAIN blocks : b # cur => blocks'[b] = blocks[b]
      /\ IsClosed(blocks'[cur])
    BY <1>1, EmitFacts, ClosedFacts DEF DataOK
<1>5. Owed(stack[1]) \subseteq DOMAIN blocks
    BY <1>2, <1>3 DEF IInv, BlocksFilledOnce
<1>6. d \in {-1, 0, 1} /\ DOMAIN blocks' \ DOMAIN blocks = {}
    BY <1>4
<1>7. K \cup {cur'} \subseteq DOMAIN blocks' /\ cur' \notin K
    BY <1>2, <1>4, <1>5
<1>8. BlocksFilledOnce'
    BY <1>2, <1>3, <1>4, <1>6, <1>7, FilledOnceStep DEF IInv
<1> QED
    BY <1>8 DEF IInv, TypeOK, StackOK, DataOK

LEMMA LeaveStepInv ==
    ASSUME IInv, EndIf \/ EndWhile \/ GenElse \/ BuildWhile
    PROVE  IInv'
<1>1. StackOK /\ DataOK /\ stack # <<>> /\ status = "gen"
    BY TypeParts DEF IInv, EndIf, EndWhile, GenElse, BuildWhile, At
<1>2. ASSUME NEW ins \in Instr
      PROVE  Emit(ins) \in Seq(Seq(Instr)) /\ DOMAIN Emit(ins) = DOMAIN blocks
    BY <1>1, EmitFacts DEF DataOK
<1>3. Owed(Top) \subseteq DOMAIN blocks
    <2>1. Top = stack[1] /\ 1 \in DOMAIN stack
        BY <1>1, PopFacts, LenProperties DEF StackOK, Top
    <2> QED
        BY <2>1 DEF IInv, BlocksFilledOnce
<1>4. CASE EndIf \/ EndWhile
    <2> DEFINE d == -1
               K == {}
               ins == Br(IF Top.kind = "endif" THEN Top.cont ELSE Top.cond)
    <2>1. /\ \/ Top.kind = "endif" /\ EndIf
             \/ Top.kind = "loop" /\ EndWhile
          /\ Top.cont \in BlockNo /\ Owed(Top) = {Top.cont}
          /\ ins \in Instr /\ IsTerminator(ins)
        <3>1. CASE EndIf
            <4>1. Top.kind = "endif" /\ Top.else_bb = NULL /\ Top.cont \in BlockNo
                BY <1>1, <3>1, TopFacts DEF EndIf, At
            <4>2. Owed(Top) = {Top.cont}
                BY <4>1, OwedFacts, NullAssumption DEF BlockNo
            <4> QED
                BY <3>1, <4>1, <4>2 DEF Br, Instr, IsTerminator
        <3>2. CASE EndWhile
            <4>1. Top.kind = "loop" /\ Top.cond \in BlockNo /\ Top.cont \in BlockNo
                BY <1>1, <3>2, TopFacts DEF EndWhile, At
            <4>2. Owed(Top) = {Top.cont}
                BY <4>1, OwedFacts
            <4> QED
                BY <3>2, <4>1, <4>2 DEF Br, Instr, IsTerminator
        <3> QED
            BY <1>4, <3>1, <3>2
    <2>2. /\ blocks' = Emit(ins) /\ cur' = Top.cont /\ stack' = Tail(stack) /\ status' = "gen"
          /\ UNCHANGED <<ast, ret, symbols>>
        BY <1>1, <1>4, <2>1 DEF EndIf, EndWhile, At
    <2>3. break_target' \in BlockNo \cup {NULL}
        BY <1>1, <2>1, TopFacts DEF EndIf, EndWhile, DataOK
    <2>4. DataOK'
        BY <1>1, <1>2, <1>3, <2>1, <2>2, <2>3 DEF DataOK
    <2>5. StackOK'
        BY <1>1, <2>1, <2>2, ReturnFacts DEF IsExprFrame
    <2>6. d \in {-1, 1} /\ d = -1 /\ K = {} /\ K = Owed(Top) \ {cur'} /\ cur' \in Owed(Top)
        BY <2>1, <2>2
    <2>7. Len(stack') = Len(stack) + d /\ \A i \in 2 .. Len(stack) : stack'[i + d] = stack[i]
        BY <1>1, <2>2, PopFacts DEF StackOK
    <2>8. d = 1 => Owed(stack'[1]) = {}
        OBVIOUS
    <2>9. IF d = -1 THEN K = {} ELSE Owed(stack'[1 + d]) = K
        OBVIOUS
    <2> HIDE DEF d, K, ins
    <2> QED
        BY <1>1, <2>1, <2>2, <2>4, <2>5, <2>6, <2>7, <2>8, <2>9, NextBlockStep
<1>5. CASE GenElse \/ BuildWhile
    <2> DEFINE d == 1
               K == {Top.cont}
               ins == IF Top.kind = "endif" THEN Br(Top.cont) ELSE CondBr(ret, Top.body, Top.cont)
               next == IF Top.kind = "endif" THEN Top.else_bb ELSE Top.body
               f == StmtFrame(IF Top.kind = "endif" THEN Top.else ELSE Top.node.block)
               k == IF Top.kind = "endif" THEN [Top EXCEPT !.else = NULL, !.else_bb = NULL]
                    ELSE [kind |-> "loop", cond |-> Top.cond, cont |-> Top.cont, old |-> Top.old]
    <2>1. /\ \/ Top.kind = "endif" /\ Top.else # NULL /\ GenElse
             \/ Top.kind = "while" /\ BuildWhile
          /\ Top.cont \in BlockNo /\ next \in BlockNo /\ next # Top.cont
          /\ Top.kind = "while" => Top.body \in BlockNo /\ ret \in Values
        BY <1>1, <1>5, TopFacts DEF GenElse, BuildWhile, At, AwaitsValue
    <2>2. Owed(Top) = {next, Top.cont}
        BY <2>1, OwedFacts, NullAssumption DEF BlockNo
    <2>3. ins \in Instr /\ IsTerminator(ins)
        BY <2>1 DEF Br, CondBr, Instr, IsTerminator
    <2>4. f \in Frame /\ f.kind = "stmt"
        BY <1>1, <2>1, TopFacts, NodeFacts DEF StmtFrame, Frame
    <2>5. k \in Frame /\ Owed(k) = K /\ k.kind \in {"endif", "loop"}
        <3>1. CASE Top.kind = "endif"
            <4>1. Top = [kind |-> "endif", else |-> Top.else,
                         else_bb |-> Top.else_bb, cont |-> Top.cont]
                BY <1>1, <3>1, TopFacts
            <4>2. k = [kind |-> "endif", else |-> NULL, else_bb |-> NULL, cont |-> Top.cont]
                BY <3>1, <4>1
            <4>3. k \in EndIfFrame
                BY <2>1, <4>2, NullAssumption DEF EndIfFrame, BlockNo
            <4>4. Owed(k) = {NULL, Top.cont} \ {NULL}
                BY <4>2, OwedFacts
            <4> QED
                BY <2>1, <4>2, <4>3, <4>4, NullAssumption DEF Frame, BlockNo
        <3>2. CASE Top.kind = "while"
            <4>1. k \in [kind : {"loop"}, cond : BlockNo, cont : BlockNo, old : BlockNo \cup {NULL}]
                BY <1>1, <3>2, TopFacts
            <4>2. k.kind = "loop" /\ k.cont = Top.cont
                BY <3>2
            <4>3. Owed(k) = {Top.cont}
                BY <4>2, OwedFacts
            <4> QED
                BY <4>1, <4>2, <4>3 DEF Frame
        <3> QED
            BY <2>1, <3>1, <3>2
    <2>6. /\ blocks' = Emit(ins) /\ cur' = next /\ Call(f, k) /\ status' = "gen"
          /\ UNCHANGED <<ast, ret, break_target, symbols>>
        BY <1>1, <1>5, <2>1 DEF GenElse, BuildWhile
    <2> HIDE DEF ins, next, f, k
    <2>7. DataOK'
        BY <1>1, <1>2, <1>3, <2>2, <2>3, <2>6 DEF DataOK
    <2>8. /\ StackOK' /\ Len(stack') = Len(stack) + 1 /\ stack'[1] = f /\ stack'[2] = k
           /\ \A i \in 2 .. Len(stack) : stack'[i + 1] = stack[i]
        BY <1>1, <2>1, <2>4, <2>5, <2>6, CallFacts DEF AwaitsValue, IsExprFrame
    <2>9. Owed(stack'[1]) = {}
        BY <2>4, <2>8, OwedFacts
    <2>10. d \in {-1, 1} /\ d = 1 /\ K = Owed(Top) \ {cur'} /\ cur' \in Owed(Top)
        BY <2>1, <2>2, <2>6
    <2>11. IF d = -1 THEN K = {} ELSE Owed(stack'[1 + d]) = K
        BY <2>5, <2>8
    <2>12. Len(stack') = Len(stack) + d /\ \A i \in 2 .. Len(stack) : stack'[i + d] = stack[i]
        BY <2>8
    <2> HIDE DEF d, K
    <2> QED
        BY <1>1, <2>3, <2>6, <2>7, <2>8, <2>9, <2>10, <2>11, <2>12, NextBlockStep
<1> QED
    BY <1>4, <1>5

\* A step that closes the current block, appends n empty blocks, goes on in the
\* first of them and leaves a frame that owes the others.
LEMMA BranchStep ==
    ASSUME IInv, status = "gen", stack # <<>>, status' = "gen",
           NEW ins \in Instr, IsTerminator(ins), NEW n \in {2, 3},
           blocks' = Emit(ins) \o NewBlocks(n), cur' = Len(blocks) + 1,
           Top.kind \in {"stmt", "if"}, NEW f \in Frame, NEW k \in Frame, Call(f, k),
           f.kind \in {"stmt", "expr"}, k.kind \in {"endif", "while"},
           AwaitsValue(k) <=> IsExprFrame(f),
           Owed(k) = Len(blocks) + 2 .. Len(blocks) + n,
           ast' = ast, symbols' = symbols, ret' = ret, break_target' \in BlockNo \cup {NULL}
    PROVE  IInv'
<1>1. StackOK /\ DataOK
    BY TypeParts DEF IInv
<1>2. ~AwaitsValue(f) /\ ~IsExprFrame(k) /\ ~IsExprFrame(Top)
    BY DEF AwaitsValue, IsExprFrame
<1>3. /\ StackOK'
      /\ Len(stack') = Len(stack) + 1 /\ stack'[1] = f /\ stack'[2] = k
      /\ \A i \in 2 .. Len(stack) : stack'[i + 1] = stack[i]
    BY <1>1, <1>2, CallFacts
<1>4. Top = stack[1] /\ Len(stack) \in Nat \ {0}
    BY <1>1, PopFacts DEF StackOK, Top
<1>5. DOMAIN stack = 1 .. Len(stack) /\ DOMAIN stack' = 1 .. Len(stack) + 1
    BY <1>1, <1>3, LenProperties DEF StackOK
<1>6. Owed(stack[1]) = {} /\ Owed(stack'[1]) = {} /\ Owed(stack'[1 + 1]) = Owed(k)
    BY <1>3, <1>4, OwedFacts
<1>7. /\ Emit(ins) \in Seq(Seq(Instr)) /\ Len(Emit(ins)) = Len(blocks)
      /\ Len(blocks) \in Nat \ {0} /\ DOMAIN blocks = 1 .. Len(blocks) /\ cur \in DOMAIN blocks
      /\ \A b \in DOMAIN blocks : b # cur => Emit(ins)[b] = blocks[b]
      /\ IsClosed(Emit(ins)[cur])
    BY <1>1, EmitFacts, ClosedFacts DEF DataOK
<1>8. /\ blocks' \in Seq(Seq(Instr)) /\ Len(blocks') = Len(blocks) + n
      /\ \A b \in 1 .. Len(blocks) : blocks'[b] = Emit(ins)[b]
      /\ \A b \in Len(blocks) + 1 .. Len(blocks) + n : blocks'[b] = <<>>
    <2> DEFINE B == Emit(ins)
    <2>1. B \in Seq(Seq(Instr)) /\ Len(B) = Len(blocks) /\ blocks' = B \o NewBlocks(n)
        BY <1>7
    <2> HIDE DEF B
    <2>2. /\ B \o NewBlocks(n) \in Seq(Seq(Instr))
          /\ Len(B \o NewBlocks(n)) = Len(B) + n
          /\ \A b \in 1 .. Len(B) : (B \o NewBlocks(n))[b] = B[b]
          /\ \A b \in Len(B) + 1 .. Len(B) + n : (B \o NewBlocks(n))[b] = <<>>
        BY <2>1, NewBlocksFacts
    <2> QED
        BY <2>1, <2>2 DEF B
<1>9. DOMAIN blocks' = 1 .. Len(blocks) + n
    BY <1>8, LenProperties
<1>10. DOMAIN blocks' \ DOMAIN blocks = Len(blocks) + 1 .. Len(blocks) + n
    BY <1>7, <1>9
<1>11. /\ DOMAIN blocks \subseteq DOMAIN blocks'
       /\ \A b \in DOMAIN blocks : b # cur => blocks'[b] = blocks[b]
       /\ \A b \in DOMAIN blocks' \ DOMAIN blocks : blocks'[b] = <<>>
       /\ IsClosed(blocks'[cur])
    BY <1>7, <1>8, <1>9, <1>10
<1>12. /\ Owed(k) \cup {cur'} \subseteq DOMAIN blocks' /\ cur' \notin Owed(k)
       /\ Owed(k) \cup {cur'} = DOMAIN blocks' \ DOMAIN blocks
    BY <1>7, <1>9, <1>10
<1> DEFINE K == Owed(k)
           d == 1
<1>13. d \in {-1, 0, 1} /\ d = 1 /\ (d = 1 => Owed(stack'[1]) = {})
    BY <1>6
<1>14. IF d = -1 THEN K = {} ELSE Owed(stack'[1 + d]) = K
    BY <1>6
<1>15. /\ DOMAIN stack' = 1 .. Len(stack) + d
       /\ \A i \in 2 .. Len(stack) : stack'[i + d] = stack[i]
    BY <1>3, <1>5
<1>16. /\ K \cup {cur'} \subseteq DOMAIN blocks' /\ cur' \notin K
       /\ K \subseteq Owed(stack[1]) \cup (DOMAIN blocks' \ DOMAIN blocks)
       /\ Owed(stack[1]) \cup (DOMAIN blocks' \ DOMAIN blocks) \subseteq K \cup {cur'}
       /\ cur' \in Owed(stack[1]) \cup (DOMAIN blocks' \ DOMAIN blocks)
    BY <1>6, <1>12
<1> HIDE DEF K, d
<1>17. BlocksFilledOnce'
    BY <1>4, <1>5, <1>7, <1>11, <1>13, <1>14, <1>15, <1>16, FilledOnceStep DEF IInv
<1>18. DataOK'
    BY <1>1, <1>8, <1>12 DEF DataOK
<1> QED
    BY <1>3, <1>17, <1>18 DEF IInv, TypeOK, StackOK, DataOK

LEMMA BranchStepInv ==
    ASSUME IInv, BuildIf \/ GenWhile
    PROVE  IInv'
<1>1. StackOK /\ DataOK /\ stack # <<>> /\ status = "gen"
    BY TypeParts DEF IInv, BuildIf, GenWhile, AtStmt, At
<1> DEFINE N == Len(blocks)
<1>2. N \in Nat \ {0}
    BY <1>1, EmptySeq, LenProperties DEF DataOK
<1>3. CASE BuildIf
    <2> DEFINE else == Top.node.else_block
               n == IF else = NULL THEN 2 ELSE 3
               else_bb == IF else = NULL THEN NULL ELSE N + 2
               cont_bb == IF else = NULL THEN N + 2 ELSE N + 3
               ins == CondBr(ret, N + 1, IF else = NULL THEN cont_bb ELSE else_bb)
               f == StmtFrame(Top.node.if_block)
               k == [kind |-> "endif", else |-> else, else_bb |-> else_bb, cont |-> cont_bb]
    <2>1. /\ Top.kind = "if" /\ ret \in Values /\ else \in Stmt \cup {NULL}
          /\ Top.node.if_block \in Stmt
        BY <1>1, <1>3, TopFacts, NodeFacts DEF BuildIf, At, AwaitsValue
    <2>2. /\ blocks' = Emit(ins) \o NewBlocks(n) /\ cur' = N + 1 /\ Call(f, k)
          /\ UNCHANGED <<ast, ret, break_target, symbols, status>>
        BY <1>3 DEF BuildIf, NewBlock, NewBlocks
    <2>3. n \in {2, 3} /\ cont_bb \in BlockNo /\ else_bb \in BlockNo \cup {NULL} /\ N + 1 \in BlockNo
        BY <1>2 DEF BlockNo
    <2>4. ins \in Instr /\ IsTerminator(ins)
        BY <1>2, <2>1 DEF CondBr, Instr, IsTerminator, BlockNo
    <2>5. else_bb # cont_bb /\ (else = NULL <=> else_bb = NULL)
        BY <1>2, NullAssumption
    <2>6. k \in Frame
        BY <2>1, <2>3, <2>5 DEF Frame, EndIfFrame
    <2>7. f \in Frame /\ f.kind = "stmt"
        BY <2>1 DEF StmtFrame, Frame
    <2>8. Owed(k) = {else_bb, cont_bb} \ {NULL}
        BY OwedFacts
    <2>9. Owed(k) = N + 2 .. N + n
        <3>1. CASE else = NULL
            BY <1>2, <2>8, <3>1, NullAssumption
        <3>2. CASE else # NULL
            <4>1. n = 3 /\ else_bb = N + 2 /\ cont_bb = N + 3
                BY <3>2
            <4>2. N + 2 # NULL /\ N + 3 # NULL
                BY <1>2, NullAssumption
            <4>3. N + 2 .. N + 3 = {N + 2, N + 3}
                BY <1>2
            <4> QED
                BY <2>8, <4>1, <4>2, <4>3
        <3> QED
            BY <3>1, <3>2
    <2>10. k.kind = "endif"
        OBVIOUS
    <2> HIDE DEF n, ins, f, k
    <2> QED
        BY <1>1, <2>1, <2>2, <2>3, <2>4, <2>6, <2>7, <2>9, <2>10, BranchStep
           DEF DataOK, AwaitsValue, IsExprFrame
<1>4. CASE GenWhile
    <2> DEFINE n == 3
               ins == Br(N + 1)
               f == ExprFrame(Top.node.condition)
               k == [kind |-> "while", node |-> Top.node, cond |-> N + 1, body |-> N + 2,
                     cont |-> N + 3, old |-> break_target]
    <2>1. /\ Top.kind = "stmt" /\ Top.node \in Stmt /\ Top.node.type = "WHILE_STMT"
          /\ Top.node.condition \in Expr
        BY <1>1, <1>4, TopFacts, NodeFacts DEF GenWhile, AtStmt, At
    <2>2. /\ blocks' = Emit(ins) \o NewBlocks(n) /\ cur' = N + 1 /\ Call(f, k)
          /\ break_target' = N + 3
          /\ UNCHANGED <<ast, ret, symbols, status>>
        BY <1>4 DEF GenWhile, NewBlock, NewBlocks
    <2>3. ins \in Instr /\ IsTerminator(ins) /\ break_target' \in BlockNo
        BY <1>2, <2>2 DEF Br, Instr, IsTerminator, BlockNo
    <2>4. k \in WhileFrame
        BY <1>1, <1>2, <2>1 DEF WhileFrame, BlockNo, DataOK
    <2>5. k \in Frame /\ f \in Frame /\ f.kind = "expr" /\ k.kind = "while"
        BY <2>1, <2>4 DEF ExprFrame, Frame
    <2>6. Owed(k) = {N + 2, N + 3}
        BY OwedFacts
    <2>7. Owed(k) = N + 2 .. N + n
        <3>1. N + 2 .. N + 3 = {N + 2, N + 3}
            BY <1>2
        <3> QED
            BY <2>6, <3>1
    <2>8. n \in {2, 3}
        OBVIOUS
    <2> HIDE DEF n, ins, f, k
    <2> QED
        BY <1>1, <2>1, <2>2, <2>3, <2>5, <2>7, <2>8, BranchStep DEF AwaitsValue, IsExprFrame
<1> QED
    BY <1>3, <1>4

-----------------------------------------------------------------------------
(* The theorems on blocks *)

\* generate_llvm_ir's last step returns from the block it is in.
LEMMA FinishInv ==
    ASSUME IInv, Finish
    PROVE  IInv'
<1>1. StackOK /\ DataOK /\ stack = <<>> /\ status = "gen"
    BY TypeParts DEF IInv, Finish
<1>2. ReturnValue \in Var /\ ConstVal(Zero) \in Values /\ Here \in InstVals
    BY <1>1, HereFact, ValueAssumption DEF DataOK, ConstVal, Values
<1>3. \E ins \in Instr, B \in Seq(Seq(Instr)) :
         /\ IsTerminator(ins) /\ DOMAIN B = DOMAIN blocks
         /\ \A b \in DOMAIN blocks : b # cur => B[b] = blocks[b]
         /\ B[cur] \in Seq(Instr)
         /\ blocks' = [B EXCEPT ![cur] = Append(@, ins)]
    <2>1. CASE symbols[ReturnValue] = NULL
        <3>1. Ret(ConstVal(Zero)) \in Instr /\ IsTerminator(Ret(ConstVal(Zero)))
            BY <1>2 DEF Ret, Instr, IsTerminator
        <3>2. blocks' = [blocks EXCEPT ![cur] = Append(@, Ret(ConstVal(Zero)))]
            BY <2>1 DEF Finish, Emit
        <3> QED
            BY <1>1, <3>1, <3>2, LenProperties DEF DataOK
    <2>2. CASE symbols[ReturnValue] # NULL
        <3> DEFINE ld == Load(symbols[ReturnValue])
                   rt == Ret(Here)
                   B == Emit(ld)
        <3>1. ld \in Instr /\ rt \in Instr /\ IsTerminator(rt)
            BY <1>1, <1>2, <2>2 DEF DataOK, Load, Ret, Instr, IsTerminator, Values
        <3>2. blocks' = [blocks EXCEPT ![cur] = @ \o <<ld, rt>>]
            BY <2>2 DEF Finish
        <3>3. blocks \in Seq(Seq(Instr)) /\ cur \in DOMAIN blocks
            BY <1>1 DEF DataOK
        <3> HIDE DEF ld, rt
        <3>4. /\ B \in Seq(Seq(Instr)) /\ DOMAIN B = DOMAIN blocks
              /\ \A b \in DOMAIN blocks : b # cur => B[b] = blocks[b]
              /\ B[cur] = Append(blocks[cur], ld) /\ B[cur] \in Seq(Instr)
            BY <3>1, <3>3, EmitFacts, LenProperties
        <3>5. blocks[cur] \in Seq(Instr)
            BY <3>3
        <3>6. blocks[cur] \o <<ld, rt>> = Append(Append(blocks[cur], ld), rt)
            BY <3>1, <3>5
        <3>7. blocks' = [B EXCEPT ![cur] = Append(@, rt)]
            BY <3>2, <3>3, <3>4, <3>6 DEF Emit
        <3> QED
            BY <3>1, <3>4, <3>7
    <2> QED
        BY <2>1, <2>2
<1>4. PICK ins \in Instr, B \in Seq(Seq(Instr)) :
         /\ IsTerminator(ins) /\ DOMAIN B = DOMAIN blocks
         /\ \A b \in DOMAIN blocks : b # cur => B[b] = blocks[b]
         /\ B[cur] \in Seq(Instr)
         /\ blocks' = [B EXCEPT ![cur] = Append(@, ins)]
    BY <1>3
<1>5. cur \in DOMAIN B
    BY <1>1, <1>4 DEF DataOK
<1>6. /\ Append(B[cur], ins) \in Seq(Instr) /\ Append(B[cur], ins) # <<>>
      /\ Append(B[cur], ins)[Len(Append(B[cur], ins))] = ins
    BY <1>4, AppendProperties, LenProperties
<1>7. /\ blocks' \in Seq(Seq(Instr)) /\ DOMAIN blocks' = DOMAIN blocks
      /\ blocks'[cur] = Append(B[cur], ins)
      /\ \A b \in DOMAIN blocks : b # cur => blocks'[b] = blocks[b]
    <2>1. blocks' \in Seq(Seq(Instr))
        BY <1>4, <1>5, <1>6, ExceptSeq
    <2> QED
        BY <1>4, <1>5, <2>1
<1>8. IsClosed(blocks'[cur])
    BY <1>4, <1>6, <1>7 DEF IsClosed
<1>9. cur' = cur /\ stack' = stack /\ status' = "done" /\ UNCHANGED <<ast, ret, break_target, symbols>>
    BY DEF Finish
<1>10. StackOK' /\ DataOK'
    BY <1>1, <1>7, <1>9 DEF StackOK, DataOK
<1>11. DOMAIN stack = {}
    BY <1>1
<1>12. BlocksFilledOnce'
    BY <1>7, <1>8, <1>9, <1>11 DEF IInv, BlocksFilledOnce
<1> QED
    BY <1>1, <1>8, <1>9, <1>10, <1>12 DEF IInv, TypeOK, StackOK, DataOK

LEMMA InitInv == Init => IInv
<1> SUFFICES ASSUME Init PROVE IInv
    OBVIOUS
<1>1. /\ ast \in Stmt /\ ast \in Programs /\ stack = <<StmtFrame(ast)>> /\ status = "gen"
      /\ ret = NULL /\ blocks = << <<>> >> /\ cur = 1 /\ break_target = NULL
      /\ symbols = [x \in Var |-> NULL]
    BY SyntaxAssumption DEF Init
<1>2. StmtFrame(ast) \in Frame
    BY <1>1 DEF StmtFrame, Frame
<1>3. stack \in Seq(Frame) /\ Len(stack) = 1 /\ Top = StmtFrame(ast) /\ DOMAIN stack = {1}
    BY <1>1, <1>2 DEF Top
<1>4. StackOK
    BY <1>3 DEF StackOK, AwaitsValue, StmtFrame
<1>5. DataOK
    <2>1. <<>> \in Seq(Instr)
        BY EmptySeq
    <2> HIDE DEF Instr
    <2>2. << <<>> >> \in Seq(Seq(Instr)) /\ DOMAIN << <<>> >> = {1}
        BY <2>1
    <2> QED
        BY <1>1, <2>2 DEF DataOK
<1>6. Owed(stack[1]) = {} /\ DOMAIN blocks = {1}
    BY <1>1, OwedFacts DEF StmtFrame
<1>7. BlocksFilledOnce
    BY <1>1, <1>3, <1>6 DEF BlocksFilledOnce
<1> QED
    BY <1>1, <1>4, <1>5, <1>7 DEF IInv, TypeOK, StackOK, DataOK

\* Every step of the generator keeps the invariant.
LEMMA StepInv == IInv /\ [Next]_vars => IInv'
<1> SUFFICES ASSUME IInv, [Next]_vars PROVE IInv'
    OBVIOUS
<1>1. CASE GenExprStep
    BY <1>1, GenExprStepInv
<1>2. CASE GenAssign \/ BuildStore \/ GenIf \/ GenBreak \/ GenBlock \/ NextStmt \/ EndBlock
    BY <1>2, StraightStepInv
<1>3. CASE EndIf \/ EndWhile \/ GenElse \/ BuildWhile
    BY <1>3, LeaveStepInv
<1>4. CASE BuildIf \/ GenWhile
    BY <1>4, BranchStepInv
<1>5. CASE Finish
    BY <1>5, FinishInv
<1>6. CASE Crash
    <2>1. status' = "crashed" /\ UNCHANGED <<ast, stack, ret, blocks, cur, break_target, symbols>>
        BY <1>6 DEF Crash
    <2> QED
        BY <2>1 DEF IInv, TypeOK, BlocksFilledOnce, Top
<1>7. CASE UNCHANGED vars
    BY <1>7 DEF vars, IInv, TypeOK, BlocksFilledOnce, Top
<1> QED
    BY <1>1, <1>2, <1>3, <1>4, <1>5, <1>6, <1>7 DEF Next, GenStep, GenStmtStep, Terminated

LEMMA Invariance == Spec => []IInv
BY InitInv, StepInv, PTL DEF Spec

\* The generator's state is of the expected type whatever the program: in
\* particular a frame that goes on after gen_expr finds a value, the builder is
\* always positioned in a block, and no instruction but a load from an unassigned
\* variable or a stray break has a null operand.
THEOREM TypeCorrect == Spec => []TypeOK
<1>1. IInv => TypeOK
    BY DEF IInv
<1> QED
    BY Invariance, <1>1, PTL

\* However ifs, elses, whiles and breaks are nested, gen_stmt never leaves a block
\* open, never comes back to one it has left and never forgets one it has created.
THEOREM FilledOnce == Spec => []BlocksFilledOnce
<1>1. IInv => BlocksFilledOnce
    BY DEF IInv
<1> QED
    BY Invariance, <1>1, PTL

\* Every block of a generated function ends in a terminator.
THEOREM AllBlocksClosed == Spec => []EveryBlockClosed
<1>1. IInv => EveryBlockClosed
    <2> SUFFICES ASSUME IInv, status = "done", NEW b \in DOMAIN blocks PROVE IsClosed(blocks[b])
        BY DEF EveryBlockClosed
    <2>1. stack = <<>> /\ IsClosed(blocks[cur])
        BY DEF IInv
    <2>2. DOMAIN stack = {}
        BY <2>1
    <2> QED
        BY <2>1, <2>2 DEF IInv, BlocksFilledOnce
<1> QED
    BY Invariance, <1>1, PTL

-----------------------------------------------------------------------------
(* The target of a break *)

(***************************************************************************)
(* gen_stmt keeps one global break_target and restores it from a C local   *)
(* of the loop's own frame.  The proof that it is always the innermost     *)
(* loop's needs to know as much of every saved value: each is what         *)
(* break_target should be once its loop is left.                           *)
(***************************************************************************)

\* What is saved in a loop's frame is the target of the frames under it.
SavedTargets(s) ==
    \A i \in DOMAIN s : IsLoopFrame(s[i]) => IsTarget(s, i + 1, s[i].old)

TargetInv == IsTarget(stack, 1, break_target) /\ SavedTargets(stack)

\* The target from frame j on is frame j's if it is a loop, else the next one's.
LEMMA NextTarget ==
    ASSUME NEW s, NEW n \in Nat, DOMAIN s = 1 .. n, NEW j \in 1 .. n, NEW t
    PROVE  /\ IsLoopFrame(s[j]) => (IsTarget(s, j, t) <=> t = s[j].cont)
           /\ ~IsLoopFrame(s[j]) => (IsTarget(s, j, t) <=> IsTarget(s, j + 1, t))
<1>1. \A i \in DOMAIN s : i >= j <=> i = j \/ i >= j + 1
    OBVIOUS
<1>2. CASE IsLoopFrame(s[j])
    <2>1. ASSUME IsTarget(s, j, t) PROVE t = s[j].cont
        <3>1. PICK i \in DOMAIN s :
                 /\ i >= j /\ IsLoopFrame(s[i]) /\ t = s[i].cont
                 /\ \A k \in DOMAIN s : k >= j /\ k < i => ~IsLoopFrame(s[k])
            BY <1>2, <2>1 DEF IsTarget
        <3>2. i = j
            BY <1>2, <3>1
        <3> QED
            BY <3>1, <3>2
    <2>2. ASSUME t = s[j].cont PROVE IsTarget(s, j, t)
        BY <1>2, <2>2 DEF IsTarget
    <2> QED
        BY <1>2, <2>1, <2>2
<1>3. CASE ~IsLoopFrame(s[j])
    <2>1. ASSUME IsTarget(s, j, t) PROVE IsTarget(s, j + 1, t)
        <3>1. CASE t = NULL /\ \A i \in DOMAIN s : i >= j => ~IsLoopFrame(s[i])
            BY <1>1, <3>1 DEF IsTarget
        <3>2. ASSUME NEW i \in DOMAIN s, i >= j, IsLoopFrame(s[i]), t = s[i].cont,
                     \A k \in DOMAIN s : k >= j /\ k < i => ~IsLoopFrame(s[k])
              PROVE  IsTarget(s, j + 1, t)
            <4>1. i >= j + 1
                BY <1>1, <1>3, <3>2
            <4> QED
                BY <1>1, <3>2, <4>1 DEF IsTarget
        <3> QED
            BY <2>1, <3>1, <3>2 DEF IsTarget
    <2>2. ASSUME IsTarget(s, j + 1, t) PROVE IsTarget(s, j, t)
        <3>1. CASE t = NULL /\ \A i \in DOMAIN s : i >= j + 1 => ~IsLoopFrame(s[i])
            BY <1>1, <1>3, <3>1 DEF IsTarget
        <3>2. ASSUME NEW i \in DOMAIN s, i >= j + 1, IsLoopFrame(s[i]), t = s[i].cont,
                     \A k \in DOMAIN s : k >= j + 1 /\ k < i => ~IsLoopFrame(s[k])
              PROVE  IsTarget(s, j, t)
            <4>1. i >= j /\ \A k \in DOMAIN s : k >= j /\ k < i => ~IsLoopFrame(s[k])
                BY <1>1, <1>3, <3>2
            <4> QED
                BY <3>2, <4>1 DEF IsTarget
        <3> QED
            BY <2>2, <3>1, <3>2 DEF IsTarget
    <2> QED
        BY <1>3, <2>1, <2>2
<1> QED
    BY <1>2, <1>3

\* Frames under the top one keep their targets when they move by d.
LEMMA ShiftTarget ==
    ASSUME NEW s, NEW r, NEW n \in Nat \ {0}, NEW d \in {-1, 0, 1},
           DOMAIN s = 1 .. n, DOMAIN r = 1 .. n + d,
           \A i \in 2 .. n : r[i + d] = s[i],
           NEW j \in 2 .. n + 1, NEW t, IsTarget(s, j, t)
    PROVE  IsTarget(r, j + d, t)
<1>1. \A i \in DOMAIN r : i >= j + d => i - d \in 2 .. n /\ i - d >= j /\ r[i] = s[i - d]
    <2>1. ASSUME NEW i \in DOMAIN r, i >= j + d
          PROVE  i - d \in 2 .. n /\ i - d >= j /\ (i - d) + d = i
        BY <2>1
    <2> QED
        BY <2>1
<1>2. \A i \in DOMAIN s : i >= j => i + d \in DOMAIN r /\ i + d >= j + d /\ r[i + d] = s[i]
    <2>1. ASSUME NEW i \in DOMAIN s, i >= j
          PROVE  i \in 2 .. n /\ i + d \in DOMAIN r /\ i + d >= j + d
        BY <2>1
    <2> QED
        BY <2>1
<1>3. CASE t = NULL /\ \A i \in DOMAIN s : i >= j => ~IsLoopFrame(s[i])
    <2>1. ASSUME NEW i \in DOMAIN r, i >= j + d PROVE ~IsLoopFrame(r[i])
        <3>1. i - d \in DOMAIN s /\ i - d >= j /\ r[i] = s[i - d]
            BY <1>1, <2>1
        <3> QED
            BY <1>3, <3>1
    <2> QED
        BY <1>3, <2>1 DEF IsTarget
<1>4. ASSUME NEW i \in DOMAIN s, i >= j, IsLoopFrame(s[i]), t = s[i].cont,
             \A k \in DOMAIN s : k >= j /\ k < i => ~IsLoopFrame(s[k])
      PROVE  IsTarget(r, j + d, t)
    <2>1. i + d \in DOMAIN r /\ i + d >= j + d /\ r[i + d] = s[i]
        BY <1>2, <1>4
    <2>2. ASSUME NEW k \in DOMAIN r, k >= j + d, k < i + d PROVE ~IsLoopFrame(r[k])
        <3>1. k - d \in DOMAIN s /\ k - d >= j /\ k - d < i /\ r[k] = s[k - d]
            BY <1>1, <2>2
        <3> QED
            BY <1>4, <3>1
    <2> QED
        BY <1>4, <2>1, <2>2 DEF IsTarget
<1> QED
    BY <1>3, <1>4 DEF IsTarget

\* Saved values are kept for all frames that stay, if those put on top keep it.
LEMMA ShiftSaved ==
    ASSUME NEW s, NEW r, NEW n \in Nat \ {0}, NEW d \in {-1, 0, 1},
           DOMAIN s = 1 .. n, DOMAIN r = 1 .. n + d,
           \A i \in 2 .. n : r[i + d] = s[i], SavedTargets(s),
           \A i \in 1 .. 1 + d : IsLoopFrame(r[i]) => IsTarget(r, i + 1, r[i].old)
    PROVE  SavedTargets(r)
<1> SUFFICES ASSUME NEW i \in DOMAIN r, IsLoopFrame(r[i]) PROVE IsTarget(r, i + 1, r[i].old)
    BY DEF SavedTargets
<1>1. CASE i \in 1 .. 1 + d
    BY <1>1
<1>2. CASE i \notin 1 .. 1 + d
    <2> DEFINE j == (i - d) + 1
               t == r[i].old
    <2>1. i - d \in 2 .. n /\ (i - d) + d = i /\ j \in 2 .. n + 1 /\ j + d = i + 1
        BY <1>2
    <2>2. r[i] = s[i - d]
        BY <2>1
    <2>3. IsTarget(s, j, t)
        BY <2>1, <2>2 DEF SavedTargets
    <2> HIDE DEF j, t
    <2>4. IsTarget(r, j + d, t)
        BY <2>1, <2>3, ShiftTarget
    <2> QED
        BY <2>1, <2>4 DEF t
<1> QED
    BY <1>1, <1>2

\* The stack of a step of the generator: the frames under the top one move by d.
LEMMA TargetStep ==
    ASSUME TargetInv, NEW n \in Nat \ {0}, NEW d \in {-1, 0, 1},
           DOMAIN stack = 1 .. n, DOMAIN stack' = 1 .. n + d,
           \A i \in 2 .. n : stack'[i + d] = stack[i],
           ~IsLoopFrame(stack[1]), \A i \in 1 .. 1 + d : ~IsLoopFrame(stack'[i]),
           break_target' = break_target
    PROVE  TargetInv'
<1>1. IsTarget(stack, 2, break_target)
    BY NextTarget DEF TargetInv
<1>2. IsTarget(stack', 2 + d, break_target)
    BY <1>1, ShiftTarget
<1>3. IsTarget(stack', 1, break_target)
    <2>1. CASE d = -1
        BY <1>2, <2>1
    <2>2. CASE d = 0
        <3>1. n + d = n /\ 1 \in 1 .. n /\ ~IsLoopFrame(stack'[1]) /\ IsTarget(stack', 2, break_target)
            BY <1>2, <2>2
        <3> QED
            BY <3>1, NextTarget
    <2>3. CASE d = 1
        <3> DEFINE m == n + 1
        <3>1. /\ m \in Nat /\ DOMAIN stack' = 1 .. m /\ 1 \in 1 .. m /\ 2 \in 1 .. m
              /\ ~IsLoopFrame(stack'[1]) /\ ~IsLoopFrame(stack'[2])
              /\ IsTarget(stack', 3, break_target)
            BY <1>2, <2>3
        <3> HIDE DEF m
        <3>2. IsTarget(stack', 2, break_target)
            BY <3>1, NextTarget
        <3> QED
            BY <3>1, <3>2, NextTarget
    <2> QED
        BY <2>1, <2>2, <2>3
<1>4. SavedTargets(stack')
    BY ShiftSaved DEF TargetInv
<1> QED
    BY <1>3, <1>4 DEF TargetInv, SavedTargets, IsTarget, IsLoopFrame

\* The three ways in which a step changes the stack.
LEMMA ReturnMoves ==
    ASSUME StackOK, stack # <<>>, stack' = Tail(stack)
    PROVE  /\ Top = stack[1] /\ Len(stack) \in Nat \ {0} /\ DOMAIN stack = 1 .. Len(stack)
           /\ DOMAIN stack' = 1 .. Len(stack) - 1
           /\ \A i \in 2 .. Len(stack) : stack'[i - 1] = stack[i]
BY PopFacts, LenProperties DEF StackOK, Top

LEMMA CallMoves ==
    ASSUME StackOK, stack # <<>>, NEW f, NEW k, Call(f, k)
    PROVE  /\ Top = stack[1] /\ Len(stack) \in Nat \ {0} /\ DOMAIN stack = 1 .. Len(stack)
           /\ DOMAIN stack' = 1 .. Len(stack) + 1
           /\ stack'[1] = f /\ stack'[2] = k
           /\ \A i \in 2 .. Len(stack) : stack'[i + 1] = stack[i]
<1> DEFINE S == Frame \cup {f, k}
           below == Tail(stack)
           rest  == Cons(k, below)
<1>1. /\ Top = stack[1] /\ below \in Seq(Frame) /\ Len(below) = Len(stack) - 1
      /\ Len(stack) \in Nat \ {0} /\ DOMAIN stack = 1 .. Len(stack)
      /\ \A i \in 1 .. Len(stack) - 1 : below[i] = stack[i + 1]
    BY PopFacts, LenProperties DEF StackOK, Top
<1>2. Frame \subseteq S /\ f \in S /\ k \in S
    OBVIOUS
<1>3. stack' = Cons(f, rest)
    BY DEF Call
<1> HIDE DEF S, below
<1>4. below \in Seq(S)
    BY <1>1, <1>2
<1>5. /\ rest \in Seq(S) /\ Len(rest) = Len(stack) /\ rest[1] = k
      /\ \A i \in 1 .. Len(stack) - 1 : rest[i + 1] = below[i]
    BY <1>1, <1>2, <1>4, ConsFacts
<1> HIDE DEF rest
<1>6. /\ Cons(f, rest) \in Seq(S) /\ Len(Cons(f, rest)) = Len(stack) + 1
      /\ Cons(f, rest)[1] = f
      /\ \A i \in 1 .. Len(stack) : Cons(f, rest)[i + 1] = rest[i]
    <2>1. /\ Cons(f, rest) \in Seq(S) /\ Len(Cons(f, rest)) = Len(rest) + 1
          /\ Cons(f, rest)[1] = f
          /\ \A i \in 1 .. Len(rest) : Cons(f, rest)[i + 1] = rest[i]
        BY <1>2, <1>5, ConsFacts
    <2> QED
        BY <1>5, <2>1
<1>7. DOMAIN stack' = 1 .. Len(stack) + 1 /\ stack'[1] = f /\ stack'[2] = k
    BY <1>1, <1>3, <1>5, <1>6, LenProperties
<1>8. ASSUME NEW i \in 2 .. Len(stack)
      PROVE  stack'[i + 1] = stack[i]
    <2>1. i \in 1 .. Len(stack) /\ i - 1 \in 1 .. Len(stack) - 1 /\ (i - 1) + 1 = i
        BY <1>1
    <2>2. below[i - 1] = stack[(i - 1) + 1] /\ rest[(i - 1) + 1] = below[i - 1]
        BY <1>1, <1>5, <2>1
    <2> QED
        BY <1>3, <1>6, <2>1, <2>2
<1> QED
    BY <1>1, <1>7, <1>8

\* Steps that enter and leave no loop.
LEMMA PlainReturn ==
    ASSUME TargetInv, StackOK, stack # <<>>, ~IsLoopFrame(Top),
           stack' = Tail(stack), break_target' = break_target
    PROVE  TargetInv'
<1> DEFINE n == Len(stack)
           d == -1
<1>1. /\ n \in Nat \ {0} /\ d \in {-1, 0, 1} /\ DOMAIN stack = 1 .. n
      /\ DOMAIN stack' = 1 .. n + d /\ ~IsLoopFrame(stack[1])
      /\ \A i \in 2 .. n : stack'[i + d] = stack[i]
      /\ \A i \in 1 .. 1 + d : ~IsLoopFrame(stack'[i])
    BY ReturnMoves
<1> HIDE DEF n, d
<1> QED
    BY <1>1, TargetStep

LEMMA PlainCall ==
    ASSUME TargetInv, StackOK, stack # <<>>, ~IsLoopFrame(Top), break_target' = break_target,
           NEW f, NEW k, Call(f, k), ~IsLoopFrame(f), ~IsLoopFrame(k)
    PROVE  TargetInv'
<1> DEFINE n == Len(stack)
           d == 1
<1>1. /\ n \in Nat \ {0} /\ d \in {-1, 0, 1} /\ DOMAIN stack = 1 .. n
      /\ DOMAIN stack' = 1 .. n + d /\ ~IsLoopFrame(stack[1])
      /\ \A i \in 2 .. n : stack'[i + d] = stack[i]
      /\ \A i \in 1 .. 1 + d : ~IsLoopFrame(stack'[i])
    BY CallMoves
<1> HIDE DEF n, d
<1> QED
    BY <1>1, TargetStep

LEMMA StepTarget == TypeOK /\ TargetInv /\ [Next]_vars => TargetInv'
<1> SUFFICES ASSUME TypeOK, TargetInv, [Next]_vars PROVE TargetInv'
    OBVIOUS
<1>1. StackOK /\ DataOK
    BY TypeParts
<1>2. CASE GenId \/ GenConst \/ BuildOp \/ BuildStore \/ EndIf \/ GenBreak \/ EndBlock
    <2>1. stack # <<>> /\ stack' = Tail(stack) /\ break_target' = break_target
        BY <1>2 DEF GenId, GenConst, BuildOp, BuildStore, EndIf, GenBreak, EndBlock, AtExpr, AtStmt, At
    <2>2. ~IsLoopFrame(Top)
        BY <1>2 DEF GenId, GenConst, BuildOp, BuildStore, EndIf, GenBreak, EndBlock, AtExpr, AtStmt, At,
                    IsLoopFrame
    <2> QED
        BY <1>1, <2>1, <2>2, PlainReturn
<1>3. CASE GenLhs \/ GenRhs \/ GenAssign \/ GenIf \/ BuildIf \/ GenElse \/ NextStmt
    <2>1. stack # <<>> /\ break_target' = break_target /\ Top.kind \in {"stmt", "expr", "lhs", "if", "endif", "block"}
        BY <1>3 DEF GenLhs, GenRhs, GenAssign, GenIf, BuildIf, GenElse, NextStmt, AtExpr, AtStmt, At
    <2>2. \E f, k : Call(f, k) /\ ~IsLoopFrame(f) /\ ~IsLoopFrame(k)
        <3>1. CASE GenLhs
            BY <3>1 DEF GenLhs, IsLoopFrame, ExprFrame
        <3>2. CASE GenRhs
            BY <3>2 DEF GenRhs, IsLoopFrame, ExprFrame
        <3>3. CASE GenAssign
            BY <3>3 DEF GenAssign, IsLoopFrame, ExprFrame
        <3>4. CASE GenIf
            BY <3>4 DEF GenIf, IsLoopFrame, ExprFrame
        <3>5. CASE BuildIf
            BY <3>5 DEF BuildIf, IsLoopFrame, StmtFrame
        <3>6. CASE GenElse
            <4>1. Top \in [kind : {"endif"}, else : Stmt \cup {NULL}, else_bb : BlockNo \cup {NULL},
                           cont : BlockNo]
                BY <1>1, <2>1, <3>6, TopFacts DEF GenElse, At, EndIfFrame
            <4>2. [Top EXCEPT !.else = NULL, !.else_bb = NULL].kind = "endif"
                BY <4>1
            <4>3. Call(StmtFrame(Top.else), [Top EXCEPT !.else = NULL, !.else_bb = NULL])
                BY <3>6 DEF GenElse
            <4>4. StmtFrame(Top.else).kind = "stmt"
                BY DEF StmtFrame
            <4> QED
                BY <4>2, <4>3, <4>4 DEF IsLoopFrame
        <3>7. CASE NextStmt
            <4>1. Top \in [kind : {"block"}, stmts : Seq(Stmt)]
                BY <1>1, <2>1, <3>7, TopFacts DEF NextStmt, At, Frame, EndIfFrame, WhileFrame
            <4>2. [Top EXCEPT !.stmts = Tail(@)].kind = "block"
                BY <4>1
            <4>3. Call(StmtFrame(Head(Top.stmts)), [Top EXCEPT !.stmts = Tail(@)])
                BY <3>7 DEF NextStmt
            <4>4. StmtFrame(Head(Top.stmts)).kind = "stmt"
                BY DEF StmtFrame
            <4> QED
                BY <4>2, <4>3, <4>4 DEF IsLoopFrame
        <3> QED
            BY <1>3, <3>1, <3>2, <3>3, <3>4, <3>5, <3>6, <3>7
    <2> QED
        BY <1>1, <2>1, <2>2, PlainCall DEF IsLoopFrame
<1>4. CASE GenBlock
    <2> DEFINE n == Len(stack)
               d == 0
    <2>1. /\ stack # <<>> /\ break_target' = break_target /\ Top.kind = "stmt"
          /\ Top.node \in Stmt /\ Top.node.type = "BLOCK"
          /\ stack' = Cons([kind |-> "block", stmts |-> Top.node.stmts], Tail(stack))
        BY <1>1, <1>4, TopFacts DEF GenBlock, AtStmt, At
    <2>2. [kind |-> "block", stmts |-> Top.node.stmts] \in Frame
        BY <2>1, NodeFacts DEF Frame
    <2>3. /\ StackOK' /\ Len(stack') = n /\ stack'[1].kind = "block"
          /\ \A i \in 2 .. n : stack'[i] = stack[i]
        BY <1>1, <2>1, <2>2, ReplaceFacts DEF AwaitsValue, IsExprFrame
    <2>4. Top = stack[1] /\ n \in Nat \ {0}
        BY <1>1, <2>1, PopFacts DEF StackOK, Top
    <2>5. /\ d \in {-1, 0, 1} /\ DOMAIN stack = 1 .. n /\ DOMAIN stack' = 1 .. n + d
          /\ ~IsLoopFrame(stack[1]) /\ \A i \in 1 .. 1 + d : ~IsLoopFrame(stack'[i])
          /\ \A i \in 2 .. n : stack'[i + d] = stack[i]
        BY <1>1, <2>1, <2>3, <2>4, LenProperties DEF StackOK, IsLoopFrame
    <2> HIDE DEF n, d
    <2> QED
        BY <2>1, <2>4, <2>5, TargetStep
<1>5. CASE GenWhile
    <2> DEFINE n == Len(stack)
               d == 1
               c == break_target'
    <2>1. PICK f, k : /\ Call(f, k) /\ ~IsLoopFrame(f) /\ IsLoopFrame(k)
                      /\ k.cont = c /\ k.old = break_target
        BY <1>5 DEF GenWhile, ExprFrame, IsLoopFrame
    <2>2. stack # <<>> /\ ~IsLoopFrame(Top)
        BY <1>5 DEF GenWhile, AtStmt, At, IsLoopFrame
    <2>3. /\ n \in Nat \ {0} /\ d \in {-1, 0, 1} /\ DOMAIN stack = 1 .. n
          /\ DOMAIN stack' = 1 .. n + d /\ ~IsLoopFrame(stack[1])
          /\ stack'[1] = f /\ stack'[2] = k
          /\ \A i \in 2 .. n : stack'[i + d] = stack[i]
        BY <1>1, <2>1, <2>2, CallMoves
    <2>4. 1 \in 1 .. n /\ 2 \in 2 .. n + 1 /\ 2 + d = 3 /\ n + d \in Nat
          /\ 1 \in 1 .. n + d /\ 2 \in 1 .. n + d /\ 1 .. 1 + d = {1, 2}
        BY <2>3
    <2> HIDE DEF n, d
    <2>5. IsTarget(stack, 2, break_target)
        BY <2>3, <2>4, NextTarget DEF TargetInv
    <2>6. IsTarget(stack', 3, break_target)
        BY <2>3, <2>4, <2>5, ShiftTarget
    <2>7. IsTarget(stack', 2, c)
        BY <2>1, <2>3, <2>4, NextTarget
    <2>8. IsTarget(stack', 1, c)
        BY <2>1, <2>3, <2>4, <2>7, NextTarget
    <2>9. SavedTargets(stack')
        BY <2>1, <2>3, <2>4, <2>6, ShiftSaved DEF TargetInv
    <2> QED
        BY <2>8, <2>9 DEF TargetInv, SavedTargets, IsTarget, IsLoopFrame
<1>6. CASE BuildWhile
    <2> DEFINE n == Len(stack)
               d == 1
               c == break_target
               o == Top.old
    <2>1. PICK f, k : /\ Call(f, k) /\ ~IsLoopFrame(f) /\ IsLoopFrame(k)
                      /\ k.cont = Top.cont /\ k.old = o
        BY <1>6 DEF BuildWhile, StmtFrame, IsLoopFrame
    <2>2. stack # <<>> /\ IsLoopFrame(Top) /\ break_target' = c
        BY <1>6 DEF BuildWhile, At, IsLoopFrame
    <2>3. /\ n \in Nat \ {0} /\ d \in {-1, 0, 1} /\ DOMAIN stack = 1 .. n
          /\ DOMAIN stack' = 1 .. n + d /\ Top = stack[1]
          /\ stack'[1] = f /\ stack'[2] = k
          /\ \A i \in 2 .. n : stack'[i + d] = stack[i]
        BY <1>1, <2>1, <2>2, CallMoves
    <2>4. 1 \in 1 .. n /\ 2 \in 2 .. n + 1 /\ 2 + d = 3 /\ n + d \in Nat
          /\ 1 \in 1 .. n + d /\ 2 \in 1 .. n + d /\ 1 .. 1 + d = {1, 2} /\ 1 + 1 = 2
        BY <2>3
    <2> HIDE DEF n, d
    <2>5. c = Top.cont /\ IsTarget(stack, 2, o)
        BY <2>2, <2>3, <2>4, NextTarget DEF TargetInv, SavedTargets
    <2> HIDE DEF c, o
    <2>6. IsTarget(stack', 3, o)
        BY <2>3, <2>4, <2>5, ShiftTarget
    <2>7. IsTarget(stack', 2, c)
        BY <2>1, <2>3, <2>4, <2>5, NextTarget
    <2>8. IsTarget(stack', 1, c)
        BY <2>1, <2>3, <2>4, <2>7, NextTarget
    <2>9. SavedTargets(stack')
        BY <2>1, <2>3, <2>4, <2>6, ShiftSaved DEF TargetInv
    <2> QED
        BY <2>2, <2>8, <2>9 DEF TargetInv, SavedTargets, IsTarget, IsLoopFrame
<1>7. CASE EndWhile
    <2> DEFINE n == Len(stack)
               d == -1
               o == Top.old
    <2>1. stack # <<>> /\ IsLoopFrame(Top) /\ stack' = Tail(stack) /\ break_target' = o
        BY <1>7 DEF EndWhile, At, IsLoopFrame
    <2>2. /\ n \in Nat \ {0} /\ d \in {-1, 0, 1} /\ DOMAIN stack = 1 .. n
          /\ DOMAIN stack' = 1 .. n + d /\ Top = stack[1]
          /\ \A i \in 2 .. n : stack'[i + d] = stack[i]
        BY <1>1, <2>1, ReturnMoves
    <2>3. 1 \in 1 .. n /\ 2 \in 2 .. n + 1 /\ 2 + d = 1 /\ 1 .. 1 + d = {} /\ 1 + 1 = 2
        BY <2>2
    <2> HIDE DEF n, d
    <2>4. IsTarget(stack, 2, o)
        BY <2>1, <2>2, <2>3 DEF TargetInv, SavedTargets
    <2> HIDE DEF o
    <2>5. IsTarget(stack', 1, o)
        BY <2>2, <2>3, <2>4, ShiftTarget
    <2>6. SavedTargets(stack')
        BY <2>2, <2>3, ShiftSaved DEF TargetInv
    <2> QED
        BY <2>1, <2>5, <2>6 DEF TargetInv, SavedTargets, IsTarget, IsLoopFrame
<1>8. CASE Finish \/ Crash \/ UNCHANGED vars
    <2>1. UNCHANGED <<stack, break_target>>
        BY <1>8 DEF Finish, Crash, vars
    <2> QED
        BY <2>1 DEF TargetInv, SavedTargets, IsTarget, IsLoopFrame
<1> QED
    BY <1>2, <1>3, <1>4, <1>5, <1>6, <1>7, <1>8
       DEF Next, GenStep, GenExprStep, GenStmtStep, Terminated

LEMMA InitTarget == Init => TargetInv
<1> SUFFICES ASSUME Init PROVE TargetInv
    OBVIOUS
<1>1. /\ DOMAIN stack = {1} /\ stack[1] = StmtFrame(ast) /\ break_target = NULL
    BY DEF Init
<1>2. ~IsLoopFrame(stack[1])
    BY <1>1 DEF IsLoopFrame, StmtFrame
<1> QED
    BY <1>1, <1>2 DEF TargetInv, SavedTargets, IsTarget

\* At any time, so at every break, break_target is the continuation of the
\* innermost loop whose body or condition is being generated, for programs of any
\* nesting: the save in and restore from the loop's frame always match.
THEOREM BreakLeavesInnermost == Spec => []BreakTargetIsInnermost
<1>1. Spec => [](TypeOK /\ TargetInv)
    <2>1. TypeOK /\ TargetInv /\ [TypeOK' /\ Next]_vars => TargetInv'
        BY StepTarget
    <2> QED
        BY <2>1, InitTarget, StepTarget, TypeCorrect, PTL DEF Spec
<1>2. TargetInv => BreakTargetIsInnermost
    BY DEF TargetInv, BreakTargetIsInnermost
<1> QED
    BY <1>1, <1>2, PTL
=============================================================================
