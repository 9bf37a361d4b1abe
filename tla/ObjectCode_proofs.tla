-------------------------- MODULE ObjectCode_proofs --------------------------
(***************************************************************************)
(* For any number of processes, texts and paths: a process that has        *)
(* temp.ll for itself gets the object of its own IR, and temp.ll is gone   *)
(* after the last process, unless one was interrupted.                     *)
(***************************************************************************)
EXTENDS ObjectCode, TLAPS

Piece == {NULL} \cup UNION {{<<i, k>> : k \in 1 .. Pieces(i)} : i \in Ir}

\* The first n pieces of a text.
Prefix(i, n) == [k \in 1 .. n |-> <<i, k>>]

\* A process that writes has a file open, and something left to write.
OpenInv ==
    \A p \in Proc : /\ pc[p] = "write" => fd[p] \in Proc /\ pos[p] < Pieces(ir[p])
                    /\ pc[p] = "start" => pos[p] = 0

\* Two that use temp.ll at a time are known to overlap, so that no other touches
\* what one alone has written there.
AloneInv ==
    /\ \A p, q \in Proc : p # q /\ InUse(p) /\ InUse(q) => p \in overlap
    /\ \A p \in Proc \ overlap :
         /\ pc[p] = "write" => temp = fd[p] /\ file[temp] = Prefix(ir[p], pos[p])
         /\ pc[p] = "llc" => temp \in Proc /\ file[temp] = Text(ir[p])

IInv == TypeOK /\ OpenInv /\ AloneInv /\ AloneIsRight /\ TempRemoved

-----------------------------------------------------------------------------
\* What Write makes of a file: piece x at position k, over what is there.
Overwrite(old, k, x) ==
    [j \in 1 .. (IF k > Len(old) THEN k ELSE Len(old)) |->
        IF j = k THEN x ELSE IF j <= Len(old) THEN old[j] ELSE NULL]

LEMMA OverwriteType ==
    ASSUME NEW old \in Seq(Piece), NEW k \in Nat \ {0}, NEW x \in Piece
    PROVE  Overwrite(old, k, x) \in Seq(Piece)
<1> DEFINE size == IF k > Len(old) THEN k ELSE Len(old)
<1>1. size \in Nat
    OBVIOUS
<1>2. \A j \in 1 .. size :
        (IF j = k THEN x ELSE IF j <= Len(old) THEN old[j] ELSE NULL) \in Piece
    <2>1. NULL \in Piece
        BY DEF Piece
    <2>2. \A j \in 1 .. size : j <= Len(old) => old[j] \in Piece
        BY <1>1
    <2> QED
        BY <2>1, <2>2
<1> QED
    BY <1>1, <1>2 DEF Overwrite

LEMMA OverwritePrefix ==
    ASSUME NEW i \in Ir, NEW n \in Nat
    PROVE  Overwrite(Prefix(i, n), n + 1, <<i, n + 1>>) = Prefix(i, n + 1)
<1>1. Len(Prefix(i, n)) = n /\ \A j \in 1 .. n : Prefix(i, n)[j] = <<i, j>>
    BY DEF Prefix
<1>2. \A j \in 1 .. n + 1 : j = n + 1 \/ j \in 1 .. n
    OBVIOUS
<1> HIDE DEF Prefix
<1>3. Overwrite(Prefix(i, n), n + 1, <<i, n + 1>>) = [j \in 1 .. n + 1 |-> <<i, j>>]
    BY <1>1, <1>2 DEF Overwrite
<1> QED
    BY <1>3 DEF Prefix

\* Texts differ in their pieces.
LEMMA TextInjective ==
    ASSUME NEW i \in Ir, NEW j \in Ir, Text(i) = Text(j)
    PROVE  i = j
<1>1. 1 \in 1 .. Pieces(i) /\ 1 \in 1 .. Pieces(j)
    BY FileAssumption
<1>2. Text(i)[1] = <<i, 1>> /\ Text(j)[1] = <<j, 1>>
    BY <1>1 DEF Text
<1> QED
    BY <1>2

\* llc makes of a whole text its object, or nothing when it rejects it.
LEMMA CompiledText ==
    ASSUME NEW i \in Ir
    PROVE  Compiled(Text(i)) = {IF i \in Valid THEN i ELSE NULL}
<1>1. {j \in Ir : Text(i) = Text(j)} = {i}
    BY TextInjective
<1> QED
    BY <1>1 DEF Compiled

LEMMA CompiledType == ASSUME NEW text PROVE Compiled(text) \subseteq Ir \cup {Mixed, NULL}
BY DEF Compiled

-----------------------------------------------------------------------------
\* One step of Write, without its LET.
LEMMA WriteStep ==
    ASSUME TypeOK, OpenInv, NEW p \in Proc, Write(p)
    PROVE  /\ pc[p] = "write" /\ fd[p] \in Proc
           /\ pos[p] \in Nat /\ pos[p] + 1 \in 1 .. Pieces(ir[p]) /\ Pieces(ir[p]) \in Nat /\ ir[p] \in Ir
           /\ file' = [file EXCEPT ![fd[p]] = Overwrite(file[fd[p]], pos[p] + 1, <<ir[p], pos[p] + 1>>)]
           /\ pos' = [pos EXCEPT ![p] = pos[p] + 1]
           /\ pc' = [pc EXCEPT ![p] = IF pos[p] + 1 = Pieces(ir[p]) THEN "llc" ELSE "write"]
           /\ fd' = [fd EXCEPT ![p] = IF pos[p] + 1 = Pieces(ir[p]) THEN NULL ELSE @]
           /\ UNCHANGED <<ir, out, temp, objs, made, overlap>>
<1>1. pc[p] = "write" /\ fd[p] \in Proc /\ pos[p] < Pieces(ir[p])
    BY DEF Write, OpenInv
<1>2. pos[p] \in Nat /\ ir[p] \in Ir /\ Pieces(ir[p]) \in Nat
    BY FileAssumption DEF TypeOK
<1> QED
    BY <1>1, <1>2 DEF Write, Overwrite

LEMMA StepType ==
    ASSUME TypeOK, OpenInv, [Next]_vars
    PROVE  TypeOK' /\ OpenInv'
<1>1. ASSUME NEW p \in Proc, Open(p) PROVE TypeOK' /\ OpenInv'
    <2> DEFINE inode == IF temp = NULL THEN p ELSE temp
    <2>1. /\ pc[p] = "start" /\ inode \in Proc /\ temp' = inode
          /\ file' = [file EXCEPT ![inode] = <<>>] /\ fd' = [fd EXCEPT ![p] = inode]
          /\ pc' = [pc EXCEPT ![p] = "write"] /\ overlap' \subseteq Proc
          /\ UNCHANGED <<ir, out, pos, objs, made>>
        BY <1>1 DEF Open, TypeOK
    <2>2. pos[p] < Pieces(ir[p])
        BY <2>1, FileAssumption DEF TypeOK, OpenInv
    <2>3. file' \in [Proc -> Seq(Piece)]
        BY <2>1 DEF TypeOK, Piece
    <2> HIDE DEF inode
    <2>4. TypeOK'
        BY <2>1, <2>3 DEF TypeOK, Piece
    <2>5. OpenInv'
        BY <2>1, <2>2 DEF TypeOK, OpenInv
    <2> QED
        BY <2>4, <2>5
<1>2. ASSUME NEW p \in Proc, OpenFails(p) PROVE TypeOK' /\ OpenInv'
    BY <1>2 DEF OpenFails, TypeOK, OpenInv
<1>3. ASSUME NEW p \in Proc, Write(p) PROVE TypeOK' /\ OpenInv'
    <2> DEFINE k == pos[p] + 1
               x == <<ir[p], k>>
               new == Overwrite(file[fd[p]], k, x)
    <2>1. /\ pc[p] = "write" /\ fd[p] \in Proc /\ pos[p] \in Nat /\ k \in 1 .. Pieces(ir[p])
          /\ Pieces(ir[p]) \in Nat /\ ir[p] \in Ir
          /\ file' = [file EXCEPT ![fd[p]] = new] /\ pos' = [pos EXCEPT ![p] = k]
          /\ pc' = [pc EXCEPT ![p] = IF k = Pieces(ir[p]) THEN "llc" ELSE "write"]
          /\ fd' = [fd EXCEPT ![p] = IF k = Pieces(ir[p]) THEN NULL ELSE @]
          /\ UNCHANGED <<ir, out, temp, objs, made, overlap>>
        BY <1>3, WriteStep
    <2>2. x \in Piece
        BY <2>1 DEF Piece
    <2>3. new \in Seq(Piece)
        <3>1. file[fd[p]] \in Seq(Piece) /\ k \in Nat \ {0}
            BY <2>1 DEF TypeOK, Piece
        <3> QED
            BY <2>2, <3>1, OverwriteType
    <2> HIDE DEF new, x
    <2>4. file' \in [Proc -> Seq(Piece)]
        BY <2>1, <2>3 DEF TypeOK, Piece
    <2> HIDE DEF k
    <2>5. pos' \in [Proc -> Nat] /\ \A q \in Proc : pos'[q] <= Pieces(ir'[q])
        BY <2>1 DEF TypeOK
    <2>6. TypeOK'
        BY <2>1, <2>4, <2>5 DEF TypeOK, Piece
    <2>7. OpenInv'
        BY <2>1 DEF TypeOK, OpenInv
    <2> QED
        BY <2>6, <2>7
<1>4. ASSUME NEW p \in Proc, RunLlc(p) PROVE TypeOK' /\ OpenInv'
    <2>1. PICK o \in Ir \cup {EmptyModule, Mixed, NULL} :
             /\ made' = [made EXCEPT ![p] = o]
             /\ objs' = IF o = NULL THEN objs
                        ELSE [objs EXCEPT ![IF out[p] \in LongPath THEN Cut(out[p]) ELSE out[p]] = o]
        BY <1>4, CompiledType DEF RunLlc
    <2>2. objs' \in [Path -> Ir \cup {EmptyModule, Mixed, NULL}]
        BY <2>1 DEF TypeOK
    <2>3. pc' = [pc EXCEPT ![p] = "remove"] /\ UNCHANGED <<ir, out, temp, file, fd, pos, overlap>>
        BY <1>4 DEF RunLlc
    <2> QED
        BY <2>1, <2>2, <2>3 DEF TypeOK, OpenInv
<1>5. ASSUME NEW p \in Proc, Remove(p) PROVE TypeOK' /\ OpenInv'
    BY <1>5 DEF Remove, TypeOK, OpenInv
<1>6. ASSUME NEW p \in Proc, Kill(p) PROVE TypeOK' /\ OpenInv'
    BY <1>6 DEF Kill, TypeOK, OpenInv
<1>7. CASE UNCHANGED vars
    BY <1>7 DEF vars, TypeOK, OpenInv
<1> QED
    BY <1>1, <1>2, <1>3, <1>4, <1>5, <1>6, <1>7 DEF Next, Step, Terminated

\* Who uses temp.ll after an Open and is not in overlap has just opened it, and no other
\* was using it.
LEMMA OpenOverlaps ==
    ASSUME TypeOK, AloneInv, NEW p \in Proc, Open(p), NEW q \in Proc \ overlap', InUse(q)'
    PROVE  q = p /\ overlap' = overlap /\ \A r \in Proc \ {p} : ~InUse(r)
<1>1. pc' = [pc EXCEPT ![p] = "write"] /\ pc \in [Proc -> {"start", "write", "llc", "remove", "done", "killed"}]
    BY DEF Open, TypeOK
<1>2. \A r \in Proc \ {p} : InUse(r)' <=> InUse(r)
    BY <1>1 DEF InUse
<1> DEFINE others == {r \in Proc \ {p} : InUse(r)}
<1>3. overlap' = IF others = {} THEN overlap ELSE overlap \cup others \cup {p}
    BY DEF Open
<1>4. q # p => q \in others
    BY <1>2
<1> QED
    BY <1>3, <1>4

\* A process that uses temp.ll alone is the only one that a step of it concerns.
LEMMA StepAlone ==
    ASSUME IInv, [Next]_vars
    PROVE  AloneInv'
<1> USE DEF IInv
<1> DEFINE Owns(p) == /\ pc[p] = "write" => temp = fd[p] /\ file[temp] = Prefix(ir[p], pos[p])
                      /\ pc[p] = "llc" => temp \in Proc /\ file[temp] = Text(ir[p])
<1>0. pc \in [Proc -> {"start", "write", "llc", "remove", "done", "killed"}]
    BY DEF TypeOK
<1>1. ASSUME NEW p \in Proc, Open(p) PROVE AloneInv'
    <2> DEFINE inode == IF temp = NULL THEN p ELSE temp
    <2>1. /\ pc[p] = "start" /\ inode \in Proc /\ temp' = inode
          /\ file' = [file EXCEPT ![inode] = <<>>] /\ fd' = [fd EXCEPT ![p] = inode]
          /\ pc' = [pc EXCEPT ![p] = "write"]
          /\ UNCHANGED <<ir, out, pos, objs, made>>
        BY <1>1 DEF Open, TypeOK
    <2> HIDE DEF inode
    <2>2. ASSUME NEW q \in Proc, NEW r \in Proc, q # r, InUse(q)', InUse(r)'
          PROVE  q \in overlap'
        <3>1. CASE q \notin overlap'
            <4>1. q = p /\ \A s \in Proc \ {p} : ~InUse(s)
                BY <1>1, <2>2, <3>1, OpenOverlaps
            <4>2. r # p /\ ~InUse(r)
                BY <2>2, <4>1
            <4> QED
                BY <1>0, <2>1, <2>2, <4>2 DEF InUse
        <3> QED
            BY <3>1
    <2>3. ASSUME NEW q \in Proc \ overlap', InUse(q)' PROVE Owns(q)'
        <3>1. q = p
            BY <1>1, <2>3, OpenOverlaps
        <3>2. file'[temp'] = <<>> /\ temp' = fd'[p] /\ pos'[p] = 0 /\ pc'[p] = "write"
            BY <1>0, <2>1 DEF TypeOK, OpenInv
        <3>3. Prefix(ir'[p], 0) = <<>>
            BY DEF Prefix
        <3> QED
            BY <3>1, <3>2, <3>3
    <2> QED
        BY <2>2, <2>3 DEF AloneInv, InUse
<1>2. ASSUME NEW p \in Proc, Write(p) PROVE AloneInv'
    <2> DEFINE k == pos[p] + 1
    <2>1. /\ pc[p] = "write" /\ fd[p] \in Proc /\ pos[p] \in Nat /\ k \in 1 .. Pieces(ir[p])
          /\ Pieces(ir[p]) \in Nat /\ ir[p] \in Ir
          /\ file' = [file EXCEPT ![fd[p]] = Overwrite(file[fd[p]], k, <<ir[p], k>>)]
          /\ pos' = [pos EXCEPT ![p] = k]
          /\ pc' = [pc EXCEPT ![p] = IF k = Pieces(ir[p]) THEN "llc" ELSE "write"]
          /\ fd' = [fd EXCEPT ![p] = IF k = Pieces(ir[p]) THEN NULL ELSE @]
          /\ UNCHANGED <<ir, out, temp, objs, made, overlap>>
        BY <1>2, WriteStep
    <2>2. \A q \in Proc : InUse(q)' <=> InUse(q)
        BY <1>0, <2>1 DEF InUse
    <2>3. ASSUME NEW q \in Proc \ overlap', InUse(q)' PROVE Owns(q)'
        <3>1. q = p
            BY <2>1, <2>2, <2>3 DEF AloneInv, InUse
        <3>2. temp = fd[p] /\ file[temp] = Prefix(ir[p], pos[p])
            BY <2>1, <2>3, <3>1 DEF AloneInv
        <3>3. file'[temp] = Prefix(ir[p], k)
            BY <2>1, <3>2, OverwritePrefix DEF TypeOK
        <3>4. k = Pieces(ir[p]) => Prefix(ir[p], k) = Text(ir[p])
            BY DEF Prefix, Text
        <3>5. /\ pc'[p] = IF k = Pieces(ir[p]) THEN "llc" ELSE "write"
              /\ fd'[p] = IF k = Pieces(ir[p]) THEN NULL ELSE fd[p]
              /\ pos'[p] = k
            BY <2>1 DEF TypeOK
        <3> HIDE DEF k
        <3> QED
            BY <2>1, <3>1, <3>2, <3>3, <3>4, <3>5
    <2> QED
        BY <2>1, <2>2, <2>3 DEF AloneInv, InUse
<1>3. ASSUME NEW p \in Proc, UNCHANGED <<ir, file, pos, overlap>>, pc[p] = "remove" \/ temp' = temp,
             pc[p] = "remove" => temp' = NULL,
             NEW to \in {"remove", "done", "killed"}, pc' = [pc EXCEPT ![p] = to],
             to = "remove" => pc[p] = "llc",
             \A q \in Proc \ {p} : fd'[q] = fd[q]
      PROVE  AloneInv'
    <2>0. \A q \in Proc : InUse(q)' => InUse(q)
        BY <1>0, <1>3 DEF InUse
    <2>1. \A q \in Proc : pc'[q] \in {"write", "llc"} => q # p /\ pc[q] = pc'[q]
        BY <1>0, <1>3
    <2>2. ASSUME NEW q \in Proc \ overlap', pc'[q] \in {"write", "llc"} PROVE Owns(q)'
        <3>1. q # p /\ pc[q] = pc'[q] /\ q \notin overlap /\ InUse(q)
            BY <1>3, <2>1, <2>2 DEF InUse
        <3>2. ~InUse(p)
            BY <3>1 DEF AloneInv
        <3>3. temp' = temp
            BY <1>3, <3>2 DEF InUse
        <3> QED
            BY <1>3, <3>1, <3>3 DEF AloneInv
    <2>3. ASSUME NEW q \in Proc, NEW r \in Proc, q # r, InUse(q)', InUse(r)' PROVE q \in overlap'
        <3>1. InUse(q) /\ InUse(r)
            BY <2>0, <2>3 DEF InUse
        <3>2. q \in overlap
            BY <2>3, <3>1 DEF AloneInv
        <3> QED
            BY <1>3, <3>2
    <2> QED
        BY <2>2, <2>3 DEF AloneInv, InUse
<1>4. ASSUME NEW p \in Proc, RunLlc(p) PROVE AloneInv'
    BY <1>3, <1>4 DEF RunLlc
<1>5. ASSUME NEW p \in Proc, Remove(p) PROVE AloneInv'
    BY <1>3, <1>5 DEF Remove
<1>6. ASSUME NEW p \in Proc, OpenFails(p) PROVE AloneInv'
    BY <1>3, <1>6 DEF OpenFails
<1>7. ASSUME NEW p \in Proc, Kill(p) PROVE AloneInv'
    <2>1. \A q \in Proc \ overlap : pc'[q] \in {"write", "llc"} =>
             pc'[q] = pc[q] /\ fd'[q] = fd[q]
        BY <1>0, <1>7 DEF Kill, TypeOK
    <2>2. \A q \in Proc : InUse(q)' => InUse(q)
        BY <1>0, <1>7 DEF Kill, InUse
    <2> QED
        BY <1>7, <2>1, <2>2 DEF Kill, AloneInv
<1>8. CASE UNCHANGED vars
    BY <1>8 DEF vars, AloneInv, InUse
<1> QED
    BY <1>1, <1>2, <1>4, <1>5, <1>6, <1>7, <1>8 DEF Next, Step, Terminated

LEMMA StepRight ==
    ASSUME IInv, [Next]_vars
    PROVE  AloneIsRight'
<1> USE DEF IInv
<1>0. pc \in [Proc -> {"start", "write", "llc", "remove", "done", "killed"}] /\ DOMAIN made = Proc
    BY DEF TypeOK
<1>1. ASSUME UNCHANGED <<made, ir, out>>, overlap \subseteq overlap',
             \A q \in Proc : pc'[q] \in {"remove", "done"} => pc[q] \in {"remove", "done"}
      PROVE  AloneIsRight'
    BY <1>1 DEF AloneIsRight
<1>2. ASSUME NEW p \in Proc, RunLlc(p) PROVE AloneIsRight'
    <2>1. ASSUME p \notin overlap, out[p] \notin LongPath
          PROVE  made'[p] = IF ir[p] \in Valid THEN ir[p] ELSE NULL
        <3>1. temp \in Proc /\ file[temp] = Text(ir[p]) /\ ir[p] \in Ir
            BY <1>2, <2>1 DEF RunLlc, AloneInv, TypeOK
        <3>2. temp # NULL
            BY <3>1, FileAssumption
        <3>3. PICK o \in Compiled(file[temp]) : made' = [made EXCEPT ![p] = o]
            BY <1>2, <2>1, <3>2 DEF RunLlc
        <3> QED
            BY <1>0, <3>1, <3>3, CompiledText
    <2>2. /\ \A q \in Proc \ {p} : made'[q] = made[q] /\ pc'[q] = pc[q]
          /\ UNCHANGED <<ir, out, overlap>>
        BY <1>0, <1>2 DEF RunLlc
    <2> QED
        BY <2>1, <2>2 DEF AloneIsRight
<1>3. ASSUME NEW p \in Proc, Open(p) PROVE AloneIsRight'
    BY <1>0, <1>1, <1>3 DEF Open
<1>4. ASSUME NEW p \in Proc, Write(p) PROVE AloneIsRight'
    BY <1>0, <1>1, <1>4 DEF Write
<1>5. ASSUME NEW p \in Proc, Remove(p) PROVE AloneIsRight'
    BY <1>0, <1>1, <1>5 DEF Remove
<1>6. ASSUME NEW p \in Proc, OpenFails(p) PROVE AloneIsRight'
    BY <1>0, <1>1, <1>6 DEF OpenFails
<1>7. ASSUME NEW p \in Proc, Kill(p) PROVE AloneIsRight'
    BY <1>0, <1>1, <1>7 DEF Kill
<1>8. CASE UNCHANGED vars
    BY <1>8 DEF vars, AloneIsRight
<1> QED
    BY <1>2, <1>3, <1>4, <1>5, <1>6, <1>7, <1>8 DEF Next, Step, Terminated

LEMMA StepTemp ==
    ASSUME TypeOK, TempRemoved, [Next]_vars
    PROVE  TempRemoved'
<1>0. pc \in [Proc -> {"start", "write", "llc", "remove", "done", "killed"}]
    BY DEF TypeOK
<1>1. ASSUME NEW p \in Proc, Open(p) \/ Write(p) \/ RunLlc(p) \/ OpenFails(p) \/ Kill(p)
      PROVE  TempRemoved'
    <2>1. InUse(p)' \/ pc'[p] = "killed"
        BY <1>0, <1>1 DEF Open, Write, RunLlc, OpenFails, Kill, InUse
    <2> QED
        BY <2>1 DEF TempRemoved
<1>2. ASSUME NEW p \in Proc, Remove(p) PROVE TempRemoved'
    BY <1>2 DEF Remove, TempRemoved
<1>3. CASE UNCHANGED vars
    BY <1>3 DEF vars, TempRemoved, InUse
<1> QED
    BY <1>1, <1>2, <1>3 DEF Next, Step, Terminated

-----------------------------------------------------------------------------
LEMMA InitInv == Init => IInv
<1> SUFFICES ASSUME Init PROVE IInv
    OBVIOUS
<1>1. TypeOK
    <2>1. <<>> \in Seq(Piece)
        OBVIOUS
    <2> QED
        BY <2>1, FileAssumption DEF Init, TypeOK, Piece
<1>2. OpenInv /\ AloneInv /\ AloneIsRight /\ TempRemoved
    BY DEF Init, OpenInv, AloneInv, AloneIsRight, TempRemoved, InUse
<1> QED
    BY <1>1, <1>2 DEF IInv

LEMMA Invariance == Spec => []IInv
<1>1. IInv /\ [Next]_vars => IInv'
    BY StepType, StepAlone, StepRight, StepTemp DEF IInv
<1> QED
    BY InitInv, <1>1, PTL DEF Spec

\* Whatever the processes do to each other's files, the state is of its type; in
\* particular a process never writes past the end of its text.
THEOREM FilesTypeCorrect == Spec => []TypeOK
<1>1. IInv => TypeOK
    BY DEF IInv
<1> QED
    BY Invariance, <1>1, PTL

\* However many compilers were interrupted in the directory before, one that has
\* temp.ll for itself gets the object of its own IR.
THEOREM AloneGetsItsObject == Spec => []AloneIsRight
<1>1. IInv => AloneIsRight
    BY DEF IInv
<1> QED
    BY Invariance, <1>1, PTL

\* temp.ll outlives the compilers only if one of them was interrupted.
THEOREM LeavesNoTemp == Spec => []TempRemoved
<1>1. IInv => TempRemoved
    BY DEF IInv
<1> QED
    BY Invariance, <1>1, PTL
=============================================================================
