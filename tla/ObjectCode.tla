----------------------------- MODULE ObjectCode -----------------------------
(***************************************************************************)
(* generate_object_code of src/ast/ast_llvm.c, run by several compiler     *)
(* processes in one directory: each writes its IR to the file temp.ll, has *)
(* llc compile that file to the path it was given, and removes the file.   *)
(* Files are inodes, as POSIX has them: a removed or truncated file that   *)
(* is open is still written to.  llc reads its input in one step.          *)
(***************************************************************************)
EXTENDS Naturals, Sequences

CONSTANTS
    Proc,                \* compiler processes, each run once
    Ir, Valid,           \* texts of IR, those that llc accepts
    Pieces(_),           \* in how many writes a text gets to the file
    Path, LongPath,      \* places of object files, those too long for cmd[256]
    Cut(_),              \* what is left of a long path in cmd
    EmptyModule,         \* the text that llc finds on the exhausted stdin
    Mixed,               \* an object that is compiled from pieces of several texts
    NULL

ASSUME FileAssumption ==
    /\ Valid \subseteq Ir /\ LongPath \subseteq Path /\ EmptyModule \notin Ir
    /\ \A i \in Ir : Pieces(i) \in Nat \ {0}
    /\ \A l \in LongPath : Cut(l) \in Path \ LongPath
    /\ NULL \notin Proc \cup Ir \cup {EmptyModule, Mixed}

VARIABLES
    pc,       \* of each process
    ir, out,  \* its arguments llvm_ir and output_file
    temp,     \* the inode that the name temp.ll links to, or NULL
    file,     \* what is in each inode: a piece or NULL at each position
    fd,       \* the inode that a process has open, or NULL
    pos,      \* how many pieces it has written
    objs,     \* the object at each path, or NULL
    made,     \* history: what llc made for each process, or NULL
    overlap   \* history: those that had temp.ll in use while another had

vars == <<pc, ir, out, temp, file, fd, pos, objs, made, overlap>>

-----------------------------------------------------------------------------
\* An inode is named after the process that created it.
Text(i)     == [k \in 1 .. Pieces(i) |-> <<i, k>>]
InUse(p)    == pc[p] \in {"write", "llc", "remove"}

\* Mutant: what an interrupted process left in temp.ll stays in it.
Open_NoTruncation(p) ==
    /\ pc[p] = "start"
    /\ LET inode == IF temp = NULL THEN p ELSE temp
       IN /\ temp' = inode
          /\ fd' = [fd EXCEPT ![p] = inode]
    /\ pc' = [pc EXCEPT ![p] = "write"]
    /\ overlap' = LET others == {q \in Proc \ {p} : InUse(q)}
                  IN IF others = {} THEN overlap ELSE overlap \cup others \cup {p}
    /\ UNCHANGED <<ir, out, file, pos, objs, made>>

\* fopen(..., "w") creates temp.ll, or truncates the one that is there.
Open(p) ==
    /\ pc[p] = "start"
    /\ LET inode == IF temp = NULL THEN p ELSE temp
       IN /\ temp' = inode
          /\ file' = [file EXCEPT ![inode] = <<>>]
          /\ fd' = [fd EXCEPT ![p] = inode]
    /\ pc' = [pc EXCEPT ![p] = "write"]
    /\ overlap' = LET others == {q \in Proc \ {p} : InUse(q)}
                  IN IF others = {} THEN overlap ELSE overlap \cup others \cup {p}
    /\ UNCHANGED <<ir, out, pos, objs, made>>

\* The file cannot be opened: fprintf is given NULL.
OpenFails(p) ==
    /\ pc[p] = "start"
    /\ pc' = [pc EXCEPT ![p] = "killed"]
    /\ UNCHANGED <<ir, out, temp, file, fd, pos, objs, made, overlap>>

\* Mutant: one write too many.
Write_OneMore(p) ==
    /\ pc[p] = "write"
    /\ file' = [file EXCEPT ![fd[p]] = Append(@, <<ir[p], pos[p] + 1>>)]
    /\ pos' = [pos EXCEPT ![p] = @ + 1]
    /\ pc' = [pc EXCEPT ![p] = IF pos[p] = Pieces(ir[p]) THEN "llc" ELSE "write"]
    /\ UNCHANGED <<ir, out, temp, fd, objs, made, overlap>>

\* stdio writes the next piece where the process stands in the file, over what is
\* there; before it there may be a hole.  fclose writes the last one.
Write(p) ==
    /\ pc[p] = "write"
    /\ LET k == pos[p] + 1
           old == file[fd[p]]
           at(j) == IF j = k THEN <<ir[p], k>>
                    ELSE IF j <= Len(old) THEN old[j] ELSE NULL
           size == IF k > Len(old) THEN k ELSE Len(old)
       IN /\ file' = [file EXCEPT ![fd[p]] = [j \in 1 .. size |-> at(j)]]
          /\ pos' = [pos EXCEPT ![p] = k]
          /\ pc' = [pc EXCEPT ![p] = IF k = Pieces(ir[p]) THEN "llc" ELSE "write"]
          /\ fd' = [fd EXCEPT ![p] = IF k = Pieces(ir[p]) THEN NULL ELSE @]
    /\ UNCHANGED <<ir, out, temp, objs, made, overlap>>

\* What llc may make of a file: nothing when it rejects it.
Compiled(text) ==
    IF \E i \in Ir : text = Text(i)
    THEN {IF i \in Valid THEN i ELSE NULL : i \in {j \in Ir : text = Text(j)}}
    ELSE {NULL, Mixed}

\* system("llc ... -o=out temp.ll"); its status is ignored.  A long path leaves no
\* place for the name of the input, or for all of it: llc compiles stdin, to a path
\* cut short, or finds no file.
RunLlc(p) ==
    /\ pc[p] = "llc"
    /\ \E o \in IF out[p] \in LongPath THEN {EmptyModule, NULL}
                ELSE IF temp = NULL THEN {NULL}
                ELSE Compiled(file[temp]) :
         /\ made' = [made EXCEPT ![p] = o]
         /\ objs' = IF o = NULL THEN objs
                    ELSE [objs EXCEPT ![IF out[p] \in LongPath THEN Cut(out[p]) ELSE out[p]] = o]
    /\ pc' = [pc EXCEPT ![p] = "remove"]
    /\ UNCHANGED <<ir, out, temp, file, fd, pos, overlap>>

\* Mutant: only a successful llc is cleaned up after.
Remove_OnSuccess(p) ==
    /\ pc[p] = "remove"
    /\ temp' = IF made[p] = NULL THEN temp ELSE NULL
    /\ pc' = [pc EXCEPT ![p] = "done"]
    /\ UNCHANGED <<ir, out, file, fd, pos, objs, made, overlap>>

\* remove(), whose failure is ignored.
Remove(p) ==
    /\ pc[p] = "remove"
    /\ temp' = NULL
    /\ pc' = [pc EXCEPT ![p] = "done"]
    /\ UNCHANGED <<ir, out, file, fd, pos, objs, made, overlap>>

\* A process is interrupted; pieces not yet written are lost.
Kill(p) ==
    /\ InUse(p)
    /\ pc' = [pc EXCEPT ![p] = "killed"]
    /\ fd' = [fd EXCEPT ![p] = NULL]
    /\ UNCHANGED <<ir, out, temp, file, pos, objs, made, overlap>>

Terminated == (\A p \in Proc : pc[p] \in {"done", "killed"}) /\ UNCHANGED vars

-----------------------------------------------------------------------------
Init ==
    /\ pc = [p \in Proc |-> "start"]
    /\ ir \in [Proc -> Ir]
    /\ out \in [Proc -> Path]
    /\ temp = NULL
    /\ file = [p \in Proc |-> <<>>]
    /\ fd = [p \in Proc |-> NULL]
    /\ pos = [p \in Proc |-> 0]
    /\ objs = [o \in Path |-> NULL]
    /\ made = [p \in Proc |-> NULL]
    /\ overlap = {}

Step(p) == Open(p) \/ Write(p) \/ RunLlc(p) \/ Remove(p)

Next == (\E p \in Proc : Step(p) \/ OpenFails(p) \/ Kill(p)) \/ Terminated

Spec == Init /\ [][Next]_vars

-----------------------------------------------------------------------------
(* Properties *)

TypeOK ==
    /\ pc \in [Proc -> {"start", "write", "llc", "remove", "done", "killed"}]
    /\ ir \in [Proc -> Ir] /\ out \in [Proc -> Path]
    /\ temp \in Proc \cup {NULL}
    /\ file \in [Proc -> Seq({NULL} \cup UNION {{<<i, k>> : k \in 1 .. Pieces(i)} : i \in Ir})]
    /\ fd \in [Proc -> Proc \cup {NULL}]
    /\ pos \in [Proc -> Nat] /\ \A p \in Proc : pos[p] <= Pieces(ir[p])
    /\ objs \in [Path -> Ir \cup {EmptyModule, Mixed, NULL}]
    /\ made \in [Proc -> Ir \cup {EmptyModule, Mixed, NULL}]
    /\ overlap \subseteq Proc

\* A process that had temp.ll for itself gets the object of its own IR, also after
\* others that were interrupted and have left a part of their text in temp.ll.
AloneIsRight ==
    \A p \in Proc : pc[p] \in {"remove", "done"} /\ p \notin overlap /\ out[p] \notin LongPath =>
        made[p] = IF ir[p] \in Valid THEN ir[p] ELSE NULL

\* temp.ll does not outlive the processes, unless one was interrupted.
TempRemoved ==
    temp # NULL => \E p \in Proc : InUse(p) \/ pc[p] = "killed"

\* "your compiler should output an object code file in the location specified by
\* the argument": a run to its end leaves an object at its path if llc accepts the IR.
OutputsObject ==
    \A p \in Proc : pc[p] = "done" /\ ir[p] \in Valid => objs[out[p]] # NULL
=============================================================================
