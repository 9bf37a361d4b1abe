----------------------------- MODULE TargetExec -----------------------------
(***************************************************************************)
(* The function that target() runs means what its source means.  The       *)
(* auxiliary variable cont relates an execution of Machine, which it does  *)
(* not constrain, to the program's meaning, module SourceSemantics, which  *)
(* this module is shown to implement.                                      *)
(***************************************************************************)
EXTENDS Machine

VARIABLE cont     \* auxiliary: what is left of the source program

Src == INSTANCE SourceSemantics

allVars == <<machineVars, cont>>

-----------------------------------------------------------------------------
\* A store ends an assignment.
ExecAssignment ==
    /\ ExecStore
    /\ cont' = IF cont = <<>> THEN cont ELSE Src!Unfold(Tail(cont))

\* A conditional branch ends a test.
ExecTest ==
    /\ ExecCondBr
    /\ cont' = IF Src!AtTest THEN Src!AfterTest(cont, Taken) ELSE cont

Work ==
    \/ Compile /\ UNCHANGED cont
    \/ Assemble /\ UNCHANGED cont
    \/ ExecAlloca /\ UNCHANGED cont
    \/ ExecLoad /\ UNCHANGED cont
    \/ ExecAssignment
    \/ ExecBinop /\ UNCHANGED cont
    \/ ExecBr /\ UNCHANGED cont
    \/ ExecTest
    \/ ExecRet /\ UNCHANGED cont

ExecInit == MachineInit /\ cont = Src!Unfold(<<ast>>)
ExecNext == Work \/ (Stopped /\ UNCHANGED cont)

ExecSpec == ExecInit /\ [][ExecNext]_allVars /\ WF_allVars(Work)

-----------------------------------------------------------------------------
(* Properties *)

\* README.md, "the IR you generate should exactly reproduce the computation
\* specified in the source program": whenever llc takes the function, target()
\* makes the assignments of the source program, in its order and with its
\* values, takes its branches and returns its result; and it never stops short
\* or spins between two of these steps.
ReproducesSource == Src!Spec /\ (<>(phase = "rejected") \/ Src!Fairness)
=============================================================================
