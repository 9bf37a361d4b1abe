-------------------------- MODULE SourceSemantics --------------------------
(***************************************************************************)
(* What a program means, whatever it is compiled to: README.md promises    *)
(* that the generated code exactly reproduces the computation specified in *)
(* the source program and that target() returns the last value of the      *)
(* variable return_value, or 0 when the program never assigns one.  A      *)
(* break leaves the loop it is immediately in; one that is in no loop does *)
(* nothing.                                                                *)
(*                                                                         *)
(* cont is what is left to execute; the marker LOOP stands where control   *)
(* goes back to test a loop's condition again.  A step is an assignment, a *)
(* test or the return; blocks and breaks are unfolded between steps.       *)
(***************************************************************************)
EXTENDS AST

CONSTANT Truthy(_)       \* a condition holds: fcmp one x, 0.0

VARIABLES cont, env, result

vars == <<cont, env, result>>

Loop(s) == [type |-> "LOOP", loop |-> s]

RECURSIVE Eval(_, _)
Eval(e, rho) ==
    CASE e.type = "ID_EXPR"    -> rho[e.id]
      [] e.type = "CONST_EXPR" -> e.val
      [] e.type = "BINOP_EXPR" -> Apply(e.op, Eval(e.lhs, rho), Eval(e.rhs, rho))

\* The continuation of a break: what follows the innermost enclosing loop.
AfterBreak(k) ==
    LET loops == {i \in DOMAIN k : k[i].type = "LOOP"}
    IN IF loops = {} THEN Tail(k)
       ELSE SubSeq(k, (CHOOSE i \in loops : \A j \in loops : i <= j) + 1, Len(k))

RECURSIVE Unfold(_)
Unfold(k) ==
    IF k = <<>> THEN k
    ELSE CASE Head(k).type = "BLOCK"      -> Unfold(Head(k).stmts \o Tail(k))
           [] Head(k).type = "BREAK_STMT" -> Unfold(AfterBreak(k))
           [] OTHER                       -> k

Branch(s, taken) ==
    CASE s.type = "IF_STMT" ->
           IF taken THEN <<s.if_block>>
           ELSE IF s.else_block = NULL THEN <<>> ELSE <<s.else_block>>
      [] s.type = "WHILE_STMT" -> IF taken THEN <<s.block, Loop(s)>> ELSE <<>>

\* The statement whose turn it is.
Current(k) == IF Head(k).type = "LOOP" THEN Head(k).loop ELSE Head(k)

AfterTest(k, taken) == Unfold(Branch(Current(k), taken) \o Tail(k))

TypeOK ==
    /\ \A i \in DOMAIN cont : cont[i].type \in
           {"ASSIGN_STMT", "IF_STMT", "WHILE_STMT", "BREAK_STMT", "BLOCK", "LOOP"}
    /\ env \in [Var -> Val \cup {NULL}]
    /\ result \in Val \cup {NULL}

Init ==
    /\ cont \in {Unfold(<<p>>) : p \in Programs}
    /\ env = [v \in Var |-> NULL]
    /\ result = NULL

Execute ==
    /\ cont # <<>> /\ Head(cont).type = "ASSIGN_STMT"
    /\ env' = [env EXCEPT ![Head(cont).lhs] = Eval(Head(cont).rhs, env)]
    /\ cont' = Unfold(Tail(cont))
    /\ UNCHANGED result

AtTest == cont # <<>> /\ Current(cont).type \in {"IF_STMT", "WHILE_STMT"}

Test ==
    /\ AtTest
    /\ cont' = AfterTest(cont, Truthy(Eval(Current(cont).condition, env)))
    /\ UNCHANGED <<env, result>>

Return ==
    /\ cont = <<>> /\ result = NULL
    /\ result' = IF env[ReturnValue] = NULL THEN Zero ELSE env[ReturnValue]
    /\ UNCHANGED <<cont, env>>

Next == Execute \/ Test \/ Return

Spec == Init /\ [][Next]_vars

\* A program that can take a step takes it.
Fairness == WF_vars(Next)
=============================================================================
