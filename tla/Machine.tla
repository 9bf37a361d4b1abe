------------------------------ MODULE Machine ------------------------------
(***************************************************************************)
(* The compiler and the machine that runs its output: CodeGen builds the   *)
(* function, llc takes or rejects it (module LLVM), and target() executes  *)
(* an accepted function one instruction at a time.                         *)
(***************************************************************************)
EXTENDS LLVM

CONSTANT Truthy(_)       \* fcmp one x, 0.0

VARIABLES
    phase,    \* "compile", "rejected", "run" or "returned"
    pc,       \* the place of the next instruction
    regs,     \* the registers written so far: a float, or the address of a variable's slot
    unset,    \* variables whose slot holds no value since its last alloca
    env,      \* memory: the value last stored to each variable's slot
    result    \* what target() returned

machine == <<pc, regs, unset, env, result>>
machineVars == <<vars, phase, machine>>

-----------------------------------------------------------------------------
(* generate_object_code: the printed module goes through llc. *)

Compile == GenStep /\ UNCHANGED <<phase, machine>>

\* Mutant: a null operand in the text is overlooked.
Assemble_NullOperands ==
    /\ phase = "compile" /\ status # "gen"
    /\ phase' = IF status = "done" /\ AllClosed /\ NumberingOK /\ DefsDominateUses
                THEN "run" ELSE "rejected"
    /\ UNCHANGED <<vars, machine>>

\* Mutant: the text is parsed and not verified.
Assemble_NotVerified ==
    /\ phase = "compile" /\ status # "gen"
    /\ phase' = IF status = "done" /\ AllClosed /\ NumberingOK /\ NoNullOperand
                THEN "run" ELSE "rejected"
    /\ UNCHANGED <<vars, machine>>

Assemble ==
    /\ phase = "compile" /\ status # "gen"
    /\ phase' = IF status = "done" /\ Accepted THEN "run" ELSE "rejected"
    /\ UNCHANGED <<vars, machine>>

-----------------------------------------------------------------------------
(* The machine. *)

Instruction == InstrAt(pc)
Executing(ins) == phase = "run" /\ Instruction.ins = ins

\* The place of the instruction that computes v.
DefPlace(v) == <<v.bb, v.ix>>

\* The variable whose slot ptr points to: the address of a slot is its variable.
SlotVar(ptr) == regs[DefPlace(ptr)]

RegVal(v) == IF v.kind = "const" THEN v.val ELSE regs[DefPlace(v)]

Advance == pc' = <<pc[1], pc[2] + 1>>
JumpTo(b) == pc' = <<b, 1>>
Write(x) == regs' = [r \in {pc} \cup DOMAIN regs |-> IF r = pc THEN x ELSE regs[r]]

\* A new slot, every time the instruction is executed: its content is undefined.
ExecAlloca ==
    /\ Executing("alloca")
    /\ Write(Instruction.var)
    /\ unset' = unset \cup {Instruction.var}
    /\ Advance
    /\ UNCHANGED <<vars, phase, env, result>>

\* Reading a slot that was never stored to gives any value.
ExecLoad ==
    /\ Executing("load")
    /\ LET x == SlotVar(Instruction.ptr)
       IN IF x \in unset THEN \E v \in Val : Write(v) ELSE Write(env[x])
    /\ Advance
    /\ UNCHANGED <<vars, phase, unset, env, result>>

ExecStore ==
    /\ Executing("store")
    /\ LET x == SlotVar(Instruction.ptr)
       IN /\ env' = [env EXCEPT ![x] = RegVal(Instruction.val)]
          /\ unset' = unset \ {x}
    /\ Advance
    /\ UNCHANGED <<vars, phase, regs, result>>

ExecBinop ==
    /\ Executing("binop")
    /\ Write(Apply(Instruction.op, RegVal(Instruction.lhs), RegVal(Instruction.rhs)))
    /\ Advance
    /\ UNCHANGED <<vars, phase, unset, env, result>>

ExecBr ==
    /\ Executing("br")
    /\ JumpTo(Instruction.to)
    /\ UNCHANGED <<vars, phase, regs, unset, env, result>>

Taken == Truthy(RegVal(Instruction.cond))

ExecCondBr ==
    /\ Executing("condbr")
    /\ JumpTo(IF Taken THEN Instruction.then ELSE Instruction.else)
    /\ UNCHANGED <<vars, phase, regs, unset, env, result>>

ExecRet ==
    /\ Executing("ret")
    /\ result' = RegVal(Instruction.val)
    /\ phase' = "returned"
    /\ UNCHANGED <<vars, pc, regs, unset, env>>

Exec ==
    \/ ExecAlloca \/ ExecLoad \/ ExecStore \/ ExecBinop
    \/ ExecBr \/ ExecCondBr \/ ExecRet

-----------------------------------------------------------------------------
MachineInit ==
    /\ Init
    /\ phase = "compile"
    /\ pc = <<1, 1>>
    /\ regs = <<>>
    /\ unset = Var
    /\ env = [x \in Var |-> NULL]
    /\ result = NULL

Stopped == phase \in {"rejected", "returned"} /\ UNCHANGED machineVars

MachineNext == Compile \/ Assemble \/ Exec \/ Stopped

MachineSpec == MachineInit /\ [][MachineNext]_machineVars

-----------------------------------------------------------------------------
(* Properties *)

\* Types: in particular control never runs past the end of a block nor to a
\* place that is none, and memory and registers hold floats, but for addresses.
MachineTypeOK ==
    /\ phase \in {"compile", "rejected", "run", "returned"}
    /\ phase = "run" => pc \in Places
    /\ DOMAIN regs \subseteq Places
    /\ \A r \in DOMAIN regs : regs[r] \in IF InstrAt(r).ins = "alloca" THEN Var ELSE Val
    /\ unset \subseteq Var
    /\ env \in [Var -> Val \cup {NULL}] /\ \A x \in Var \ unset : env[x] \in Val
    /\ result \in Val \cup {NULL}

\* No instruction reads a register that was not written on the way to it,
\* whatever branches and breaks were taken on that way.
WrittenBeforeRead ==
    phase = "run" => \A v \in Reads(pc) : DefPlace(v) \in DOMAIN regs

\* An accepted function reads no slot before the first store to it, although an
\* alloca in a loop gives the variable a new slot on every iteration.  (The parser's
\* recovery from an error may leave x = x as the first assignment to x.)
NoUndefinedRead ==
    ParserAccepts(ast) /\ phase = "run" /\ Instruction.ins = "load" =>
        SlotVar(Instruction.ptr) \notin unset
=============================================================================
