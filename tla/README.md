# Verification of the Python-subset compiler

The repository is a compiler in C, flex and bison: it reads a program in a small
subset of Python from stdin, prints an LLVM module with one function `target()`,
and, when it is given a path, has `llc` write an object file there. This directory
holds TLA+ models of its parts, TLC runs over small instances of them, and theorems
about the IR generator and the functions it emits, the scanner, the symbol table with its
iterator and the object code that TLAPS has checked for every value of the constants.

## 1. The system

| Component | Source | State | Operations |
|---|---|---|---|
| Driver | `src/main.c` | `symbols` | create the table, scan, generate, print, write the object, free |
| Scanner | `src/scanner.l` | stack of indentation widths, `yylineno`, `pstate` | one flex rule per match; every token is pushed to the parser (`PUSH_TOKEN`) |
| Parser | `src/parser.y` | the push parser's stack, `ast`, `have_err` | one reduction per grammar rule; error recovery to the end of a line |
| AST | `src/ast/ast_create.c`, `_ast_internal.h` | nodes, at most 16 statements in a block | constructors, append, free |
| Symbol table | `src/lib/hash.c` | chains, capacity, count | create, insert (with resize), remove, get, contains, free, iterate |
| IR generator | `src/ast/ast_llvm.c`:16-176 | LLVM builder and its position, `break_target`, values of the symbol table | recursive `gen_expr`, `gen_stmt`; `generate_llvm_ir` |
| Object code | `src/ast/ast_llvm.c`:178-188 | the file `temp.ll` | write it, run `llc`, remove it |
| GraphViz, strings | `src/ast/ast_graphviz.c`, `src/lib/strutils.c` | none | no longer called from `main` |

How they interact. The scanner drives: `yylex` pushes tokens into the parser, which
returns a status that ends the scan when it is not "more". The parser's actions build
the tree and use the symbol table as a set of the names assigned so far (each with
value NULL). The generator walks the finished tree and uses the same table to map each
name to its `alloca`, where NULL means "none yet". The printed module goes to stdout
and, through the file `temp.ll` of the working directory, to `llc`; neither the status of
`llc` nor an earlier error of the parser is looked at.

What is hard. The program is sequential, except that several compilers may run in one
directory. The difficulty lies in nesting and order: one global `break_target` for all
loops, basic blocks that are appended before code that appends more, allocas whose place
depends on the order of the walk, a resize that re-enters the insert it was called from,
indentation levels that are popped over several tokens, and runs of the compiler that are
interrupted or overlap. `PROJECT.json` lists these hazards with the line where each bites.

What makes each part correct:

- **IR generator**: a break leaves the innermost loop; every block is filled once and
  closed; the builder gets no null pointer; the emitted function does what the source does.
- **Symbol table**: it is a map; a resize is invisible, not recursive, and leaks nothing.
- **Scanner**: the stack holds the levels that the lines so far leave open; INDENT and
  DEDENT balance; only a line that returns to a level that is not open is refused.
- **Object code**: the object at the path is the one of the compiler's own IR; the
  temporary file goes away.
- **Parser, AST**: the tree is the one that layout, precedence and parentheses say; an error
  is reported and remembered, drops only text, and never keeps the compiler from ending;
  every node has one owner, also after errors.
- **Symbol table iterator**: it repeats nothing and misses nothing while it may be used.
- **GraphViz**: node names are unique, and the graph shows just the tree.

## 2. The modules

| Module | What it is |
|---|---|
| `Nodes` | nodes as records, and their constructors |
| `AST` | the nodes of a set of programs, assumptions on the constants |
| `CodeGen` | the generator as a state machine, its properties |
| `CodeGen_proofs` | theorems about `CodeGen` |
| `Syntax` | recursive functions on trees: names needed and assigned, breaks in loops |
| `LLVM` | what `llc` asks of a printed function; properties of the finished function |
| `LLVM_proofs` | theorems about the finished function |
| `SourceSemantics` | abstract: what a source program means |
| `Machine` | `CodeGen`, `llc` and the machine that runs the function, composed |
| `Machine_proofs` | theorems about it |
| `TargetExec` | `Machine` shown to implement `SourceSemantics` |
| `SymbolMap`, `HashTable` | abstract map; the chained table, shown to implement it |
| `HashIter` | the iterator, over a `HashTable` that goes on being used |
| `HashTable_proofs`, `HashIter_proofs` | theorems about them, the refinement of `SymbolMap` among them |
| `IndentScanner` | indentation, end of file, parser state |
| `IndentScanner_proofs` | theorems about it |
| `AstHeap` | constructors and `ast_node_free` on a heap of nodes and lexemes |
| `Parser` | the push parser on that heap: shifts, reductions, recovery |
| `FrontEnd` | `IndentScanner`, `Parser` and `main` composed; who owns what on the heap |
| `Reading` | what a source should be read as, and the properties that compare the parser's tree with it |
| `FrontEnd_proofs` | theorems about `FrontEnd` |
| `Graphviz` | the GraphViz generator and the string helpers |
| `ObjectCode` | several processes in `generate_object_code`, with interruption |
| `ObjectCode_proofs` | theorems about it |
| `MCPrograms`, `MC*` | source programs and constants for TLC |

**CodeGen.** A tree node is a record that holds its children; the constants `Expr` and
`Stmt` are sets of such records that are closed under "child of" (`SyntaxAssumption`).
The C call stack is the variable `stack`, and each action is one stretch of
`gen_expr`/`gen_stmt` between two recursive calls: `GenIf` runs up to the call for the
condition, `BuildIf` from there to the call for the if block, and so on. `blocks` is the
function under construction, `cur` the block in which the builder stands,
`symbols` the values of the hash table. A register is named by the place of the
instruction that computes it. Of LLVM's builder only what it does to the function is
modelled: it appends, and it folds an operator on two constants. The kinds of constant
(float, int, bool) are one, and the `fcmp` of a condition is part of its branch. A null
pointer that is given to the builder is undefined behaviour: `Crash`, or an instruction
with a null operand. What the builder returns is never null (`BuilderAssumption`).

**Syntax.** `Needs` of a statement is the set of names it reads before it assigns them, in the
order of the text: the names that `primary_expression` would not find in a symbol table that
is empty when the statement begins. The parser takes a program that needs none
(`ParserAccepts`); `NamesAssigned` of `Reading` checks that this is what the push parser and its symbol table
do.

**LLVM** models a program that is not in the repository, from how the code uses it:
`generate_object_code` and the tests give it the *text* of the module. The text reader
starts a new unnamed block after each terminator and gives it the next value number; the
verifier wants each definition to dominate its reachable uses. Instructions after a
terminator are kept in `blocks`, since the printer prints them.

**Machine** runs the function, when `llc` takes it, one instruction per step. `regs` holds the
registers that the run has written: a float, or the address of a slot, which is named by its
variable. A variable whose slot is new is `unset`; a load of such a slot gives any value. A
condition is Python's truth of a number.

**TargetExec** adds `cont` to `Machine`. It is auxiliary: it holds what is left of the source
program, moves only when a store or a conditional branch is executed, and restricts
nothing; it makes the refinement mapping to `SourceSemantics` a plain one by name.

**HashTable.** A chain is a sequence of associations. `_hash_resize` calls `hash_insert`,
so that a running insert is an element of the stack `calls`, and each moved association
is a step. The hash function is a constant. Keys and values are opaque; a key's copy is
accounted for together with its association (`live`). The refinement maps the chains of
the new and of the old array to one abstract map, so that a resize is a stutter. After
`hash_free` the table is the array without chains, on which no call can be made any more.

**HashIter** adds one iterator to the table. An association is known by its key. The
history `stale` tells that the association the iterator points to was freed, by a remove, a
free or a resize; a caller must stop then, and the model's caller does. The histories
`stable` and `visited` hold the keys that were there all the time and the keys returned.
`IterAssumption` says that the null pointer is neither a key nor an iterator.

**AstHeap.** A heap is the sequence of all allocations, in which freed ones are marked. A
`struct ast_node` and its data are one object, a lexeme that the scanner copied is another,
and each object has the pointers it owns. The constructors and `block_node_append_stmt` are
functions from heaps to heaps, with what they free when a child is NULL.

**Parser.** bison's tables are modelled by what they do: which tokens a state shifts is
said by the symbols on top of the stack (`Expected`), which production it reduces by the
action's guard. This keeps three things that a grammar alone does not say: a state with only
one reduction reduces *before* it asks for a token (`IsConsistent`), a state with a
default reduction reduces on a wrong token too, and so enters names and frees nodes before the
error is seen (`HasDefault`), and a state in which an error is acceptable has no
default. `SyntaxError` is `yyerrlab`: it reports unless an error came within three tokens,
pops to the last state that accepts an error, and discards the token when the state after
it cannot use it. Names are a set here; that the table is a map is shown by `HashTable`.
Reductions that follow without looking at a token are part of the one before.

**FrontEnd** gives the scanner a source line by line, and the parser each token when it
asks for one; `main` frees the tree of an accepted program, or ends without one. A line has
a text, given by its tokens, and, for the reference, what it is: an assignment, a
header, a break, an else, or `bad`. `SourcesAssumption` says that a text holds only tokens
that the scanner's rules push. A place (`Places`) is where a pointer may be: a symbol on the
stack, the lookahead, a child of an object, `main`'s `ast`; `OneOwner` and `NothingLost`
compare the places with the heap.

**Reading** is the reference, independent of tokens and stacks: it
cuts the lines into blocks by their widths alone (`Body`, `After`, `IsBlock`) and reads them
into a tree, without the lines that are bad or use a name not assigned before (`Read`).
`IsProgram` says when a source has such a reading; other sources are inputs too, and
the properties say what must hold of them.

**IndentScanner.** A line is its width and what kind it is; the tokens in it are one
CODE. The text after the last newline is a kind of its own, since the rules for blank
lines and comments want a newline. `widths` and `tokens` are histories. The parser
may stop the scan at any token (`ParserStops`).

**ObjectCode.** `temp.ll` is a directory entry that links to an inode; a text is written
in one or two pieces. `Kill` is a signal at any point between two system calls. A path
is short, or too long for the buffer of 256 bytes, when the command loses its end.

**Graphviz.** A specification is the sequence of its lines, a name the sequence of
what was appended to the root's. `concat_strings` counts the room left as the code does. A
float is printed with six decimals. Each C function is an operator from a heap of strings to a
heap and the string it returns; it makes and frees the strings that the C function does,
one by one, the names and texts that only live during a call among them. A string that was freed
reads as garbage. `Seen` reads the tree back from the lines by following
edges, knowing nothing of how names are made.

## 3. The runs

| Run | Bounds | Result |
|---|---|---|
| `target_exec` | 4 statements at most in a program, three levels of nesting, 3 names, 3 values, executed to the end or for ever; about 167 000 states | hold |
| `hash_table` | 4 keys (3 of them collide), 2 values, first capacity 1, threshold 1; any sequence of calls, with at most one iterator at a time; while there is one, all values are NULL; about 215 000 states | hold |
| `indent_scanner` | 5 lines, widths 0, 1, 2, 3, 5, a stack of 4 levels; about 75 000 states | hold |
| `object_code` | 3 processes, texts of 1 and 2 pieces and a rejected one, 3 paths; about 3.2 million states, symmetry of the processes | hold |
| `front_end` | about 4 100 sources: most three-line ones over 11 texts and 2 widths, seven to nine lines around a loop with an if, with bad headers, bad lines and elses at 3 levels, blocks that overflow, levels that overflow or do not match, inputs that end early; 3 statements in a block, 3 levels; about 320 000 states | hold |
| `graphviz` | 748 trees with every kind of node and up to three levels of blocks | hold |
| `break_numbering`, `first_assignment`, `stray_break` | as `target_exec` | violated |
| `error_compiled` | as `front_end` | violated |
| `parser_state` | 2 lines | violated |
| `temp_file_race` | 2 processes | violated |

Why these bounds are enough to meet the interesting cases. The programs nest if, if/else, while
and break in each other in every order up to two levels inside a statement, with a
name that is first assigned anywhere; `break_target` is saved and restored twice, and a
break occurs before, in and after an inner loop. The generator treats deeper nesting by
the same frames, and for its own invariants the proofs remove the bound. With capacity 1
and threshold 1 the table is resized twice by four keys; the code's 128 and 5 only delay
that. Four levels of the stack are exhausted by five lines. Three processes allow one to
come between two others, and after one that was interrupted. The parser's stack is a
regular matter of what is on top: three lines meet every error at every place of a
statement, next to each other and at both sides of a change of level, and the longer
sources put them inside, after and before nested blocks with an else. 3 statements in a block stand for
the 16 of `AST_NODE_MAX_CHILDREN`, 3 levels for the 128 of the scanner.

What the runs show, beyond that the listed properties hold:

- `ScopeDecidesAcceptance`: without breaks, `llc` takes a function if and only if every
  name is used in the block of its first assignment or inside it. This is the exact extent
  of the defect that `first_assignment` shows: Python has no block scope.
- `ReproducesSource`: a function that `llc` takes implements the source program step by
  step and keeps going as long as the source program does. This includes the accepted
  programs with breaks, those in which no load follows a break in the text.
- `MachineTypeOK`, `WrittenBeforeRead`: the tests of `llc`, which are on the text, are enough for
  every run: control stays in the blocks, whatever a break leaves behind, and a register
  is read only after the run has written it.
- `NoUndefinedRead`: an alloca in a loop, though it makes a new slot each time, is harmless
  in every accepted program. It takes `ParserAccepts`: after a reported error the statement that is left
  may be `x = x`, which reads its own new slot.
- `TreeIsReading`, `AcceptsPrograms`: lines that are wrong only within themselves are dropped
  one by one, and the rest is read as if they were not there, but for the names that
  they assign. A block with 16 statements and an unreadable 17th is left out of `AcceptsPrograms`: it
  ends the compiler, though `ast_create.c`:222 says that a NULL statement is ignored.
- `RecoveryOnlyDrops`: after an error in a header the structure may change, since the DEDENT
  of its body closes the block around it, but what is kept is in the order of the text.
- `ErrorsReported`: `have_err` is exact, so the compiler could stop where
  `error_compiled` shows that it does not.
- `NodesComplete`, `NamesAssigned`: these two are what the generator relies on, the first of
  every tree it is given, the second of those without a reported error; they are what
  `SyntaxAssumption` and `ParserAccepts` assume where the generator is checked alone.
- `OneOwner`, `NothingLost`: no constructor frees twice; the only thing a source without a
  syntax error leaks is the lexeme of each unknown name. A syntax error leaks what bison pops.
- `IterVisitsOnce`: inserts without a resize and removes of other keys are safe while one
  iterates; nothing in `hash.h` says that the others are not.
- `LosesOnlyIndexes`: however a tree nests, no string of the GraphViz generator is freed twice, and
  all are freed but one for every statement in a block, the index of `ast_graphviz.c`:307, which
  is made in the argument list of the call that copies it.
- `AloneIsRight`: a half-written `temp.ll` left by an interrupted compiler does no harm to
  the next, because `fopen` truncates it.

The violated runs are disagreements between the code and what the repository says of it;
`PROJECT.json` quotes each. `tests/llvm_ir/` holds the output of another generator, which
puts every alloca into the entry block and names its loads: there neither `first_assignment`
nor `break_numbering` could occur.

`CHECK_DEADLOCK` is on everywhere. Where the program ends, a step `Terminated`, `Done` or
`Stopped` repeats the last state.

**Fairness.** The compiler and the target function are sequential: nothing but the program
itself decides when it continues. `CodeGen` and `TargetExec` therefore assume weak fairness
of their steps, `FrontEnd` of the compiler's next step (`CompilerEnds` then says that no input keeps
it busy for ever), and `HashTable` of a running insert; calls *of* the table are not assumed. `IndentScanner` and `ObjectCode` assume none and state safety only.

## 4. What is proved

`CodeGen_proofs` proves, for every set of programs, names, values and operators that satisfies the three assumptions of `AST` (children of nodes are nodes,
operators are total on values, NULL is neither a node nor a number):

| Theorem | Statement |
|---|---|
| `TypeCorrect` | `Spec => []TypeOK` |
| `FilledOnce` | `Spec => []BlocksFilledOnce` |
| `AllBlocksClosed` | `Spec => []EveryBlockClosed` |
| `BreakLeavesInnermost` | `Spec => []BreakTargetIsInnermost` |

The argument. `TypeOK` is inductive with one addition that is part of it: a frame that
awaits a value lies right under a `gen_expr`, so that a frame on top finds `ret` set.
`BlocksFilledOnce` says which frame owes which empty block. It is inductive together with
`TypeOK` and with the fact that at the end the stack is empty: an action that moves the
builder moves it to a block that the frame on top owes, which no other frame owes, and the
block it leaves has just got a terminator. `EveryBlockClosed` follows, because an empty stack
owes nothing and `Finish` closes the last block. For `BreakTargetIsInnermost` the
invariant that is kept says in addition, for each loop frame of the stack, that the
`old` it saved is the target in the frames below it; restoring `old` is then right.

`LLVM_proofs` proves, under the same assumptions and `BuilderAssumption`, so for trees of any
depth and blocks of any length:

| Theorem | Statement |
|---|---|
| `ReadsOnlyAllocated` | `Spec => []NoNullPointer` |
| `NothingDead` | `Spec => []OneTerminatorWithoutBreak` |

The argument. The parser asks the symbol table for names while it reads the text; the generator
asks it for allocas while it walks the tree. That the second finds what the first promised
is the invariant `ScopeInv`: every name that a frame of the C stack still has to read before it
assigns it (`FrameNeeds`) has an alloca, or is assigned by a frame above it, which
is done before (`FrameAdds`). `Divides` and `Completes` say what keeps it: a call divides what
the running function has left among the callee and the rest, in the order of the text,
and what a function that returns was to assign has its alloca. `BreakInv`
says that a frame with no loop under it or in it has breaks only in loops of its own; with
`BreakTargetIsInnermost` a break then finds a block. `NullInv` and `OnceInv` are these,
and what they imply of the blocks: no null operand, and a terminator only at the end of a
block that is left. That a builder moves only to an empty block is `BlocksFilledOnce`.

Both theorems speak of recursive functions on trees, but need no induction over trees: the
invariants go down the tree one level per call and use only the functions' defining
equations. A recursive function in TLA+ is a `CHOOSE`, and its equation holds if
there is such a function; `BreakFreeIs`, `UsesIs`, `AssignedIs` and `NeedsIs` get one from a fixed
point of a monotone operator on sets of nodes, or of pairs of a node and a name (`FixedPoint`),
for any set of nodes, also one in which a node could contain itself.

`Machine_proofs` proves, under the same assumptions, for every program, all results of the
branches and any content of a new slot:

| Theorem | Statement |
|---|---|
| `MachineTypeCorrect` | `MachineSpec => []MachineTypeOK` |
| `ReadsAreOfWritten` | `MachineSpec => []WrittenBeforeRead` |
| `SlotsAreStored` | `MachineSpec => []NoUndefinedRead` |

The argument. `OperandInv` follows the operands while the function is built: a pointer is the
alloca of its variable, a value is a constant, a load or an operation, and a branch leads to a block
that was created. So an accepted function has the shape that an execution needs (`Taking`).
`llc` accepts it by paths: the blocks that can be reached without passing a given one
(`ReachableAvoiding`, a search of as many steps as there are blocks). `ReachFacts` says that this
is closed under branches: the search grows in each step until it stops, and there are not
enough blocks for it never to stop. The invariant about a run is then
`UnwrittenAhead`: every place that writes a register and is not written yet is `Ahead`
of control, so that a path from here to what it dominates goes through it. A step keeps what is
ahead, but for the place that it executes, and what an instruction reads is not ahead.

For `NoUndefinedRead` the same is said of the first store to each slot (`FirstStoreAhead`). It
needs to know where that store is: `StoreInv` follows the generator from an alloca to the store
that ends the assignment. Until then the slot is `Pending`, a frame of the C stack is to store to it;
afterwards it is `Initialised`: the store is in the block of the alloca, and no
instruction between them touches the slot. The code of the right-hand side is between them, and that
it does not read the name is what the parser has tested (`ScopeInv` of `LLVM_proofs`).

The theorems are about `MachineSpec`. Every step of `ExecSpec` is a step of it, since `TargetExec`
conjoins to each action of `Machine` what becomes of `cont`; that this implication is not a theorem as well is
because `SourceSemantics`, which `TargetExec` instantiates, has RECURSIVE operators.

`IndentScanner_proofs` proves, for every set of widths, number of lines and size of the
stack (`ScannerAssumption`: widths are naturals, and there is room for one level):

| Theorem | Statement |
|---|---|
| `ScannerTypeCorrect` | `Spec => []TypeOK` |
| `IndexInBounds` | `Spec => []StackInBounds` |
| `HoldsOpenLevels` | `Spec => []StackIsOpenLevels` |
| `RefusesOnlyBad` | `Spec => []RefusesOnlyBadLevels` |
| `TokensBalance` | `Spec => []Balanced` |

The argument. `indent_stack_pop` tests nothing, so that bounds cannot follow from it. They
follow from `BottomInv`: the entry at index 0 is 0 and is popped only on the way to an
error: two of the loops that pop stop at a 0, and the one for an indented line passes it
only when no level left is the line's. For the other two theorems `OpenInv` adds what holds *between* the turns of those
loops: the stack is sorted and holds just the open levels that are not above its top; and
if the line's level is open it has not been popped yet. `OpenAfter` says which levels a
further line closes and opens; `LevelsBelow`, `AtTopLevel` and `AboveTop` follow the stack
through a pop, an equal level and a push.

For `TokensBalance` the invariant is that INDENT minus DEDENT, counted over the tokens
pushed so far, is the index of the top of the stack between two turns of a loop: each push
of a level sends one INDENT and each pop that is not on the way to an error one DEDENT.

`HashTable_proofs` proves, for every set of keys and values, every hash function into the
naturals, every first capacity and threshold of one or more (`TableAssumption`):

| Theorem | Statement |
|---|---|
| `TableTypeCorrect` | `Spec => []TypeOK` |
| `TableSearchable` | `Spec => []Searchable` |
| `NoRecursiveResize` | `Spec => []ResizeNotRecursive` |
| `LoadBounded` | `Spec => []LoadBound` |
| `NothingLeaks` | `Spec => []HeapAccounted` |
| `ImplementsMap` | `Spec => IsSymbolMap` |

The argument. One invariant carries all six (`Invariance`). `ShapeInv` says which stacks of
calls there are: none, one insert, or an insert in a resize with at most one more insert above
it, which holds the first association left in the old array. `OldInv` is what
makes the claim of the comment in `_hash_resize` true: the capacity is twice that of the old
array, and the associations counted so far plus those left to move are at most one more
than the old load limit, which is no more than the new one; so the test for a resize fails in
every insert that a resize makes. That needs the keys of the new and of the old array to be
disjoint, and counts to be cardinalities of sets of places, which is what the lemmas on
`PutNew`, `PutOver` and `TakeOut` keep. `LiveInv` follows each association from its
allocation to the chain that links it. For the refinement, `Linked` describes the abstract map by the
places where associations stand, and each step is shown to be a step of the map or to leave
it alone: in a resize the association leaves the old array and is put into the new one, in
between it is in the call that carries it.

`HashIter_proofs` proves, under `TableAssumption` and `IterAssumption`:

| Theorem | Statement |
|---|---|
| `VisitsOnce` | `IterSpec => []IterVisitsOnce` |

The argument. Until it is stale, the iterator stands on an association that the table links.
`Ahead` is the set of keys after it, in its chain or in a later one. The invariant says that
no key it has returned is ahead, and that every key that was there all the time and is not ahead
has been returned. An insert without a resize puts its key at the head of a chain and a remove of
another key takes out one place, so both keep the order of the rest; a resize makes the
iterator stale, and one that still has a `next` is never left in the middle of a resize.

`ObjectCode_proofs` proves, for any set of processes, texts, paths and sizes that satisfies the
assumption of `ObjectCode`:

| Theorem | Statement |
|---|---|
| `FilesTypeCorrect` | `Spec => []TypeOK` |
| `AloneGetsItsObject` | `Spec => []AloneIsRight` |
| `LeavesNoTemp` | `Spec => []TempRemoved` |

The argument. Two processes that use `temp.ll` at the same time are both recorded in
`overlap`. So a process that is not in it is the only user of the file, between its `fopen`
and its `remove`, and `AloneInv` says what the file holds at each of its
steps: a prefix of its text while it writes, the text when `llc` reads it. `OpenInv` says that an open
descriptor is of a file that exists.

`FrontEnd_proofs` proves, for any set of sources of any length, any number of levels and
widths, any operators with any precedence, and any room in a block (`SourcesAssumption`, `ParserAssumption`: NULL
is no symbol with its value):

| Theorem | Statement |
|---|---|
| `FrontTypeCorrect` | `FrontSpec => []FrontTypeOK` |
| `OneOwnerHolds` | `FrontSpec => []OneOwner` |
| `NothingLostHolds` | `FrontSpec => []NothingLost` |
| `NodesCompleteHolds` | `FrontSpec => []NodesComplete` |

The argument. The invariant `FrontInv` has five parts. `HoldsInv` says that the heap is a forest
(`Forest`: what an object owns is live, nothing has two owners, and going from owner to owned
ends) and that each pointer of the parser is to a root of it, the pointers being different (`Owns`).
`HeldInv` is the converse: without a syntax error every root is held by the parser or by
`main`, or is the lexeme of an unknown name. Neither is inductive without the shape of the
stack (`Viable`): a reduction takes its operands from fixed places below the top, and that the
symbols there are those of its production, and that those it drops without a free carry no pointer,
follows from what may lie on what (`FitsOn`), not from the guard alone. `ErrorInv` says that an
error is silenced only after one was reported, `ResultInv` that an accepted program leaves
one symbol, whose tree `main` owns alone, and `InputInv` that the scanner gives only tokens
of the grammar, after each step of `IndentScanner`.

Each constructor has one lemma (`Yields`): it consumes the roots it is given, which are owned
by the result or freed with all below them, and adds no other. So a reduction keeps
the invariant if what it consumes is what it pops (`OwnsReduce`), and recovery, which
pops without a free, keeps `Owns` and gives up `HeldInv`, since it has counted an error.
`ast_node_free` is the recursive `Tree`; that it is the set of what is reached from a node
(`TreeIsReach`) needs no induction either: an acyclic heap gives the function's equation just
one solution, by the least object at which two solutions differ.

Only model-checked: `ScopeDecidesAcceptance` of `LLVM`, `ReproducesSource` of `TargetExec`, and
everything in `Reading` and `Graphviz`. Most of these properties speak of what recursive functions
compute (paths through a function, the text that trees are read from, the lines of a graph),
which asks for an induction over data that the prover does not have; `Reading` and `Graphviz`
moreover use RECURSIVE operators. Liveness (`InsertReturns`, `CompilerEnds` and the fairness part of
`ReproducesSource`) is out of its reach as well, and stays with TLC.

## 5. What is not modelled, and the plan

Not modelled: how the lexical rules split a text into tokens (flex's longest match; a text is
given by its tokens), comments after a statement; locations and the wording of messages;
number conversion and the rounding of floats (`atoi`, `atof`, integers beyond 2^24 in a
`float`) and NaN, which the comparisons treat as true; running out of memory, which the code
does not test; the depth of bison's stack (`YYMAXDEPTH`); the depth of the machine's
stack, which an alloca in a loop consumes; build rules and tests.

Facts that no run states as a violation: the branch of a break is followed by the
branch that ends its block, against `README.md`:43, in every program with a break in an if
(`OneTerminatorWithoutBreak` is the part that holds); a statement that was dropped after an error
is not ignored by a block that has no room, against `ast_create.c`:222 (`AcceptsPrograms` leaves
this case out); the string of an index is leaked, against `strutils.c`:72
(`LosesOnlyIndexes` is the part that holds); an output path beyond the 256
bytes of the command gets no object (`LongPath` in `ObjectCode`); `main.c`:3 says that the
driver prints GraphViz, which it no longer does.

Order of the work: (1) the generator, its text and its execution; (2) the symbol table and
its iterator; (3) indentation; (4) object code; (5) parser, tree memory and the front end;
(6) GraphViz. These are done, and so are the proofs
about the generator, its functions and their execution, the scanner, the table, its iterator,
the object code and the ownership of memory in the front end. What is left to the model checker is named at
the end of section 4, with the reason.
