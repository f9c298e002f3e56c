# A verification of mycc

mycc is a compiler for a subset of C, and for a toy language called myc, to AMD64
assembly. This directory holds TLA+ models of its parts, the TLC runs that check them
on small instances, and TLAPS proofs of what holds for every instance. File and line
references are to the repository; `src/` below is its source directory.

## The system

`main()` runs one compilation from beginning to end in one process: a source is read,
scanned, parsed, analysed, optimized and generated, each pass handing the next one tree
(`ASTNode`, include/ast.h). There are no threads and no messages. What makes it hard is

* **recursion over shared static state**: the generator's counters, its target stacks and
  its one pool register are static variables that every level of the recursion changes
  and must restore, on every way out;
* **code that is generated once and run otherwise**: both arms of a branch are emitted in
  one order, the machine runs one of them in another, and the bookkeeping has to be true
  at run time;
* **agreement of two passes**: the labels a `switch` jumps to come from one walk, the
  labels that are emitted from another; frame offsets are fixed while scopes are open and
  used after they closed; the optimizer deletes a store because of what it saw elsewhere;
* **the file system**: a build can be killed, its disk can fill up, its rename can fail, and
  another build may be writing to the same path.

| component | files | state | operations | what makes it correct |
|---|---|---|---|---|
| driver | main.c | the temporary file, the output path | one compilation | the output is one whole build or the old one |
| lexer | lexer.c | position, line, column | next token | literals have the value C gives them, errors end |
| parser | parser.c | current token, `parse_depth` | one function per production | the tree is the one C means, nesting is bounded, a failed parse hands on nothing and says so |
| toy front end | myc.c | the same, and a table of names that hold strings | one function per production | its trees mean what the same C tree means |
| symbol table | symtab.c | chain of scopes | push, pop, insert, lookup | a use binds to the declaration C says |
| semantic analysis | semantic.c | frame size, depths of loops and switches, error count | one check per node kind, constant folding | no bad tree passes; frames do not overlap; folding computes what the machine would |
| optimizer | opt.c | table of reads and taken addresses | scan, prune | the pruned function behaves the same |
| generator, expressions | codegen.c | `temp_stack`, `temp_pool_used`, `temp_spill_pending`, `pushed_count` | `temp_*`, `gen_*` | operands survive, calls are aligned |
| generator, statements | codegen.c | label counter, break/continue/switch stacks | `gen_if` ... `gen_switch` | the output runs as the source says |
| types and layout | util.c | types | sizes, offsets, completeness | objects get the bytes they need |
| dumps, fuzzer, scripts | dump.c, tools/, test.bat ... | none | | not part of a compilation |

## The modules

| module | models | state |
|---|---|---|
| `EvalStack` | abstract: what evaluating an expression promises | pending operations and the operand values they hold |
| `TempPool` | codegen.c 201-1394: temporaries, pool, spills, calls, alignment, and the machine that runs the lines | `st` (both sides), `frames` (the C recursion) |
| `TempPoolProofs` | what each helper does to the counters, where each parked value is and what it holds; the refinement of `EvalStack`; theorems | |
| `StmtTree` | the statements of a body as parsers build them | `prog` |
| `StmtMeaning` | abstract: the order in which a body evaluates its expressions, from the source alone | `seen` |
| `StmtGen` | codegen.c 121-196 and 1400-1746, with the parts of parser.c and semantic.c that say which trees arrive there; then the machine | `g` (generator), `pc`, `rax` |
| `StmtGenProofs` | what the generator's pending calls owe and have emitted; theorems | |
| `MeaningProofs` | where in the source each stretch of the output begins and ends; the refinement of `StmtMeaning`; where a body without a warning never comes | |
| `StmtRuns` | the missing-return warning of semantic.c (recursive functions over the statements), against the runs of that output | |
| `Driver`, `DriverProofs` | main.c 78-286, one system call a step, one or more processes | directory, file contents, processes |
| `Scopes` | symtab.c and the variables of semantic.c, with frame layout | scope chain, `frame` |
| `Parser` | parser.c: every parse function, an operator on a cursor | a value: token, `parse_depth`, errors, nodes returned |
| `ParserText` | derivations of C's grammar, their text and the tree they mean; damaged texts; the call of `parse_program()` | `plan`, `tree`, `text`, `result` |
| `Text` | the short inputs of `Lexer`, one character at a time | `subject`, `text` |
| `Lexer` | lexer.c and `parse_integer_literal()`, against C's lexical grammar | |
| `LexerProofs` | theorems about `Lexer`: both functions, place by place | |
| `Words` | the machine's words, flags and conditions, and which condition codegen.c takes | |
| `Arith` | semantic.c's types and folding of integer expressions, codegen.c's instructions for them, and what C says of their value | `operands` |
| `Linkage` | semantic.c's declarations and calls; the symbols of the output | `unit`, `globals`, `errors` |
| `StructLayout` | parser.c 119-261 and util.c 344-415: struct bodies, nested in each other | `declared` |
| `MycVars` | myc.c's table of string names, next to the scopes of semantic.c | `vars`, `scopes`, `arms` |
| `ArithProofs`, `TablesProofs` | theorems; about `Words` and `Arith`, and about `StructLayout`, `Linkage` and `MycVars` | |
| `DeadStores` | opt.c, on bodies written while `Scopes` resolves their names; then both versions run in lockstep | `body`, two memories |
| `LocalsProofs` | theorems about `Scopes` and `DeadStores` | |
| `MC*` | definitions that give the constants their values for TLC | |

`DeadStores` composes with `Scopes` (EXTENDS: its writing actions are conjunctions with
those of `Scopes`; `MCLocals` walks with and without statements), `StmtGen` and `StmtMeaning` share `StmtTree`, `TempPool` implements
`EvalStack` and `StmtGen` implements `StmtMeaning` by INSTANCE.

**TempPool.** One frame of `frames` is one active call of `gen_binary()`,
`gen_compound_assign()`, `gen_assign()`, `gen_postfix()`, `gen_call()`, `gen_ternary()`;
its `step` says which operand comes next. An action is what the C function does between
two recursive calls of `gen_expr()`. `st` has the generator's counters and the machine's
registers and stack next to each other; helpers such as `TempPush` change both, as the C
function changes its variables and emits a line. `st.skip` stops the machine (not the
generator) over code that is jumped over. The bookkeeping `held`, `depth0`, `pushed0`,
`spill0` and `event` is history that only properties read. Values are opaque: an operator
yields any value, so the properties ask whether the *operands* were the right ones.
Registers that hold nothing of use become `Junk` at every step. `nest` and `rank` of a frame
say where the parser read the operation: how deep `parse_depth` was, and which of its functions
(`Ranks`, from parse_expression() to parse_primary()) read it. An operand may be read by the rank
its place asks for or one further in; one further out needs parentheses, and they are what
costs a level (`NestOf`), since only parse_unary() counts. The ranks of binary operators are `OpLevels`, eight in the code.

**StmtGen.** `WriteStmt` writes the body node by node in every way the parser accepts;
`StartFunc` to `EndFunc` generate its code; `Run*` executes the lines. The recursion of
`gen_stmt()` is in `calls`: a step is what one function does up to its next call of
`gen_stmt()` (`GenStmt`, the operators `Gen*`) or after it came back (`EndChain`, `End*`), and `at`
is the statement visited last, so that what `Rest` picks is `n->next`. A case's
value is its node number, so that the values of a switch are distinct, as check_switch()
makes sure. `seen` is the last expression evaluated: it is all that `StmtMeaning` observes.

**Driver.** `Step` is the set of calls that main() makes after the options are read; each has every
result it can have. A write that fails drops its buffer, as stdio does, and the offset stays where
it is; the next write may succeed. Main.c 259-268 looks at the last fflush() and at fclose(), and never
at ferror(), so only the last write counts; `lost` is the history of the others. `Dies` is a kill,
a trap in the compiler, or out-of-memory (`exit(EXIT_FAILURE)` in util.c) between any two calls.

**Parser.** A C function that reads `parser.current` and returns a node or NULL is an
operator from a cursor to a cursor; `ok = FALSE` is the NULL, which every caller hands up.
`Enter` and `Leave` are the counter, on every way out. The ten levels of binary operators
are one operator, `ParseBinary`, with a table of what each level accepts (`Levels`). `Derive`
picks the rules of a program one by one until the budget of weights is used up, `Write` turns
it into tokens with no parentheses that C does not need, `DropToken` and `DoubleToken` damage
it, `Compile` is `parse_program()`; `Parse` is where the parse functions, which call one another,
are tied together. What the text means (`Meant`, `Nesting`, `Legal`) is said
of the derivation, without the parser: a label, for one, belongs to the statement that follows it. A
label in front of a closing brace, which C has allowed since C23, is not among the texts.

**The passes over short texts.** `Lexer` only adds a character to the text: the lexer itself is a
function from an input to what the compiler makes of it, next to a definition of what it should
be. `Arith`, `Linkage`, `StructLayout` and `MycVars` take one step an item, as the pass does, and
keep what the pass has made of the items so far. In `Arith` that is a stack: an operand is put on
it, an operator takes its operands from it and leaves what `check_expr()`, `fold_const()` and
`gen_expr()` make of them, with `g_optimize` and without, next to what C says. Those three read
nothing else of an operand (`Checked`), so that a stack of results stands for the tree. An item is what the pass reads: a character for the lexer;
an operator or operand in postfix order for `Arith`; a declaration with the calls in its body for
`Linkage` (`Declare`); the beginning of a body, a member or the end of a body for `StructLayout`;
`fn`, `let`, `say`, `if` or `while`, `else` and `end` for `MycVars`, with the two tables the name
of a `say` is looked up in, the parser's and that of the scopes. `unfinished`, `misscoped`,
`unlike`, `full`, `kinds` and `mixed` are history, and so are `typed`, `crashes` and `disguises`
of an operand. `MCTexts` composes the five and bounds the
number of items.

**Scopes.** `check_function()` walks the body in source order, so a behaviour is the walk.
`open`, `opened` and `objects` are the history that says, without looking at the scope
chain, which declaration a use means. The size of a type, its rounding and `frame` are ints of
the compiler and wrap (`ToInt`); `needed` is the history of what the locals really take, and
`FrameFits` says that all the arithmetic on it stays in an int.

**DeadStores.** `Prune` is scan and deletion in one step; then `written` and `pruned` are
the memories of the two versions, and `shown` what each shows to its callees. Loops are
decided outside, equally for both. A division traps where its operand is zero, and the trap
is shown too.

## The runs

| run | question | bounds, and why they are enough |
|---|---|---|
| `tp_sysv` | do operands survive, are calls aligned, with the pool on | 3 pending operations: two fill the register and the stack, the third disturbs them. 2 argument registers and calls of 3 arguments have stack arguments, odd and even counts. `MaxNest` and `TempMax`, the C limits scaled down, are out of reach of 3 operations here |
| `tp_win` | is the evaluation stack implemented on Windows and with `--no-opt` too, and can the table of temporaries fill up | 4 words of home area, one argument register (that calls are aligned is proved for both systems); two ranks of binary operators and `TempMax` 3, so that a table of three is filled both by a chain of assignments and by one level with three entries |
| `tp_args` | is every argument passed | `ArgCap` 2, calls of 3; expected violation |
| `stmt_loops` | do loops run as written, never spin, restore their stacks | 5 statements, three levels: a loop in a loop with break and continue at both levels, and the nesting limit of 3 is hit |
| `stmt_switch` | switches in loops, ifs and switches; and is a function that ends without a value warned of | 5 statements: two switches with cases, a case in a loop or a dropped arm, a break |
| `stmt_labels` | is every label there | 4 statements; expected violation |
| `driver_build` | is the output whole after any interruption | 3 builds in a row of 3 buffers: a build meets what an interrupted one left, and a first, middle and last write can each fail, with the others succeeding |
| `driver_race` | and with two builds at once | 2 builds; expected violation |
| `locals` | do uses bind, do objects overlap; does the deletion of a store show, but for a trap | names: 2 names, 4 objects, 4 scopes below the function; a word, an array that needs rounding up, one without elements and one whose size is no int, at most one of these last two in a function; an int is less than 64, so that sizes and sums of sizes wrap. Stores: 3 statements, 2 names, 3 variables, one of which can be global and one a parameter: a pointer to a variable, a store to the variable and a read through the pointer is the shortest program in which deletion shows. The 512 of `OPT_MAX_LOCALS` is out of reach at 3; passing over a function changes nothing. 2,674,824 states |
| `parser` | is the tree C's, the limit exact, every failure reported | a budget of 6: every two of some eighty rules meet, three of the commoner ones; nesting limit 4; texts of at most 15 tokens lose or double each one of theirs. 856,204 states |
| `folding` | is nothing unsigned folded | expressions of 9 items over u, `?:`, `<`, 0 and -1; expected violation |
| `passes` | six passes, on every short input | words of 4 bits, of which literals from -4 to 3 fit an instruction, expressions of 5 items over literals at both ends and inside, with 5 values for x and u; 3 declarations of 4 names; 8 items of struct bodies with 2 tags; 8 items of toy programs with 3 names, one more than the table takes; 4 to 6 characters from each of 4 alphabets, numbers limited to 77. At these lengths an operator has operators on both sides, a body is in a body that is in a body, an escape is followed by the end of its literal or of the file. 2,127,352 states |

Symmetry is used for values and names, in runs without liveness properties or with safety
properties of the form `[][A]_v` only.

**Fairness.** `StmtGen` assumes that the machine goes on to its next line (WF of `Run`);
writing a body is not fair, a program may never be finished. `Driver` assumes that a system
call returns (WF of `Step(p)`), and not that builds begin nor that they are not killed.
The other modules state safety only. Deadlock is checked everywhere except for the driver,
whose behaviours end when the bound on builds is reached, and for the short texts, which end
at their lengths.

## What is proved

TLAPS proves, for all constants that satisfy the named assumptions:

* `TempPoolProofs`: `TypeOK`, `CallAligned`, `StackAgrees`, `NothingLeft`,
  `ConstructsBalanced`. None is inductive: each depends on what all the pending frames have
  on the stack. The invariant says that the counters on entry of frame i+1 are those of
  frame i plus what a frame of its kind at its step holds (one lemma per helper
  states how each changes the counters), that the number of entries in registers
  is `pool_used`, and that outside skipped code `pushed` is `rsp`. Alignment then follows
  from the pad, because everything pushed since is popped again before the call. The same
  invariant gives `FullByChainOrDepth`: the entries of the table belong to pending frames, and
  those that one level of the parser can have are of different ranks, at most one each and one of a subscript
  (`PerLevel`), unless a compound or struct assignment is in the right side of another. So
  without such a chain TempMax entries take TempMax / PerLevel levels, whatever was nested and
  finished before.
* `TempPoolProofs`: `OperandsIntact`, and `Implements`, the refinement of `EvalStack`. The
  counts do not say that values survive, so the invariant `VInv` adds where each pending frame's
  operands are (a pool register, the word of the table's entry, a word of the arguments, the
  word a pool register was spilled to) and that what is there is what the operand evaluated to;
  the frames are ordered on the stack, so that a later one never writes the words of an earlier
  one. Each helper has a lemma on what it leaves as it was (`Agree`) and where the value
  goes (`PushValue`, `SpillValue`, `CallValue`, ...); each action then has one that ends in
  `Faithful`: the invariant again, the operands intact, and a step of `EvalStack`. An arm of `?:`
  that is jumped over keeps the invariant of the frames outside it.
* `StmtGenProofs`: `TypeOK`, `StacksDrained`, `NestingCaught`, `LabelsUnique`,
  `OnlyDeadCasesMissing` and `NeverRunsOff`, for bodies of any size and every nesting limit. The
  invariant (`IInv`) has a part on the body as it was written (`Body`: what is inside a statement
  follows it without a gap, an else comes after its then, a break has something to leave, a
  switch has one default), and a part on the generator between two calls of `gen_stmt()`
  (`Generating`). The pending calls are exactly the statements around the one at hand (`Path`),
  and their ids grow inwards (`Ids`); a stack of targets has one entry for each pending call
  of its kinds, in order (`Tracks`), so that it fits when the nesting does and is empty at the
  end. Of the labels of a pending call, those it has `Opened` are out and those that are `Due`
  are not (`Marks`); of those of a pending switch just the cases that were passed are out
  (`Passed`), under the index that gen_switch() wrote into the node (`Numbering`). Every label
  that a line jumps to is out, due, in a part of a switch that is still ahead (`Awaited`), or that
  of a case in a dropped arm (`Targets`). When the last call has ended nothing is due or
  ahead, which leaves the dropped arms: that is `OnlyDeadCasesMissing`, and what `stmt_labels`
  finds shows that the exception is needed.
* `MeaningProofs`: `RunsAsWritten`, the refinement of `StmtMeaning`, for bodies of any size and
  nesting. `StmtMeaning` knows places (in front of a statement, behind it, at the next round of a
  loop, at its test) and how control moves from one to the next until it is at an expression;
  two places are the `Same` when they lead to the same expression (`Settle`, a recursive function on
  the table of moves: lemma `SettleIs` shows that its equation has a solution). Every
  label stands for a place (`PlaceOf`; `own` is the statement that took the label's number). The
  invariant (`MInv`) says of the output so far that it takes control from the start of the body to
  the place the generator has come to (`Seg`, `Facing`): each line is followed by one that is in
  the place where the source goes on, each jump goes to a label of such a place, and the
  comparisons of a switch cover what `Select` distinguishes. `Seg` composes (`SegBoth`), so each `Gen*`
  and `End*` operator has one lemma that its lines fill the gap between two places (`WhileFollows`,
  `EndForFollows`, ...). It also says that a pending call is of the field its statement hangs
  from (`Threads`) and that an else is not begun before its call (`Beside`). Of the machine it says
  that the line at hand is in the place where the source goes on from what was evaluated last, or
  is a test of that value (`RunsAt`). A step of the machine that evaluates is then the next step
  of `StmtMeaning`, and every other step is a stutter.
* `MeaningProofs`: `SilentMeansReturns`, also for bodies of any size. The missing-return warning looks at
  the tree, so the invariant (`SInv`) names the places that a run cannot come to where no
  warning is given (`Unreached`): those in or behind a statement that follows one which is never
  left, unless a case of a switch around leads past it (`CutOff`, `Clear`); the end of what
  `stmt_terminates()` holds for endless; the test of a `do` whose body never ends. No move of
  `StmtMeaning` leads out of the other places into one of these (`ReachStays`, `AfterStays`,
  `TestStays`, `SuccStays`), and the moves do end in an expression: `MovesEnd` finds no set of places
  that is closed under them, since a move goes forward in the text until the last statement
  it comes to, and a `for` without a test has a step. That the expressions of a run are those
  of `StmtMeaning` is the refinement above. The two recursive definitions, `LabelledDefault` and
  `StmtTerminates`, satisfy their equations because they are monotone in the statements they hold for
  (`LeftAsItIs`), and what `has_default_label()` finds is a default the switch selects (`DefaultSelected`).
* `DriverProofs`: `TypeOK`, `OutputWhole`, `SuccessMeansBuilt`, `TmpRemoved`, `OnlyRenamed`,
  for any number of builds and buffers, under one assumption: one process builds to the path
  (with two, `driver_race` refutes it). Every write may fail, and the next one succeed. The invariant
  relates what the process has in its file to how far it is and what it lost, and says that
  the file at the output path is not the one being written.
* `LocalsProofs`, of `Scopes`: `TypeOK`, `UsesBind` and `OwnSlots`, for types of any size.
  The invariant `Chain` says that a scope holds exactly the objects declared in it,
  one for a name; that the numbers of the open scopes grow inwards, and the objects of an inner
  scope came after those of an outer one; so the innermost scope with a name is that of the last
  visible declaration of it (lemma `Binding`). `Laid` says that as long as what the locals need fits an
  int (`FrameFits`), the frame is what they need, and every object lies below the ones before
  it; scopes that end take nothing away from it, since the frame never shrinks. The lemmas
  under it (`Ints`, `RoundedIsInt`, `SlotIsRoom`, `FrameIsNeeded`) say that an int that need not
  wrap does not.
* `LocalsProofs`, of `DeadStores`: `SameBehaviour` and `OnlyUnreadStale`, for bodies of any length, any
  declarations around them and loops that go round as often as they like. The invariant (`DInv`)
  adds to that of `Scopes` that every place in the body belongs to a declared object
  (`KnownHasPlace`: a name that is found means one), and that the two memories differ in locals
  only that are not in the tables, while every address in either of them is of a global or of
  a local whose address the table has (`Agree`). A statement in both runs then reads the same,
  stores the same at the same place and shows the same (`SameShown`, `LeavesAgree`); one that
  was deleted changes a local of the first kind only, and shows nothing but a division's trap
  (`DeletedStep`). Nothing is assumed of the frame: two objects might share a slot.
* `ArithProofs`: for every width of a word, the condition that codegen.c takes for a comparison,
  by operator and type, compares the operands as that type wants it, whether or not the
  subtraction in `cmpq` overflows (`ComparesInType`). The argument is a split on whether the difference
  is a word, above the words or below them (lemma `Differences`), which fixes sign, overflow and
  carry (`FlagsOfDifference`). The other operators follow from two facts: a word read in its
  type differs from the word by a whole range, which `Wrap` takes off again (`SumsInType`,
  `ShiftsInType`), and a quotient or remainder of words is one, but for the least word by -1
  (`NoQuotient`); so a single operation is what C says (`ComputesOne`).
* `ArithProofs`: `OptimizedSame` and `ComputesAsC`, for words of any width and expressions of any
  length and depth. The invariant (`ArithInv`) is on the results that wait on the stack: a
  literal's constant is its value; both ways to compile an expression have one type and one
  value; and where `fold_const()` knows a constant, the expression is int and every run of it
  yields that (`Agree`). The last is what an operator around it needs, and what is false of an
  unsigned `?:` that folds: there the attempt to prove it failed, and `folding` is the program
  that came out of it. That the prover has no theory of powers is why `WordsAssumption` says of
  a shift what it needs: 2^n is between 1 and Half below the width, and every pattern of bits
  is a word's.
* `TablesProofs`: `struct_add_member()` keeps the members of a struct aligned, apart and inside
  (`AddMemberFits`), and so does rounding up where the body ends (`CloseFits`), for sizes of
  any value and alignments of 1 and 8. `LayoutSoundHolds` carries both through a whole file of
  definitions. What makes it hard is that a member keeps the size its type had when it was
  declared, while bodies that are open still grow: the invariant says that the type of every
  member is a struct whose body is closed and that has members, that a struct which is closed
  with members is never opened again (`OpenBody` registers a new one), and that a step changes
  no struct but the one of the innermost body.
* `TablesProofs`: `SaysWhatItIs`, for programs of any length, blocks nested to any depth, any names
  and any size of the table. The invariant is that every entry of the parser's table and every
  entry of an open scope is a declaration made in the function at hand, and that a name that
  a scope has as a string has an entry in the parser's table; where a function declares a name as
  one kind only, the two tables then cannot disagree. That a name has no entry left from another
  function is where `vars_reset()` is needed.
* `TablesProofs`: `UnitLinks`, for files with any number of declarations of any names. The
  invariant relates the symbols to the file both ways: a symbol tells what every declaration of its
  name is (`TellsOf`: a function or not, its parameters, that it is defined), and what it says is so
  for one of them (`IsSo`). No two definitions then have one name (a bijection from what
  is emitted to the names gives the cardinalities), and a call that `check_call()` accepts finds
  the definition, the promise or the library's function it counted on. The proof came upon
  `Rewritten`, whose alternatives overlapped for a function of the file named like a print helper;
  they exclude each other now.

* `LexerProofs`: `LexesAsC`, for texts of any length over any alphabet. `SkipTrivia`, `StringFrom`,
  `LexFrom` and, on the side of the grammar, `Units` and `CTokens` are recursive functions on the
  places of the text. That such an equation has a solution is not free: each goes from a place
  to a later one, but from an unclosed comment or a character it does not know, which go to the end,
  and `Recursion` shows that a function that goes down a rank exists. `Descending` is the
  induction: what holds at a place when it holds at the later ones holds at every place.
  The lexer reads from left to right and the grammar asks for the longest lexeme, so each kind of
  token has a part that shows the two the same: for an escape, the digits up to the first that
  is none or the third octal one; for a literal, the values of its units up to the quote, modulo
  a byte (`StringSame`); for a number, that at most one base fits and the suffix begins with no
  digit; for an operator, that what may be behind its first character (`Second`) gives all
  the longer ones; for a comment, the first end. `NextToken` then has the lexeme of `CLexeme`, or
  reports, or the place is `Tolerated`, and `CutSame` carries this down the text. Of `Code` it is
  assumed that a character is a byte, and that the NUL behind the text is no character of it.
  The letters of `Letter` stand for all letters: the theorem is not about the others.

Every safety property of `TempPool`, `StmtGen`, `StmtRuns`, `Driver`, `Scopes`, `DeadStores`, `Arith`, `Linkage`,
`StructLayout`, `MycVars` and `Lexer` that a passing run checks is proved. Only model-checked:

* all of `Parser` and `ParserText`: they are written with RECURSIVE operators, which the
  prover cannot reason about, and what they compute for every input is an induction over it;
* `KeepsEvaluating` and every other liveness property, which is out of the prover's reach, as is
  ENABLED.

## What the runs found

Four runs are expected to fail. Each states what a comment or a document of the repository
says, and the trace shows what the code does instead.

* `tp_args`: a call's 33rd argument and those after it are dropped without an error.
* `stmt_labels`: `switch (x) { case 1: ; if (0) { case 2: ; } }` refers to a label that is
  never emitted.
* `driver_race`: two builds to one path can install a mixture.
* `folding`: `((0 ? u : -5) < 0) ? 1 : 2`, with u unsigned, is 1 as the compiler folds it and 2 as it
  compiles it with `--no-opt`: `fold_literal()` looks for unsigned among the operands of the outer
  expression, and `fold_const()` walks through the unsigned ones below. The compiler does it.

Other properties hold but for a case that they name, as a definition of its own. All but `Built`
were tried with the compiler itself:

* `Chained`, and depth (`FullByChainOrDepth`, TempPool): codegen.c 297-298 calls a full table of
  temporaries "Unreachable: the parser caps nesting at MYCC_MAX_NEST (256), and each level pushes
  at most two entries". A level pushes up to nine: `a|b^c&d==e<f<<g+h*p[...]` parks one value for
  each of eight ranks and one for the subscript, all at one level of `parse_depth`, so that 57 of
  these in each other fill the 512 entries, and 65 of `a|b^c&d==e<f<<g+h*(...)`. And the right side
  of an assignment is read by parse_assignment() calling itself: 300 links of `*p += *p += ... 1`,
  or 600 of struct assignments, do it at one level. The program then ends in the
  internal error of temp_push().
* `Built` (Driver): a write that fails before the last one leaves a hole that nobody hears of. Main.c
  265 checks the last fflush() and the fclose() only, and its comment, "catch a full disk", is right of a
  disk that stays full.
* `FrameFits` (Scopes): sizes of arrays and the sum of the locals are ints (util.c 299, semantic.c
  1107) and nothing asks whether they wrap. Of two locals of 2,000,000,000 bytes the
  second is put 294,967,296 bytes above %rbp, outside of the frame.
* `LabelledBody` (ParserText): parse_statement() takes a label for a whole statement (parser.c
  1638-1665). `if (x) case 7: y;` is read as an if around the label, and y is computed whatever x is;
  in C it is the body of the if. REPORT-DRAFT.md 440 has labels in the list of a switch only, but the
  parser takes them anywhere and says nothing.
* `Crashes` (Arith): the compiler dies of a trap when it folds the least integer divided
  by -1, also in code that never runs; with `--no-opt` it does not.
* `Disguises` (Arith): an unsigned `?:` that folds, as in `folding`.
* `TypedAsC` (Arith): `+`, `-` and the second arm of `?:` make an int of unsigned operands, so
  that `(u + 1) / 2` is divided with `idivq` although README.md 35-37 has unsigned arithmetic.
* `TrapDeleted` (DeadStores): `t = 1 / z` with `t` unread loses its trap; semantic.c 305 says "a
  trap stays a trap", and opt.c 306 keeps a dereference because it "may fault".
* `MainOnlyDeclared`, `Captured` (Linkage): `int main(void);` alone counts as a main; and
  `print_char(65)` calls the file's own `putchar`, whatever it is.
* `unfinished` (StructLayout): in `struct A { int x; struct B { struct A a; ... } b; ... }` the
  member `a` gets the size that A had so far.
* `NoTypeInStruct`, `FileScope` (ParserText): `struct S { x; };` fails without a located error;
  and in `int *a, b;` at file scope b is a pointer too, against parser.c 1898, and so it is
  with every declarator behind a starred first one, and no other.
* `WayRound` (StmtRuns): the missing-return warning takes only the first block of a switch body
  that begins with one, and does not look for a `continue` in a `do`: for
  `do { continue; return 1; } while (x);` nothing is said. In the other direction it may speak
  where every path returns, and a doubt does not silence it: semantic.c 1266-1269 says that the
  answer 0 "suppresses the warning", but it is the answer check_function() warns on.
* `Tolerated` (Lexer): letters that are no digits right behind a number in range (`12ab` is two
  tokens, `12ulul` one), a line end between single quotes, escapes of more than a byte. What
  begins with 0x and has no digits, or is out of range, is reported.

Two things came up beside the properties. src/myc.c has no nesting limit, so that deep toy
programs end in the generator's own guard (codegen.c 154) with an internal error. And a name
of the toy language ends with its block, since semantic.c opens a scope there, against myc.c
168 ("a name is in scope for the rest of the function"): a `say` behind the block is
refused, as is a second `let` of the name in the same block. `misscoped` leaves both out of `SaysWhatItIs`; `mixed` leaves out a name that a
function has as a number and as a string, of which a `say` may be refused.

## What is not modelled

* Type checks of assignments, arguments, lvalues and members (semantic.c 583-1078 but for
  integer operators): they decide which tree is refused, and the wording of why.
* Loads, stores and casts of the widths, addresses of members and elements (codegen.c 627-667,
  980-996, 1277-1310): a step of `TempPool` without content.
* Data directives, strings and their escapes in the output (codegen.c 501-612, 1748-1795).
* The expression grammar and token errors of myc.c; keywords, lines and columns of lexer.c.
* The wrap of an int in the sizes of structs beyond two gigabytes (`Scopes` has that of arrays and of
  the frame).
* Options, output to stdout, whose write errors nothing looks at (main.c 235), dumps, the
  fuzzer, the scripts.

PROJECT.json lists them with the reason, and its hazards say where each could go wrong.

## Plan

1. `EvalStack`/`TempPool`, `StmtTree`/`StmtMeaning`/`StmtGen`, `Driver`, `Scopes`,
   `DeadStores`, with their runs; proofs for `TempPool` (counters), `Driver` and `Scopes`. Done.
2. `Parser`, `Lexer`, `Arith`, `Linkage`, `StructLayout`, `MycVars`, the missing-return warning and
   dead stores that trap; proofs for `Words`, `StructLayout` and `DeadStores`. Done.
3. Proofs: `FullByChainOrDepth`, `OperandsIntact` and the refinement of `EvalStack`. Done.
4. `StructLayout`, `Linkage` and `MycVars` as machines that take an item a step; proofs of `LayoutSound`,
   `SaysWhatItIs` and `UnitLinks`. Done.
5. `StmtGen` as a generator that takes one statement a step, without RECURSIVE operators, and
   proofs of its safety properties. Done.
6. `Arith` as a stack that takes an item a step, without RECURSIVE operators; proofs of
   `OptimizedSame` and `ComputesAsC`. Done.
7. `StmtMeaning` as a table of moves, without RECURSIVE operators, and the proof that `StmtGen`
   implements it; the missing-return warning as recursive functions, and `SilentMeansReturns`. Done.
8. `Lexer` as recursive functions on the places of the text, without RECURSIVE operators, and the proof
   of `LexesAsC`. Done.
9. Widths: loads, stores and casts of char and unsigned char in `Arith`; strings as `emit_string_data()`
   writes them, read back as the assembler does.
