# TLA+ models of the cminus compiler

The repository is a compiler for the teaching language cminus-f: a flex/bison
front end, an AST builder that emits LLVM-like IR through the `lightir` library,
and optimisation passes over that IR. The project is one sequential process, so
the hard behaviour is not concurrency. It is in algorithms that rewrite a graph
while they read it: fixpoint iterations in place, recursive renaming with global
stacks, use lists that must stay in step with operands, worklists over sets
ordered by address. Each step is right or wrong depending on what the earlier
ones left, and the tests compare the output of a few programs only.

The build is `Debug` (CMakeLists.txt:6): asserts are compiled in, and an assert
that fails is a state of the models.

## 1. Inventory

| Component | State | Operations | Interacts with | What makes it correct |
|---|---|---|---|---|
| Driver, `src/cminusfc/cminusfc.cpp` | options, output file names | parse, build, run passes, print, call clang | everything | the passes asked for run, once, in the order of main; 0 means that the output is there |
| `PassManager.hpp` | list of passes | `add_pass`, `run` | passes | order of insertion; naming and printing after a pass |
| Lexer, `lexical_analyzer.l` | the generated tables | `yylex` | parser | tokens of the language |
| Parser, `syntax_analyzer.y`, `syntax_tree.c` | the automaton's stack, the root of the tree | `parse`, `node` | AST | the tree is that of the text |
| AST, `ast.cpp` | the tree | `transform_node_iter` | parser, builder | the AST is the program that was written |
| IR builder, `cminusf_builder.cpp` | scopes, insert point, current function, `tmp_val` | one `visit` a node | lightir | every block ends in one terminator; order of evaluation; scoping |
| lightir core: `Value`, `User`, `BasicBlock`, `Function`, `Module` | operands and use lists, predecessor and successor lists, instruction lists, names | `set_operand`, `add_operand`, `remove_operands`, `replace_all_use_with`, `delete_instr`, `set_instr_name` | all passes | operands and use lists agree; edges agree with terminators |
| `Dominators` | post order, `idom_`, frontier, tree | `create_*`, `intersect` | Mem2Reg | the three results are those of the definition; it ends |
| `Mem2Reg` | stacks of values, phis | `generate_phi`, `re_name`, `remove_alloca` | Dominators, use lists | meaning kept; SSA form |
| `ActiveVars` | use/def, live-in, live-out | `run`, `print` | phis | the live sets are those of the paths |
| `LoopSearch` | Tarjan stack, components, loops | `run`, `strongly_connected_components`, `find_loop_base` | LoopInvHoist | finds the loops and their bases |
| `LoopInvHoist` | invariant set of a loop | `run` | LoopSearch | meaning kept |
| `ConstPropagation`, `DeadCodeDeletion` | tables of known constants | `run`, `compute`, `DeadCodeDeletion` | use lists, CFG | meaning kept; edges and phis in step |
| Runtime `io.c`, logging, printer, types, constants | none or interning tables | - | - | - |

Hard behaviours: in-place data-flow sweeps (ActiveVars, Dominators); iteration in
the order of a `std::set` of pointers, that is in any order (Mem2Reg, LoopSearch,
LoopInvHoist); recursion over a tree with global stacks (Mem2Reg); blocks the
entry cannot reach, which the builder makes whenever both branches of an `if`
return; use lists whose positions go stale; integer edge cases in folding. There
is no concurrency and nothing persistent: no crash or message hazards.
The part before the passes has two hazards of failure: a syntax error whose return
value nobody reads, and files and commands that may fail one by one. Names are
hard for another reason: `set_instr_name` runs several times a compilation, with
passes between that erase and create values.
PROJECT.json lists each hazard at its line.

## 2. Modules

Reference vocabulary, with no code behind it:

- `FlowGraph` - control-flow graphs: reachability, dominance by cutting a block out
  of the graph, frontiers, components, natural loops, paths, and what it means that
  the code on a graph defines each operand above its use (`OperandsDominate`). The
  definitions from the literature the results of the passes are compared with.
- `IRSemantics` - a function along one path with opaque values: cells, values,
  what becomes visible. `SameOnPath` compares two versions of the code on a path
  and lets the new one do as it likes where the old one read an uninitialised cell.
  Used where the pass moves values about but does not compute (Mem2Reg, DeadCode).
- `TypedIR` - a function along one path with numbers: ints of `Width` bits that
  wrap, floats of `Precision` significant bits, division that traps (one on a value
  that is not defined may trap too), inputs, calls that may change every global. The
  steps in a block and the blocks of a path are recursive functions, so that proofs
  can be about them. Used where the pass computes or moves
  computations (ConstPropagation, LoopInvHoist).

One module a component; a specification has an `MC` module:

- `Compiler` - `main` of cminusfc with `PassManager::run`: the options one by one, the
  file names, `parse`, the AST, naming and passes in the order `main` adds them, the
  `.ll` file, clang and rm, either of which may fail, and what is returned. It is
  composed of the four modules below. A pass here is anything that creates or erases
  values; what passes really do is in modules of their own, and so is the builder.
  - `Parser` - the grammar of `syntax_analyzer.y` as data (`Productions`) and the
    automaton bison makes of it: shift where possible, reduce by default otherwise,
    with the semantic actions that build the syntax tree and set the root. The
    models begin with tokens.
  - `AST` - `transform_node_iter` for every kind of node, with the stacks that turn
    the left-recursive lists round and the exception of `stoi`.
  - `Spelling` - no code: how a program is written, from the manual and not from the
    grammar, with as few parentheses as the precedences allow or with all.
  - `Naming` - `Function::set_instr_name`, one value a step, and values created and
    erased between calls.

- `Builder` - `CminusfBuilder`. The recursion of `accept` is the stack `todo`, whose
  head is the next step: the visit of a node, or what a visit does after a call of
  `accept` it makes, with the local variables it needs then in `vals`. The global
  variables `tmp_val`, `require_lvalue`, `cur_fun`, `pre_enter_scope` are variables
  of the model, the scopes are `inner`, and `ir` is the module with the insert block
  of `IRBuilder`. One action per visit or continuation: blocks, edges, conversions
  and the early end of a statement list are the code's. `BuilderMeaning` adds what is
  needed to judge the result: an evaluator of the language written from its
  manual, an evaluator of the IR, and the properties. `Builder` has no
  `RECURSIVE` operator so that it can be proved about; `BuilderMeaning` has. An
  instruction is made by the `create_*` of its class, which computes the type of the
  result from the operands as the constructors of `Instruction.cpp` do, so that
  `OperandsTyped` is about those too.
- `Dominators` - `Dominators::run`. One action per successor visited, per predecessor
  folded into `new_idom`, per finger moved in `intersect`, per frontier entry;
  `std::map::operator[]` on a null key is kept (`idom_[Null]`). A failed assert is
  `pc = "abort"`.
- `Mem2Reg` - `Mem2Reg::run` for a function: one action per work list block, per
  instruction renamed, per call and return of `re_name`. Sets ordered by address are
  taken in every order. The asserts end in `abort`, the `back()` of an empty vector
  (line 102) in `undefined`. The dominator results come from `FlowGraph`, that is from
  what the run `dominators` establishes about the blocks that are reachable; of the
  others `create_dominance_frontier` puts a dead join into the frontier of each of its
  predecessors (`DeadFrontier`), so that `generate_phi` may place a phi there, and the
  tree has none. `keys` keeps the code's
  difference between a variable missing from the stack map and one with an empty
  stack. The pairs a phi prints are those of `PhiInst::print`, which adds an undef for
  each predecessor the renaming gave none. Two functions have different allocas, so the
  loop over functions repeats the model. `WellFormed` says what the builder leaves: a
  branch stays in the function and never goes back to the entry, there are no phis, a
  load or a store names its location. `SingleAssignment` is its part about values: an
  instruction is one object, made once; the visitor uses it in the block it is made in
  or, where the check of an index splits the block, further down the path;
  a store makes no value; a phi is an object that was not there before.
- `ActiveVars` - `ActiveVars::run`: scanning, sweeps in place, printing, for a module
  of several functions. `LiveCode` has the functions and the equations of their
  code; `LiveVariables` is the abstract specification: the functions in their order,
  and for each that is not a declaration one answer, the least solution of its
  equations. `ActiveVars` implements it (`ImplementsLiveVariables`, by a refinement
  mapping from what is left of the module and what was printed).
- `ConstPropagation` - the sweep that folds and replaces: one action per instruction
  kind, with the tables of local pointers (ints and floats, dropped at the end of a
  block) and of globals, and the deletions at the end of the function. Keys of the
  tables are pointers, so two addresses of one element are two keys, as in the code.
  `WellFormed` says what the builder leaves: instructions with the operands and types of
  their kind, each value defined once, blocks listed once, and an address computed anew
  for every access to an element, so that a pointer to a cell with several pointers is
  read through or written through and not both. That is what makes it right that a
  store through one pointer leaves what the tables say of the others.
- `DeadCode` - `DeadCodeDeletion` at the level of `User` and `Value`: operands,
  use lists with the position of each use, `remove_operands` that moves operands down
  and leaves the positions of later uses as they are, `replace_all_use_with` that
  goes through a copy of the list. Use lists, predecessors and successors are sets,
  as nothing depends on their order or repetitions; `deleted` holds the instructions
  `delete_instr` took off the lists. The assert of `set_operand` ends in `abort`,
  operand 0 of a phi without any in `undefined`. The functions it is given have phis
  as Mem2Reg leaves them (`FromMem2Reg`): with a pair for each predecessor, for some
  only where a variable has no value at the others, and with none in a block the entry
  does not reach. These are what `PhisMatchPredecessors` of Mem2Reg says.
- `LoopSearch` - Tarjan's algorithm one node and one successor at a time, the
  components, bases, the graph without them, and the queries of LoopInvHoist. Sets of
  nodes are visited in every order. A null base is `crash`.
- `LoopInvHoist` - extends `LoopSearch`: one specification with the search the pass
  runs first, then the scan of each loop and the moves, over all orders of loops and
  blocks. The search sees the graph only, so the code in the blocks is chosen when the
  search has ended, which saves states and changes nothing. The last instruction of a
  block is its terminator. `BuiltGraph` and `BuiltCode` say what the builder and Mem2Reg
  leave, the one form of input with code in it (`CodeAssumption`, section 4).
- `FlowGraphProofs`, `DominatorsProofs`, `Mem2RegProofs`, `ConstPropagationProofs`,
  `ActiveVarsProofs`, `DeadCodeProofs`, `LoopSearchProofs`, `NamingProofs` - the
  theorems about the module they are named after (section 4).

How they compose: the graphs of the instances of the passes are those `Builder` makes
of the programs named in the MC modules, with dead blocks where both branches of an
`if` return; `Compiler` composes the driver with parser, AST and naming on one state,
`LoopInvHoist` the pass with the search; Mem2Reg reads the specification of Dominators,
and DeadCode starts from phis of which it assumes what is proved of Mem2Reg. The AST of
`Compiler` is the one `Builder` visits.

The MC modules define the constants of an instance; nothing in a cfg replaces a
definition. In each module the definitions whose name has a suffix after an
underscore (`Changed_Never`, `Pops_StoresOnly`, `Through_ToTheEnd`, ...) are wrong
versions of the definition they precede: each is a slip the code could have had, and
with it in place TLC finds a named property violated. They are used nowhere else.

## 3. Runs

| Run | What it checks | Instance and why it is enough |
|---|---|---|
| `compiler` | `ProgramIsText`, `TreeIsTextBeforeError`, `ZeroMeansCompiled`, `SourceKept`, `NamesDistinct`, `NeverGivenAgain` | programs that use every production, each spelled with few and with all parentheses (dangling elses, chains of operators, lists of 0 to 3 elements); texts with each token left out or a stray token at the end; command lines that ask for help in every way, give `-o`, no suffix or two, and every pair of flags of passes in both orders, with and without an old `.ll` and with a `.ll` that cannot be opened. Four values, one of each kind, at most `MaxChanges` = 2 of them created or erased between up to five namings: erasing a named value and creating one needs two |
| `builder` | `ScopesAreOpenVisits` (scopes match the visits in progress), `BlocksWellFormed`, `OperandsTyped`, `MeaningKept` | 289 programs: every pair of seventeen statements in a `main` with an int, a float and an array, and three functions (arrays as parameters, recursion, a function without value, falling off the end). Statements nest `if` and `while`, return in one or both branches, shadow names, assign inside indices, arguments and returns, mix types, index with floats and negative numbers. Inputs 2, 1, 0, -1; `Fuel` = 8 calls and iterations, enough for most of these programs and inputs to end; the others are not followed further. Floats are halves |
| `builder_order` | `AssignsAsDocumented` is violated | one program |
| `dominators` | `NoAssertFails`, `IdomIsImmediateDominator`, `FrontierIsDominanceFrontier`, `IdomOnlyRises`, `Terminates` | all graphs on an entry and three blocks with up to two successors in one list order (nested joins, irreducible loops, dead blocks), and all on an entry and two blocks in every list order; modules of three functions to see that nothing leaks from one to the next |
| `dominators_dead_join` | `AlwaysTerminates` is violated | the graph of one program |
| `mem2reg` | `MeaningKept`, `SSAForm`, `UsesLeft`, `PhisMatchPredecessors`, `StacksAreOpenCalls`, `FailsOnlyUnassigned` | if, if-else, returns in branches, an if after two returns with its dead join, while, if in while, while in if, with two variables, a global, swaps and unassigned variables; paths of up to `PathBound` = 9 blocks, which takes both nested shapes twice round |
| `activevars` | `PrintedIsLiveness`, `ImplementsLiveVariables`, `Terminates` | straight line, branches, loops with phis and several block orders; loops and list orders against the flow are what in-place sweeps can get wrong |
| `constprop` | `TablesAreContents`, `MeaningKept`, `CrashIsUndefined` | ints of 4 bits, floats of 2 significant bits: the smallest in which overflow, the trapping quotient, and ints that round to one float occur. Every operation on boundary ints and floats; every sequence of four accesses to a global and of three to a global, a float, a local and an array element; a branch and a loop with a phi, in two block orders. `PathBound` = 5 goes twice round the loop |
| `constprop_call` | `GlobalsAreContents` is violated | one program |
| `deadcode` | `TypeOK`, `EdgesMatchTerminators`, `PhisMatchPredecessors`, `UseListsExact`, `MeaningKept`, `FailsOnlyStaleOrUnreached` | two ifs in a row or nested, an if in a while, an if with else; every mix of constant and unknown conditions; every pair of operands a phi can have there, in both orders. Variables declared in the body of a loop, in an if or in one part of it, or unset before two ifs, whose phis lack pairs; an if after two returns, whose phi has none. `PathBound` = 10 |
| `loops` | `ComponentsFound`, `LoopsAreNaturalLoops`, `ParentIsEnclosing`, `CrashesOnlyOnDeadOrEntryLoop`, `DefinedBeforeUse`, `MeaningKept`, `ReadyIsHoisted` | the search on every graph of an entry and three blocks, and on nested, consecutive and triple whiles and a dead block after two returns; search and hoisting on an if in a while and a while in a while, two operations in any two of their blocks, one using the other or not; every order of visits; `PathBound` = 9 |
| `hoist_call` | `ShowsTheSame` is violated | one program |

`CHECK_DEADLOCK FALSE` is set because builder and passes end. Fairness is
`WF_vars(Next)` (in `ActiveVars` and `Dominators`): one thread of one process that
waits for nothing keeps taking steps. `Terminates` of `Dominators` assumes
`NoDeadPredecessor`; without it the run `dominators_dead_join` shows it false.

### Disagreements found

Each was met while modelling, has a run, and does the same in the compiled program.

1. `Dominators.cpp:151`: the walk from a dead predecessor never ends
   (`dominators_dead_join`); `-mem2reg` hangs.
2. `ConstPropagation.cpp:531`: a call does not forget what is known of globals
   (`constprop_call`).
3. `LoopInvHoist.cpp:42`: a call of `input` in a loop is made once before it
   (`hoist_call`).
4. `cminusf_builder.cpp:357`: the right side of an assignment is evaluated before
   the address, the manual says after (`builder_order`). `MeaningKept` of the
   `builder` run compares with the language read in the code's order.

Observed too, without a run of its own:

- `ConstPropagation.cpp:243`: a phi of one pair is taken for one of a block with one
  way in, as the comment of line 249 has it ("只有一个入口"). A variable declared in the
  body of a loop gets such a phi at its head, and `-mem2reg -const` then makes
  `while (c) { if (d) { int a; a = input(); output(a); } }` into IR that clang
  refuses: the phi after the `if` has itself as operand from a block it does not
  dominate. The run `deadcode` has these programs: `PartialUse`, the exception in
  `MeaningKept`, says when it happens.
- `parse` ignores what `yyparse` returns (`syntax_analyzer.y:283`): the declarations
  before a syntax error are compiled, and 0 may be returned. Where there is none, the
  root is read from memory nobody wrote. `TreeIsTextBeforeError` says that this is
  all.
- A declaration `void x;` is accepted, and the AST makes a float of it (`ast.cpp`).
- After an `if` that returns in both parts, a second `if` that stores a local gives a
  phi without operands in a block nothing reaches (`PhisMatchPredecessors` of Mem2Reg
  says so). `PhiInst::print` (`Instruction.cpp:633`) and `DeadCodeDeletion`
  (`ConstPropagation.cpp:250`) read operand 0 of it.
- With `-emit-llvm` 0 is returned although the `.ll` could not be opened, and without
  it clang may take an old `.ll`: `ZeroMeansCompiled` is about files that can be
  opened.

Where a passing run states a condition, the condition is a deviation of this kind,
and the run shows that it is the only one:

- Mem2Reg: the assert of line 130 fails, depending on addresses, for a variable that
  lives in one branch only, and `back()` may be taken of an empty stack
  (`FailsOnlyUnassigned`: only for variables some path leaves unassigned). Dead blocks
  keep loads of removed allocas (`UsesLeft`: nothing else does, unless a variable is
  unassigned): `SSAForm` is about programs whose locals are
  assigned before they are read, and about the blocks they reach.
- DeadCode: after `remove_operands` the positions recorded for later operands are
  old; replacing a value through such a use hits the assert of `User.cpp:24` or the
  wrong operand. `StaleUse` says when. A phi that lacks pairs is replaced by the one
  value it has; `PartialUse` says when anything but another such phi uses it: on a path
  that reads the variable unassigned, or as in the loop above. `MeaningKept` says that
  the meaning is kept with neither, and `FailsOnlyStaleOrUnreached` that the assert fails
  only with the first and that only phis in blocks the entry does not reach have no
  operand 0.
- ConstPropagation: the history variable `slips` records a call while a global is
  known (`called`), a local's old entry that stays in a table (`kept`), and an int
  comparison folded in float to the wrong result (`rounded`). Without one of these
  the tables hold what memory holds and the meaning is kept.
- LoopSearch: with a dead second entry, as after an `if` that returns in both
  branches, a component has no base or the wrong one. `Structured` excludes dead
  blocks and loops entered elsewhere than at their header.
- LoopInvHoist: calls, loads and divisions move too. `MeaningKept` is about the rest;
  a load of a global stored in the loop, and a division that an `if` in the loop
  guards, change the program when moved.

## 4. Proofs

`ActiveVarsProofs`, from `ModulesAssumption` (the modules given to the pass are
sequences of functions), `OperandsAssumption` (variables are neither literals,
callees nor labels) and `BlocksAssumption` (finitely many blocks):

- `TypeCorrect`: `Spec => []TypeOK`.
- `Invariant`: `Spec => []IInv`. That the result is a fixpoint is not inductive: when
  the loop ends the code knows only that the flag stayed down. `IInv` says what that
  means: the live-out set of a block already swept is at most what the successors
  have now (`live_in` only grows), and while the flag is down the sweep has changed
  nothing, so every block swept satisfies both equations.
- `PrintsSolution`, `Grows`: what is printed solves the equations; no sweep takes a
  variable out of a live-in set. `SweptBlocks` is the part of `IInv` about the sweep
  in progress.
- `TablesOfTheCode`: the tables the scan fills instruction by instruction are the
  upward exposed uses, the definitions and the phi reads of the block.
- `LeastSolution`: no variable is ever live in a set unless it is in every solution
  of the equations.
- `Implements`: `Spec => LiveVariables!Spec` under the refinement mapping, the
  property `ImplementsLiveVariables` of the run, for every module. A step that prints
  is an `Answer`, by `PrintsSolution`, `TablesOfTheCode` and `LeastSolution`; a
  declaration is a `Skip`; any other step stutters.

- `PrintsLiveness`: the run's property `PrintedIsLiveness`. The lemma `LeastIsLiveness`
  says that the least solution of the equations is liveness on paths, for any function:
  liveness is closed under the equations (`LivenessIsClosed`), and where a solution has
  not got a variable, no path along which the variable is not defined leaves the blocks
  that have not got it (`SolutionsHoldLiveness`). Both use that `Reach` is a least set
  (`FlowGraphProofs`).

`Terminates` of `ActiveVars` and `Dominators` is liveness and stays with TLC.

`NamingProofs`, from `PrefixAssumption` (every value is of one of the four kinds)
alone, about `NamingSpec`, in which passes and namings alternate as they like:

- `NumbersGrow`: every number ever given is below `seq_cnt_` plus what the call in
  progress has counted. Distinct names are not inductive without it: `seq_cnt_` is
  raised only when a call ends.
- `NamesAreDistinct`, `NamesAreNeverGivenAgain`: the properties `NamesDistinct` and
  `NeverGivenAgain` of the run `compiler`, for any number of values, namings and
  changes.

`DeadCodeProofs`, from four assumptions: `FunctionsAssumption` (the functions given
to the pass are `WellFormed`: blocks listed once and no code but theirs, every
instruction in one place, a block ends in its only terminator, edges as the terminators
say, and phis as Mem2Reg leaves them: pairs of a value and a block, one at most for each
predecessor; in a block the entry reaches one at least, with a predecessor those it
dominates too; in other blocks none), `KindAssumption`
(blocks, instructions and literals are different), `LiteralAssumption`, and for the last
theorem `JoinsAssumption`: two ways lead to a block with a phi, one from each part of an
`if` or one into a loop and one back, and at most one is a branch of two ways, past an `if`
without `else`: it dominates the end of the part it skips, and the join is no loop head. (`CminusfBuilder` makes no other joins: each branch of
two ways leads to two blocks made for it, and only the block after the `if` gets one
more edge, a plain one.) TLC evaluates the four on the functions of the run `deadcode`.

- `TypeCorrect`, `EdgesFollowTerminators`, `PhisFollowPredecessors`: the run's
  properties `TypeOK`, `EdgesMatchTerminators`, `PhisMatchPredecessors` for every
  well-formed function. The last is about the pairs a phi was given: it has exactly
  those from the predecessors its block still has.
- `Invariant`: `Spec => []IInv`. The properties are not inductive: a use whose
  position is out of date might make `set_operand` overwrite a block, and with it an
  edge or a pair. `UsesPlaced` says why it cannot: a use recorded of a phi has an odd
  position, `remove_operands` moves operands by two, and a phi has its values at odd
  positions; a use recorded of a branch is of its condition, and a folded branch has
  no use of a value left. So out of date uses, which do break the use lists and the
  meaning, never break the graph. `BranchesHaveTargets` keeps the targets of a branch
  where they are, so that both ways of a fold are blocks.
- `UsesInvariant`, `UsesAreExact`: the run's property `UseListsExact`. Records of phis
  that lost a pair may be out of date, and replacing such a use may overwrite another
  operand; so neither exactness nor "every record is true" is inductive. What saves the
  others is `Held`: a phi reduced to one pair, which is what gets deleted, still holds
  every value that has it on record, because `remove_operands` drops all records of the
  phi in the two values it takes, and because the only use of such a phi that can be
  replaced without the assert failing is its first operand, which is the value being
  replaced. So `delete_instr` finds every record of what it deletes.
- `FailuresAreStaleOrUnreached`: the run's property `FailsOnlyStaleOrUnreached`. A fold
  never takes the last pair of a phi: the pair comes from a branch of two ways, whose
  block dominates the other predecessor, and so that has a pair too. `LostOne` says what is
  left of a phi that lost a pair: it is the only one it loses, since only one
  predecessor has a branch of two ways, and a record at position 3 is of its second
  value, the first being gone. When the assert fails, the record is one of these
  (`InRange` and `Placed` leave no other position), the phi being replaced is its value,
  and the user is in a later block: in an earlier one it would be deleted and off the
  record (`Behind`), and in the same block it uses no phi of that block.
- The lemma `WithoutItsPair` is the arithmetic of `remove_operands`: a list with one
  pair for each block of a set, less one pair, has one for each of the others.

`FlowGraphProofs`: the vocabulary of `FlowGraph`, for any finite graph. `Reach` is
defined by a recursive function over the number of steps; the lemma `ReachIsLeast`
says that it is the least set that holds its start and that no edge leaves, and
nothing later unfolds it. (Its proof needs no induction theorem with an operator for a
parameter: `LeastNat`, from the well-foundedness of `<`, and `NatSet` do induction
over a set of numbers.) From it: `DominatesByCut` (to dominate is to cut off),
`DominatesPredecessor`, `DominatesJoin`, `DominatesTransitive`, `EntryDominated`,
`DominatesAntisymmetric`, `DominatorsOrdered` (the dominators of a block are a chain);
the tree they make: `ImmediateDominatorExists`, `ImmediateDominatorUnique`,
`TreeInduction` and `ChildTowards`; and `NoPhiNoStore`, what the dominance frontier is
for: if a set of blocks contains the frontier of the blocks that store and of itself,
a block with none of either above it in the tree is reached past no store. `ImageFinite`,
`CountPairs` and `DistinctEntries` are about counting. For the loops: `ReachTransitive`,
`ConnectedSame` and `ComponentsAreConnected`, the components are the sets of blocks that
lead to each other and back; `LoopNested` (of two natural loops one is inside the other
or they have no common block), `ComponentIsLoop` (a component of a reducible graph
without the headers of the loops around it is the natural loop of its header),
`EntranceDominates` (the only block a loop is entered from dominates the loop) and
`DominatorOutside`.

`DominatorsProofs`, from `BlockAssumption` (finitely
many blocks), `NullAssumption`, `ModulesAssumption` and `FunctionsAssumption`: the
lists of successors and predecessors agree and stay inside the function (`BranchInst`
adds an edge to both, and a block is made in one function), and no branch goes to the
entry block (the builder makes it before any other and never branches to it). TLC
evaluates the four on the graphs of the run `dominators`. The graphs may have cycles
that are not reducible, dead blocks and joins with dead predecessors. Each layer is an
invariant and uses the ones before:

1. `Typed`: types, and cursors inside the lists they point into.
2. `VisitIsOrdered`: the depth-first visit. The open calls are nested along branches,
   every block numbered has all its successors visited, and has a predecessor that is
   open or numbered later; so the reversed list holds exactly the live blocks, each but
   the entry after one of its predecessors.
3. `IdomIsSound`: the sweeps. The chain of a block (its idom, the idom of that, ...)
   climbs the order and ends at the entry; every dominator of a block stays on its
   chain (`Sound`), although chains are rewritten while others read them; both fingers
   of `intersect` stay on the chains they started from and below all that those chains
   have in common (`Folded`, `Fingers`). While `changed` is down, each block swept has
   an idom whose chain is part of the chains of all its predecessors (`Swept`), which
   is all the code knows when the loop ends. Hence `NoAssertEverFails` and, as no set
   closed under the branches around a block can hold what is below it on a chain,
   `IdomIsCorrect`.
4. `FrontierIsWalked`: what has been added to a frontier is what the runners have
   passed. A runner from a live predecessor stays on the predecessor's chain, above the
   idom of the join it runs for; one from a dead predecessor never touches a live
   block. Hence `FrontierIsCorrect`, which also needs that a block with one predecessor
   is in no frontier.
5. `IdomRises`: `IdomOnlyRises` is not inductive, and neither is it together with 1-3.
   `Rising` adds two facts about the branches that go down the order: every idom
   dominates its block on them (`Low`), and for the blocks this sweep has passed the
   chain joins, above each such dominator, the chain of the dominator (`Merges`). With
   it a new idom is always on the chain of the old one.

The run's four properties but `Terminates` are proved. A sweep that changes something
raises an idom, so the sweeps end; `Terminates` itself is liveness.

`Mem2RegProofs`, from `FunctionsAssumption` (the functions are `WellFormed`),
`BlockAssumption` (finitely many blocks; no location is not a location),
`PhiIdAssumption` (a phi is made for one block and one variable) and `ValueAssumption`
(constants are no results of instructions, and no result is neither). TLC evaluates the
four on the programs of the run `mem2reg`.

1. `RenamingInvariant`, in two parts. `PlaceInv`: the dominator results are those of
   the graph; `Placed`, the phis of a variable treated are closed under the dominance
   frontier, those of the one in progress but for the blocks of the work list, and
   each in a block the entry reaches lies on the frontier of a store or a phi; before the renaming every block is
   `Shaped`, its phis first, one a variable, and then the code it had. `CallInv`: the
   calls in progress are a path of the dominator tree (`Chain`: what dominates the block
   of a call is the block of a call further out, and no open block is still to be
   visited), outer calls are past their instructions (`Progress`), blocks that are open
   or below one to be visited are still `Shaped`, and the stacks have one value for each
   phi and store an open call has passed (`StacksKnown`). `Shaped` is what makes the
   pops right: re_name counts stores and phis of its block when it returns, long after
   it pushed them, and only the loads may have changed by then.
2. `StacksAreTheOpenCalls`: the run's `StacksAreOpenCalls`.
3. `FailuresAreUnassigned`: `FailsOnlyUnassigned`. An empty stack means that no block
   above in the tree has a phi or a store (`EmptyStack`), and `NoPhiNoStore` gives the
   path.
4. `UsesLeftAreUnassigned`: `UsesLeft`. `Renamed` says which instructions may still
   name an alloca: in a block in progress those before the next instruction that are
   not to be deleted, in a block done all.
5. `PhisMatchThePredecessors`: `PhisMatchPredecessors`. `PhisKnown` says what pairs a
   phi has at any moment: none before the renaming, then one for each predecessor that
   is renamed (not in `Unfilled`), if something above it gives the variable a
   value (`ValueThere` and `EmptyStack`) and only then. So no block nothing reaches gets
   a pair, and what has one shares it with what it dominates. That a phi gets a pair at all needs that each phi was placed for a reason
   (the last part of `Placed`).
6. `CodeIsInSSAForm`: `SSAForm`, with `ValuesInv` on top of 1 and 5. Every value has
   one definition (`IdsKnown`); what an instruction of a live block uses is made above
   it, for a phi above the end of the incoming block (`OperandsKnown`); the values a
   call has pushed are made above the place where that call stands (`StackValues`,
   with `Height`, the part of a stack the calls up to one have made); and what is to be
   deleted is neither used nor on a stack (`GoneKnown`). The last is why
   `replace_all_use_with` may be done once, when the load is met: no load waits on a
   stack, since a value on a stack is made above the load, and the load itself is not
   (`OnlyPlace`). A replacement is right wherever the load was used, because what is
   made above the load is made above all that the load is (`SubstDefined`,
   `DefinedLater`). A child of the dominator tree finds on the stacks what dominates
   it, which is why the tree, and no other order, is walked. That no load or store of an
   alloca is left is `UsesLeft` for a function whose locals are all assigned.

Of `Mem2Reg`, `MeaningKept` is about the values along whole paths and stays with TLC.

`ConstPropagationProofs`, from `FunctionsAssumption` (the functions are `WellFormed`,
section 2), `WidthAssumption` (ints and floats have some bits) and
`PathBoundAssumption`. TLC evaluates the three on the programs of the run `constprop`.
`ConstInvariant` is proved of `ConstInv`, whose part `Sound` holds while `slips` is
empty, and speaks of every sequence of blocks (`Routes`), of which the paths of the
graph are some:

- `CodeIsThinned`: a block has, in their order, instructions it had. Each is a `Version`
  of the one it was: an operand may now be a literal, if that is `Known`, that is, if on
  every run the operand has that value or none wherever it is read. What is missing was
  folded or loaded and is used nowhere. A block not yet ended misses nothing.
- `WaitingIsUnused`: what is to be deleted at the end of the block is used nowhere;
  `replace_all_use_with` has gone through all blocks.
- `TablesHaveKinds`, `TablesHold`: literals of the type of the cell, and the contents of
  the cells on every run to this instruction. To be `Known` is preserved because each
  instruction has an id of its own (`OneDefinition`): a constant that is right when the
  instruction is folded stays right along any run, past other blocks and back round
  loops, since only the same instruction, on operands that are the same constants, makes
  the value again (`KnownFrom`, `FoldKnown`). Of a load that is true because the table is
  true of every run that comes to the load (`LoadKnown`).
- `CrashIsTrap`.

- `TablesTrue`: the run's `TablesAreContents`; `CrashTraps`: `CrashIsUndefined`.
- `MeaningPreserved`: `MeaningKept`. It is a simulation: `Follows` relates a state of the
  new code to one of the old that has taken the steps of the instructions kept and
  deleted up to there. An instruction kept has operands that agree (`StepFollows`), one
  deleted changes no cell, shows nothing and sets a value that is not used
  (`DeletedFollows`), and phis agree at the head of a block (`ArriveFollows`).

Runs are defined by recursion over instructions and blocks, and the library's induction
theorems, which take a predicate as a parameter, cannot be applied here. Instead the
induction is over a set: `NatSet` (a set with 0 and, with each number, the next has
them all), from the least element of a set of numbers, gives that functions with the
equations of the recursive ones exist (`StagesExist`), so that they have these values,
and `RouteInduction` gives what is true of all routes.

`LoopSearchProofs`, about the specification of `LoopInvHoist`, which holds the search,
from `GraphsAssumption` (a branch stays in the function), `BlockAssumption` (finitely many
blocks) and `NoBlockAssumption`. The graphs may have loops of several entries, dead
blocks and branches to the entry. `SearchInvariant` has the layers of Tarjan's
algorithm, none of which is inductive alone:

1. `Typed` and `GraphLeft`: only edges to a base have been taken out, and each node left
   knows its predecessors among the others.
2. `OnTheStack`, `Called`, `Explored`: the stack and the calls are in the order of the
   indices; what a call has gone through is visited, and nothing leads from what is off
   the stack to what is on it or not visited.
3. `Joined`: a call leads to all that is above it on the stack, and each node of the stack
   to the node of a call below it.
4. `Lowest`: a lowlink is the index of a node that is led to, and no edge gone through by
   a call, or by a call it made, ends below that call's lowlink. This is all that is left
   of the usual invariant about lowlinks: the code lowers a caller's when the call
   returns, so a lowlink may be too high in between, and a node off the calls may keep
   one that is too high for good.
5. `Complete`: the components returned are those made of nodes off the stack. When a
   call returns with its lowlink at its index, `Lowest` says no edge leads below it, so
   what is above it on the stack is what it leads to and leads back
   (`PoppedComponent`).
6. `Apart`, `NoWayIn`, between two searches: the components have no common node, and a
   component whose base was null has no way in, neither over an edge that is left nor
   from a base taken out. A base is the entry of an outer loop, so nothing has cut off a
   live component, and what `NullBaseOnlyThen` says is left: a dead one, or one with
   the entry block.

- `ComponentsAreFound`: the run's property `ComponentsFound`, for every graph and every
  order in which nodes and successors are visited.
- `NullBaseOnlyThen`: `CrashesOnlyOnDeadOrEntryLoop`.

- `LoopsInvariant`, the invariant of the rounds: in a function that is `Structured` (no
  dead blocks, each loop entered at its header only) the bases taken out are headers and
  have their natural loops (`BasesAreHeaders`); each component is the natural loop of one
  of its blocks, the headers of the loops around which are all out
  (`ComponentsAreLoops`); and the last loop that gave a block its base is the smallest
  one found around it (`LastIsInnermost`), which is all that `get_inner_loop` relies on.
  That a component of what is left is a whole natural loop, and not a part of one, is
  `ComponentIsLoop`.
- `NaturalLoopsAreFound`: `LoopsAreNaturalLoops`. No natural loop is missed, because when
  the search ends nothing that is left is cyclic.
- `ParentsEnclose`: `ParentIsEnclosing`. The loop of the predecessor that is looked at is
  around the base's loop if it holds the base, and then it is the smallest one around;
  with a block before the loop it always holds the base.

The hoisting itself adds `FunctionsAssumption` (a function's code is on the blocks of the
instance) and `CodeAssumption`: either there is no code to move, as where the run searches
every graph, or the graph is `BuiltGraph` and the code `BuiltCode`. That is: `Structured`;
each loop entered from one block, which is in the loops around it and in no other (the
builder opens a while with a branch from its current block, and the block it ends in is
never a header); each id defined once; each block closed by an instruction without a
value, which is nobody's operand; and every operand defined above its use, which for what
Mem2Reg leaves is `CodeIsInSSAForm`. TLC evaluates both on the programs of the run `loops`.

- `HoistInvariant`, on top of `SearchInvariant` and `LoopsInvariant`. `Placed`: each
  instruction is still there, once, and the blocks still end in one without a value, so
  that what is added goes before the terminator. `Queued`: what waits to move is in the
  loop, and its operands are outside of it or ahead in the queue. `Scanned`: the labels
  are what the loop defines and the queue does not, and what was queued has been looked
  at. `Unmixed`: no loop has an instruction it did not have before, since the destination
  is only in the loops around. `Treated`: a loop that is neither being treated nor still
  to begin with has no instruction left whose operands were all defined outside of it.
  The last is the one that needs the others: a ready instruction that is looked at is
  queued, as no label is one of its operands (`Unmixed`), and a move out of a loop takes
  the instruction no further than into loops it was in already, so it undoes nothing for
  those treated before, whichever inner loop they were reached from.
- `OperandsStayDefined`: the run's `DefinedBeforeUse`, after every single move. An operand
  of the instruction moved that was defined in the loop has moved before it, so it is in
  the destination, ahead; one defined outside dominates the block it was used in without
  being in the loop, hence dominates the entrance of the loop (`DominatorOutside`); and
  the uses of what is moved are below the destination, which dominates the whole loop.
  `MovedUp` says what the four list operations of one move do to positions (`Back`,
  `Forth`), and `MovedOperands` is the argument for code on any graph.
- `NothingReadyStays`: the run's `ReadyIsHoisted`. When the pass is done, every loop is of
  the third kind of `Treated`.

What stays with TLC: `MeaningKept` of `Mem2Reg`, `DeadCode` and `LoopInvHoist`, which
compares the whole meaning of two versions of a function along paths, as that of
`ConstPropagation` does, but where values move between blocks or the paths themselves
change; and `Builder`, `BuilderMeaning`, `Parser`, `AST`, `Spelling` and `Compiler`,
which are recursive over trees.

## 5. Plan

Done: `ActiveVars` with its abstract specification, `DeadCode`, `Naming`, `Dominators`,
`Mem2Reg`, `ConstPropagation`, `LoopSearch` and in one specification with it
`LoopInvHoist`, all eight with proofs; `Builder`, `Parser`, `AST`, `Compiler`. Left, in
this order:

1. Proofs: the scopes of `Builder`; `MeaningKept` of `LoopInvHoist` and `Mem2Reg`, by a
   simulation like the one for `ConstPropagation`.
2. A composition: `ConstPropagation` followed by `DeadCode` on one state, with the use
   lists kept through folding.
3. The interning of types and constants in `Module` and `Constant`.

## 6. Not modelled

The lexer: regular expressions, matched by what flex generates. The interning of types
and constants, one table each; the text of instructions, of the AST and of the JSON
of ActiveVars, but for the pairs of a phi; logging; the runtime library (four calls of
scanf and printf); and the exercises under `tests/2-ir-gen-warmup`, which are not part
of the compiler. `create_doms` and the print functions of `Dominators` are never
called. Names of 30 characters or more, which fill the buffer of a syntax tree node
(`syntax_tree.c:10`) without an end, are not among the texts: what is read then is
whatever the heap holds.

Of what is modelled: one function at a time where functions share nothing (all but
`ActiveVars`, `Dominators` and `Builder`); names, but in `Naming`, and debugging dumps;
the use lists that LoopInvHoist clears, as no pass runs after it.
