# Specifications of bJou

bJou is a compiler (C++, `src/`, `include/`) with a standard library written in
its own language (`modules/`). This directory holds TLA+ models of the parts of
both whose correctness depends on an order of steps (of threads, of files, of
imports, of types, of template instances, of tree rotations) or on two passes of
the compiler agreeing with each other: the dump of a tree with the parser, the
types analysis gives with the code that is generated, the meaning of statements
with the basic blocks they become. With them are the TLC runs that check them,
and machine-checked proofs about the thread pool. Paths below are
relative to the repository root; a source path in `PROJECT.json` has a `src/` in
front of it.

Contents: [1 The system](#1-the-system) ·
[2 Modules and code](#2-modules-and-code) · [3 Runs](#3-runs) ·
[4 Fairness](#4-fairness) · [5 Proofs](#5-proofs) ·
[6 Disagreements with the code](#6-disagreements-with-the-code) ·
[7 What is left out](#7-what-is-left-out) · [8 Plan](#8-plan) ·
[9 Running it](#9-running-it)

## 1 The system

`main` reads the command line into a `Context` (`src/CLI.cpp`,
`src/Compile.cpp`) and `FrontEnd::go` runs stage after stage: parse, import,
symbols, types, analysis, then `LLVMBackEnd` generates code. All stages share
one `FrontEnd` object; only the parse and import stages start threads. An error
is printed and ends the process (`exit`), from whichever thread meets it.

| component | source | state | operations | what is hard | what has to hold |
|---|---|---|---|---|---|
| thread pool | `modules/threadpool.bjou` | lock, condition, task queue, `stop_m`, `n_running`, threads | `create`, `add_task`, `wait`, `running`, `stop`, `free`, `thread_task` | clients and workers interleave at every lock; wake-ups; two ways to stop; tasks that add tasks | no task lost or run twice; `wait` is a barrier; one `stop` joins; stop really stops; no lost wake-up |
| task queue | same | doubly linked list of heap cells | `en`, `de`, `clear`, `task.free` | cells are freed and reused | FIFO; no leak, nothing used after free |
| threads, mutexes, conditions | `modules/thread.bjou`, `modules/__pthread.bjou` | — | wrappers of pthreads | copies of a mutex | as POSIX says |
| driver, command line | `src/Compile.cpp`, `src/CLI.cpp`, `src/Context.cpp` | `Context`, `Compilation` | options, messages, `exit` | `exit` with threads running | — |
| parse stage | `src/FrontEnd.cpp` | `parserContainer`, `AST`, `structs`, the static `module_declared` | batches of `AsyncParser`s, joining and collecting | vector reallocation under running threads; file given twice; unlocked static | the AST does not depend on the threads |
| lexer and parser | `src/Parser.cpp` | position in the text, stacks of operators and operands | `parseTopLevelNode`, `parseExpression`, … | a function that gives up after it has eaten tokens; precedence; forms that begin alike; module declarations checked across threads | what is written groups as the operator table says; what cannot be parsed is reported, not skipped |
| import stage | `src/Module.cpp` | deque of imports, `filesSeen`, `modulesByID`, `modulesByPath`, parsers | `importModules`, parallel and sequential | cyclic imports, two files with one id, files without a module | same result on every machine; every import answered; ends |
| module activation | `src/Module.cpp`, `src/ASTNode.cpp` (`Import`) | `activated`, `activatedAsCT`, `leaveMeAloneArgs`, `isCT` flags | `Module::activate`, `Import::addSymbols`, macro `\ct` | modules met inside and outside `\ct`, in any order | exactly the imported modules active; compile-time only exactly where it should be |
| includes | `src/ASTNode.cpp` (`Include`) | stack of including files | `Include::addSymbols` | inclusion cycles | each include replaced by the nodes of its file |
| scopes, symbols, overloads | `src/Scope.cpp`, `src/Symbol.cpp` | tree of `Scope`s, usings, `ProcSet`s | `addSymbol`, `getSymbol`, `ProcSet::get` | order of lookup, ambiguity, re-entrance with templates | one answer, independent of declaration order |
| types | `src/Type.cpp` | table of interned types by key | constructors, `equivalent`, `conversion`, `arrowConv`, completion of structs, cycle check | types are interned by name; cyclic structs; reference, array and sum types that convert one way | equal types are one object; no struct contains itself; one layout in front end and back end |
| semantic analysis | `src/ASTNode.cpp`, `src/FrontEnd.cpp` | the AST's flags (`ANALYZED`, …), `deferredAST` | `addSymbols`, `analyze`, `desugar`, `clone` of 70 node kinds | nodes replaced while a traversal is on them; conversions inserted above nodes already analyzed; jumps in conditionals, loops and expression blocks | each node analysed once; what is accepted can be compiled, nothing sound is refused |
| templates | `src/Template.cpp` | instances by argument list | inference, instantiation | recursive instantiation, deferral | one instance per argument list |
| macros | `src/Macro.cpp` | table of macros | one procedure per macro | run before or during analysis | — |
| node replacement | `src/ReplacementPolicy.cpp` | — | one policy per kind of parent and field | wrong field | the child is found and replaced, its parent and policy follow |
| compile-time evaluation | `src/Evaluate.cpp`, `include/EvaluateImpl.hpp` | — | constant folding | width of the result | the value the machine computes |
| compiler API | `src/CompilerAPI.cpp` | the tree a front end builds | `bjou_create…` functions, `bjou_dump`, `bjou_parseToMultiNode` | the text is written by 70 `dump` functions that nothing keeps in step with the parser | a dump is read back as the tree it was made from |
| LLVM back end | `src/LLVMBackEnd.cpp`, `src/LLVMABI.cpp`, `src/LLVMGenerator.cpp` | LLVM module, frames, stacks of loops, insertion point, JIT | code generation | one function returns a value or an address; jumps inside conditions; who ends a basic block; struct passing | what analysis accepts becomes code LLVM verifies, which does what the statements say |
| red-black tree | `modules/rbtree.bjou` | nodes with two children, colour, parent; `root`, `beg`, `len` | `insert`, `remove`, `lookup`, `first`, iterator | top-down rebalancing before it is known whether the key is there; a false root on the stack; keys swapped between nodes | balanced, sorted, iterable, `beg` the lowest key |
| hash table, dict, set | `modules/hash_table.bjou`, `modules/dict.bjou`, … | chains, load | insert, remove, rehash | rehashing in place | a map |
| arrays, strings, slices | `modules/__dynamic_array.bjou`, `modules/bucket_array.bjou`, `modules/__string.bjou`, … | buffers, free slots | growth, reuse | capacity boundaries | a sequence |
| OS and library bindings | `modules/c/`, `modules/sys/`, `modules/clang.bjou`, … | — | declarations | — | — |
| vendored code | `tclap/`, `include/flat_hash_map/`, … | — | — | — | — |

How they meet: the parse stage hands `AST` and the imports it found to the
import stage; the import stage fills `Module` objects and answers each `Import`
node; the symbols stage walks the AST, and an import it meets activates its
module, whose nodes (more imports among them) join the walk; analysis runs
macros, `\ct` among them, and instantiates templates, whose results go to
`deferredAST`. The back end walks the analyzed trees and relies on what analysis
left in them: the types, the inserted conversions and the flag that says which
lists of statements end in a jump. A front end for another language uses the
compiler through the C interface; the trees it dumps come back through the
parser. The pool and the containers are libraries of compiled programs
and meet the compiler nowhere.

`PROJECT.json` lists under `hazards`, each at its line, what could go wrong in
these parts and would hardly be met by a test, with the properties aimed at it.

## 2 Modules and code

| module | models | needs |
|---|---|---|
| `ThreadPool` | `threadpool.bjou`, with mutex, condition and threads | — |
| `PoolContract` | abstract: what the pool promises | — |
| `TaskQueue` | `task_queue` and `task` over reused heap cells | — |
| `TaskFifo` | abstract: a FIFO | — |
| `ThreadPoolProofs` | theorems about `ThreadPool` | `ThreadPool` |
| `TaskQueueProofs` | theorems about `TaskQueue` | `TaskQueue`, `SequenceFacts` |
| `ParseStageProofs` | theorems about `ParseStage` | `ParseStage`, `SequenceFacts` |
| `ImportProofs` | theorems about `ImportStage` and `ModuleActivation` | `ModuleActivation`, `SequenceFacts` |
| `StructTypesProofs` | theorems about the completion of `StructTypes` and its cycle check | `StructTypes`, `SequenceFacts` |
| `RBTreeShapes` | what rotating, painting and `insert` do to a red-black tree | `RBTree`, `SequenceFacts` |
| `RBTreeProofs` | the same of `remove`; theorems about `RBTree` | `RBTreeShapes` |
| `SequenceFacts` | induction over numbers; lemmas about concatenations | — |
| `ParseStage` | `FrontEnd::ParseStage`, `AsyncParser`, `Parser::parseCommon`, `moduleCheck` | — |
| `ImportStage` | `importModules`, `Module::fill`, the preloaded module | — |
| `ImportOrder` | abstract: imports served one at a time, in order | — |
| `ModuleActivation` | `SymbolsStage` over imports, `Module::activate`, `Macros::ct`, `isCT` | `ImportStage` |
| `StructTypes` | `FrontEnd::TypesStage`, `StructType::complete`, `makeTemplateStruct`, the cycle check | — |
| `SyntaxTree` | the classes of nodes: their children, `clone`, `unwrap`, destructor, replacement policies | — |
| `Templates` | `Template.cpp`, `ProcSet::get`, and the analysis of declarators, identifiers and calls that leads there | `SyntaxTree` |
| `Types` | keys, equality, conversions, argument matching, sizes, ABI classes of types | — |
| `CodeTypes` | the LLVM type of every type, and what LLVM's instructions demand | `Types` |
| `Sums` | options of sum types, the tags values are stored with and compared by | `CodeTypes` |
| `Expressions` | `analyze` and `generate` of every class of expression | `Sums` |
| `Statements` | the same of the statements that hold expressions | `Expressions` |
| `Parser` | `Parser.cpp`, from tokens to trees | — |
| `Dump` | the `dump` functions of the nodes | `Parser` |
| `CompilerAPI` | the `bjou_create` functions, `bjou_dump`, `bjou_parseToMultiNode`; texts written by hand | `Dump` |
| `SourceFlow` | abstract: the meaning of statements | — |
| `ControlFlow` | analysis of jumps, statements to basic blocks, the compiled program | `SourceFlow` |
| `RBTree` | `rbtree.bjou` | — |
| `MCThreadPool`, `MCParseStage`, `MCModules`, `MCStructTypes`, `MCTemplates`, `MCExpressions`, `MCCompilerAPI`, `MCControlFlow` | instances for TLC | the modules they name |

A definition whose comment begins with "Faulty:" stands before the one it
distorts. It takes part in no specification. Each is the form that definition
would have with a plausible slip in the code, and shows that a property notices
it (`mutants` in `PROJECT.json`).

**ThreadPool.** `lock`, `queue`, `stop_m`, `n_started`, `n_running` are the
pool's fields, `waiters` the threads inside `notify.wait`, `pc` and `task`,
`arg`, `joining` each thread's place and locals; `submitted`, `accepted`,
`done` are history. A critical section is two steps, `Acquire` and the body.
That is no coarser than the code: all shared fields are read and written with
the lock held, except that `free` needs the pool to be unused. Between the
sections everything interleaves: `f(a)` runs outside the lock, may add the
tasks in `Nested`, and `n_running` is given back in a critical section of its
own. `Signal` wakes any one waiter, `SpuriousWakeup` is what POSIX allows, and
`wait`'s polling loop (`usleep`) is `WaitAgain`/`WaitWake`. `stop`'s loop over
`threads` is one `Join` per thread. Clients call operations in any order with
any stop mode, `DONT_STOP` included.

**TaskQueue.** The queue under the lock, so one step per operation. Addresses
(`Cells`) are reused by the allocator as soon as `task.free` gives them back.
`ImplementsFifo` justifies the sequence that `ThreadPool` uses.

**ParseStage.** The main thread opens the files of a batch in order and starts
a thread for each (`StartParser`; a batch has `nthreaded` files, the last one
the remainder, possibly none); the threads parse node by node; `Collect` joins
and appends what was found. The check of `module_declared` and the assignment
to it are two steps (`ModuleCheck`, `ModuleDeclare`), so that two threads can
pass between them. `StoringFuture` is a subtle one: futures are stored in a map
by file name, and overwriting the future of a name given twice blocks until
that thread ends. With one file, one hardware thread or `--noparallel` the
main thread parses into the AST directly (`ParseAlone`, `FailAlone`,
`FileAlone`). Text is reduced to the kinds of top-level nodes.

**ImportStage.** `imports` is the deque, `filesSeen`, `byID`, `byPath` the
tables of the same names, `parsers` the `parserContainer`. Each `Take…` action
is one path through the loop's body up to `continue`, in the parallel or the
sequential branch. The branches differ, and the model keeps the differences:
the sequential one looks up the name as written where the other looks up the
path (`SeenAs`), the parallel one reads a deleted parser when an id is known
already (`TakeKnownId`: the old value, or a crash). A second import of a file
that turned out to provide no module finds a null entry in `modulesByPath`
(`TakeSeen`).

**ModuleActivation.** `stack` holds the `addSymbols` calls in progress, each a
list of nodes still to visit. `Activate` puts the module's nodes in the place of
the import, with the import again in front of them, as the code does, so it is
visited a second time. `above` gives the way to the root which `isCT` and the
search for a surrounding `\ct` walk. `Analyze` is the macro `ct` and the flag it
sets, for all `\ct` of the program at once: nothing reads the flags before.

**StructTypes.** One thread, but mutually recursive functions that find each
other's work half done, so `stack` holds the calls in progress and every step is
a piece of the innermost one. `complete` is `Enter`, the base (`MakeBase` …
`Inherit`), then for each member `DeclareMember` (into `memberVarDecls` and
`memberIndices`), `MakeMember` (its type may be a template instance that does
not exist yet) and `TypeMember`; `makeTemplateStruct` is `Make`, `ExpandMember`,
`CompleteInstance`, `DeferInstance`; `_checkForCycles` is `Descend`, `Cycle`,
`SkipVisited`, `NextDecl`, `CheckEnd`, with the set `visited` passed back to the
caller as the code's reference is. A type declarator is its form and the structs
it names; `Terms` says which of these the code believes have to be complete,
which is not the same as those a value contains (`Sized`): a pointer to a tuple,
a procedure type and a pointer to a template parameter keep the mark
`IMPLIES_COMPLETE`. `NextStruct` takes the types in any order, as the hash table
may. A struct's constants and procedures are not modelled.

**SyntaxTree.** No state machine but the data and operators of one. `FieldTable`
has, for each of the 45 classes of nodes that have children, its fields; a field
is called by the replacement policy of what it holds and says which classes it
admits, whether `clone` copies it (or shares it, or appends the clones to the
originals), whether `unwrap` reaches it and whether the destructor deletes it.
`Clone`, `Unwrap`, `Delete`, `Put` and `Replace` work on a heap of nodes that know
their fields, parent and policy; a deleted node stays in the heap, not `live`, so a
dangling address can be seen.

**Templates.** The analysis stage of a program with a few templates: one step
per statement of `main` (`AnalyzeStatement`) and per deferred node
(`AnalyzeDeferred`), since the compiler is sequential here. What a step does is
`Analyze`, which reaches `MakeStruct` (`makeTemplateStruct`) and `Get`
(`ProcSet::get`), `CheckProc` and `MakeProc`; these reach `Analyze` again. A
function of the code is a chain of operators, each of which ends in a use of the
next and hands it what it has computed, so that TLC evaluates nothing twice. They
thread `compiler`: the heap, the symbols by name, `deferredAST`, the first error,
and as history the `copies` made by substitution. What makes the code delicate is
kept: `makeTemplateProc` names the new instance by exchanging the template's own
parameters and putting them back; terminals are collected before the first
replacement; an instance keeps the argument list of the use that made it; a call
looks its name up twice; an instance is registered before it is filled and
analyzed, so that it may be found from its own body. A program's `uses` say which
instance each of its statements has to name.

**Types, CodeTypes, Sums.** No state. A type is a record of its kind, a number and the
types it is built from; the compiler's types are interned under `Key`, so two
types are one object if their keys are equal, which is the same as equal records
only if keys identify (`KeysIdentify`). That rests on the parser, too: the key of a sum
of one type would be that of a tuple of one type, but a sum or a tuple is declared
with at least two types (`EnoughParts`; the literal `(x,)` has one). Analysis
compares types with `equal`, which differs from being one object in one respect, the
"..." of procedures: `Twins` are a procedure type and its variadic twin, or types that
hold them, and `KeysIdentify` says that equal types are one but for these, and that
the LLVM types of twins differ. `Equal`, `Converts`, `ArgMatch` and
`Conversions` are `equal`, `conv`, `argMatch` and `countConversions` of `Type.cpp`,
`AbiClass` is `LLVMABI.cpp`. `LLVM` is `bJouTypeToLLVMType`. LLVM's instructions are external:
each operator for one of them gives the type of its result, or `Ill` if LLVM
demands other operands. `StoreTag` is the number `get_static_sum_tag_store` computes
for a value that becomes a sum, bit by bit: index of the option, reference bit, a
bit for each struct that an option extends. `Matches` is the comparison compiled for
`if x : T = sum`, from `get_static_sum_tag_cmp` and `generate_destructure_condition`.

**Expressions.** An expression is built bottom up on a `stack` of operands, one
action per class of node. An action is `analyze` of the node, given its analyzed
operands, followed by `generate` of it: it does nothing if analysis reports an
error; otherwise the node comes onto the stack with what its parents will look
at: its type, its class, whether it is constant, and the LLVM type of its
address. `gap` is set instead if what was accepted has no sound code. Since a
node on the stack stands for all expressions that look like it to a parent, the
finite state space covers expressions of any depth. `ExpressionGap` lists the gaps
the code has (section 6).

**Statements.** On top of `Expressions`, an action per statement that takes an
expression: a declaration with or without a type, a destructuring condition, `return`,
`print` and the condition of `if`, `while`, `do` and `for`. What a declaration or a
destructuring makes is a variable, which comes back onto the stack, so that every
expression is also tried on variables the program declares; the others leave
nothing. A declaration without a type takes over the type of its expression, and
pointers to pointers have no end, so `Bounded` admits only types of the instance's
leaves there. `StatementGap` lists the gaps of these. The properties of both
modules stand here.

**Parser, Dump, CompilerAPI.** A text is a sequence of tokens. A parse function
that commits on its first token is a list of steps (`Eat`,
`Must`, `Commas`, …) which `Steps` performs; declarators and expressions loop over
what follows them and have operators of their own. An outcome is a tree, an
error, or `Nothing` with the place where the function stopped, since a function
that returns nothing may have eaten tokens. `Dump` gives the tokens of the text;
two words that are written with nothing between them become one, as a lexer
would have it. In `CompilerAPI` a tree grows by one `bjou_create` call per step, on
top of the one built last; independently, `text` grows token by token.

**SourceFlow, ControlFlow.** Expressions are reduced to what moves control. In
`ControlFlow` a procedure goes through `Analyze` (accepted or refused: what may
stand after a jump, where `break`, `continue` and `yield` may be, whether all
paths return), `Compile` (`Generate` makes basic blocks with the builder's
insertion point and the stacks of loops and expression blocks threaded through)
or `Crash`, and `Start` or `Fail` as LLVM's verifier, which is external, decides:
every block ends in its only terminator, every phi names the blocks that come
before it. Then the compiled program and the meaning of the statements take the
same visible steps (`Call`, `Test`; a test has either outcome, the same in both);
what neither shows is performed in between (`Run`, `Meant`). `CodeFollowsSource`
compares what the two do next.

**RBTree.** One iteration of the loops of `insert` and `remove` is a step; the
links, colours and parent links are those of the code, the false root on the
stack (`head`) included. An address means nothing but what points to it, so a
node is called by its key; when `remove` moves the deleted node's key into
another node, `Renamed` moves the name. `Null` has no colour and no child, and
use of a null root or a delete of a node with children is `"crashed"`.

## 3 Runs

Sizes are distinct states; each run ends within about two minutes on two workers.

| run | instance | states | properties |
|---|---|---|---|
| `thread_pool` | 2 clients, 2 workers, 2 tasks (one added by the other) | 116,062 | `TypeOK`, `Conservation`, `OneJoiner`, `StoppedIsQuiet`, `WaitMeansDone`, `ImplementsContract`, `AcceptedTasksRun`, `StopReturns`, `WaitReturns` |
| `task_queue` | 5 cells | 872 | `NoLeakNoDangling`, `ImplementsFifo` |
| `parse_stage` | up to 5 files, `nthreaded` 0–3 | 121,856 | `InOrder`, `StableParsers`, `ModulesChecked`, no deadlock |
| `modules` | 23,807 programs over 3 files, `nthreaded` 0–2 | 305,003 | `AnswersAgree`, `ActivatedRight`, `CTOnlyIsHidden`, `ImplementsOrder`, `Terminates` |
| `struct_types` | 24,192 programs of 2 structs and 2 template instances | 1,200,827 | `CheckIsExact`, `LayoutFollowsBase`, `StageCompletes`, `Terminates` |
| `templates` | 795 programs: every place of a parameter, inferred and given arguments | 5,614 | `Accepted`, `TemplatesIntact`, `FaithfulCopies`, `TreesAreOwned`, `UsesResolve` |
| `expressions` | 5 structs, 12 sums, a variable of nearly every kind of type; depth unbounded | 115,248 | `AcceptedIsSound`, `AddressesMatch`, `KeysIdentify`, `TagsTell` |
| `compiler_api` | trees of 3 levels, texts of up to 3 tokens, expressions of up to 8 | 43,028 | `RoundTrip`, `Grouping`, `NothingIsFree` |
| `control_flow` | 19,212 bodies in 3 kinds of procedures | 460,292 | `CodeIsSound`, `CodeFollowsSource` |
| `rbtree` | 9 keys, only present keys removed | 235,208 | `Balanced`, `Iterates`, `KeepsLowest` |
| `struct_cycles` | as `struct_types` | — | `CircularTypesRefused` is violated |
| `rbtree_absent` | 3 keys, absent ones removed too | — | `KeepsLowest` is violated |

Why the bounds are enough to be interesting:

- *Pool.* Two workers are the fewest for which a signal can wake the wrong one
  and a task may run while another is taken; two clients the fewest that can
  race `stop` against `stop`, `wait` or `add_task`. Two tasks let one be queued
  or run while it, or a client, adds the other. The run states liveness, so it
  uses no symmetry. The proofs cover all larger instances. With one task that a client
  adds and one that the first adds, the queue never holds two tasks here: that tasks
  are taken in the order they were added rests on the theorems `Refinement` and
  `TasksAreConserved`, for any number of tasks, and on `ListImplementsFifo` with the
  run `task_queue` for the list itself.
- *Task queue.* Lists of length 0, 1, 2 and more behave differently in `en` and
  `de`; five cells give each of them with every pattern of reuse.
- *Parse stage.* Three threads and up to five files: full batches, a shorter
  last one, an empty last one; `CommandLines` has every pair of files over all
  node lists, with duplicates and unreadable files, and the longer command
  lines over two node lists.
- *Modules.* `Mistaken` has missing files, files without a module, two files
  with one id, two names for one file and syntax errors; `WithCT` has every
  arrangement of imports inside and outside `\ct` with cycles, of up to two
  imports in the program and in one module, and one in the others; `Wide` starts
  as many parsers as the loop ever does. `Machines` is 0 to 2 threads: the loop's
  two limits differ from 2 on.
- *Struct types.* `MCPrograms` has every combination of bases (none, itself, the
  other struct, an instance, and an instance that extends a struct) with members
  that hold, point to or name these types, so that every mutual dependency of
  length up to three occurs, and a declarator with two instances, the second of
  which is made in the middle of a cycle check of the first.
- *Templates.* `InPlaces` has one template procedure for each class of statement,
  whose body holds a parameter (as a type, as the left of an access, as the
  argument of a macro) in every field that can hold it, alone and inside every
  other class, and instantiates it twice; `Inferred` has eight shapes of
  parameter types, bodies that call the template itself or another one for the same
  argument, and every pair of calls with given and inferred arguments; `Structs`
  every sequence of three uses of two template structs, one of which has the
  other, and an instance of an instance, as members. Two argument types are enough
  for two instances to be confused.
- *Expressions.* The instance has one type of each kind that analysis or code
  generation tells apart, by value and by reference, structs that are passed in
  registers and in memory, and a chain of three structs that extend one another.
  Two operands on the stack are enough for every binary operator; a call with more
  takes its further arguments from variables. `MCSums` has options by value and by
  reference for each link of the chain, sums of one and of three index bits, a
  sum within a sum, and for `KeysIdentify` a sum of the types of a tuple, one of a single
  type, which the parser refuses, and tuples of one element. `Log` is the variadic twin of the procedure type `Unop`:
  variables of both, procedures named for both, a struct and two sums that hold
  one or both, and a procedure that takes one, let each be given for the other
  wherever a type is compared.
- *Grammar.* `MaxHeight` 2 puts every form under every form, where a dump loses
  parentheses or spaces; three tokens give every parse function a text it must give
  up after one or two; eight tokens make expressions of four operands, whose
  `MCOperators` are an assignment (the one that groups to the right) and four other levels.
- *Control flow.* `AllBodies` nests every statement in every statement, with lists
  that jump at their beginning, in their middle or not at all, and with conditions
  that are tests, `and`s, `or`s and blocks which jump or yield on one of two paths.
  Statements nested deeper see the same stacks: the innermost loop and block.
- *Red-black tree.* Nine keys reach black height 3 with rotations of all kinds on
  the way down at two levels. `Width` stands for 2^32 in `len`; it only has to
  exceed the number of keys by two.

`CHECK_DEADLOCK FALSE` is set where what is modelled ends: `modules`, `struct_types`,
`templates`, `compiler_api` (trees and texts are bounded), `control_flow` (the program
returns), `struct_cycles` and `rbtree_absent` (a crash ends it). The others have no
terminal state, or one with an explicit stutter (`Over`, `AfterFree`), so TLC's
deadlock check is meaningful: in `parse_stage` it shows that the main thread never
waits for good, whatever is given twice. A process that ended by error is `Over`.

What they show, in words:

- Pool: with the lock taken and given back as the code does, no task is lost,
  duplicated or started after an immediate stop; `wait` returns only when all
  accepted tasks have ended, nested ones included; of concurrent `stop`s one
  joins; no wake-up is lost. The pool implements `PoolContract`, a specification
  without threads.
- Parse stage: AST and `structs` are those of a sequential parse; no
  `AsyncParser` is moved while its thread runs; a second `module` declaration is
  accepted only if two files of one batch race for `module_declared`.
- Modules: the parallel import stage serves imports in the order in which the
  sequential one does, so the file that provides an id never depends on the
  machine; activation reaches exactly what imports lead to, and marks nothing a
  run-time import leads to.
- Struct types: however bases, members and template arguments refer to each
  other, the stage ends, and every type has its base's layout followed by its own — unless that base was
  still being completed. The search for cycles reports exactly the cycles among
  the members it sees; what it sees is another matter (section 6).
- Templates: no program of the instance is refused; every use gets the one
  instance for its own arguments, given or inferred; each instance is the template
  with the arguments in place of the parameters, everywhere; the template is
  afterwards as it was written, no two trees share a node, no tree holds a
  deleted one, and every node knows the place it can be replaced at.
- Expressions and statements: up to the gaps named in section 6, whatever analysis
  accepts, however deep, becomes instructions whose operands have the types LLVM
  demands; every address that can be assigned through points to what its type is
  stored as; no two types have one key, and types that analysis takes for equal are one
  but for the "..." of procedures. A sum is taken out as exactly the types it
  holds or extends, by value or reference as it holds them.
- Grammar: a dump of any tree is read back as that tree, but for the forms `Lost`
  names; operators group as their precedences say, by an independent definition
  (`Grouped`: cut at the weakest); a parse function that returns nothing has eaten
  nothing, but for the texts `GivenUp` names.
- Control flow: what analysis lets through becomes code that LLVM's verifier
  accepts, up to the exceptions of section 6, and does what the statements mean.
- Red-black tree: after every operation on present keys it is balanced, sorted,
  correctly linked and knows its lowest key.

## 4 Fairness

- `ThreadPool!FairSpec`: weak fairness of each thread's steps outside `Next`'s
  free choices — the operating system runs every thread. Strong fairness of
  `Acquire`: `wait()` takes and releases the lock in a polling loop, so another
  thread finds it taken again and again; a mutex that served the poller for ever
  would starve the workers, and pthread mutexes with `usleep` in the loop do not.
  Nothing is assumed of calls a program need not make, of spurious wake-ups or
  of the choice `Signal` makes. `TaskReturns` is fair: a task that never returns
  keeps `stop` waiting by design.
- `ModuleActivation!FairSpec`: weak fairness of `Next`. Every step is the main
  thread's or a parser's and each parser has finitely many, so one condition
  is enough: as long as any thread can go on, one does.
- `StructTypes!Spec`: weak fairness of `Next`: the compiler's only thread goes on.
- `ParseStage`, `TaskQueue`, `Templates`, `Statements`, `CompilerAPI`, `ControlFlow` and
  `RBTree` state safety only: they are sequential or, as `ParseStage`, show by the
  absence of deadlock that somebody can go on.

## 5 Proofs

The theorems hold for every value of the constants that satisfies the assumption
of the module, which says no more than what the constants are:
`ThreadPoolAssumption` (clients are no workers, `None` is neither thread nor task,
`Nested` are tasks, `Owner` is a client), `TaskQueueAssumption` (finitely many
cells, `Null` is none), `ParseAssumption`, `ImportAssumption` and
`StructTypesAssumption` (programs are programs, files are not error flags), and
`RBTreeAssumption` (the keys are 1 to `MaxKey`, `Null` and the false root are none,
and `len` is wide enough to count them). So they hold for any number of threads,
files, imports, types, members and keys.

| component | theorem | states |
|---|---|---|
| thread pool | `Invariance` | its `IInv` always holds |
| | `TypeCorrect`, `TasksAreConserved`, `OneStopJoins` | `TypeOK`, `Conservation`, `OneJoiner` |
| | `LockIsDisciplined`, `RunningIsCounted` | `LockDiscipline`, `CountsBusy`: parts of the induction, no properties of a run |
| | `StopIsQuiet`, `WaitIsABarrier` | `StoppedIsQuiet`, `WaitMeansDone` |
| | `Refinement` | `ImplementsContract` |
| task queue | `Inductive`, `NoLeak` | its `IInv`, `NoLeakNoDangling` |
| | `ListImplementsFifo` | `ImplementsFifo` |
| parse stage | `ParseStageInductive` | its `IInv` |
| | `ParsersStable`, `ParsedInOrder`, `ModulesAreChecked` | `StableParsers`, `InOrder`, `ModulesChecked` |
| import stage | `ImportInductive`, `AnswersAlwaysAgree` | its `IInv`, `AnswersAgree` |
| | `ImportsImplementOrder` | `ImplementsOrder` |
| module activation | `ActivationInductive` | `ActivationInv` |
| | `ActivationIsRight`, `CompileTimeIsHidden` | `ActivatedRight`, `CTOnlyIsHidden` |
| struct types | `StructTypesInductive` | its `IInv` |
| | `LayoutsFollow`, `TheStageCompletes` | `LayoutFollowsBase`, `StageCompletes` |
| cycle check | `SearchInductive`, `ChecksAreExact` | `SearchInv`, `CheckIsExact` |
| red-black tree | `AlwaysRBInv` | its `RBInv` |
| | `AlwaysBalanced` | `Balanced`, also when absent keys are removed |
| | `AlwaysIterates`, `LowestKept` | `Iterates`, `KeepsLowest`, if only present keys are removed |

None of the properties is inductive by itself. Each invariant was first checked by
TLC on the runs of section 3, then proved with one lemma for each part of it and
one step for each action.

**Thread pool.** That `n_running` is never wrong
needs to know which program points hold a task; that a task is nowhere twice
needs to know that a task on its way into `add_task` is not in the pool yet;
that a stopped pool is quiet needs to know why a worker left. `IInv` adds three
parts to the properties:

- `WorkerPhases`: exactly the workers up to `n_started` exist; a worker has a
  task exactly at the points between `de` and the end of its accounting; only
  threads in `cond.wait` are waiters; a worker leaves only when `MayLeave` holds
  — and this stays true because `add_task` refuses once a mode is set.
- `Handover`: tasks inside `add_task` are submitted, not accepted, and each with
  one thread.
- `ClientPhases`: nobody uses the pool before `create` returns; a joiner has set
  the mode and has already joined workers that are gone; a freed pool has no
  client, no worker and, after a graceful stop, no unfinished task.

`StopIsQuiet` needs no further induction: with all
workers gone `Busy` is empty, and `WorkerPhases` applied to any worker (there is
one, since `create` turns 0 into 1) gives an empty queue after a graceful stop.
`Refinement` maps `running` to the tasks of `Busy` workers; `Start` needs
`Cardinality(Busy) <= PoolSize` minus the worker that takes the task, and
`Discard` the quiet of a stopped pool.

**Task queue.** `Spells(q, s)`: the links of the list, in both directions, spell a
sequence `s` of different cells; with what the worker holds these are the
allocated ones. `en` appends, `de` takes the head, `clear` frees all of `s`, and
the recursive function `FromTail`, the mapping of the refinement, is shown to be `s`.

**Parse stage.** `BatchInv` says which files the container holds (those from the
beginning of the batch up to `next`) and that the AST is that of the batches
before; `ParsedOf` does it for the branch without threads. `RaceInv` is about
`module_declared`: a parser that has passed the check without having declared yet
is one of this batch, so whoever claims to be the first module ran together with
all others who do. That every batch begins where the one before ended, the last
one too, is arithmetic of `div`.

**Import stage.** `Providers`: who provides an id declares it, and a file that was
seen found its id provided. `Queue`: the deque holds, each once, the imports
without an answer of the modules filled so far, and what is registered and not
filled has a parser. The refinement mapping puts the imports that the running
parsers will find (`Pending`) behind the deque; that it is unchanged by joining
and collecting is the associativity of `FlattenSeq`, proved in `SequenceFacts`.

**Module activation.** The difficult part is a module that was met first inside a
`\ct` and is then freed. `Nested`: the lists of nodes still to visit lie so that,
if one that waits is inside a `\ct`, all before it are, or have their module
already and do not free it. So nothing is freed while a module inside a `\ct` is being
visited, and a freed module has had all its nodes visited. `Marked` concludes that
an unmarked module has no marked module behind an ordinary import: an ordinary
visit frees it, and awakening a module awakens all the marked ones it imports.
`Chains` and `Places` say from where a module can be reached and that the nodes
above it lead to it; `PutAt` is therefore the answer of its node, and one whose
`\ct` was told to leave it alone is not hidden below another.

**Struct types.** `StageInv` accounts for every type: it waits in the table, is about to
be completed, is being made, or is complete. `Nested` says which call of the stack
has made which, `Layouts` how far the completion of each type has come: the base's
layout and its own members up to the index of the call. `LayoutFollowsBase` excepts
types laid out on an unfinished base (`early`), and so does the invariant.

**Cycle check.** A type is safe when no cycle can be reached from it. The check
visits a type once and remembers one path, so what it has visited and left must
be safe; but a type may be visited while a call further up the stack is still
adding members to it, and a check inside a completion may not know members yet.
`SafeAt` therefore leaves out the types that depend on no more than a type some
call above has opened (`Growing`), and each of those is the root of a check of its
own before the outer one goes on. The lemmas about graphs (`SafeNode`, `SafeOver`,
`SafeFrame`, `CycleUnsafe`) use closed sets of types and no paths, which the
definition of `Acyclic` in `StructTypes` does not need either.

**Red-black tree.** What makes the tree balanced and sorted is a property of all its
paths. `RBInv` says it of single nodes instead: there are a set `N` of nodes, for each
node the open interval (`lo`, `hi`) of the keys its place is for, and black heights
(`Even`), so that every link from a node, up or down, fits. None of these is a variable
of the code; the proof names new ones after each step (TLC checked `RBInv` with those
one can compute from the root). A rotation (`single`, `double`) leaves `N` as it is and
changes bounds and heights at two or three nodes. At the head of either loop no red
node has a red child (`Cool`); what each loop needs to know besides, to get there again
and to end, is about the nodes at hand:

- `Inserting`: an iteration may colour `q` red. If its parent `p` is red too, `q` is
  not one to be coloured (`Calm`), or there is a grandparent `g` that a turn mends it
  about (`Turnable`). If the last turn has taken `p` from below `g`, `p` is black.
- `Deleting`: `q` or the next node is red, or nothing above `q` is; so the leaf `remove`
  ends at is red or the root, and can go without changing a black height. `Found` says
  where the sought key is from the interval of `q`: the loop ends at the node with the
  key, or at the next lower one, which lies below it. `Renamed` keeps the order since no
  key of the tree lies between the two.

`IsLeast` ties `beg` to `N`, and `Counted` ties `len` and `contents`. From `RBInv` follow
the three properties. The interval of a node has `hi - lo - 1` keys and those of its
children have fewer; this bounds the length of a path, so that `within`, `blacks`, the
path of a `lookup`, `leftmost` and `climb`, which are recursive functions, get their
values by induction over numbers. `AlwaysIterates` and `LowestKept` assume that no
absent key is removed (`RemoveAbsent = FALSE`, as in the run `rbtree`), because otherwise
they are false, as `rbtree_absent` shows; the shape of the tree does not depend on it.

For these proofs some definitions were put in a form the prover can follow, without
changing what they mean: the stack of `StructTypes` has its innermost call last,
`StructsOf` of `ParseStage` is a recursive function, and `Reach` of
`ModuleActivation` is the smallest closed set instead of the last of
`Cardinality(Files)` rounds (TLC found both equal in every state of run `modules`).
In `RBTree` it is `within` and `blacks`, which are now recursive in the depth alone.

Induction works for numbers and sequences in the form of `SetInduction`
(`SequenceFacts`), which speaks of a set instead of a predicate; the library's own
theorems take the predicate as an operator, which none of the provers can instantiate.

Only model-checked:

- liveness (`AcceptedTasksRun`, `StopReturns`, `WaitReturns`, the three `Terminates`): it
  rests on fairness, which is out of the prover's reach;
- `Templates`, `Types` and all that extends it (`CodeTypes`, `Sums`, `Expressions`,
  `Statements`), `Parser`, `Dump`, `CompilerAPI`, `SourceFlow` and `ControlFlow`: their
  operators are recursive over trees of syntax and types (`RECURSIVE`), with which
  the prover has no arithmetic.

## 6 Disagreements with the code

Two runs are expected to fail; each checks something the repository itself
says:

- `struct_cycles`. `TypesStage` checks a type for cycles *before* it completes it,
  and the check walks `memberVarDecls`, which only completion fills. `A` with a
  member `B` and `B` with a member `A`, both by value, pass the stage; the error
  "creates a circular dependency" is given only for types that were completed
  earlier, as a base or through a template, and so depends on the order of a hash
  table.
- `rbtree_absent`. `remove` of a key that is absent decrements `len`. With
  `len = 1` and two keys left, removing the root's key destroys both, and
  `first()` finds no lowest key.

Disagreements that stand as an exception in the property named, so that everything
else is checked:

- *Compile-time imports* (`CTOnlyIsHidden`, `ActivatedRight`). A module first activated
  through *another* module inside `\ct{…}` and imported outside later stays hidden at
  run time. The comment in `src/Module.cpp:56` says the surrounding `\ct` is told to
  ignore it; it is put into `leaveMeAloneArgs`, but `Macros::ct`
  (`src/Macro.cpp:275`) looks only for its own arguments there and marks the
  `MultiNode` around it.
- *Imports without a module* (`AnswersAgree`). A *second* import of a file that declares
  no module (or whose id another file provides) gets a null module and no error flag,
  and the symbols stage fails an assertion if it meets that one first instead of
  reporting "does not declare a module."
- *Template structs written out* (`Accepted`, whose programs leave them out).
  `makeTemplateProc` looks for an existing instance under a name that spells the
  replaced parameters as they are written. `P$(S$(int))(x)` is spelled `S` there
  (`Declarator::asString` leaves the arguments out), but the instance is stored when
  its parameter has become `S$(int)`. The second lookup of the same call misses it
  and makes it again: "Redefinition of". `bugs.txt:19` calls differing names of one
  type no problem "except for code bloat".
- *A cast after an access* (`CastIsDropped` in `Grouping`). In `not x.x as int` and
  `x - x.x as int`, `applyPostfixOp` (`src/Parser.cpp:1583`) eats the `as` when only
  the access is in its hands and drops it.
- *Dumps* (`Lost` in `RoundTrip`). Some nodes have no text (`~`, the afterthoughts of a
  `for`, a `using` that imports), of some a part is not written (the base of a type,
  the arguments of a template), and some are read as something else.
- *Texts given up* (`GivenUp` in `NothingIsFree`). After an operator without an operand, a
  call without arguments or a specifier without a type, the parser has eaten
  something and returns nothing.
- *Expressions* (`ExpressionGap` in `AcceptedIsSound`), accepted but without sound code:
  casts between pointers and procedures or arrays, of a float to `char` and to sums with
  references; assignment of a struct that has no address; `<` and its like on enums and bools,
  `==` of a bool and a float; subtraction of references to pointers; `@` and `[]` of
  `void*`; `&` of an array or a value; access to a member of a value; slices of
  references to slices; variadic calls whose result is in memory
  (`src/LLVMBackEnd.cpp:2477` counts the hidden argument); literals of structs that
  hold references, and literals that are no constants of structs passed in memory,
  which give their address for their value; blocks that yield references or
  arrays; `~` and array literals.
- *Statements* (`StatementGap` in `AcceptedIsSound`): `x : int ref = f` with a conversion
  uses the converted value as an address; a struct constant has no address to declare
  or print from; `return` by reference does not ask for something that has an
  address, and an array result is the address of a local; `print` accepts every type
  and ends with an internal error on those `gen_printf_fmt` has no case for; a sum of a
  reference and `none` is taken out as a base of the struct, or as `none`, with a value of
  another LLVM type.
- *Sums* (`Repeating` in `TagsTell`): `((int ref | char) | int)` holds `int` twice. The check
  for this (`src/ASTNode.cpp:5878`, "is repeated in this sum type") remembers what comes
  from a sum within with its reference and looks it up without (`bugs.txt`, item 14).
  A sum may list a procedure type and its variadic twin, too; `get_static_sum_tag_store`
  then stores the second as the first, which it finds equal.
- *Variadic procedures* (`TwinGap` in `AcceptedIsSound`, `Twins` in `KeysIdentify`): `equal`
  (`src/Type.cpp:1217`) does not compare `isVararg`, which the key and the LLVM function type
  (`src/LLVMABI.cpp:137`) have. A variadic procedure is therefore taken for the
  procedure without "...", and the other way round, and no conversion is inserted, when it is
  assigned, passed, declared, returned, yielded or stored in a struct or a sum, and
  when pointers to the two are compared or subtracted; the instruction
  then has operands of two LLVM types. `TwinGap` leaves out just that: the type given and
  the type wanted (or the option of the sum it is stored as) are twins.
- *Control flow* (`HasDangling`, `EarlyBreak`, `EarlyContinue`, `Ungenerated`): code after a
  conditional that ends on all paths, or in a block expression that jumps, is
  put into a block that has ended; a `break` or `continue` in the condition of a loop
  meets the stacks of the loop around it, or none; `match` has no `generate`.
  Statements of the program itself that need local memory find `local_alloc_stack`
  empty (`src/LLVMBackEnd.cpp:1351`; only procedures push, `4378`): `Crash`. An
  expression block that yields nothing on a path leaves its value undefined
  (`bugs.txt`, item 5); `foreach` evaluates its expression again every round
  (`bugs.txt`, item 20), in the model as in the code.

Behaviour that no property promises away, worth knowing:

- `wait()` never returns after an immediate stop left tasks queued
  (`WaitReturns` excludes that case).
- A second `stop()` returns at once, before the workers have left; freeing the
  pool then would be too early. `Free` waits for the one that joined.
- A task that calls `stop()` joins its own thread. Tasks of the model only add
  tasks.
- `importModules` reads `parser->mod_decl` after `delete parser`
  (`src/Module.cpp:208`): the model lets it read the old value or crash.
- What a module imports inside a `\ct` of its own is freed for run time
  or not depending on the order in which the module itself was imported.
  `CTOnlyIsHidden` and `ActivatedRight` leave such modules open.
- The cycle check can also refuse a sound type: a struct that is completed
  before it is checked and names itself in a procedure type, behind a pointer to a
  tuple, or as the argument of a template that holds a pointer to its parameter.
  The comment in `src/Type.cpp:660` claims that a pointer anywhere prevents it.
- A template instance that extends the struct one of whose members is that
  instance copies the layout of a half-completed base: `memberIndices` has the
  member, `memberTypes` not. `early` marks such structs, and `LayoutFollowsBase`
  leaves them out.
- `A extends B` and `B extends A` pass the stage (only a type that extends itself
  directly is refused).
- `TupleLiteral`, `ExprBlock` and `NamedArg` neither unwrap nor delete their
  children, `ExprBlock::clone` doubles the statements, `MultiNode::clone` shares
  them: a template parameter inside one of these stays a parameter.
- `addSymbols` of a template struct gives the elements of its own parameter list
  to the list of a member template procedure, and `Struct::clone` shares those
  procedures among instances.
- A procedure inside a template procedure is registered by every instance under
  one name.
- A template that uses itself with a growing argument (`f$(T*)` in `f`) is
  instantiated without end.
- `module_declared` and `makeUID`'s counter are unlocked statics used by parser
  threads.
- Destructuring casts the address of a sum's data to that of the option, whatever its
  alignment; `print` reads the sign of `bool` and `char` through an `IntType*`, which they
  are not; `allocUnnamedVal` for an array returns without restoring the insertion
  point (`src/LLVMBackEnd.cpp:1405`).

## 7 What is left out

- Characters: a text is a sequence of tokens. Messages, file contents where other
  questions are asked, option parsing.
- Scopes, lookup and the full resolution of overloads; compile-time evaluation and
  literals that do not fit their type; includes; macros but for `\ct` (one after a jump, which
  `searchUnreach`, `src/ASTNode.cpp:7537`, lets pass, is not among the bodies of `ControlFlow`).
  `Statements` has no globals; `AccessExpression` has the members of structs and tuples, not the
  constants of structs (`src/ASTNode.cpp:2557`) nor the members of slices and dynamic arrays (`2534`).
- The cache of generated nodes (`getOrGenNode`), but for its effect on a sum that is
  taken out; debug information; the JIT; optimization and linking (`LLVMGenerator.cpp`).
- The containers but for the tree: hash table, arrays, strings.
- `MacroUse::analyze`, which completes types while it iterates over the type table.
- LLVM, the linker, the operating system.
- `makeUID`'s race, `exit` with running threads, `hardware_concurrency() = 0`
  (`hazards` gives the reasons one by one).
- In `Templates`: the classes and member template procedures just named,
  procedures within procedures, `this`, conversions of arguments, several
  templates of one name (the templates made for `S.f$(int)(x)` are declared but not
  called), modules, macros other than as a place for a parameter.
  Expressions have no types but for names of parameters. `SyntaxTree` leaves out
  `Import`, `Include`, `Enum`, `Namespace` and other nodes without children.
- In `RBTree`, values stored with keys, and `destroy` of a tree other than by
  `remove`.

## 8 Plan

Done: `ThreadPool`, `PoolContract`, `TaskQueue`, `TaskFifo`, the proofs of section 5,
`ParseStage`, `ImportStage`, `ImportOrder`, `ModuleActivation`, `StructTypes`,
`SyntaxTree`, `Templates`, `RBTree`, `Types`, `CodeTypes`, `Sums`, `Expressions`, `Statements`,
`Parser`, `Dump`, `CompilerAPI`, `SourceFlow`, `ControlFlow`.

Next, in this order:

1. *Scopes and overloads*: lookup through scopes, usings and modules, and
   `ProcSet::get` against a reference definition of the best candidate.
2. *Analysis*: macros and the replacement of nodes during a traversal, on
   `SyntaxTree`; the completion of types by `MacroUse::analyze`. Liveness: the stage
   ends; safety: no node is left unanalysed.
3. *Templates*, the rest: template procedures as members, several templates of one
   name, conversions.
4. *Constant folding* at the widths of the integer types, against `Expressions`.
5. *Containers*: hash table, dynamic array, bucket array as refinements of a map
   and a sequence.
6. *Includes*, next to `ModuleActivation`.
7. *Globals* and the order in which the back end completes them.

Two models that can step side by side share a run, as the import stage and module
activation do, and each keeps its two or three deepest properties.

Proofs: those of section 5 are done. What section 5 leaves to TLC stays there; a proof
about `Templates` or `Types` would first need their recursion over trees written as
recursive functions.

## 9 Running it

    tlc -workers 2 -config ThreadPool.cfg     MCThreadPool
    tlc -workers 2 -config TaskQueue.cfg      TaskQueue
    tlc -workers 2 -config ParseStage.cfg     MCParseStage
    tlc -workers 2 -config Modules.cfg        MCModules
    tlc -workers 2 -config StructTypes.cfg    MCStructTypes
    tlc -workers 2 -config Templates.cfg      MCTemplates
    tlc -workers 2 -config Expressions.cfg    MCExpressions
    tlc -workers 2 -config CompilerAPI.cfg    MCCompilerAPI
    tlc -workers 2 -config ControlFlow.cfg    MCControlFlow
    tlc -workers 2 -config RBTree.cfg         RBTree
    for m in SequenceFacts ThreadPoolProofs TaskQueueProofs ParseStageProofs \
             ImportProofs StructTypesProofs RBTreeShapes RBTreeProofs
    do tlapm $m.tla; done

`StructCycles.cfg` (of `MCStructTypes`) and `RBTreeAbsent.cfg` (of `RBTree`) end with a
counterexample. The modules use the
TLA+ community modules (`SequencesExt`) and, for the proofs, the library
of TLAPS.
