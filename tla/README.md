# TLA+ models of Coppelia

Coppelia searches a processor design for inputs that violate an assertion. It is
a symbolic executor, KLEE with additions of its own, run on the C++ that Verilator
makes of a Verilog core. This directory holds TLA+ models of the parts of the
executor that decide which paths are explored, what each path sees in memory, what
the expressions it builds mean and which answers it gets from the solver; of the
POSIX runtime the program under test is linked with; and of what Coppelia adds, the
cone of influence and the backward search over clock cycles; TLC configurations that check them on small
instances; and TLAPS proofs of the results that matter most.

All paths below are relative to `src/Coppelia/`; line numbers are those of the
files named in `PROJECT.json`, where every definition is mapped to the lines it
models.

## 1. The system

### Parts, their state and operations

| Part | State | Operations | What makes it correct |
|---|---|---|---|
| `Executor` run loop (`klee/lib/Core/Executor.cpp`, `ExecutorTimers.cpp`) | `states`, `addedStates`, `removedStates`, `seedMap`, `haltExecution`, `atMemoryLimit`, counters | `run`, `fork`, `branch`, `terminateState*`, `updateStates`, `processTimers`, `checkMemoryUsage`, `doDumpStates` | no path lost or counted twice, no state used after deletion, no seed with two owners, no assertion fails, halting ends the run |
| Searchers (`Searcher.cpp`, `UserSearcher.cpp`) | containers of states, paused states, the last batch, mode and counters of `HardwareSearcher` | `selectState`, `update`, `empty` | hold exactly the executor's states, always have one to select |
| Merging searchers (`Searcher.cpp`) | states waiting at `klee_merge` | `selectState` (which itself terminates states), `update` | lose no path, return, nobody waits for ever |
| Process tree (`PTree.cpp`) | binary tree, a leaf per state | `split`, `remove`; the random-path searcher walks it | leaves are the states |
| Address spaces (`AddressSpace.cpp`, `Memory.cpp`, `ExecutionState.cpp`) | `objects`, `cowKey`, `copyOnWriteOwner`, `readOnly`, contents | alloc, free, write, make symbolic, external call, fork, merge | a write of one state is never seen by another |
| Object states (`Memory.cpp`) | per byte a concrete value, a known expression or an entry of the update list, three masks | read and write of every width at constant and symbolic offsets, flush, copy, external change | a read gives what was last written, in every world of the path |
| Solver chain (`klee/lib/Solver`, `klee/lib/Basic/ConstructSolverChain.cpp`) | two caches shared by all states; the work lists of a slicing | `evaluate`, `mustBeTrue`, `getValue`, `getInitialValues` | the answer is right for the whole path, whatever was asked before |
| Coppelia's additions (`ExecutorMultiCycles`, `ExecutorPrune`, `ExecutorCoI`, `DependencyGraph`, `VarAnalysis`, `ExecutorCores`) | snapshots, dependency graph, constraints saved for a cycle, values stored into internal states, the flag `notAPreCond` | pruning, cone of influence, chaining of cycles | a pruned state has an equivalent twin; a skipped call changes no asserted register; what replaces an internal state is what was stored in it |
| Expressions and constraints (`klee/lib/Expr`) | expression DAGs, constraint lists | build, simplify, evaluate, imply values, print, parse | none of them changes what an expression means |
| Translation and fast solving (`STPBuilder`, `Z3Builder`, `MetaSMTBuilder.h`, `ConstantDivision.cpp`, `FastCexSolver`) | formulas, ranges of bytes | construct, propagate ranges | every solver is asked the same question; a fast answer is right |
| POSIX runtime (`klee/runtime/POSIX`) | descriptor table, symbolic files, failure counters | set-up from the command line, every call of `fd.c` | answers, descriptors and offsets tell one story |
| Support: data structures, statistics, module passes, tools, C library | | | |
| Processor cores, scripts, test benches (`cores`, `script`, `one_cycle`) | | | input of the program |

### How they interact

There is one thread. `Executor::run` asks the searcher for a state, lets it execute
one instruction, runs the timers and the memory check, and calls `updateStates`.
An instruction calls `fork` or `branch` (new states go to `addedStates` and the
process tree is split), `terminateState` (a state goes to `removedStates`, or is
deleted at once when it is still in `addedStates`), the address space of its own
state, and the solver. `updateStates` tells the searcher first and changes `states`
after. `SIGINT` sets `haltExecution` at any point. A merging searcher calls
`terminateState` from inside `selectState`. The address spaces of two states share
object states until one of them writes; all states share the solver's caches.

### What is hard

Although nothing runs in parallel, the difficulties are those of a concurrent
system: several parties (the instruction, the timers, the memory check, the merging
searcher, the dump) queue changes to the same sets without looking at one another,
and everybody works on stale sets until `updateStates`; ownership by comparing two
counters has to be right after any history of forks; a cache filled by one path
answers another, in another orientation, for a subset or a superset; a closure is
computed over a list while the set it is compared with grows; the solver may fail
halfway. A byte of an object lives in one of three places, and every access moves it.
An expression is rewritten by whoever touches it (constructors, builders, constraint
manager, partial evaluation, printer and parser, three translations), and each rewriting
has to keep its value at every width. A symbolic file is reached through several
descriptors while calls fail by injection. `PROJECT.json` lists these hazards with their lines and the properties
that would catch them going wrong.

## 2. Modules

| Module | Models | Role |
|---|---|---|
| `ExecutorStates` | run loop, queues, seeds, timers, memory check, dump, SIGINT | component |
| `PTree`, `ExecutorTree` | process tree; `ExecutorTree` composes it with `ExecutorStates` | component, composition |
| `Searcher` | what the run loop relies on: a state of the pool is selected, and the pool follows the updates | abstract specification |
| `SearcherStack` | the searchers `constructUserSearcher` builds | implements `Searcher` |
| `MergingSearchers` | `MergingSearcher`, `BumpMergingSearcher` with the loop around them | component |
| `Memories` | each state has a memory of its own, copied outright by a fork | abstract specification |
| `AddressSpaceCow` | copy-on-write address spaces | implements `Memories` |
| `Queries` | expressions, paths, queries and their right answers | data |
| `Oracle` | a query is answered rightly, or fails | abstract specification |
| `IndependentSolver` | slicing and factoring | component |
| `SolverCaches` | query cache, counterexample cache and core solver as outcome sets | operators |
| `SolverChain` | the whole chain | composition, implements `Oracle` |
| `BitVectors`, `ExprTerms` | arithmetic of width *w* (`APInt`), terms and the constructors of `Expr.cpp` | operators |
| `ExprBuilders` | the default, constant-folding and simplifying builders | operators |
| `ExprRewriting` | evaluation under partial assignments, implied values, constraint manager | operators |
| `SolverBuilders` | the translations to STP, Z3 and metaSMT, division by a constant included | operators |
| `FastCex` | ranges of values, `FastCexSolver` and the staged solver | operators |
| `KQueryPrinter`, `KQueryParser` | the KQuery language as tokens | operators |
| `SmtLib` | what the SMT-LIB text of a query says | operators |
| `MultiCycles` | what is recorded of a cycle, and the replacement of internal states | operators |
| `ExprLab` | an expression as it grows, and what all of the above make of it | composition |
| `ObjectStates` | the byte caches of an object | component |
| `PosixClient` | what a program may conclude from the answers it gets | reference |
| `PosixFiles`, `PosixCalls`, `PosixRuntime` | set-up and tables, calls of `fd.c`, the whole runtime | component, composition |
| `ConeOfInfluence` | dependence analysis and the skipping of calls | component |
| `MC*` | instances for TLC (`MergingSearchers` needs only its `.cfg`) | |
| `ExecutorStatesProofs`, `ExecutorTreeProofs` | theorems about the run loop, without and with the process tree | proofs |
| `SearcherStackProofs`, `MergingSearchersProofs` | theorems about the searchers | proofs |
| `AddressSpaceCowProofs` | theorems about the address spaces | proofs |
| `SolverChainProofs` | theorems about the reduction of queries and about the whole chain | proofs |
| `ObjectStatesProofs` | theorems about the byte caches | proofs |
| `PosixProofs` | theorems about the POSIX runtime | proofs |

Operators whose comment begins with "Defective" are variants of the definition that
follows them with a plausible bug. They are used by no specification; the properties
are tested by substituting them.

### ExecutorStates

The variable `phase` is the position in `run`: `select` (loop head), `execute` (inside
`executeInstruction`), `branch` (inside `branch`), `timers`, `memory`, `update`, `dump`,
`done`, and `crashed` when an assertion has failed. `seeding` tells the seeding loop
from the main one. `states`, `addedStates` and `seedMap` are those of the code;
`removals[s]` is how often `s` is in the vector `removedStates`, since a second entry
is exactly what the assertion at line 2716 is about. `pool` is what the searcher was
told. `result` and `todo` are the locals of `branch`.

- An instruction is any sequence of `Fork`, `Branch`, `TerminateActive` on the states
  it owns (`Active`: the selected one and those it created), ended by
  `EndInstruction`. Forks with one feasible side, `forkDisabled` and the inhibited
  fork change nothing the model keeps and are stutters.
- `Terminate` is `terminateState` on a set; every caller goes through it.
- `SelectDuplicate` and `SelectInvalidPath` are Coppelia's additions to the loop:
  the first terminates and goes on to `updateStates`, the second terminates and still
  executes the instruction.
- `MemoryKill` takes any non-empty subset of `states`; the code takes a number of them
  by size and chance.
- A deleted state's identity can be allocated again, as an address can.
- What the solver answers, which seed satisfies which side, and when time runs out are
  choices.

### PTree and ExecutorTree

A node is named by the way to it from the root, a tree maps its nodes to the state
that is their data. `ExecutorTree` adds a tree step to each step of the
loop: `fork` and `branch` split, `terminateState` removes at once what was in
`addedStates`, `updateStates` the rest. `Visited` and `WalkEnds` are the random-path
searcher's walk from the root.

### SearcherStack

`stack` is the command line, chosen once: core searchers, batching, iterative
deepening, in the order of `constructUserSearcher`. `held[i]` is the container of core
searcher `i` as a sequence, or `Failed` once one of its assertions has failed. A
comparison of wall-clock times may go either way; NURS picks any state it holds. The
environment is `Update(added, removed)` for any sets the executor could pass.

### MergingSearchers

The program is a line of instructions, some of them calls of `klee_merge`; a state is
its `pc` and `prevPC`. Each iteration of the loops in `selectState` is one step, and
`Execute` is the rest of the run loop: one instruction, the memory check,
`updateStates`. The memory check takes its victims from all of `states`, also from those that
`selectState` or the instruction has already terminated; `killedAgain` remembers the latter,
and with them the assertion of `updateStates` fails (finding 1). Whether
`ExecutionState::merge` succeeds on two states at one place is a choice.

### AddressSpaceCow

A `Cell` is an `ObjectState`, an `Object` a `MemoryObject`. `Allocated` is what some
address space refers to, as the reference counts do. `WriteAll` is `getWriteable`
followed by the write: in place when `copyOnWriteOwner` equals `cowKey`, else in a
fresh cell. The refinement mapping `memory` reads contents through `objects`.

### Queries, IndependentSolver, SolverCaches, SolverChain

A cell is a byte of an array, a world gives every cell a value, an expression is the
cells it reads and the worlds it holds in. A path is a satisfiable list of
constraints: the executor adds a constraint only after the solver said that it may be
true. In `IndependentSolver` one step is one iteration of the inner loop of
`getIndependentConstraints` or `getAllIndependentConstraintsSets`; a read at a symbolic
index is an expression that reads all the cells of its array, which is what
`wholeObjects` means. `SolverCaches` gives for every query the set of outcomes
(answer, failure, new caches); which of several cached assignments is found first
depends on the order of pointers and is a choice. The core solver is external: any
solution, none, or a failure. `Assignment` reads bytes it does not bind as 0.

### Expressions: BitVectors to ExprLab

A term is a record with kind `k`, width `w`, kids, and what the kind needs (value, offset,
array and updates); a world gives every array its bytes; `Eval` is the value of a term in
a world, `Undef` after a division by zero or a shift past the width, which `Checks.cpp`
keeps the program from reaching. All other operators translate code. A constructor
(`Create*` for `Expr.cpp`, `Build*` for the builders) returns the term the code returns,
with its foldings, canonical orders and special cases; `Construct` returns the value of
the formula a solver builder makes; `ComputeTruth`, `ComputeValue` and
`ComputeInitialValues` are the three queries of `FastCexSolver`. Text is a sequence of
tokens, so layout is left out while labels, widths, lets and the choice of abbreviations
are kept.

`ExprLab` is the state machine that drives them: `built` grows by one constructor per
step, `meaning` records what the result is to be in each world, computed from the values
and never from the term. What is done with a finished expression is asked of each one that
is made: translated, evaluated, decided, added to a path, printed and read back. `Substitute`
is the end of a path in the multi-cycle search: the saved constraints are printed, read
back, the internal states in them are replaced by the values stored last, and the results
are added to a constraint manager. `Replaceable` and `Sayable` say which constraints that
can be done for; what they exclude is listed under the divergences. Four of the properties
have the form `P /\ [][P']_vars`, which says the same as an invariant; TLC is spared the
statistics of the parser's recursion.

### ObjectStates

`objects` holds for every copy the masks and stores of `ObjectState`; a mask that is not
allocated yet stands for a full one, as its readers treat it. `contents` is the array of
bytes each copy stands for, one per world; `path` is the worlds that are left by the bounds
checks of the accesses so far. A `Load` is a step because it flushes; what a read gives is
compared in every state at every offset and width. `outdated` marks the bytes that an
external call changed after they had been flushed (see the divergences).

The expressions are a parameter: `ConstantExpr`, `BinaryExpr`, `CastExpr`, `ExtractExpr`,
`ConcatExpr` and `ReadExpr` (the functions `create` of these classes), `IsConstant` and
`ValueOf` are constants of the module, which uses terms in no other way. `MCObjectStates`
takes them from `ExprTerms`. `LanguageIsSound(T)` says what the module relies on when the
terms are those of `T`: each constructor gives a term of the width asked for and of the
right value, constants are recognised, and a read of an update list gives the newest
update at its index or the byte of the array.

### POSIX runtime

`PosixFiles` has the tables (`fds`, `files`, `maxFailures` and the failures `settled` so far) and the set-up of
`klee_init_env` and `klee_init_fds`; `PosixCalls` has one action per call of `fd.c`;
`PosixRuntime` adds the answers of `stubs.c` and `illegal.c`. Modes are sets of permission
bits, contents sequences of bytes, the operating system behind concrete descriptors
answers anything. `client` is told each call and its answer and keeps, by the rules of
`PosixClient`, what a program can work out: which file a descriptor reaches, the position,
the bytes. `sharing` is told the same and keeps which descriptors POSIX lets share a position:
a duplicate is `astray` once its twin has moved, a program that then reads or writes through it
is `misled`. Both constrain nothing; `AnswersTellAll` compares `client` with the tables where
`sharing` says that POSIX and the code agree.

### ConeOfInfluence

A design is a list of functions, each a sequence of instructions with operands. Before
the run, `GetKleeAssertVars` collects the asserted registers, `DgAddNode` what each called
function writes, and `LocateTargetVar`, `TrackTarget` and `TrackDependences` follow data
and control dependences back through the queue until it is empty. In the run, each
instruction of `_eval` is `SkipCall` or `Execute`; `pruned` is the memory of this run,
`full` the memory of a run that executes every call, both for each initial memory.

## 3. Runs

The instances are small, three or four states, cells or objects, but every property
below is about two or three parties meeting: two states that share a cell, a state queued by
two callers, a constraint that joins two factors, two descriptors of one file.

| Run | Instance | Shows |
|---|---|---|
| `exec` | 4 states, at most 2 seeds, 3 forks, `MaxForks` 2, `MaxDepth` 3, branches with up to 3 conditions, every option on but the memory limit; symmetric in states and seeds | searcher and states agree between instructions (`SearcherAgrees`), every path is counted once (`PathAccounting`, `AllPathsAccounted`), a seed has one living owner (`SeedOwnership`), a terminated state is not selected again (`NoResurrection`), no assertion fails (`NeverCrashes`), the leaves of the tree are the states and the random walk finds one (`TreeMatchesStates`, `RandomPathAgrees`) |
| `exec_memory` | 3 states, 1 seed, memory limit, `--only-seed`, fair | an assertion fails only after the memory check has terminated the selected state a second time (`CrashOnlyFromMemoryCheck`); halting ends the run (`HaltEndsRun`) |
| `exec_double_kill` | as above without pruning and timer | finding 1 |
| `search_stack` | 4 states; four stacks, fair | containers hold exactly the unpaused states, the batch among them (`HoldsTheStates`), there is always one to select (`NeverStuck`), assertions hold (`NoAssertFails`), the hardware searcher comes back to both ends of its list (`BothEndsServed`), every stack implements `Searcher` (`IsSearcher`) |
| `search_paused` | the default searchers under iterative deepening | finding 2 |
| `merging` | 4 states, two merge points with an instruction between them, both mergers, memory kills, fair | no state lost or parked twice, and with `--use-merge` no dead one selected (`EachInOnePlace`), an assertion fails only after the memory check has terminated a state that was about to be removed (`MergeAssertsOnlyFromMemoryCheck`), a merged path lives on (`MergedIntoLive`), selection returns and nobody waits for ever (`SelectionReturns`, `NobodyWaitsForEver`) |
| `cow` | 3 spaces, 2 objects, 4 object states, 2 values, keys up to 3; symmetric | `AddressSpace.h:51` (`OwnersAreOld`), what is written in place is private (`OwnedAlone`), the assertion of `merge` (`ReadOnlyIsShared`), the refinement of `Memories` (`IndependentMemories`) |
| `chain` | 2 arrays with 3 bytes, 6 expressions, 4 paths, 3 settings of the options, up to 3 cached queries before the last one, fair | slices are closed, factors independent (`SliceIsClosed`, `FactorsAreIndependent`), the caches hold only facts (`CachesAreSound`), every answer is one an oracle could give (`OracleImplemented`), every query is answered (`EveryQueryAnswered`) |
| `expr` | two symbolic bytes of 2 bits and a constant array, 6 operands, 4 makers, two constructors on top of an operand, 3 path conditions, 3 saved paths, 3 series of stores | constructors keep the meaning (`ConstructionKeepsMeaning`), so do the translations for the three solvers (`TranslationKeepsMeaning`) and partial evaluation (`EvaluatorAgrees`); `FastCexSolver` is right and changes no answer of a staged solver (`FastCexIsRight`); adding a constraint keeps the models of the path, implied values are values, and what replaces the internal states says the same of the cycle's start (`ConstraintsKeepModels`); KQuery text is read back as what was printed (`PrintedReadsBack`), SMT-LIB text declares every array it reads and says what the query says (`SmtTextMeansTheQuery`) |
| `posix` | 4 descriptors, ten command lines (two symbolic files, the second a directory or a link; a file, stdin and stdout; all writes saved and two failures to inject; seven with mistakes or other options), four calls that change something with any others between | a program learns from the answers what the tables hold, except where duplicates ought to share a position (`AnswersTellAll`); an injected failure changes nothing else and comes once (`FailuresOnlyFail`) |
| `object` | 3 bytes of 2 bits, big-endian, a path that leaves 4 worlds (all values of the offset), 2 object states, three steps | every read gives what was last written (`ReadsSeeWrites`) |
| `coi` | up to 3 functions with one or two (conditional) assignments among three registers of a bit, asserted registers together or apart, all initial memories, 4 calls of `_eval` | the asserted registers hold what they hold without skipping, as long as each register has one writer and no instruction id is an index (`ConeKeepsTheAssertion`) |

### Bounds

- `ForkCap` (forks modelled in one run) is below the number of states, so the allocator
  never runs out; three forks give a state, its child, a sibling and a grandchild, and a
  `branch` whose second fork starts from its first result. `MaxForks` lies below it, so
  that the limit is met and overshot.
- `KeyLimit` 3 allows two forks in a line, after which an object state can be two keys
  older than its space.
- `CacheLimit` 3 lets both caches be filled by different queries before the query they
  answer. The paths include one whose slice needs two passes, and one whose array
  belongs to two factors.
- In `SearcherStack` 4 states cover all interleavings of pausing, removing and giving
  back; the switch counts are 2 and 1 so that both modes last for several selections.
- `MaxSteps` 2 in `ExprLab` puts every constructor on top of every constructor on top of
  every operand. The rewriting rules of `Expr.cpp` and of the builders look two levels
  down (a constant within a sum within a sum, an extract of a concatenation of reads), and
  rules with three levels are met because operands are themselves compound. A byte has two
  bits: widths 1, 2 and 4 then stand for `Bool`, a byte and a word, and all 16 worlds are
  evaluated.
- `MAX_FDS` 4 leaves one descriptor beside the standard ones, so that the table fills up;
  `MaxOff` 9 and `DirBase` 8 put the offsets of a concrete directory beside those of the
  symbolic entries (`DirentSize` 2 for each); `MaxCalls` 4 allows
  open, dup, write through one, seek or transfer through the other.
- `MaxSteps` 3 in `ObjectStates` is a write, a flush and a second write or an external
  call; 2 objects allow a copy of either.
- `EvalCalls` 4 in `ConeOfInfluence` is twice the sum of one reset and one simulated cycle:
  a value needs at most three calls to travel through three registers.
- `CHECK_DEADLOCK FALSE` is set because every model can stop: the run ends, no state is
  left, an assertion has failed, or the bound is reached.

### Fairness

`ExecutorStates`, `SearcherStack` and `MergingSearchers` assume weak fairness of the step of the loop,
`SolverChain` of the steps inside a query: each is a sequential program that does not
stop between two statements. No fairness is assumed of the environment (`Interrupt`,
asking a new query), of the choice between successors, or of the solver succeeding.

## 4. Findings

1. `exec_double_kill`: `checkMemoryUsage` picks its victims from `states` after the
   instruction and before `updateStates`. It may pick the state the instruction has
   just terminated; the state is then in `removedStates` twice and
   `assert(it2!=states.end())` (`Executor.cpp:2716`) fails, or, in a build without
   assertions, the state is deleted twice. `OnlyMemoryCheckCrashes` proves that this is
   the only way. Under `--use-merge` the check may likewise pick a state that `selectState`
   has just merged into another; `OnlyMemoryCheckFailsMerge` proves that nothing else fails
   an assertion there.
2. `search_paused`: `RandomPathSearcher::update` does nothing, so with iterative
   deepening it returns a paused state, which `WeightedRandomSearcher` no longer has
   (`DiscretePDF.inc:156`). This is the default `--search`.

Divergences and surprises met while reading that no run shows. They bound what the
properties claim: where a property excludes a case, the case is here.

Executor and searchers:

- `Executor.h:200` calls `addedStates` a subset of `states`; they are disjoint.
- `--max-forks` is compared once per `branch` and can be overshot (`Executor.cpp:787`);
  `--max-depth` is not tested by `branch` at all (`Executor.cpp:1092` is in `fork`).
- The options promise the "Number of BFS times before switching to DFS (default=10000)" and
  the same for DFS (`Executor.cpp:165-172`); `HardwareSearcher` compares with `>`
  (`Searcher.cpp:683`, `690`) and selects one time more in either mode. The model does as the
  code, and no property speaks of the number.
- With two adjacent calls of `klee_merge` a terminated state of `MergingSearcher` can be
  grouped and terminated again (`MergePoints = {2, 3}`, four states).
- `BumpMergingSearcher::update` tells the base searcher of removed states it has parked
  itself, and may select a state it has terminated.
- `isDuplicate` (`ExecutorPrune.cpp`) compares the function names of the stack, the objects
  of one side, and one expression per allocation site: two different states may count as
  duplicates.

Memory and solvers:

- `AddressSpace.h` says `copyOutConcretes` copies all managed object states; the code
  skips read-only ones.
- With `--cex-cache-exp`, `CexCachingSolver::computeTruth` returns `false`, the sign of a
  failure, where its comment says the query cannot be valid
  (`CexCachingSolver.cpp:302`).
- `CachingSolver::cacheInsert` never replaces an entry, so a partial result is never
  refined by the full one computed later. Answers stay right (`OracleImplemented`); work
  is repeated.
- `copyInConcretes` (`AddressSpace.cpp:323`) writes the concrete store and leaves the
  flush mask: a byte that was flushed before keeps its old value in the update list, which
  a read at a symbolic offset sees.
- The assertions of `FastCexSolver` on conflicting values can fail, on valid queries only.
- `ExprRangeEvaluator` shifts the left kid of any `Concat` by 8; that is its width only
  for bytes. Of kids narrower than a byte the range can then exceed the width, and the
  assertions of `minSigned` and `maxSigned` (`FastCexSolver.cpp:255`, `271`) fail when a signed
  comparison is made of such a term inside another. That takes three constructors, one more
  than `expr` makes; `Within` of `FastCex` is the assertion, and would stop TLC.
- An `AShr` past the width is 0 in the formulas of the solver builders (`Checks.cpp` keeps
  programs from it); `Or` passes a null constant on in `getImpliedValues`.
- An `Extract` over a `Concat` may leave one-bit kids, which the solver builders do not
  join (`JoinsBits`).
- metaSMT takes a fast path for `URem` by a power of two, and the optimisation of constant
  arrays gives up after 100 matches.

Printing and parsing:

- Reads of consecutive bytes are printed as one without comparing their arrays or updates;
  a constant on the left of a `Concat` is printed without its width; the parser does not
  know `NotOptimized`.
- The SMT-LIB printer scans the update list of an array only when it meets the array for
  the first time (`ExprSMTLIBPrinter.cpp:706-715`). An array that nothing but a second update list of
  another one reads is not declared, and gets no values if it is constant.
  `SmtTextMeansTheQuery` claims declarations only under `OneListEach`, which excludes this, and
  the meaning only of texts that declare all they read.

Multi-cycle search (`ExecutorMultiCycles.cpp`):

- `createFromKind` gives a rebuilt `Extract` the offset of its kid and knows no `Not`;
  a read of one byte, or a `Concat` that starts with a state of one byte, is replaced by
  the whole value; `getIndex` says 0, the index of "null", for a name it does not know; adjusting a
  width changes the recorded value itself (lines 218 and 222, modelled by `Fit`).
- `haltExecution` is set whatever the verdict (line 313). The query saved with the constraints
  is `false`, and `Solver::mustBeTrue` answers a constant without looking at the constraints
  (`Solver.cpp:52`): once no constraint has become a false constant, the verdict is `false`
  whatever they say.
- `notAPreCond` is one flag for all states.

Cone of influence:

- Of several functions that write a register only the first is analysed
  (`DependencyGraph.cpp:218`; the comment two lines above speaks of all), and a local
  index is compared with a global id (`VarAnalysis.cpp:247`): `ConeKeepsTheAssertion`
  assumes away both, and fails without either assumption.
- Dependences through local variables, nested calls, computed indices and the branches of
  `_eval` itself are not followed. A name that is not found stands for the module's first
  function. The instruction after a skipped call is executed unchecked.

POSIX runtime:

- `chmod_fail` and `fchmod_fail` are never allocated, so with `-fd-fail` the first
  `chmod` dereferences a null pointer.
- `dup2` copies the entry of the table ("XXX Incorrect, really we need another data structure
  for open files", `fd.c:1166`), so that a duplicate has an offset of its own; in POSIX the two
  share one. The model does as the code; `AnswersTellAll` claims nothing of the position of a
  duplicate once the other one has moved, and nothing more after a transfer through it.
- `dup2(fd, fd)` closes `fd` and returns it; `dup2` ignores a failure of its `close`.
- `has_permission` refuses a file that anybody may read (its comment, `fd.c:95`, says the
  opposite); `open` without `O_CREAT`
  clears the permissions of the file; `O_TRUNC` is ignored; `read` and `write` do not look
  at how the file was opened.
- A write past the end with `-save-all-writes` reaches `assert(0)` where `fd.h` promises to
  extend the file; `fchown` passes the model's descriptor to the operating system;
  `fstatfs` of a symbolic file is `EBADF`; `unlink` leaves open descriptors alone;
  `select` gives the operating system's answer to every duplicate.

## 5. Proofs

The theorems hold for every value of the constants that satisfies the assumptions of
the modules, and under the hypotheses the theorem itself states.

**ExecutorStatesProofs** (from `ConfigAssumption`). None of the properties is inductive:
`QueuesDisjoint` does not say why the state that an instruction terminates is not
already queued. `IInv` adds where each phase can be. `QueueInv`: nothing is queued
between iterations; within one, up to the memory check, only the selected state is, and
it is in `states`; a second entry exists only in phases `update` and `crashed`, for the
selected state, under a memory limit. `LoopInv`: the searcher's pool is `states`
throughout an iteration, and the result vector of `branch` holds only states the
instruction owns. `SeedOwnership` is part of it because `fork` and `branch` split a seed
set that must not have been shared. `Terminate*` lemmas state once what `terminateState`
keeps; `InvStep` and `SeedStep` go through the actions. The theorems: `TypeCorrect`,
`Inductive`, `QueuesAreDisjoint`, `SearcherIsExact`, `SeedsHaveOneOwner`,
`OnlyMemoryCheckCrashes`, `NoDoubleRemoval`, `PathsAreCounted` and `NoPathIsLost` (the
last three without a memory limit; paths are counted as the cardinality of `Running`, with
the theorems on finite sets, and at the end of a dump there is no running one left), and
the action property `TerminatedStatesStayDead`.

**ExecutorTreeProofs**. `TreeRunsAreRuns`: the loop with the tree is the loop, so all of
the above holds of it. `TreeInv` adds to `TreeMatchesStates` that every way to a node goes
over nodes; without that a removed node could leave an unreachable one behind. The work is
in two lemmas about a tree of any shape that matches a set of states: splitting a leaf
gives a tree that matches one state more, and removing any set of leaves, with the
ancestors that become childless, one that matches the rest. `TreeIsExact` follows by going
through the steps of the loop, `RandomWalkIsExact` because in a tree without childless
inner nodes every walk ends at a leaf, and at `select` the leaves are the pool.

**SearcherStackProofs** (from `StackAssumption`). `StackInv`: every searcher that keeps a
container holds each unpaused state once and no other, and what is selected or was
batched is one of them. It is proved for every stack in which the random-path searcher is
not under iterative deepening (`NoPathUnderDeepening`): there finding 2 refutes it. Lemmas
about lists without repetitions say what appending and erasing do; `update` is then one
lemma for all kinds of container. `ContainersFollow`, `AssertionsHold`, `StackIsSearcher`
(the refinement of `Searcher`) and `AlwaysSelectable` (as long as there are states, the searcher
whose turn it is has one that is not paused) follow.

**MergingSearchersProofs** (from `MergingAssumption`). `MergingInv` says where each state
waits at each point of `selectState`. For `MergingSearcher`: a parked state is alive and at a
merge point, or was merged in this call, and then every other one is still in a group or
already past the merge point. That clause needs the hypothesis `MergesApart`: with two
calls of `klee_merge` in a row the survivors wait again, next to the terminated states,
which are then grouped and terminated a second time (see the divergences; TLC shows it
with `MergePoints = {2, 3}`). `BumpMergingSearcher` needs no hypothesis, but its invariant
holds only until an assertion fails, which can happen (see the divergences):
`OnlyMemoryCheckFailsMerge` is about `--use-merge`, where the memory check alone can make one
fail. `NobodyIsLost` and `MergesKeepAPath`
follow.

**AddressSpaceCowProofs** (from the assumptions of `AddressSpaceCow`). The invariant is
`TypeOK`, `OwnersAreOld`, `OwnedAlone` and `ReadOnlyIsShared` together. A fork gives both
spaces a key greater than every owner either can see (`OwnersAreOld`), so neither owns
anything they share (`OwnedAlone`); hence a write in place changes no other memory, and
`CowIsInvisible` proves that every step of the address spaces is a step, or a stutter,
of `Memories`.

**SolverChainProofs**, the reduction (from `QueryAssumption`). `IInv` says of both loops that no
constraint is lost between the lists, that every element set knows exactly what its
expressions read, and that *as long as this pass has changed nothing* all that was
compared is disjoint; the last clause is what the restart of the loop is for, and
`SlicesAreClosed` and `FactorsAreApart` follow when a pass ends settled.
`ClosedSliceDecides` says why that is enough: given a world that satisfies the slice and
refutes the expression, and one that satisfies the rest of the path, take the cells the
slice reads from the first and all others from the second; since no constraint reads
cells of both kinds, the glued world satisfies the path and refutes the expression.

**SolverChainProofs**, the chain (from `QueryAssumption` and the assumptions of the chain). For each
of the two caches a lemma says what one call returns from a sound cache: a right answer
for its own query or a failure, and a sound cache. The lemmas on the counterexample cache
say why each shortcut is right (a subset without solution, an assignment of a superset, any
cached assignment that satisfies the query). `ChainInv` is `IInv` of the reduction, the
two caches sound, and `SolvedInv`: whoever agrees with the bytes collected so far satisfies
the factors solved so far, because the factors are independent and each is solved on its
own bytes. `CachesStaySound`, `ChainReduces`, and `ChainIsAnOracle`, the refinement of
`Oracle`: at a final answer `ClosedSliceDecides` lifts the answer for the slice to the path,
`SolvedInv` lifts the values of the factors.

**ObjectStatesProofs** (from the assumptions of `ObjectStates` on sizes, bytes, arrays,
widths and bounds). Every theorem assumes a set `T` of terms with `LanguageIsSound(T)` that
contains the program's offsets and values. `RepInv(T)` is the comment "Cache Invariants" of
`Memory.cpp:272` (no byte has both a number and an expression, an unflushed byte has one of
them), and `Represents`: in every world of the path, whatever is cached of a byte is that
byte, and of a byte that is flushed and not outdated, so is what the update list gives. That
a read gives what was written is not inductive by itself: it is `Represents` that says why
forgetting a cached byte is harmless once it was flushed, and why a write at a symbolic
offset has to forget all of them. The lemmas follow the code. `FlushForWriteKeeps`: after the
flush the list alone gives every byte. `GetUpdatesKeeps`: when a list gets its root late, the
constant writes at its old end that `getUpdates` folds into a constant array, the newest
first for each index, give the same bytes from the array. `Write8Is`, `Write8AtIs`,
`Read8Is`, `Read8AtIs`: one byte. `WriteIs` and `ReadIs`: the loops over the bytes of a
value, in either byte order. The loops are recursive functions; as induction theorems
cannot be used, the invariant of a loop is shown from the least index at which it would
fail (`FirstOf`).
`ObjectsInductive` goes through the steps; `ReadsAlwaysSeeWrites` applies `ReadIs` in every
state.

**PosixProofs** (from `FdsAssumption` and `FilesAssumption`). `AnswersTellAll` is nearly
inductive; `RuntimeInv` adds what keeps the arithmetic in range: every entry of the table
names a file of the run or none and stands at no negative offset, every file has as many
bytes as its size says, and while the command line is read the tables are as they were
initialised. A call is proved in two halves. What it answers contradicts nothing
(`Credible`) and teaches the client one thing: a new place, a new file behind a descriptor,
bytes of a file (`Learned`). What it does to the tables is that same thing. `ExpectedIs`
and `WrittenIs` compare the two computations of a read and of a write, which differ where
the end of the file cuts them short. `RuntimeInv` gives
every descriptor an offset of its own, as the code does; `AnswersHold` keeps of it what POSIX
says too. It and `FailuresAreFailures` follow; the
second carries `OnlyFails` through the same case distinction and counts the failures as the
cardinality of `settled`. `FilesAssumption` has the one hypothesis the code does not enforce:
"-sym-files" asks for no more files than there are one-letter names.

The inductive invariants were checked by TLC on the instances of the runs before they were
proved; they are no properties of the runs, since the theorems say more.

Only model-checked:

- liveness (`HaltEndsRun`, `BothEndsServed`, `SelectionReturns`, `NobodyWaitsForEver`, `EveryQueryAnswered`):
  out of the prover's reach;
- the expressions, their translations, printer and parser, and the cone of influence:
  their operators recurse over terms and tokens, or work on bits (`Bitwise`), which the
  prover does not take, and what they compute for every input would need an induction over
  data. That the constructors of `ExprTerms` satisfy `LanguageIsSound` is therefore checked
  and not proved: by `ConstructionKeepsMeaning` on everything `expr` builds, and clause by
  clause on a sample of terms and lists by the assumption of `MCObjectStates`.

## 6. Plan

Done, in this order: run loop, process tree, searchers, merging, address spaces,
solver chain; then expressions with their builders, translations, printers and parser,
the fast solver, object states, the POSIX runtime, the substitution of the multi-cycle
search and the cone of influence. Proved: run loop, tree, searchers, merging
searchers, address spaces, solver chain, object states, POSIX runtime. Left:

1. Proofs: that `MergingSearchers` runs are steps of `Searcher` where nothing is merged; the
   lemmas on ranges in `FastCex` that do not recurse; `ConeKeepsTheAssertion` for calls
   whose dependences are given as a relation instead of computed by recursion.
2. `Prune`: for which states `isDuplicate` is sound, composed with `ExecutorStates`.
3. The flag `notAPreCond`, with several states between a fork and the assertion.

## 7. Not modelled

- LLVM: globals, calls and returns, floating point and vectors, intrinsics, the passes that
  prepare a module. The calls an instruction makes on states, memory and expressions are
  modelled.
- The comparison of snapshots in `ExecutorPrune.cpp`; that the selected state may be
  terminated as a duplicate is an action.
- `MemoryManager`: addresses come from the operating system. `AddressSpace::resolve`: a
  search guided by the solver.
- Weights of NURS, coverage, statistics, logging and validating solvers: heuristics and
  output, nothing depends on them.
- Reports of the dependence analysis (edges, independent and carry variables, dot files)
  and tables of core-specific names and encodings: output and data.
- The parser of SMT-LIB, which is generated; characters and layout of KQuery.
- `fd_32.c` (the same calls with other types), `misc.c` (disabled), `selinux.c`; values of
  time. The C library.
- Command line tools, except the signal handler; the scripts that run one cycle after the
  other; the processor cores, third-party designs that Coppelia is applied to.
- Parallelism: there is none. The forked STP process appears as a query that may fail.
