# analyssa: a TLA+ verification project

analyssa is a Rust library that transforms and analyses programs in SSA form. A
host (a decompiler, a compiler back end) owns the methods; the library owns the
representation of one method (`SsaFunction`), the passes that rewrite it, the
scheduler that runs passes over all methods, and the analyses the passes ask.

This project models two parts of the library. The first is correct if things
happen in the right *order*: who owns a body while it is being rewritten, what
is visible to whom, what is repaired, verified, rolled back or reported, and
when the loops around all this stop. The second are the analyses the passes
rely on: dominators, loops and exceptional control flow, the data-flow solver,
and the two optimistic propagations of constants and ranges, down to a rewriting
pass that acts on their answers. Paths below are relative to the crate root (`src/` of the
repository).

## 1. Inventory

| part | state | operations | hard behaviour | what makes it correct |
|---|---|---|---|---|
| pass scheduler (`scheduling/scheduler.rs`) | loop counters, change flags, `iteration_modified`, method orders, bodies in the hands of workers | `run_pipeline`, `layer_to_fixpoint`, `normalize_to_fixpoint`, the two batch functions, `run_single_pass` | parallel workers; passes that fail, panic or return invalid SSA; change flags that cross four loops; caps | no body is lost; only valid SSA is stored under `verify_hard`; no change and no dirty mark is lost; stable means fixpoint; it returns |
| layer assignment (`compute_layer_assignment`) | the layers being relaxed | providers, dependency graph, cycle check, relaxation | in-place relaxation, saturation, self-providers, cycles | providers run earlier; the least such assignment; cycles, and nothing else, are rejected; it ends |
| pass interface (`scheduling/pass.rs`) | what a pass declares | hooks, `run_on_method` | hooks fail half way | (environment of the scheduler) |
| host state (`host/*`, `world.rs`) | the SSA store, dirty and processed sets, dead methods | take, insert, clone, mark, clear, snapshot | shared by all workers | (part of the scheduler's properties) |
| pass transaction (`scheduling/transaction.rs`) | one snapshot buffer per worker | `run_group`, `run_one` | panics; a claim that contradicts the facts; a buffer that holds rejected IR | nothing damaged is kept; "unchanged" and "rolled back" mean untouched; the culprit is isolated |
| edit sessions (`ir/function/editor.rs`) | the session's scope and flag, the original, `edit_dirty` | `edit`, `mark_changed`, `finish_edit_scope`, rollback | failure in the closure, the boundary or the verifier, under two policies | scope covers the edits; `edit_dirty` tells whether edits stayed |
| SSA function and rebuild (`ir/function/*`, `ir/varstore.rs`, `ir/block.rs`, ...) | blocks, variables, use index | builder, editor operations, rebuild, repair, canonicalize | phases that depend on each other; an index kept across edits | SSA form; dominance; exact use index |
| verifier (`analysis/verifier.rs`) | none | three levels of checks | which level sees which damage | a reference for the rebuild |
| interprocedural driver (`interproc/*`) | call graph, summaries | components callee first, `solve` | recursion, a cap on the iterations | callees before callers; fixpoint unless capped |
| graph algorithms (`graph/*`) | local | dominators, post-dominators, components, cycles, orders, traversals | iterative versions of recursive algorithms; compressed paths; unreachable nodes; regions without an exit | agree with their definitions |
| exceptions and loops (`analysis/exceptions.rs`, `cfg.rs`, `loops.rs`) | local | function roots, the exception-aware graph and its dominance, the loop forest | roots whose guard cannot run; exceptions thrown half way through a block; nesting | every root is reachable; dominance never vouches for a value that was not computed; loops are what paths say |
| loop canonicalization (`passes/loopcanon.rs`) | the function, one forest per round | preheaders, merged latches, phis regrouped | a forest and predecessor lists that are stale within a round; doubled edges | canonical loops; every value arrives where it did |
| dataflow (`analysis/dataflow/*`) | facts, worklists | solver, liveness, reaching definitions, SCCP | two worklists, optimistic start | least fixpoint; sound constants |
| ranges (`analysis/range.rs`, `passes/ranges.rs`) | facts, worklists, revision counts | propagation, widening, guards, folding comparisons and branches | no knowledge yet against no knowledge ever; widening; wrapping; an exhausted budget; phis of pruned edges | sound ranges; semantics preserved |
| values, memory, alias, taint, patterns, structure (`analysis/*`, `ir/value.rs`) | local | analyses | widths, aliasing | sound over-approximation |
| rewriting passes (`passes/*`) | local | one `run` each | their sessions and their reports | semantics preserved; honest reports |
| operations (`ir/ops/*`), events, errors, test support | tables, a log | lookups, formatting | | |

Interaction: `run_pipeline` computes layers, then loops over batches; a batch
computes its method lists from the host and dispatches each per-method pass to
a thread pool; each worker takes (or clones) a body from the store, calls the
pass, repairs, verifies and inserts. A pass changes a body through edit
sessions; hosts that run groups of passes on one body wrap them in a
`PassTransaction`, which decides from the session flag and the verifier whether
to keep the result. `World` orders the methods through the call graph's
components. Analyses run on graphs derived from a body.

The status of every part is listed under `components` in `PROJECT.json`, and
what is hard to test in it under `hazards`, at its line.

## 2. Modules

| module | models | kind |
|---|---|---|
| `PassScheduler` | `scheduling/scheduler.rs`, with the host state and the pass interface | specification |
| `AtomicPasses` | what the scheduler promises: one atomic rewrite of one body at a time | abstract specification |
| `MCPassScheduler` | instances: a faulty pipeline and a well-behaved one | TLC |
| `PassSchedulerProofs` | invariants; the refinement of `AtomicPasses`; that no work is lost | proofs |
| `LayerAssignment` | `compute_layer_assignment`, `graph/algorithms/topological.rs` | specification |
| `LayerAssignmentProofs` | | proofs |
| `PassTransaction` | `scheduling/transaction.rs` over the sessions of `ir/function/editor.rs` | specification |
| `MCPassTransaction` | three ways of opening sessions and reporting | TLC |
| `PassTransactionProofs` | | proofs |
| `CallGraph` | `world.rs`, the `CallGraph` of `interproc/mod.rs` | specification |
| `StrongComponents` | `graph/algorithms/scc.rs` | specification |
| `DeadMethods` | `deadcode::run_global` | specification |
| `SummarySolve` | `interproc/summary.rs` | specification |
| `WholeProgram` | the four above, in the order of one batch | composition |
| `MCWholeProgram` | call graphs and three analyses | TLC |
| `WholeProgramProofs` | Tarjan's invariants; the composition's | proofs |
| `ControlFlow` | `analysis/cfg.rs`, postorder, the reverse graph of `postdom.rs`, and what a path is | operators |
| `ExceptionFlow` | the roots and the graph of `analysis/exceptions.rs` | specification |
| `Dominators` | `graph/algorithms/dominators.rs` | specification |
| `LoopForest` | `analysis/loops.rs` | operators |
| `FlowAnalysis` | the four above, with the queries of `exceptions.rs` and `postdom.rs`, and `passes/loopcanon.rs` | composition |
| `MCFlowAnalysis` | small functions and what is asked about them | TLC |
| `ExceptionFlowProofs` | the operators on graphs and sequences; roots and the graph | proofs |
| `FlowAnalysisProofs` | Lengauer and Tarjan's algorithm, the numbering, frontiers; the composition's; handlers, post-dominance, loops | proofs |
| `SsaCode` | a function's phis, instructions and use sites | operators |
| `DataflowSolver` | `analysis/dataflow/solver.rs` | specification |
| `ValueDomains` | the facts of `sccp.rs` and `analysis/range.rs`, and what an instruction computes | operators |
| `SparsePropagation` | the two propagations of `sccp.rs` and `passes/ranges.rs` | specification |
| `RangePass`, `PhiRepair` | the rewriting of `passes/ranges.rs`, terminator folding and `repair.rs` | operators |
| `Dataflow` | the five above on `ExceptionFlow`'s graph, and a machine that runs the function | composition |
| `MCDataflow` | small SSA functions | TLC |
| `DataflowProofs` | the solver, and the two analyses that use it; constant and range propagation | proofs |
| `RewriteProofs` | folding, trivial and dead phis, and the two runs | proofs |

Definitions whose comment calls them a mutant or a mutation are plausible bugs
of the definition that follows; nothing uses them in a run. They show that each
property can fail: replacing the definition by its mutant makes TLC violate the
property named in `PROJECT.json`.

### PassScheduler

The code keeps its control in nested loops; here `pc` and the record `loop` say
where control is.

| code | model |
|---|---|
| `SsaStore`, an empty slot while a body is taken | `store`, `NoBody` |
| `DirtySet` | `dirty`, `processed` |
| `iteration`, `stable_count`, the layer and round indices | fields of `loop` |
| `iteration_changed`, `phase_changed`, normalization's `any_changed` | `loop.iterChanged`, `.phaseChanged`, `.normChanged` |
| `iteration_modified`, `any_changed`, `method_orders` | `modified`, `anyChanged`, `orders` |
| the closure of `par_iter().for_each` for method `m` | `job[m]`: `Skip`, `Take`, `Run*`, `Finish*` |
| the four call sites of the batch functions | `loop.ctx`: "layer", "between", "tail", "first" |

A body is a revision number and a form: valid SSA, SSA that `repair_ssa` mends,
SSA that only `rebuild_ssa` mends, and SSA that nothing mends. What passes
*compute* is abstracted to the set `work` of (pass, method) pairs on which the
pass would still report a change; running a pass consumes its pair and may
expose another, `MaxSurprises` times over a run; two passes that are `Rivals`
undo each other's changes without end. A pass that keeps its contract leaves
the form its declared scope allows. A member of `Faulty` leaves the body untouched or
edited in any form, a valid one included, and whatever it did, it reports a
change, reports none, or fails or panics.

One step of a worker is as large as the code's atomic accesses allow: taking a
body, running the pass, and inserting the result are separate steps that
interleave with other workers'. The insertion and the three marks after it are
one step, because nothing reads the marks before the join.

### LayerAssignment

First the topological sort, whose answer decides whether there is a cycle: it
counts the providers of every pass, queues the passes that have none, takes one
off the queue at a time, lowers the count of one dependent per step, and
compares what it sorted with what there is. `add_edge` keeps an edge once,
however many capabilities tie two passes. Then the relaxation, one dependency
per step. The order within a pass's dependency list,
which comes from the registration order of providers, is left open. Layers are
machine integers with a largest value `Top` and saturate there.

### PassTransaction

The IR is abstracted to whose rewrites it holds, which classes of damage it has
and the `edit_dirty` flag. `SeenAt` gives the cheapest verifier level that
reports a class (the order of checks in `SsaVerifier::verify`), `HealedBy` the
cheapest edit scope whose boundary removes it (`finish_edit_scope`). The worker
handles several functions with one snapshot buffer; after a rollback it runs
the passes again one at a time, as the documentation of `GroupOutcome` asks.
`before` and `landed` are history variables and guide no action.

A pass has a profile: its sessions' rollback policy and whether they verify,
and whether it reports honestly. The profiles in `MCPassTransaction` are those
found in `passes/`.

### The whole-program layer

`CallGraph` is the program: what `World::callees` answers, and the edges and
self-calls that `from_edges` keeps. Three components use it. `StrongComponents`
is Tarjan's algorithm with the explicit stack of frames the code has; a step
looks at one successor or closes one frame. `DeadMethods` is the breadth-first
walk and the pass over all methods that marks the rest. `SummarySolve` is
`solve`; a summary is a number of a finite chain, and an analysis a constant
that maps the whole store to the whole store at each visit, as the
`&mut SummaryStore` that `visit` is given lets it: facts may go up from callees,
or down, as the argument types of `interproc/summary.rs:20` do. What holds of
some analyses only is stated of those: `Upward` ones rewrite the visited
method's summary from its callees', and `Monotone` ones meet what
`interproc/summary.rs` calls the caller's obligation. `WholeProgram` composes them in
the order `run_layer_passes_once` runs a batch: components for the method
order, the global dead-method pass, then a global analysis that calls `solve`
over the components. The host does not change its call edges in between.

| code | model |
|---|---|
| `TarjanState`, `TarjanFrame` | `index` (0 is `None`), `lowlink`, `onStack`, `stack`, `frames`, `nextIndex`, `sccs` |
| `live`, `worklist`, `is_dead`, the returned flag | `live`, `worklist`, `dead`, `marked` |
| `SummaryStore`, the three nested loops of `solve` | `summary`; `comp`, `round`, `pos`, `changed` |
| | `wasDead`, `capped`: history |

The iteration order of hash sets and of a node's successors is left open.

### Control flow, dominance and loops

A behaviour of `FlowAnalysis` starts with a function and a question about it.
`ExceptionFlow` attaches the roots the exception table names (`EhCfg::new`);
then `Dominators` builds the tree of that graph, of the plain terminator graph
too where `EhDominators` compares the two, or of the reverse graph with its
virtual exit. `Dominators` takes one step per turn of a loop of
`LengauerTarjan`, path compression included, then numbers the tree, and then
computes the frontiers. A canonicalization asks for a forest on every round,
splices, and starts over with the changed function, up to
`MAX_CANONICALIZATION_ROUNDS`.

| code | model |
|---|---|
| `FunctionRoots`, the worklist, `attached` and `extra` of `EhCfg::new` | `FlowRoots`, the fields of `eh` |
| `struct LengauerTarjan`; `tin`, `tout`, `timer` | the fields of `lt`; variables of the same names |
| the loops of `compute`, `compute_dfs_intervals`, the frontier walk | `stage`, `stack`, `pos`, `todo` |
| `definition_reaches`, `dominates_block` and the other questions | operators over the finished trees |
| `LoopForest::loops`, the rounds of `loopcanon::run` | `forest`, `loops`, `round`, `modified`; of a phi only the operands, with the block that brought them |

A loop of the code that only maps an array or collects a set is one expression.
Where two loops have equal bodies their order follows a hash map; `Forests` has
each of the outcomes.

### Data flow and ranges

`DataflowSolver` is both directions of the solver as one machine: a problem
gives the blocks facts flow from, so `before` and `after` are `in_states` and
`out_states` of a forward analysis and the reverse of a backward one. The
worklist is the set `pending` with the traversal order as its priority.
`Dataflow` derives the problems of `liveness.rs` and `reaching.rs` from a
function.

A function's `initial` is what its variable table says of version 0: the
variables the entry supplies, which are arguments, live-ins and initialized
locals, and those whose origin is an argument or a local, which an instruction
may define, as in what the builder and the tests make: version 0 goes to the
first definition of an origin. Reaching definitions start from the arguments and
locals among these, whoever defines them, and not from live-ins
(`InitialDefinitions`); constants take the arguments no instruction defines to
be unknown (`UnknownInputs`), and ranges nothing.

`SparsePropagation` is one machine for two implementations that were written
after the same algorithm: it keeps the edge queue, the variable queue, the
executable edges and blocks, the back edges, the facts and, for ranges, the
revision counts and the budget. Where the two differ (facts, revision, the
start, a branch on an unknown condition, exit through the budget) its operators
split on the domain. Values have `Width` bits and wrap; an interval's bounds
are wider than a value, as `i64` is wider than the 32-bit values of the code.

`RangePass` folds the comparisons and branches the ranges decide, in the order
`passes/ranges.rs` collects and applies them, `PhiRepair` prunes and retires
phis as the fold and the boundary of the session do. `Dataflow` then runs the
function: a machine with an environment takes a block per step, what the entry
supplies has any value, a length is not negative, an opaque result is any of
`Opaque`, and nothing throws. What an analysis says can so
be compared with what happens, and the rewritten function with the original.

Left out: the solver's `widen` hook, the identity in both analyses that use it;
unions of intervals; all operations but constants, copies, additions, three
comparisons, lengths and opaque results. The dominance the sparse analyses and
`range_at` ask for is taken by its definition (`Behind`), which
`DominatorsAreExact` shows the tree to agree with.

## 3. Runs

| run | shows | instance |
|---|---|---|
| `scheduler_faults` | types, `BodiesKept`, `OnlyVerifiedVisible`, refinement of `AtomicPasses` | two hosted methods and one without a body; four passes (a global one, a CFG pass that may do anything, one that repairs its own SSA, reads its peers and scans fully, a normalization that may do anything); two layers; up to two iterations, rounds and surprises; with and without `verify_hard`, a capability cycle, no iterations, no rounds |
| `scheduler_fixpoint` | `ScopedRepairSuffices`, `ProcessedIsChanged`, `ChangeReachesBoundary`, `WorkIsDirty`, `StableIsFixpoint`, `RewritesBounded` | the same methods; one well-behaved pass of each scope, in two layers and a normalization, two of which undo each other's changes; six iterations of five rounds with one and two stable iterations, and one iteration of one round and of five |
| `layer_assignment` | types, `ProvidersRunEarlier`, `NeverTooFar`, `CyclesRejected`, `Terminates` | every declaration of two capabilities by three passes at fallback layers 1 and 3, largest layer 4 |
| `transaction_faults` | types, `NoDamageKept`, `UnchangedIsUntouched`, `RollbackIsExact`, `FlagNotCarriedOver`, `InnocentRewritesLand` | two functions, three passes in one group, two of them culprits, four classes of damage |
| `whole_program` | types, `CalleesFirst`, `ComponentsAreExact`, `DeadIsUnreachable`, `ReportsNewMarks`, `SolvedStaysSolved`, `NeverAboveASolution`, `Terminates` | all graphs of three methods, the loop-free ones of four with up to five edges, and one with calls that leave the program; summaries up to 3; an analysis that carries facts up, with caps 0 and 3, one that also carries them down, with cap 2, and one that is not monotone and never rests, with cap 3 |
| `flow_analysis` | `RootsAreReachable`, `DominatorsAreExact`, `FrontiersAreExact`, `HandlersUseComputedValues`, `PostDominanceIsExact`, `LoopsAreExact`, `LoopsAreCanonical`, `RoutesAreKept` | all functions of four blocks with every block entered from an earlier one, those of three with doubled and swapped arms, chains of five with two more edges, functions with blocks nothing enters, functions of five with one of ten exception tables; 16 rounds, the code's constant |
| `dataflow` | `ResultsAreExact`, `FactsHold`, `RewriteKeepsBehavior` | every choice of work for the blocks of a diamond, a loop, a loop with a diamond inside, two branches in a row, one in the arm of another, and a switch; for the solver all graphs of four blocks that do not return to the entry, guarded ones of five, and a loop through the entry; the smaller shapes also with a live-in or an initialized local for the argument, and with arguments and locals of version 0 that instructions define; values of four bits, opaque results lowest, zero and highest; widening after three revisions, the code's constant; a budget of 22 steps |
| `failed_method_kept`, `lost_dirty_mark`, `abandoned_edit` | a disagreement each, see section 6 | the instances above with one parameter changed |
| `unknown_branch`, `widened_bound` | likewise | `dataflow` with functions of one shape |

Why the bounds are enough. Two methods give every interleaving of two workers,
and the third gives the skipped slot; a third worker adds nothing because
workers share only sets they add to. Two layers and a normalization exercise
all four call sites, and two iterations the boundary with work left and without
it. `MaxSurprises = 2` lets work found in one batch find work in another. In
`scheduler_fixpoint` the rivals, one in a layer and one in normalization, may
start each other for ever, so stability need not end a run and
`RewritesBounded` holds by the caps alone: with one iteration of one round the
bound is met, and without the cap on a layer's rounds it is passed. The five
rounds are more than a normalization can use, because one that is cut off
makes no promise about a fixpoint (section 4). Three passes give chains,
diamonds and cycles of two and three in `layer_assignment`; the fallback layers
are chosen so that chains both fit below the largest layer and exceed it. Two
functions are needed for a snapshot buffer to be stale, three passes for a
culprit before, between and after an innocent one. The class `clause` of damage
(an exception clause without a block) behaves like `structure` except in the
rebuild's verifier and is left out of the run for size.

`whole_program` has every graph of three methods, with all self-calls, and of
four as many edges as a cycle with a chord and a cross edge need: the shape on
which a wrong lowlink first merges or splits components. The first analysis
counts the depth of calls and saturates, for one method below the others, so a
cycle needs several rounds; a cap of 3 ends some of them early and a cap of 0
all. The second also tells the callees the depth they are called at. The third
is no monotone analysis: a method decides against its callees, on some cycles
each round changes what the round before did, and only the cap ends `solve`
there, which is what `Terminates` is about. `SolvedStaysSolved` speaks of every
analysis where it says what a round without a change means, and of `Upward` ones
where it says that components stay solved.

`flow_analysis` compares every answer with a definition by paths
(`ReachableAvoiding`), which shares nothing with the algorithms. Lengauer and
Tarjan's algorithm needs four nodes for a semidominator that is not the
immediate dominator and for a path worth compressing; the chains of five add
nested and overlapping loops, which the canonicalization turns into functions of
eight and more blocks. The tables have a handler inside another one's region, a
region the entry is in, an unreachable guard whose handler makes the next guard
reachable, nested regions, a handler inside another region, a handler of two
clauses, a filter, and entries and ranges outside the function.
`FrontiersAreExact` leaves out a root with a single predecessor, of which the
code makes no join. `HandlersUseComputedValues` has three conditions: a region
is entered, by a terminator or by an exception, only through its start; the
start's own terminator does not lead into the handler; and no two clauses share
a handler. Each is necessary: without it TLC finds a function on which
`definition_reaches` vouches for a value that was not computed. The two new
tables among these and the shared handler are there because the proof asked for
the conditions and the earlier tables did not.

In `dataflow` the budget lets all analyses converge but those that chase a
growing range round a loop; what they leave is discarded, and the run shows that
as well. Four bits are enough for an addition to wrap and for signed and
unsigned comparisons to differ. Five conditions of the properties exclude what
the code gets wrong or cannot know: `OnlyArguments` (constants, where the entry
supplies no live-in and no initialized local), `BranchesAreKnown` (the finding
`unknown_branch`), `WideningCovers` (the finding `widened_bound`: a fact that
was widened contains what its definition evaluates to), `Signed` and
`ArmsAreUnshared` (see the observations in section 6). A bound is lost in
`widened_bound` only: every other function of these runs satisfies
`WideningCovers`.
For reaching definitions `ResultsAreExact` speaks of functions whose entry has
no predecessor, as the solver gives the entry the boundary state and nothing
else; of liveness it speaks without that condition.

Fairness. `LayerAssignment`'s `FairSpec` is weak fairness of a sequential loop,
and so is `WholeProgram`'s; these two claim `Terminates`. The scheduler's is weak
fairness of its next step: the thread pool makes progress and every pass
returns, which is what a caller of `run_pipeline` has to assume. Only
`failed_method_kept` uses it, whose counterexample is an action no fairness
excuses; that the scheduler ends is stated as a safety property,
`RewritesBounded`. The other specifications make no liveness claim.

Deadlock is checked in the runs of the first part, where a finished system
stutters by a named action. The four runs of `FlowAnalysis` and `Dataflow` say
`CHECK_DEADLOCK FALSE`: an analysis ends with its answer and a function with its
return, and there is nothing they could still do.

## 4. Proofs

All theorems hold for every value of the constants under the modules' named
assumptions. These type the constants, and say of the functions that are
analysed what the code takes for granted: `QuestionsAssumption`, that a function
has an entry and its table is made of block numbers; `InquiriesAssumption`, that
it also reads no variable nothing defines and, if constants or ranges are asked
for, that it can run and is what the verifier accepts: it is a record of its six
fields whose blocks end with their only terminator (`IsExecutable`), no variable
has two definitions (`IsSingleAssignment`), a phi has one operand per
predecessor, and a definition dominates its uses (`IsStrict`). Of these the
verifier leaves three to whoever builds the function: that control does not fall
off the end of a block (`analysis/verifier.rs:595`), that no reachable code reads
what only unreachable code defines (line 2150), and that the entry has no phi,
which its comment states (line 690) and its code asks of a block no edge enters;
where a branch leads back to the entry, a phi there has no operand for the call;
`TransferAssumption`, that a visit makes a store of a store; `WidthAssumption`,
`OpaqueAssumption` and `SparseAssumption`, that values have at least two bits, so
that the result 1 of a comparison is a value, that an unknown result is a value
and that the limits are numbers.

* `PassSchedulerProofs`. `TypeCorrect` needs `TInv`, which adds to the types
  that batches exist where control says so (a layer index in range) and that a
  pass is in hand while workers run. `NoBodyLost` needs the slots and the workers to agree:
  a worker that is ready or idle owns nothing, no worker owns a body outside
  the parallel section, and what it owns is a present body. `VerifyHardHolds`
  and `RepairSuffices` add that `before` is as valid as what is stored, so that
  putting it back is safe, and, for the second, that an honest change leaves no
  more than its scope's repair mends. `NoChangeLost` follows a modified method
  through the flags of the four call sites: while a batch runs it is recorded
  in `anyChanged`, between batches in the flag of the loop that called it.
  `Refines` shows `Spec => AtomicSpec`: a body in a
  worker's hands counts as the body it was given, and a step of a worker is a
  stutter up to its insertion, which is an atomic `Rewrite` or `Reject`. The pass
  may have edited the body and reported nothing: under `verify_hard` too such a
  rewrite is stored, verified but not marked, and `AtomicPasses` says so. The
  argument needs that a worker holds the only copy of its body or a copy of
  the stored one, that edits made so far are one revision, and that errors are
  only there during a dispatch.
  `ProcessedIsExact` follows the revision of a
  body through the worker that holds it. `NoWorkForgotten` and
  `StableIsGlobalFixpoint` rest on `FInv`, which says where work may be left at
  each point of the nested loops. While a batch runs, a pass that is done left
  no work on a *settled* method, one nothing happened to since (`BatchOK`,
  `CurrentOK`); the layers an iteration is done with left none on methods the
  iteration has not modified (`LayersOK`); and normalization left none at all
  unless a batch just changed something (`NormalOK`). At the boundary work is
  therefore only on modified methods, which are the next dirty set, and if no
  change was recorded (`NoChangeLost`'s invariant) there is none. The
  conditions are part of the statements. `Contract`: no pass misbehaves, and
  none marks another method (`lost_dirty_mark` shows why). `Uncapped`: no
  normalization is cut off by `max_phase_iterations` with a change in its last
  round; after such a cut the next iteration may run no normalization and clear
  the mark of a method it has work on. A layer may be cut off: its passes run
  again in the next iteration. Of `scheduler_fixpoint`'s configurations only the one
  with a single round has runs that are not `Uncapped`. Both conditions leave the
  rivals in: the pipeline need not become stable, and no work is forgotten
  meanwhile.
* `LayerAssignmentProofs`. `Least` is inductive with the types: a relaxation
  moves a pass to one past a dependency that, by induction, is not beyond its
  place in any satisfying assignment. `ProvidersFirst` needs `SweepInv`: while
  a sweep has changed nothing, the dependencies already looked at are
  satisfied, and layers never fall below the fallback.
  `CyclesAreRejected` says that the sort's verdict is right both ways: a pass of
  a cycle is never laid out, and declarations without one are never rejected.
  `SortInv` is the invariant of the sort: what it sorted or queued is
  in an order with dependencies first (`OrderOK`); a pass's count is the number
  of its providers that were not taken off the queue or have still to be told
  of (`CountsOK`, `OutOK`); and a pass is queued as soon as that number is zero
  (`QueueOK`). If all passes were sorted the order is a ranking (`HasRanks`), of
  which the least-ranked member of a cycle would be a contradiction. If not,
  every unsorted pass has an unsorted provider, which no ranking allows, and
  without a cycle the number of passes a pass transitively
  depends on would be a ranking.
* `PassTransactionProofs`. `TxInv` says an IR is *tracked*: if neither the
  claim nor the flag says that the function changed, it still is what the group
  began with. The four theorems about it assume `Truthful`: a pass whose
  closures may return `Err` after an edit restores on failure or reports
  honestly. The assumption is necessary, as `abandoned_edit` shows.
  `InnocentsLand` needs more (`LandInv`): what landed is also in what an open
  session would restore, and a pass that runs alone either is a culprit, and
  then everything that landed is in the snapshot, or never carries damage the
  group's verifier sees beyond what its scope's boundary mends. Such a pass is
  not rolled back, because its snapshot is sound (from `TxInv`) and a rebuild of
  what it did cannot fail.

* `WholeProgramProofs`. The order of components
  (`ComponentOrder`) needs `Covered`: the lowlink of a frame is at most the
  index of any stacked node called, by a call already looked at, from a node
  the frame answers for (one found at or after the frame's node and before the
  next frame's). When a root closes, all calls of its component were looked at
  and none leads below it. `ExactComponents` adds `Connected`: the node of a
  frame and the nodes it answers for reach each other, and its lowlink is the
  index of a stacked node it reaches, so that a frame that is not a root can
  hand its nodes to its parent. `SolvedForGood` has two parts. For every analysis, while
  a round has changed nothing the visited members are idle: a visit would leave
  the store as it is (`RoundInv`). For an `Upward` one, components that were left
  stay so (`Lasting`); this uses the order and that components are disjoint: who
  is visited later is not below, and rewrites only its own summary.
  `LeastSummaries` compares whole stores and uses that the analysis is
  `Monotone`, nothing about the direction. `OnlyUnreachableDie` is the
  walk's invariant: what is live is reached, and a live method's callees are
  live or it is still queued. Assumed: `TransferAssumption`, which only types an
  analysis, and finitely many callees outside the program.

* `ExceptionFlowProofs`. The models use recursive functions and folds, and the
  provers have no induction scheme they can instantiate with an operator. The
  module therefore first proves one induction lemma for a *set* of numbers
  (`Induction`, from the fact that a finite set has a least element), and with it
  that a recursive function exists and unfolds, for each kind of recursion the
  models use. `KeepFacts`, `FlattenFacts` and their like say what the sequence
  operators return, `ReachableIsLeast` that `ReachableAvoiding` is the least set
  that holds the start and is closed under edges that avoid the forbidden nodes.
  All reasoning about paths below is from that lemma: a set of nodes that holds
  the start and is closed holds everything reachable. (`Keep` and `Ascending`
  are written out because the provers know no definition of `SelectSeq` and
  `SortSeq`.) Of the algorithm, `EhCore` is inductive: the traversal has found
  nothing the edges do not lead to (`EhSound`), it has expanded what it found and
  does not hold in its worklist (`EhExpanded`, but for blocks a call is working
  on), and a root whose guard is reached before any root falls back to the entry
  hangs from that guard (`EhHanging`). `RootsReached` follows.
* `FlowAnalysisProofs`, of `Dominators`. Lengauer and Tarjan's algorithm, restated with sets. A
  depth-first tree is a record of numbers and parents, an ancestor of a node is
  in every set that holds the node and is closed under parents. `IsDfs` is all
  the rest needs of the search: subtrees have intervals of numbers, and an edge
  to a higher number leads to a descendant. A semidominator is what lies between
  two bounds: a node that is smaller in number than w and no ancestor of the
  semidominator is avoided on some path to w (`IsHigh`), and no edge into w gives
  less than the recurrence of the algorithm (`IsLow`). From these alone follows
  what decides on dominators (`CoveredIsDominated`). `DomInv` has a part for each
  stage: the search; the scan of a node's predecessors, while every linked node
  has the ancestor and the best label of some part of its tree path
  (`IsForest`), which compression changes to a longer part; the emptying of a
  bucket; the explicit phase in order of number; and the numbering, which gives
  every subtree an interval. `InvIsExact` draws the conclusion. The graph, its
  size and its root are arbitrary.
* `FlowAnalysisProofs`, of the composition. `FlowInv` and `ResultInv` say which graph a tree is of at
  every step, so that `RootsReached` and `TreesAreExact` hold through the whole
  composition, canonicalization's changed functions included. Then what is
  built on the trees:
  - `FrontiersExact`: a node's row of the table is what the walk from its
    predecessors to its immediate dominator marks.
  - `HandlersSafe`: an execution that throws half way through blocks, and has not
    computed the value, only visits blocks that the exception-aware graph reaches
    without the definition. The invariant along such an execution is that the
    starts of all regions around its block are reached so too (`IsEnclosed`): the
    edge attached to the start of a region then stands for every block of it that
    may throw, with nested regions and handlers inside regions. It needs that all
    roots are attached when the trees are built (`AllAttached`), and that the
    start of such a region is reached before any root falls back to the entry.
  - `PostDominanceExact`: the seeds of the virtual exit are the ends of control,
    every block reaches one, and a path of the reverse graph that avoids a node
    is a path that avoids it. The frontier's joins are counted in edges; what is
    a join there is what splits control here, doubled arms and endless regions
    included.
  - `LoopsExact`: a body that is collected backwards from the latches is, among
    the reachable blocks, the natural loop of its header (`BodyIsNatural`); of
    two loops with a reachable block in common one header is in the other's body
    and that body contains the other (`BodiesNest`), so bodies are laminar, the
    smallest loop around a header is its parent, whichever order the hash map
    gives, and the depth, which follows the parents, counts the loops around;
  - `RoutesKept`: `RoutesAreKept` speaks of the code now and the code once given,
    and is not inductive. `RouteInv` names for every edge the sequence of blocks
    it leads through, all spliced but the last and none twice, with one operand
    per phi on the way that is the source's own value or the result of a phi
    passed before (`IsFed`). A splice at a header leaves a way as it is when it
    uses no redirected edge (`RouteAround`), and otherwise puts the new block into
    it, where the header's operand moves to that block or passes through it
    (`RouteThrough`). The recursive `Route` and `Received` then compute what the
    way says (`RouteIs`, `ReceivedIs`). Nothing is assumed of the edges that are
    redirected: the result holds whichever predecessors a round takes for them.
* `DataflowProofs`. Of the solver, for every problem, finite or not, and whatever
  order the priorities impose: `SolverIsSound` needs that every block that is to
  be visited and is not pending is balanced. A step balances its own block and
  makes pending all blocks that read a state it changed; a block that reads no
  changed state stays balanced, the processed block's own loop included.
  `SolverIsLeast` shows that no state exceeds any solution of the inequations,
  because a transfer function made of a gen and a kill set is monotone.
  Together they say that the answer is the least solution, on the blocks the
  traversal visits. They are stated of `SolverSpec`, the solver on its own.
  `AnswersExact` is about `Dataflow`'s specification: what paths say of liveness
  and of reaching definitions, the initial ones the code starts with included,
  restricted to the blocks the worklist can come to, is a solution, so the solver's
  states do not exceed it; and along a path balanced states lose nothing, so they do
  not fall short of it.
* `FactsSound`, in the same module, says that constants and ranges hold while
  the function runs and nothing throws; of constants it says so where the entry
  supplies arguments only (`OnlyArguments`). Whatever value an argument has, its
  fact is then Bottom from the start. It joins two invariants.
  - Of the propagation: `SparseInv`. A fact was settled from what its definition
    evaluates to, or an operand of the definition waits in the variable queue; the
    edges a terminator chooses under the present facts are executable or wait in
    the edge queue. A step takes one entry out of a queue, owes what depended on
    it (the parameters `defs`, `joins`, `late`) and makes up for it call by call;
    that a revised fact has every reader in the queue needs that a variable has
    one definition. When both queues are empty, and under the conditions
    `BranchesAreKnown` and `WideningCovers`, `Accounts` follows: the facts are a
    fixpoint. The lemmas about the domains (a meet or a join allows what either
    side allows, an interval that may wrap is unknown) are where the width of the
    arithmetic enters.
  - Of the run: `RunInv` says that control only takes executable edges and every
    computed variable has a value its fact allows (`Explained`). A block's values come from the
    phis and then instruction by instruction (`EnterFacts`, `BodyFacts`).
  - `range_at` needs more, because it adds to a variable's range what the guards
    on the way say (`ExecInv`). Whatever dominates the block control is at was
    executed and, by `IsStrict`, what it defined is still what it was when its
    branch was taken: a redefinition needs the defining block to be entered
    again, and that block dominates the guard. Hence the operands of a guard
    that `Dominates` the block still compare as they did (`GuardsHold`). An arm
    that no other edge enters is entered through its branch only
    (`SolePredecessor`), so the bound the guard puts on the variable holds
    (`ThroughIsSound`), and the climb over the immediate dominators meets bounds
    that all hold (`RangeAtIsSound`).
  `IsStrict` and `Nil \notin Variables` were added because the proof asked
  for them: in a function that is not strict a guard's operand may change between
  guard and use.

* `RewriteProofs`. `RewriteSound` says that the rewriting keeps what the
  function does. Its invariant `RewriteInv` compares the running function with a
  third one in the middle, `Folded`: the function with its branches and
  comparisons folded and its phis not yet repaired.
  - Folding. A branch the ranges decide goes on to the arm they name, and a
    comparison they decide computes the constant, because the facts hold of the
    run (`FactsSound`'s invariants), so the folded function does on the run's
    values what the function does (`FoldedOutcomes`). It is a function the
    verifier accepts (`FoldedVerified`): the phis lose exactly the operands of
    the edges that are gone, and fewer edges leave every dominance standing.
  - What a phi stands for. The environments of the two runs differ where a phi
    was retired, and a retired phi may stand for another one that is retired in
    the same pass. `Equal` covers all chains at once: it is the
    largest set of pairs of a phi and a variable defined above it that agree, by
    the set itself, along every edge from a reachable block. `AgreeInv` says that
    in every state of the run a phi that was computed has the value of
    what it is paired with.
  - Repair. `IsRewrite` says that each instruction and phi reads, instead of what
    it read, something this stands for (`Stands`). `eliminate_trivial_phis` keeps
    that pass by pass (`TrivialStands`, `ChainStands`, `RetireKeeps`,
    `TrivialKeeps`), and `eliminate_dead_phis` keeps every phi something still reads
    (`DeadKeeps`, `RepairKeeps`).
  - Simulation. With values that agree in this sense the two functions enter
    a block, compute it and leave it alike (`EnterAgrees`, `RunsAgree`,
    `LeadsAgree`, `RewriteOutcomes`).

Only model-checked:

* the two `Terminates`, which are liveness properties;
* `RewritesBounded`: its bound is a sum over the layers, which is a fold, and a
  proof would count the runs of every loop against it;
* `LoopsAreCanonical`, which says that the cap of rounds is not reached. It is
  true of small functions with the code's constant and false of `MaxRounds = 1`:
  no theorem for every value of the constants can state it.

## 5. What is not modelled, and the plan

Not modelled on purpose: logging and event counting, the wording of errors, the
operation taxonomy, and the state of pass objects across their hooks. A panic
in the crate's own repair or verifier, which runs outside `catch_unwind`, is
assumed not to happen.

Not reached, and what it would take:

* the SSA rebuild (`ir/function/rebuild.rs`, some forty phases over one
  function), the builder, canonicalization and block transforms: `SsaCode` and
  `PhiRepair` are the representation such a model would build on, with the
  verifier's checks as its reference;
* the use index the editor keeps between edits (`editor.rs:1510`);
* memoised analyses (`scheduling/analyses.rs`): a table per function, dropped on
  mutation;
* cycle enumeration, and the control-flow structuring of
  `analysis/structure.rs`, a 4000-line heuristic that promises nothing but a
  readable result;
* points-to, taint and memory analyses, the two evaluators, and the rewriting
  passes other than range simplification and loop canonicalization. Each needs
  its own part of the operation taxonomy (some two hundred operations), most of
  which is a table with an entry per operation.

These are most of the crate's lines. They are long because they enumerate
operations, shapes and error messages; a model of them would repeat the table
or leave it out. The map therefore covers the parts with state that several
steps share, and little of the rest.

## 6. Findings

* `abandoned_edit` (`ir/function/editor.rs:280`). When a session's closure
  returns `Err` after it has edited, `edit` returns before `mark_edit_dirty`.
  Under `SsaRollbackPolicy::Never` the edits stay and the flag does not tell.
  If the pass reports nothing either (`passes/blockmerge.rs:519` and
  `passes/loopcanon.rs:288` do not), `run_group` answers `Unchanged` and keeps
  IR that was never verified.
* `lost_dirty_mark` (`scheduling/scheduler.rs:462`). A mark a pass sets on a
  method that is not itself modified in the same iteration is cleared at the
  boundary, although `host/dirty.rs:6` describes marking other methods as the
  way to have them processed in the next iteration.
* `failed_method_kept` (`scheduling/scheduler.rs:774`). The comment at line 758
  says the function is restored after a panic or an error; without
  `verify_hard` no original is kept and the partial edits are stored.
* `unknown_branch` (`passes/ranges.rs:711`). The range analysis adds no edge for
  a branch whose condition has the range Top. It uses Top both for "not yet
  known" and for "any value", which is final: the blocks behind a branch on an
  argument, a load or a sum that may wrap are never visited, and a phi after
  them keeps the range of the other operands. `if a { if a { x = 1 } }` folds
  a test of `x` after it. `sccp.rs`, whose comment at line 200 describes this
  very defect, gives arguments Bottom.
* `widened_bound` (`analysis/range.rs:421`). `widen` drops a bound that grows,
  but compares only bounds both ranges have. A bound the new range lacks, the
  fastest growth there is, keeps the old one: a join of three constants and a
  length stays at the constants.

Further observations. The first three contradict a comment, but have no run of
their own: the properties state the conditions under which the comment is
right, and TLC finds a counterexample to each without them.

* SCCP takes arguments for unknown and nothing else
  (`analysis/dataflow/sccp.rs:202`). A live-in or an initialized local, which no
  instruction defines either, stays at Top: a branch on one is followed to neither arm,
  and a phi of one and the constant 5 becomes 5. The comment at line 200
  describes this defect for arguments. `FactsHold` is stated for functions whose entry
  supplies arguments (`OnlyArguments`).
* `definition_reaches` is documented to tell whether a value is "guaranteed to
  hold" (`analysis/exceptions.rs:690`). It says yes at the join after a handler
  for a value the protected region computes after it may have thrown. And a
  handler that two clauses share becomes a root once, with the guard of the
  first clause (line 167): no edge leads to it from the second guard, and
  `definition_reaches` vouches in the handler for what is computed on the way to
  the first one only. `HandlersUseComputedValues` states what it can be asked:
  it speaks of uses in blocks that only exceptions lead to
  (`ExceptionReachable`), and of functions with `HandlersAreOwn`.
* The documentation of `solve` ("a second visit could not change anything",
  `interproc/summary.rs:121`) is right of analyses that recompute a method's summary from
  its callees'. With one that carries arguments' types down, as the module's
  header describes, a caller visited later changes what its callee was given, and
  a component that is not recursive is not visited again.

The others contradict no statement of the repository:

* The boundary of reaching definitions holds every version-0 local and argument
  (`analysis/dataflow/reaching.rs:146`), also one that an instruction defines:
  its definition is reported to reach blocks no path from it leads to. It holds no
  live-in, which reaches nothing. `ResultsAreExact` counts both as the code does.

* With `scheduler_fixpoint`'s passes and `max_phase_iterations` 1, both
  `WorkIsDirty` and `StableIsFixpoint` fail (`scheduling/scheduler.rs:502`): a
  normalization that is cut off leaves work on a method it changed, and an
  iteration in which no layer changes anything runs no normalization before
  the boundary clears the method's mark. The default of ten rounds is a cap a host
  chooses, so the theorems take it as their condition.
* Comparisons marked unsigned are folded by signed ranges
  (`passes/ranges.rs:427`), and `range_at` applies a guard in a block its arm
  shares with other edges (line 148). The entry is such a block when a branch
  leads back to it: it has one predecessor, and is entered from nowhere first.
  `RewriteKeepsBehavior` and `FactsHold` exclude both.
* The header of `passes/ranges.rs` calls widening not implemented; it is.
* SCCP follows terminators only: a handler is entered through an exception edge
  only if the entry is its guard, and what it defines stays Top.
* The forward solver never gives the entry what a back edge brings, and the
  backward one gives an exit block nothing from the handlers that guard it.
* `EhCfg::new` does not note a guard in `edge_sources` if its terminator already
  leads to the handler. `has_single_latch` counts a doubled arm twice. A
  loop's body may list unreachable blocks, and of two enclosing loops of equal
  size the parent follows the order of a hash map.
