# TLA+ models of p4c

p4c is the reference compiler of the P4 language. A program is parsed into an
immutable IR and taken through a long list of passes (frontend, midend, back
end), each a visitor that returns a new IR. The compiler is one thread, so what
is hard in it is not concurrency but *control*: passes that throw a trigger and
make the compiler go back and try something else, state that survives such a
jump when it should not, nodes of the IR that are shared and so reached more than
once, loops that run until something converges, and containers whose
correctness depends on long sequences of operations. One back end emits code
that does run concurrently, on several CPUs. This directory models those parts,
checks them with TLC on small instances and, for seven of them (pass manager, placement
retries, hash vector, change tracker, def-use analysis, P4Runtime symbol table, meters),
proves with TLAPS what the runs check, for every instance.

## Inventory

| Part | State | Operations | What is hard | What makes it correct |
| --- | --- | --- | --- | --- |
| Pass manager, `ir/pass_manager.{h,cpp}` | per manager: loop position, program, backup stack, error baseline, `early_exit_flag`, `running`; global error count | apply, PassIf, PassRepeated, throw, backtrack, rethrow | triggers that cross nested managers, errors counted in rolled-back passes, nullptr | going back undoes exactly what came after; no pass sees nullptr or its own rolled-back result; runs end |
| PHV allocation and table placement retries, `backends/tofino/bf-p4c/mau/table_summary.*`, `phv/mau_backtracker.*`, `backend.cpp` | one compilation state shared by three passes, flags and placements of earlier rounds | rounds of allocation and placement, five kinds of trigger, restarts | flags that outlive their round, states written from outside, bounded retries | every state has a case, replay follows the right placement, retries end |
| Hash vector, `lib/hashvec.*`, `lib/hvec_map.h` | vector of entries, erased marks, probe table, collision counter | find, insert, rehash, erase by key or iterator, clear | removal without tombstones, compaction in place, full table, element width | an insertion-ordered map |
| Visitor framework, `ir/visitor.{h,cpp}` | change tracker (status and result of each node), stack of visits, visitors and splits that are waiting | visit, clone, finish, revisit; split, wait at a join point, merge | a node reached along several paths or while it is being visited, replaced or removed nodes, branches visited from inside one another | a DAG is rewritten like the tree it stands for; a node is visited with what all paths carry; loops are detected |
| Loop visitors, `ir/loop-visitor.cpp` | state at the loop head, shared `-BREAK-` and `-CONTINUE-` states | visit the body again until it converges | breaks and continues of nested loops | the state foresees every run |
| Def-use analysis, `midend/def_use.*` | per variable: defs, live parts, slices | write, read, merge | overlapping slices, unknown places, merging of flows | a read finds every write that reaches it |
| P4Runtime symbol table, `control-plane/p4RuntimeSymbolTable.*` | ids taken, ids requested, suffix tree | add, assign ids, shortest suffixes | id collisions, order of assignment, ids running out | ids and aliases unique, requested ids honoured, result independent of order |
| eBPF meters, `backends/ebpf/psa/externs/ebpfPsaMeter.cpp` | token buckets in a map, a lock | refill, take, mark | packets on several CPUs, unsigned times, a period of zero | rates are kept: a dual token bucket |
| P4Testgen's path selection, `backends/p4tools/modules/testgen` | branches kept, coverage, tests written | step, pick a successor, roll back, write a test | lists that go stale as coverage grows, solver timeouts, features or tests that fail | no path lost or repeated; coverage and limits right; ends |
| Call graph and parser simplification, `frontends/p4/{callGraph.h,parserCallGraph.cpp,simplifyParsers.cpp}` | call graph of the states, states left | compute, restrict, collapse chains | edges that are not written down, order of the passes | the parser does the same on every packet |
| Inlining of actions and functions, `frontends/p4/*nlining*` | calls to be inlined, in order; the batch; shared bodies | discover, sort, next batch, inline, replace | names of objects that a batch replaces, shared statements, two calls in a statement | every callable does what it did; no call is left |
| Error reporter, `lib/error_reporter.h` | counts, messages seen | report, suppress | duplicates, limits | used through `errorCount()` by the pass manager |
| Rest of front end and mid end | IR | some hundred transformations | need the semantics of P4 | equivalence of programs |
| PHV allocator and table placer proper | containers, resources | search | size | a valid allocation |
| Other back ends, P4Runtime serializer, IR generator | IR to text | | | |

Components interact by calls only. The pass manager runs all the others; the
placement retries are Backtrack passes in the Tofino back end's list, so the
rules proved of the pass manager (who is asked, in which order, what is
restored) are what `PlacementBacktracking` takes for granted when a trigger
goes from its thrower to its handler. All passes are visitors: what a Transform
returns when nothing changed is what `PassRepeated` compares, and the joins and
loops of ControlFlowVisitor carry the state of the def-use analysis, whose store
is `hvec_map`. The call graph is shared by parser simplification and inlining.

## Modules

| Module | Models |
| --- | --- |
| `PassManager` | a tree of managers and passes run over one program |
| `PassSequence` | what the manager promises: passes in order, backtracking is undo |
| `PassManagerProofs` | inductive invariant and theorems; then histories: changes in order, `running`, the refinement of `PassSequence` |
| `MCPassManager` | two trees of seven passes |
| `PlacementBacktracking` | the retry protocol of PHV allocation and table placement |
| `PlacementProofs` | its invariants, and how many rounds there are at most |
| `MCPlacement` | a device of four stages, both flows |
| `HashVec` | `hvec_map` over `hash_vector_base` |
| `OrderedMap` | what it promises: a set of entries and the order they were inserted in |
| `HashVecProofs` | its invariants and the refinement, while the table is not full |
| `MCHashVec` | hash functions that collide, and one that does not |
| `Transform`, `MCTransform` | ChangeTracker and `apply_visitor` of Modifier and Transform; five passes |
| `TransformProofs` | the change tracker: its invariant, nothing stale, which clones are kept |
| `FlowJoin`, `MCFlowJoin` | SplitFlowVisit and the joins of ControlFlowVisitor; all DAGs of five nodes |
| `DefUse`, `LoopFlow`, `MCDefUse` | ComputeDefUse on one variable; loops, breaks and continues; programs for both |
| `DefUseProofs` | reads find the defs that reach them |
| `P4RuntimeSymbols`, `MCP4RuntimeSymbols` | the P4Runtime symbol table |
| `P4RuntimeProofs` | ids and aliases are right |
| `Meter`, `MCMeter` | the code emitted for PSA meters, on several CPUs |
| `MeterProofs` | the rates are kept |
| `TokenBucket` | what a meter promises: two buckets refilled every period |
| `NumberLemmas` | least and greatest elements, remainders, probing that goes round: shared by the other proofs |
| `PathSearch`, `MCPathSearch` | path selection and test bookkeeping of P4Testgen |
| `CallGraphOps` | the class CallGraph, as operators on a value |
| `SimplifyParsers` | the passes on a parser, and the parser run before and after |
| `Inlining` | InlineActions and InlineFunctions |
| `MCFrontEnd` | instances of both |

Two MC modules put two machines into one run: a behaviour of `MCDefUse` is one of
`DefUse` or one of `LoopFlow`, a behaviour of `MCFrontEnd` one of
`SimplifyParsers` or one of `Inlining`; the other machine's variables stand
still. What a component can be configured with (options of an invocation,
the graph or program it is applied to, a meter's rates) is a record that Init
chooses from a constant set, so that one run covers all of them.

### PassManager

The passes of the tree are numbered depth first; the constants `Last`, `Parent`
and `Kind` give its shape, so that `it++` is `Last[it] + 1` and
`passes.end()` is `Last[m] + 1`. A program is the sequence of the passes that
changed it, since the manager only ever compares pointers: equal histories
stand for the same node. Each manager has its own locals of
`PassManager::apply_visitor` (`it`, `program`, `backup`, `initial`), kept in
functions over the tree because only one activation of a manager is live at a
time; `entry` is the argument of the walk, which `PassRepeated` compares with
the result.

Actions: `ApplyManager`, `SkipIf`, `ApplyRepeated` (a call), `Invoke` (save a
backup, call the pass), `LeafReturns` and `LeafThrows` (everything a pass can
do: report an error, call `early_exit()`, return the same program, a new one or
nullptr, or throw), `Returned` (the tests after a pass), `PopOwn`, `Accept`,
`Refuse`, `Rethrow` (the catch clause), `EndLoop`, `FinishManager`,
`RepeatFailed`, `RepeatDone`, `RepeatAgain`. A Backtrack pass accepts a trigger
it handles while it has alternatives left (`tries`, bounded by `MaxTries`):
in the code a pass that says yes changes its own state so that it will not
fail the same way again, as TablePlacement and MauBacktracker do. A PassIf whose
condition is false is still asked to backtrack, as in the code.

`PassSequence` has the same program and a position in the list of passes; its
`Undo` takes away the changes made at or after the pass that is to be redone, and says so by
relating the two programs (`MadeBy`) rather than by computing one.

Left out: `PassRepeatUntil` (unused), debug hooks, sequence numbers, logging,
and the building of the pass list.

### PlacementBacktracking

`pc` is the pass of the back end's list about to run: MauBacktracker, PHV
allocation, table placement, TableSummary, allocation of temporaries,
next-table propagation. The other variables are members of TableSummary and
MauBacktracker and the flags they or the handlers set; a placement is named by
the round that produced it. TableSummary's switch is one action per case
(`Initial`, `NoContainerConflicts`, `RedoPHV1`, `LastTry`, `AltInitial`, ...).
The handlers are `CatchPHVTrigger`, `RerunTables`, `FinalRerun` and
`LongBranchAllocFailed`; `TablePlacement::backtrack` (`mau/table_placement.cpp:330`), which
clears a flag also of triggers it refuses, is `TablePlacementPassed`, a part of `RedoPHV`,
`FinalRerun` and `LongBranchAllocFailed`. `FallBack` is the trigger that AllocatePHV throws
(`phv/allocate_phv.cpp:4258`).

A placement's outcome (stages used, worst error) is chosen freely in each
round. PHV allocation is a deterministic function of its input; for the
rounds in which it gets no table information that matters, since nothing else
changes between two of them, so there the outcome is a function `fresh` of the
flags, chosen once. `FreshOutcomes` says which functions are considered, and
`altPhvAlloc`, the option that chooses the flow, is a variable that no step changes.

### HashVec

`data` is the vector, indices counted from 1 as in the table (0 = empty slot).
`find` is the code's probe loop as the smallest number of probes that stops
it. `hv_insert` is split at its calls of `redo_hash`, whose loop is one step
per entry, so that the invariants speak about the half-built table too: `pc` says
where it is, `op` and `cache` are its locals. `Store` and `PlaceOld` include
what the callers in `hvec_map` do with the index. Two numbers of the code are
constants: the initial table size (15) and the capacities of the three element
sizes (255, 65535, 2^32 - 1); `SizeMod` stands for 2^64. Erasing an absent key
where the probe ends at an empty slot does nothing and is not a step.

### Transform

A node of the IR is a number, its children a sequence; a clone is a new node with
the number of its original (`Address` and `Content` tell the two kinds of
equality apart). `visited` is the ChangeTracker's map with the three statuses of a
node (new, busy, done), `stack` the activations of `apply_visitor` and of the
loop over the children. `Begin`, `VisitChild`, `Preorder`, `PreorderReturned`,
`VisitInPreorder`, `Postorder` and `EndVisit` are the parts of
`apply_visitor` between two calls into the pass; the pass does anything it may
(edit, prune, remove, return a child, a new or another node, visit a child
itself, call `visitOnce`, `visitAgain` or `revisit_visited`), but the same for
equal nodes. `did` and `last` are histories: what the pass did to a node, and what
the last visit of it returned.

### FlowJoin

The visitor state that is merged is the set of nodes seen on the way, so that
`CarriesAllPaths` can compare it with the graph. `stack` holds the
activations: visits of children, branches run by a split, and visitors that wait
at a join point while `FirstReady` finds a branch of an enclosing split for them
to run. `Parents` is what SetupJoinPoints counts.

### DefUse and LoopFlow

`DefUse` has one variable of bits, of a header stack or of a struct; the defs are
numbers of writes, the keys of `slices` sets of parts. Each kind of write in
`do_write` is an action, an if statement is `Branch`, `Else`, `Join`. `reach` is
the history the reads are compared with; `dropped` is the history of the defs of each part
that the code lets go of: those in a gap that `split_slice` leaves at a merge (`Missed`), and
those in the slices that the end of `do_write` clears after a write somewhere in the variable
(`ClearsSlices`). A part that is written again has nothing dropped. `LoopFlow` has the recursive visit of
statements as an operator (`Visit`, with the globals that breaks and continues are
merged into) and beside it runs the program with every outcome of every condition.

### P4RuntimeSymbols

`Add` collects symbols in any order, `AssignId` takes the next one by name, hashes
and probes. Ids have two bits below the type's prefix and hash values three
bits, so that probing goes round and ids run out. The suffix tree is the
function from suffixes to the number of names that end in them. The table is built
twice: `Deterministic` compares the two.

### Meter and TokenBucket

A packet takes its timestamp when the pipeline starts (`Arrive`) and is charged
under the lock later (`Execute`), so that packets of two CPUs can be charged in
another order. Times and tokens are W-bit unsigned numbers, division by zero gives
zero as in eBPF. `ordered` and `sent` are histories: whether all packets so far
were charged in the order of their times, and what was let through in each colour.
`TokenBucket` refills at every period instead of computing periods from times.

### PathSearch

A program is a tree of execution states; which branches the solver refutes, where
a feature is not implemented, which ends give no test or one the writer cannot
express, and which nodes of the program each state has met are part of the tree.
The four strategies are `DEPTH_FIRST`, `RANDOM_BACKTRACK`, `GREEDY` and `SELECTED`
(`--input-branches`); `ended` is the history of paths that came to an end, `atLimit` that of the
branches that were left at a choice where the greedy search had reached MAX_STEPS_WITHOUT_TEST.

### CallGraphOps, SimplifyParsers, Inlining

`SimplifyParsers` runs its three passes and then both parsers side by side: `old` is the
state of the source, `new` the state and the statement of the result. In
`Inlining` a callable's body is a sequence of statements with calls (and calls
among the arguments of calls); a body that is inlined shares its nodes with the
callee, and inspectors and transforms come to a node once, as in the code. An object is a
callable and a version of it, because `SimpleInlineList` compares pointers.

## What the runs check

| Run | States | Shows |
| --- | --- | --- |
| `pass_manager_nested` | 119 thousand | type correctness; nothing done by a pass that is to be redone survives (`ChangedOnlyByEarlierPasses`); every backup can be restored (`BackupsRestorable`); after an error only retries (`OnlyRetriesAfterErrors`); nullptr is never applied; a trigger goes backwards (`HandledByAnEarlierPass`); the manager implements `PassSequence` (`BacktrackingIsUndo`) |
| `pass_manager_repeat` | 427 thousand | with PassRepeated: changes in pass order, `running` always set, every run ends |
| `placement` | 928 thousand | `RoundsHandled`: every state handled, fewer than `MaxRounds` placements; `FlagsOfTheRound`: container conflicts ignored in NOCC rounds only, trivial allocation in its own; replay follows the trivial round; the retries end (`Termination`) |
| `hash_vec_map` | 272 thousand | `TableSound`: probe chains unbroken; `FindsWhatIsThere`: find, iteration and size agree; implements `OrderedMap` without a BUG |
| `hash_vec_full` | violation | in a full table, erasing an absent key removes another entry |
| `transform` | 248 thousand | a DAG is rewritten like a tree; nothing stale is left; `ClonesRight`: unchanged nodes keep their identity, `forceClone` copies all; `TrackerRight`: the tracker agrees with the stack and with what visits returned, every child is visited; every run ends, in the loop check only if there is a loop (`Terminates`) |
| `flow_join` | 100 thousand | every node is visited with what all paths carry, nothing leaks between branches (`CarriesAllPaths`, `EveryPathSeen`); waiting visitors find branches and the visit ends (`FlowsJoined`) |
| `def_use` | 2.7 million | `UsesSound`: in every program, reads find all writes that reach them, but those in `dropped` for the parts read, and nothing is dropped without overlapping slices at a merge or writes at unknown places beside writes of parts; `SlicesExact`: exactly these before flows merge, slices stay disjoint; nothing a run of nested loops sees is unforeseen (`ReadsForeseen`) |
| `p4runtime` | 724 thousand | `IdsRight`: ids unique, complete, as annotated; `Deterministic`: independent of order, and the assignment ends; `AliasesRight`: unique and shortest |
| `meter` | 1.5 million | `MeterRates`: no bucket overflows, rates kept; implements `TokenBucket` |
| `paths` | 678 thousand | `RightPaths`: no path lost or walked twice, selections followed; `ListsAsDocumented`: what is set aside lies on the path, or offers nothing new, but for the branches left at the limit on steps; `TestsAccounted`: coverage and limits right, the search ends |
| `front_end` | 1.6 million | parsers do the same on every packet (`SameRuns`), chains collapsed, only reachable states left (`ParserSimplified`); every callable does what it did (`MeaningKept`), all calls inlined, from leaves up, in every round fewer (`InliningComplete`) |

Most properties are conjunctions of smaller ones that are named, and commented, in the
modules (`TrackerRight` is `TypeOK`, `BusyIsOnStack`, `ResultOfLastVisit` and
`VisitsEveryChild`); the tables below and the plan speak of these by their own names.
Each property has a mutant of the code's model that violates it, listed in
`PROJECT.json`; the mutated definitions stand before the true ones in the modules.

Bounds.

- Pass manager: seven passes are enough for a manager inside a manager next to a
  PassIf, with a Backtrack pass before, inside and between them, so that a trigger
  can be handled by the thrower's manager, by an enclosing one, by a nested one, or
  by nobody. One alternative per Backtrack pass, one error and three or four changes
  let each pass change, fail, be redone and change again.
- Placement: four stages and a critical path of one, so that a placement can be
  compact, fit exactly, fit loosely, or miss by one stage; `MaxTempRounds` = 2 bounds
  the rounds that leave temporaries, which nothing in the code bounds; `MaxRounds` = 20
  keeps the counter finite and is shown never to be reached.
- Hash vector: three keys that collide in a table of 7 and part in a larger one and
  up to four entries, erased ones included, reach compaction, growth, the punt of a
  table that is 90% empty, and the change of element size (after three entries). The
  keys' homes cannot fill the table with the collisions allowed, so the fault of the
  full table stays out of this run and is shown by `hash_vec_full`.
- Transform: four or five nodes with up to three shared ones, reached from
  nodes visited before, after and during their own visit; up to four edits.
- FlowJoin: all DAGs of five nodes with up to two children each, in either
  order, under six choices of branching nodes; two nested joins and a join
  between the branches of another need four.
- DefUse: four bits have every way two ranges can overlap; four or five writes in two
  nested ifs. Slices of bits beside writes at an unknown place, and elements with constant
  indices beside next, push, pop and others, have programs of their own with one if. LoopFlow: 3000 programs of one loop in another, a statement of
  any kind at three places.
- P4Runtime: three tables and an action with four possible annotations and colliding
  hashes; up to five of eleven names, with four ids.
- Meter: two CPUs, six ticks, W = 6, packets of one and three bytes. Six ticks are
  two periods of the committed rate. Packets come coloured YELLOW to the one meter, RED to the
  other, and to both without a colour, which counts as GREEN. The two CPUs are interchangeable (`SYMMETRY`);
  the properties are safety properties.
- PathSearch: ten states with ways out 1, 2 and 3; every set of refuted branches of
  three; 1152 programs with coverage of two nodes. MAX_STEPS_WITHOUT_TEST is 2 in one set of greedy
  searches, where it is reached, and the search goes on with a counter that a test has reset, and 9 in
  the others, where it is not.
- Front end: all parsers of start and two more states with up to two ways out
  (the third, no match, included); five actions with up to two calls each, four
  functions with up to two calls in a statement.

Fairness. Wherever a liveness property is checked, the specification has weak
fairness of the whole next-state relation: the compiler is one thread that takes
its next step. No action is fair by itself: which outcome a pass, a solver or an
allocation has is never assumed. Termination of `PassManager` rests on the bounds
on alternatives and changes; a pass that always accepts or always changes the
program makes the code loop as well. `Termination` of the PHV-first flow has a
premise, `RedoneFits`; see below.

`CHECK_DEADLOCK FALSE` is used for `transform`, `flow_join`, `def_use`, `p4runtime` and
`front_end`: a pass, a construction or a program that is run comes to its end there. In the
first, second and fourth the liveness property shows that it stops nowhere else.

## Findings and departures

The run `hash_vec_full` shows one disagreement between the code and its comment:
`remove` looks at the slot `find` left in the cache and not at what it returned, so
in a full table it takes out another key's entry (`ErasesOnlyItsKey`).

Elsewhere modelling met behaviour that differs from what a comment or document
leads to expect. These cases are stated in the properties, as premises or as exceptions for
exactly what a history variable has recorded, or kept out of the instances, so that what is checked is exactly what the code does keep:

| Where | What the code does | How it appears |
| --- | --- | --- |
| `table_summary.cpp:750` | FAILURE with warnings only is left again by a final rerun or a long-branch restart; the diagrams have no such edge | in the model; no property says FAILURE is final |
| `table_summary.cpp:104` | `resetPlacement` keeps `firstRoundFit`, so that the first PHVTrigger after a restart brings back an old value | in the model |
| `mau_backtracker.cpp:32` | the fall back "onto the first round" keeps `metaInitDisable`; if that allocation does not fit, the same trigger is thrown for ever | premise `RedoneFits` of `Termination` |
| `visitor.cpp:118` | a repeated visit that changes nothing leaves the result of the earlier one, and `visitOnce` makes it final | premise `pass.calls = {}` of `ResultOfLastVisit` |
| `visitor.cpp:111` | a node that a postorder returns before it was visited counts as done | premise of `VisitsEveryChild` |
| `visitor.cpp:576` | with `forceClone`, a leaf that preorder returns is not cloned, nor is a node of the IR that a postorder returns | premises of `ForceCloneCopiesAll` |
| `visitor.cpp:706` | a node shared by children that are visited in order makes the first wait for the second: BUG_CHECK | `Structured` in `MCFlowJoin` |
| `def_use.cpp:282` | merging a wide slice into a narrower one loses the writes of the bits in between | `Gap`; history `dropped`, the exception of `UsesSound` |
| `def_use.cpp:521` | a read of a whole variable does not look at slices and fields | whole reads are not among the reads compared |
| `def_use.cpp:601`, `:619` | a write at a computed place, next, push and pop clear the defs of single slices | `ClearsSlices`; history `dropped`, the exception of `UsesSound` |
| `def_use.cpp:356`, `:368`, `:380` | parameters of actions, functions and parsers get a def but nothing live, so that no read finds it before a write makes something live | not in the instances: a parameter is live (as `in` and `inout` parameters of a control that have a named type, `:319-330`) or has no def (`param` in `DefUse`) |
| `ebpfPsaMeter.cpp:233` | a packet charged after a later one makes the time difference wrap: the buckets are filled | premise `ordered` |
| `selected_branches.cpp:32` | `--track-branches` reports empty lists with every other strategy | no property |
| `greedy_node_cov.cpp:80` | after MAX_STEPS_WITHOUT_TEST steps uncovered branches are put away with the covered ones, and stay there when a test has reset the counter, against `greedy_node_cov.h:65` | history `atLimit`, the exception of `UnexploredCovered` |
| `test_backend.cpp:136`, `:179` | coverage and test count are updated before a writer that may throw, and the check for full coverage is skipped | premise `~ Unwritten` |
| `simplifyParsers.cpp:115` | a state with an annotation other than `@name` is not merged with the next | `Annotations` |
| `simplifyParsers.cpp:160` | a key that can fail (lookahead) is dropped with the select of a chain | `KeysMayFail` = FALSE |
| `functionsInlining.cpp:141` | of `f(g(x));` in two batches, the body of g is put in with the arguments of f | calls nested in call statements are not in `FourFunctions` |

## What is proved

Every theorem is of the form "every behaviour of the specification", for all values of
the constants that satisfy the assumptions named below; TLC evaluates these assumptions on
the instances of the runs. Each `IInv` was checked by TLC before it was proved.

### Pass manager

`PassManagerProofs` proves for every tree of passes, every assignment of kinds,
handled triggers and stop-on-error flags, and every value of the bounds:
`TypeOK`, `ChangedOnlyByEarlierPasses`, `BackupsRestorable`, `NullNeverApplied`,
`OnlyRetriesAfterErrors` (invariants) and `HandledByAnEarlierPass` (an action
property). The assumptions are `ConstantAssumption` (types) and
`TreeAssumption` (the numbering is the depth-first numbering of a tree whose
root is a manager).

None of the invariants is inductive: what a manager's program contains
depends on the managers around it and on what its backups contain. `IInv` adds

- `EnclosingOK`: for every manager around `cur`, its loop is at the pass that
  contains `cur`; its program extends the program the walk began with by changes
  of earlier passes only (`Consistent`); so does every backup, in pass order
  (`Saved`); and the walk began with a program that extends the parent's
  program by changes made inside the manager itself (`Entered`, for the later
  walks of a PassRepeated);
- `CurrentOK`: the same for the manager that is executing, according to `pc`, and
  what `node` is: the parent's program when a pass is called, an extension of it
  by that pass's subtree when it returns.

The heart of the argument is `Extends(p, q, lo, hi)` (p is q with further
changes by passes lo..hi) and four lemmas about it, and three about the tree
(`Ancestors`, `Siblings`, `NextPass`). `BeginStep`, `ReturnStep`, `RestoreStep`
carry them through a call, a return and a restored backup; there is one lemma per
action, and `NextIInv` puts them together. `BackupsRestorable` then gives
`EarlierPassesOnly`, since a restored program was saved for the pass at `it`;
`TriggersTravelBackwards` follows from `it[cur] <= thrower` in the catch clause
and the order of the stack.

The second part of the module proves `ChangesInPassOrder` and `RunningWhileWalking`, and that the
manager implements `PassSequence` (`BacktrackingIsUndo`). `IInv` says which passes may have
changed a program and not how two programs of one run relate; `HInv` adds that every
saved program is a prefix of the ones saved after it and of the one in hand, the rest
being the work of later passes (`Behind`), that a walk begins with a program none of its
passes has changed (`EntryClear`), and that `running` is set along the stack. The refinement
has the premise `NoRepeated`: a PassRepeated runs its passes again without undoing
anything, which `PassSequence` does not allow. It maps `at` to the last pass
that has finished (`Position`) and has one lemma for accepting a trigger, one for a pass
that returns, one for the manager's own steps and one for the steps that stutter.

### Placement retries

`PlacementProofs`: `RoundsHandled`, `FlagsOfTheRound`, `ReplayFollowsTrivialPlacement`, for
every number of stages, critical path and function of outcomes. A flag is set in one pass
and used in another, so `IInv` says what each flag and the replayed placement are at every pass
in between (`StatesOK`, `NoccOK`, `TrivialOK`, `ReplayOK`). `MeasureOK` bounds the rounds: those made,
those that can still come from the current state, the fixed-table rounds left, the rounds
of the long-branch restarts left and the rounds with temporaries left never add up to more
than 17 + `MaxTempRounds`; `AtMostSeventeenRounds` says so of the rounds without
temporaries. `RoundsAssumption` (`MaxRounds` above that number) says that the bound of the
model is never the reason why a step is not taken.

### Hash vector

`HashVecProofs`: `TableSound`, `FindsWhatIsThere`, that redo_hash meets no BUG, `ErasesOnlyItsKey`
and the refinement `ImplementsOrderedMap`, for every set of keys, hash function, initial
size and element widths. The theorems are about behaviours on which the table has an
empty slot (`NotFull`): the code does not see to it, and `hash_vec_full` shows what happens otherwise. The
hypothesis is met by all behaviours of `hash_vec_map`, whose table is larger than `MaxData`.
`IInv` says of the half-built table what `TableSound` says of the whole one: the entries
moved so far are reached from their home slots through slots of *older* entries
(`Reached`), which is why compaction in order never breaks a chain; and that what `find` left in
the cache is still what it would find when the index is stored (`CacheOK`), that no key is there
twice and every index fits the elements (`KeysOK`, `WidthOK`).

### Change tracker

`TransformProofs`: `TrackerRight`, `NothingStale` and `ClonesRight` for every pass on every IR, shared
nodes and cycles included (`TransformAssumption` gives the types of a pass). A node's entry in the tracker
is made by one activation of `apply_visitor` and read by others, so `IInv` says of each activation what it
holds, which child it waits for and how far it is (`StackFits`); that no node is held twice, and that the
busy nodes are exactly the held ones; of the tracker where its results come from, and that they are final
where every node is visited once (`TrackerFits`); of the heap that the original IR stays as it was
(`HeapOK`); and that the children of a node that postorder was called for have been visited
(`PostOK`). The proof that it is kept also tells what kinds of steps there are (`SomeStep`: a visit starts, is
handed the result of a child, leaves preorder, comes to its children, ends); the other two properties
need no more of the actions than that. Each rests on an invariant of its own about the nodes:

- `StaleInv`: what visits have returned is closed under children, except below nodes where the pass pruned; all
  that is in use (results in the tracker, children that were visited, what preorder got for a child) is
  among it; and a node that was both returned and visited is its own result. The one node a visit ends with
  that need not be new, removed or known is one it held itself (`Known`).
- `CloneInv`: with forced clones, there is a set closed under children that holds all in use and no node of the IR.
- `QuietInv`: take any set of nodes of the IR, closed under children, that the pass has kept so far. The clone
  of a node in it is what the node is and is dropped, and the visit returns the node. That the pass keeps it so far is true of earlier
  states if it is of the present one, since it does something to a node once (`Traced`). The property speaks of the nodes below one node: `BelowClosed` says
  that `Below` computes all of them, because a growing chain of sets of nodes stops within as many steps as there are nodes.

### Def-use analysis

`DefUseProofs`: `SlicesExact` and `UsesSound`, for variables of every kind and width, every set of slices a
program writes and every nesting of if statements (`DefUseAssumption` gives the types of a kind of
program). A read looks at one def_info_t, and that was made by writes, by clones and by merges at the end of
if statements; so `IInv` says the same of the running visitor and of every clone that waits at an enclosing if
(`FlowOK`), relative to the history `reach` of its flow:

- `InfoOK`: the keys of `slices` are intervals, no two overlap, there are no defs where nothing is live, and a
  program that writes each slice as a whole has no keys but these (`InFamily`), one that writes no slice none;
- what a read of a single part finds (`Found`) and what was dropped of that part contain what reaches it; nothing
  is dropped in the programs `NothingDropped` speaks of (`Clean`, with no gap by `NoGap`, as each slice is
  then met by no other than itself); and what is found is equal to it in the programs `ReadsExact` speaks of
  (`Exact`), where moreover every field is live or has a def of its own (`FieldsOK`).

Lemmas say what `erase_slice`, `split_slice` and the merge of two sets of slices leave for each
part; the merge is a recursive function over the slices of one side, whose existence is proved. A read of
several parts finds what is found for each of them and nothing else (`ReadFinds`).

### P4Runtime symbol table

`P4RuntimeProofs`: `IdsRight` and `AliasesRight`, for every set of programs, names, hash functions and
widths. `IInv` says that ids given are in `assignedIds` and given once (`TakenOK`), that annotated ids
are there from the beginning (`AnnotatedOK`), that a type already done leaves a symbol out only when
every id of the type is taken (`TypesOK`, by the lemma that probing goes round), and that a node of the
suffix tree counts the names that pass through it (`TreeOK`). `SymbolsAssumption` says that
hash values are at least as wide as ids, as in the code, where they are 32 and 24 bits.

### Meters

`MeterProofs`: `MeterRates`, for every number of CPUs, width, packet size and configuration. `IInv` ties
each bucket to its time field: that field is q whole periods, none of them later than the
packet charged last, and what went through and what is left are at most the size and what q
periods bring. `ConfigAssumption` says the entries fit W bits (and that 2^W is a positive number, which
the provers do not know of an exponent that is not a literal).

`NumberLemmas` holds what the last two, the hash vector and the change tracker share: least and greatest
elements, remainders, and that linear probing reaches every slot.

### Only model-checked

- Liveness: `Termination`, `Terminates`, `FlowsJoined`, `TestsAccounted` and
  the part of `Deterministic` that says that the construction ends. Out of the prover's reach.
- `CallGraphOps`, `SimplifyParsers`, `Inlining` and `LoopFlow` use RECURSIVE operators, with
  which the prover cannot work.
- `RewritesLikeATree` compares the IR with what a recursive function over the tree makes of it,
  `IsTokenBucket` compares with a recursive level per tick, and the prover has no induction over data. `IsTokenBucket` moreover needs that the W-bit sum of tokens does not wrap,
  as on the instance; `MeterRates` does not.
- The rest of `Deterministic` compares two constructions; a proof needs that the
  sorted order, and so each computed id, is a function of the set of symbols.
- `FlowJoin` and `PathSearch`: see the plan.

## Plan

Done: pass manager, placement retries, hash vector, visitor framework
(change tracker, joins, loops), def-use analysis, P4Runtime symbol table, meters,
path selection, parser simplification, inlining; proofs about the seven parts named at the top.
What is left, in this order:

1. Proofs: `RightPaths` of `PathSearch`, `BusyIsOnStack`'s counterpart in
   `FlowJoin` (which visitor waits for which node), that two constructions of the symbol table agree.
2. Valid bits, nested slices and the parser's loop in `DefUse`.
3. Inlining of controls and parsers, which shares the list and batches.

## Not modelled

Most of p4c translates trees: parsing, type inference, the rest of the front and mid
end, code generation of the back ends, the P4Runtime serializer, the IR generator. Such a
pass is a sequential function of a large tree whose correctness is the equivalence
of two P4 programs; a model of it would be the pass and a semantics of P4 written
again, with no interleaving, failure or retry for a model checker to explore.
The PHV allocator and the table placer are heuristics of many thousand lines
whose outcomes are inputs here. The symbolic steppers of P4Testgen rest on an SMT
solver. The error reporter keeps counts that matter only through the pass
manager. For this reason the mapped lines are a small share of the repository: the
models cover the parts with control state of their own, and not the bulk of the
translation. `PROJECT.json` lists every component with the reason, the hazards at
their source lines, and the source lines of every definition.
