# Verification of the Petri-net concurrency checker

The repository analyses a Rust crate. It collects a call graph from MIR, translates every function body to a
Petri net, explores the reachable markings and runs detectors (deadlock, atomicity violation, data race) on the
state graph. Which locals denote the same lock, channel or memory is answered by a points-to analysis.

This directory holds TLA+ models of the parts whose errors change what is reported, TLC configurations that check
them on small instances, and machine-checked proofs about the points-to solver, the call graph, the collection and grouping of locks,
the nets that are built and the programs they stand for, the deadlock detector and the atomicity detector. `PROJECT.json` maps every definition to the lines it stands for. Paths
below are relative to the repository (`src/` is the crate's).

## 1. The system

| part | code | state it keeps | operations | gets from / gives to |
| --- | --- | --- | --- | --- |
| call graph | `translate/callgraph.rs` | graph of instances, the set and the queue of bodies to search, spawns by handle | `analyze`, `reachable_from_roots`, `classify` spawns | gives collectors and translator the functions and their order |
| points-to builder | `memory/pta/{builder,analysis,interproc,context,typeutil,model/*}.rs` | constraints, queue of bodies and contexts, closure environments | one visit per MIR assignment and call, `build_reachable`, `resolve_pending` | gives the solver constraints |
| points-to solver | `memory/pta/{solver,constraint,loc}.rs` | points-to sets, edge maps, worklist and its mirror `in_wl` | register a constraint, pop a location, propagate | answers `may_alias` for all that follows |
| points-to queries | `memory/pta/{adapter,result,differential}.rs`, `memory/{pointsto,alias_engine}.rs` | the solved sets | `alias(a, b)` with four degrees of certainty | used by collectors, lock grouping, channels, races |
| collectors | `concurrency/{blocking,channel,atomic}.rs`, `memory/{unsafe_memory,ownership}.rs` | guards, condvars, channel ends, atomics, unsafe accesses per function | one MIR visit each | resources of the translator |
| translator | `translate/petri_net.rs`, `translate/mir_to_pn/*.rs` | the net under construction, registries of places, spawn ends and handles, ordering segments | one handler per terminator and kind of call | gives the explorer the net |
| state graph | external crate `unipn`, called from `callback.rs` | markings, edges | fire | gives the detectors states and edges |
| deadlock detector | `detect/deadlock.rs` | visited set, path, cycle groups | pattern A (terminal states), pattern B (stable cycles) | report |
| atomicity detector | `detect/atomicity_violation.rs` | stack of walks, the matcher's memory, fingerprints | match an operation, expand, prune, de-duplicate | report |
| data race detector | `detect/datarace.rs` | accesses of one state, merged conditions | collect, pair, rank, merge | report |
| options | `options.rs`, `config.rs` | mode, dumps, crate, filter, stop, report level, settings of the file | `parse_from_args`, `targets_current_crate` | decide what the pipeline does |
| pipeline | `callback.rs`, `lib.rs`, `util/mem_watcher.rs` | phase, files written, sampler thread and its mutex | the phases and their early stops, two detectors in parallel | runs everything |
| reports, tools | `report/mod.rs`, `display.rs`, `util/*`, `bin/*` | - | serialisation, drawing, command line | - |

The program is sequential but for a memory sampler thread and a `rayon::join` of two detectors that share nothing.
What is concurrent is what it analyses, and this is where its errors hide: the net has to offer exactly the
interleavings of the analysed program. What makes each part hard:

* **solver**: loops over copies of sets that grow under them; hash containers whose order differs from run to run;
  a worklist with a cached membership test; pointers that flow into their own fields. *Correct* means: no update is
  lost, the result is the least solution whatever the order, and it returns.
* **call graph**: instances enter a queue at their first mention, which may be a call, a spawn or a closure handed
  over, in an order the compiler chooses; the node is made at once, its body later or never. *Correct* means: when the
  queue is empty no call of a searched body is missing, and nothing is there that nothing calls.
* **collectors**: each keeps what it finds under the node it saw it in, while the translator looks for it under the
  first node of a definition; the pairs are compared in hash order. *Correct*: what the translation asks for is
  found, memory that may be one thing shares a place and memory that cannot does not.
* **points-to builder**: a struct is the slots of its leaves, so each copy, call, capture and library call expands
  fields in its own way; functions are built once per call string; closures are built apart from their environments.
  *Correct* means: a pointer the program can hold somewhere is in the points-to set of that place, and building ends.
* **translator**: handlers that are tried in order and recognise calls by the types of arguments; guards that are
  moved, dropped implicitly or explicitly, given up by a wait and taken back; handles followed in block order
  rather than along the control flow; scopes whose return waits for threads; coroutines that suspend with locks
  held; `expect()`s on places other passes created. Before that, guards are traced back to locks and grouped by a
  may-alias relation that is not transitive, in hash order. *Correct* means: groups do not depend on the order, guards
  of one lock share its place and guards of a mutex and an RwLock never do; while main runs, the net can do what the
  program can do and no more, and the marking says who is where and holds what.
* **deadlock detector**: a recursive depth-first search with two sets and a path that must agree; cycles found depend
  on edge order. *Correct*: the search ends, panics never, reports only deadlocks, misses no cycle.
* **atomicity detector**: an incremental matcher for three rules, pruning by a fingerprint of the matcher, two limits.
  *Correct*: the memory is a function of the walk, witnesses are feasible, pruning loses no violation.
* **data race detector**: sites told apart by names of transitions. *Correct*: in every marking the variables reported
  are those two threads are about to access in conflict.
* **pipeline**: early ends at several phases, files that cannot be written, two detectors in parallel, a sampler thread that
  is never told to stop and shares a mutex with the main thread. *Correct*: a run that returns has written what was
  asked for, all of it and nothing else, and it does return.

The list of hazards, each at its line, is in `PROJECT.json`.

## 2. The modules

| module | stands for | how state and actions correspond |
| --- | --- | --- |
| `LocArena`, `Projection` | `loc.rs` | a location is a base and a path, `ProjectLoc` is `project()` with the depth cap; interning, being injective, is left out |
| `Constraints` | `constraint.rs` | the five constraints; what a closed and a least relation is |
| `Andersen` | what `solver.rs` promises | abstract specification: the relation grows by demanded facts and is returned when closed |
| `PtaSolver` | `solver.rs` | one action per iteration of each loop; `todo` and `pending` are what the loop has still to visit, `pointees` the copy of `pts(n)` made on pop; hash iteration is nondeterministic, the queue keeps its order |
| `PtaSolver_proofs` | | theorems (section 5) |
| `TypeUtil` | `typeutil.rs` | `LeafFieldPaths` of types that are records of a kind and fields |
| `PtaBuilder` | `builder.rs`, `analysis.rs`, `context.rs`, `model/*` | one operator per kind of MIR assignment, per operand, per call; a `ConstraintBuilder` is a record handed from one to the next; `BuildReachable` and `SkipBody` are one turn of the queue, `BindEnvironments` the second phase, `Solve` one round of the solver (`PtaSolver` is that step in detail) |
| `PointsToSoundness` | the analysed program itself | the program is analysed, then run: threads with call stacks over a memory of cells, a cell being an object and a path; `AbstractOf` names the location that stands for a cell |
| `CallSites` | `CallSiteCollector` of `callgraph.rs` | the call sites of a body as a function of its terminators: what kind each is, which function a spawn runs, the closures handed over |
| `CallGraph` | `callgraph.rs` | `Give` is one item of a codegen unit, `Take` one body out of the queue, `EnterSite` one of its sites, `ReachableFromRoots` the search of the translator's roots |
| `CommandLine` | `options.rs`, `config.rs` | a command line is a record of the options it gives; `ParseFromArgs` is what they, the defaults and the file make of it, `TargetsCurrentCrate` whether this crate is analysed |
| `SharedResources` | `concurrency/{channel,atomic}.rs`, `memory/unsafe_memory.rs`, the construction of their places in `petri_net.rs` | what each collector keeps, over the nodes of the call graph; `ConstructChannels`, `ConstructAtomic` (one turn of the loop over a hash map), `ConstructUnsafe` |
| `NetConstruction` | `PetriNet::construct` | the passes in their order: function places, locks (each step of `LockGroups` is a step here), channels, atomics, unsafe groups, and `TranslateFunction`, one turn of the loop that chooses bodies and the instance each is translated as |
| `Analysis` | `callback.rs`, `mem_watcher.rs` | one action per phase; `RunDetector` of the two in parallel; `SamplerLock`, `SamplerUnlock`, `SamplerWakes` |
| `LockGroups` | `concurrency/blocking.rs`, lock grouping of `petri_net.rs`, alias query of `pta/adapter.rs`, `pta/analysis.rs` | one action per kind of definition the collector reads, `EndBody` resolves the guards of a function, `ComparePair` is one turn of the double loop; the hash order is a nondeterministic sequence; the solved points-to relation is an input |
| `MirProgram` | the input of the translation | call graph and bodies as data, with what collectors and alias analysis found |
| `PetriNet` | external net library as `src` uses it | places with capacities, transitions with bags, `IsEnabled`, `Fire` |
| `BodyToPetriNet` | `petri_net.rs`, `mir_to_pn/*` | one action per terminator handler and per call handler, plus construction of resources, begin and end of bodies, statements, start; `Panic` where an `expect()` fails |
| `ThreadedProgram` | the analysed program itself | threads with call stacks, owners of locks, messages; the specification the net is held against |
| `DataRaceDetector` | `datarace.rs`, one state | sites, accesses and candidate pairs of one marking |
| `NetVsProgram` | composition | translate, then net and program step together on equal labels, with the race detector looking at every marking |
| `DeadlockDetector` | `deadlock.rs` | the recursion as a stack of frames with the edges left; one action per case of the loop body |
| `DeadlockReport` | the report of `deadlock.rs` | for each reported state and blocked transition, the breadth-first path (`Leave`, `EndSearch`) and the walk back along it (`TraceBack`) that names who took the missing tokens |
| `DeadlockReport_proofs` | | theorems about the detector and its report (section 5) |
| `AtomicityDetector` | `atomicity_violation.rs` | frames carry the walk and the matcher's memory; `Drop`, `Expand`, `Report` |
| `Iteration`, `LockGroups_proofs`, `AtomicityDetector_proofs` | | lemmas about functions defined step by step over numbers, and theorems (section 5) |
| `Analysis_proofs` | | theorems about the call graph and the whole pipeline (section 5) |
| `BodyToPetriNet_proofs`, `NetVsProgram_proofs` | | lemmas about the net while it is built, and theorems about net and program side by side (section 5) |
| `LockCrates`, `MC*` | | instances for TLC |

`NetVsProgram` composes five modules: the same variable `prog` is translated by `BodyToPetriNet`, executed by
`ThreadedProgram` and, as a net, by `PetriNet`; `DataRaceDetector` reads the marking. Transitions of the net and
steps of the program have the same names (function, block, kind, number), so "the same step" needs no search.

`Analysis` composes the rest of the front end. It EXTENDS `NetConstruction`, which EXTENDS `CallGraph`,
`SharedResources` and `CommandLine` and instantiates `LockGroups`: one crate is searched, collected, its places are made
and its bodies chosen, under one command line, in one behaviour. It meets `NetVsProgram` where a body is
chosen: `TranslateFunction` says which bodies are translated and as which instance, `BodyToPetriNet` what of them becomes
the net. `DeadlockReport` EXTENDS `DeadlockDetector` and runs after it.

The reference semantics makes its choices explicit: every branch of a switch may be taken, a condition variable may
wake up at any time, an edge to a cleanup block is never taken, a callee that is not translated runs the first closure
it is given once, and data races and atomic values do not influence control.

## 3. The runs

| run | instance | shows |
| --- | --- | --- |
| `fields` | three bases, one field, cap 1, every choice of three out of fourteen constraints with projections and self-flows | for every iteration order of the hash containers: types, `WorklistMirrored`, `NoLostWork`; the solver implements `Andersen`; it returns. Three bases suffice for a location that is at once source, target and pointee, the case where a loop changes the set it works on |
| `pointsto` | 382 programs: every three of fourteen statements on variables, pointers, structs and pointers to them, in a loop that runs them in any order and number; and, each with `pta_k` 0, 1 and 2: calls that return, write through and are given structs; recursion deeper than k; two functions that call each other; Arc and Box, statics and unseen functions; a helper called twice that starts two threads with captured Arcs, structs and references; a closure handed to a function, and an async task | every pointer a thread ever holds is in the points-to set of its place, in the context that stands for its calls; the analysis ends (`PointsToCovers`, `ContextsCovered`, `BuildEnds`) |
| `downcast` | `if let Some(r) = opt` | finding 5 |
| `deadlock` | four states, two locks, all graphs of the shape in `MCDeadlockDetector` (two self-contained components, chords, self-loops, terminal states, normal ends); the graphs of nine nets of two threads with two mutexes, an RwLock and a channel: lock orders, branches, loops, a relock, a join, a wait for a message with the lock held. Every edge order | path and stack agree, reports are deadlocks, cycles with one way round are never missed; the path of a trace is a shortest run of the net and the trace accounts for every missing token and names the holder of a lock; the search ends |
| `net` | 62 programs: 7 x 7 pairs of lock bodies in two threads (both lock orders, readers and writers, a branch, a loop, an upgrade), and one program for each of: calls and closures, followed and lost handles, joins before spawns in block order, scope, rayon, channel, condition variable, coroutine, atomics with and without segments, the ways out of main, an ignored function | the net and the program offer the same steps, the marking mirrors the threads, races found are enabled accesses, no `expect()` fails but the one of an ignored function. `RegularAreAlike`: the hypotheses of the theorems about nets, and the invariant they rest on, hold in every state of the regular programs, which are all but three of the 62 |
| `forward`, `spin`, `races` | one program, or the pairs, of the same composition | findings 1 to 3 |
| `atomic` | two threads of three and two operations each in every combination of load, store and compare-exchange; three threads; two variables; a spin loop; a branch. At most 60 states, depth 8 | the matcher agrees with the walk, witnesses are feasible, pruning loses no kind of violation between two threads |
| `analysis` | small crates and a command line each. *graph*: ways to call, spawn, join and hand over functions and closures, generic or not, from codegen units that list all or some of them, with the three settings of what is translated. *filter*: crates named with and without a hyphen, white and black lists, a function of another crate. *memory*: atomics and raw pointers that are one of two things or either, elements of an array, two instances of one definition; channels whose ends are cloned or sent on. *locks*: 61 crates, every pair of seven ways to get a guard of a shared mutex (unwrap, a parking_lot lock, a wait loop numbered before or after the lock, a move, a wait that returns the guard, a wrapper of the crate), an RwLock with a guard kept over an await, mixed kinds, a mutex locked before it is moved into an Arc, a helper that locks either of two mutexes, methods that lock fields of one object, and chains, stars and rings of four guards that may alias. *options*: every mode, stop, level and set of dumps with files that cannot be written; foreign arguments; the sampler | `EveryCallEntered`, `NothingElseSearched`: the graph is complete and least. `EnteredIsTranslated`, `AtomicOperationsFound`: a function that may run has its places and body, and its atomics are found under the instance that is translated. `SharedMemoryShares`: atomics, raw pointers and channel ends share exactly what they should. Receivers of guards are found (`ReceiversFound`; with `ReceiversFollowed` step by step), groups are the components of may-alias for every order, kinds never mix, guards of a lock share its place. `ReportsAsAsked`, `AnalysisReturns` |
| `channels` | the crates and command lines of `analysis` | finding 6 |
| `lost` | crates of `LockCrates` with a guard bound by a pattern, one of two locks, and one moved out of a field | finding 4 |

`ViolationsFound` of `atomic` is conditional: no run takes `MaxDepth` steps and fewer than `MaxStates` fingerprints were
counted (`Exhausted`). The limits are large enough for this to hold of every graph without a loop, and small enough that
the spin loops run into them. The crates of `analysis` have two to four guards; three are the fewest that show may-alias
to be no equivalence (a helper that is called with either of two mutexes, and the guards of these). The runs of `NetVsProgram` do not check deadlock: the analysed programs deadlock on purpose.

Bounds of `analysis`: main, a worker, a helper, a closure and a function nobody
calls are enough for an instance that is mentioned as a call, a spawn and a closure before
its body is searched, in every order, and two instances of one definition for a translation and a collector to choose
different ones. Bounds of `deadlock`: `Node` is the states 0 to 40, as many as the largest of the nets needs; the
graphs of the nets are explored in full, so no limit of states plays a part.

Bounds of `pointsto`: `MaxDepth` stops the execution (not the analysis) at three nested calls, one more than the longest
call string, so that contexts are truncated; `MaxTemps` is above what any of the programs needs, which the deadlock
check confirms; `MaxUpvarFields` is 3 for environments of up to three captures.

Fairness: `DeadlockDetector!Spec`, `DeadlockReport!ReportSpec` and `PtaSolver!FairSpec` have weak fairness of their
next-state relation. They are sequential code that keeps executing until it returns; nothing finer is assumed, in particular not which element of a hash set comes next.
`PointsToSoundness!FairSpec` assumes the same of the builder and nothing of the threads; its fairness is written without
`ENABLED`, which TLC would evaluate by building every body again.

`Analysis!AnalysisSpec` has two threads. The main thread runs on while it has something to do (weak fairness of `Main`,
written without `ENABLED`), the sampler gives the mutex back once it has it (weak fairness of `SamplerUnlock`; between lock
and unlock it compares two numbers), and the main thread gets a mutex that is free again and again (strong fairness of
`StopWatcher`): the sampler sleeps 100 ms between two rounds with the mutex free, far longer than a thread that waits needs.
Nothing is assumed of the sampler's taking the mutex.

## 4. What the runs found

1. `forward`: `g = cvar.wait(g).unwrap()` acquires the lock twice in the net (`mir_to_pn/calls.rs:67`).
2. `spin`: ordering segments are numbered in translation order, so no ordered operation can be taken twice
   (`mir_to_pn/concurrency.rs:154`).
3. `races`: the scope of a site is cut out of a transition's name (`detect/datarace.rs:493`).
4. `lost`: a guard bound by `if let Ok(g) = m.lock()` is taken for a guard of field 0 of `m`; a guard of one of two
   locks is taken for a guard of the first; one moved out of a coroutine's state is taken for no lock's. Each gets a
   place of its own beside that of the lock (`concurrency/blocking.rs:628`, `:592`, `:620`).
5. `downcast`: the payload of an enum is stored under a field and read under the field of an index, so a pointer bound by
   a pattern points nowhere (`memory/pta/builder.rs:337`). Elements of array literals are stored and read alike.
6. `channels`: a sender and a receiver of one line get a place only if the line has two ends in all (`petri_net.rs:119`).
   A function that is both listed by a codegen unit and given to a spawn has two nodes, so a channel it makes has four
   ends of one line and no place.

Of the cycles of a component pattern B sees those that the depth-first path closes; a stable cycle with a short cut is
not among them (`detect/deadlock.rs:131`), so `OneWayCyclesReported` is of cycles with one way round.

`ExpectationsHold` also records that a function on the ignore list which `visit_body()` nevertheless translates ends the
analysis with a failed `expect()` in `handle_return` (`mir_to_pn/terminator.rs:168`); `ReportsAsAsked` records the same of a
crate without a main function, where no function has places.

Met while modelling, with no run of their own:

* acquisitions keep the type `Function` (`mir_to_pn/calls.rs:449` drops the one `handle_lock_call` returns), where
  docs/shared-value-dataflow.md:48 says `Lock`, `RwLockRead` or `RwLockWrite`: pattern B has no lock to look at. The graphs
  of run `deadlock` carry lock labels as the detector's code expects them; the translator does not produce any;
* the stops of the pipeline do not all do what `options.rs:133` and `:246-253` say. Nothing looks at `--stop-after
  petrinet` ("Stop after Petri net construction"): the state graph is explored and the detectors write their reports.
  `--stop-after mir` ("Stop after MIR dump") stops before the dump (`callback.rs:93`), `callgraph` before the dump of the call
  graph (`:155`), and `pointsto` after the net and the state graph, the dumps of which are written. `ReportsAsAsked` excludes
  from each of its parts the stops for which it fails;
* a crate asked for as `my-crate` is analysed (`options.rs:403` normalises the name, and a test says so) but its functions
  are filtered by the name as given (`petri_net.rs:402`, `concurrency/atomic.rs:150`, `memory/unsafe_memory.rs:351`): the net is empty;
* one unknown argument drops every argument that starts with a dash (`options.rs:290`, whose comment says that unknown
  ones are skipped), and values that stand apart are then taken for names;
* `--viz-unsafe` ends in `todo!()`; `--viz-cir` has no effect; `--stop-after` also stops the crates the analysed
  one depends on (`callback.rs:101`);
* a white list that leaves out main leaves `entry_exit` as it was made, the places (0, 0);
* only the first node of a generic function is translated;
* atomics and raw pointers are grouped in hash order by a relation that is not transitive, so for three of them, the
  second of which may be either of the others, the groups differ from run to run; `SharedMemoryShares` is of pairs
  that must or can never share;
* the constant ordering of an operation is not recorded where it is no literal (`concurrency.rs:51`);
* a trace of an RwLock names the readers that came last, who may have left; a transition held up by a full place is
  never named, as only places that lack tokens are looked at (`deadlock.rs:460`).

## 5. What is proved

### The points-to solver

`PtaSolver_proofs` holds for every set of locations, every projection and every constraint set; TLAPS checks it to the
last leaf. The assumptions are `ProjectAssumption` (a projection of a location is a location) and `InputAssumption`
(inputs are sets of constraints over the locations), both evaluated by TLC in the runs.

* `TypeCorrect`, `MirrorCorrect`, `NoUpdateLost`: `TypeOK`, `WorklistMirrored` and `NoLostWork` are invariants.
* `LeastSolution`: what `solve()` returns is the least relation closed under the constraints.
* `Refinement`: every step is a step of `Andersen` or leaves it unchanged.

`NoLostWork` is not inductive. That the current location has served an edge follows only if the copy of `pts(n)` it
worked on is still all of `pts(n)`, or `n` is queued again (`SnapshotValid`); that leaving the queue's membership is
safe needs `WorklistMirrored`; and that a closed edge map means a closed relation needs every constraint to be in the
maps (`Registered`) and, for the refinement and leastness, every edge to come from a constraint (`EdgesDemanded`). The
conjunction with `TypeOK` and `DoneEmpty` is `IInv`; theorem `Inductive` proves it with one step per action, and
leastness adds that the relation stays below every closed one.

### The call graph

The first part of `Analysis_proofs` holds for every crate: whatever instances there are, whatever their call sites, in whatever order the
codegen units list them. The assumptions are `InstanceAssumption`
and `InputsAssumption` of `CallGraph`: calls and crates name instances, and the unknown callee is none.

* `TypeCorrect`, `NodesAreScheduled`: a node has a body exactly if its instance was queued, and no instance has two.
* `GraphComplete`: `EveryCallEntered`, which run `analysis` checks. `GraphLeast`: `NothingElseSearched`.

`EveryCallEntered` speaks of the end only. Inductive is what it becomes on the way (`BodyProgress`, `QueueProgress`): of a
body that was queued and is neither in the queue nor being searched every site has been entered, and of the body being
searched those that are not in `rest`. That a site is entered once its body was searched needs `QueueIsScheduled` (what is
in the queue was queued) and that a queued instance is taken out once. Leastness is an invariant of its own: every set
closed under calls contains what is queued.

### The deadlock detector

The first part of `DeadlockReport_proofs` holds for every finite state graph, with any number of states and locks. The assumption is
`GraphAssumption`: states are numbered and finitely many, edges lead between them and carry a lock or none.

* `TypeCorrect`: `TypeOK`. `PathStaysSimple`: `PathIsSimple`, so the `unwrap` of `position()` in `find_deadlock_cycles` cannot fail.
* `ReportsAreGenuine`: `ReportsAreDeadlocks`, no false alarm; `OneWayCyclesAreReported`: `OneWayCyclesReported`, no miss
  where there is one way round. Run `deadlock` checks both.

Types depend on the path: what is filed under a group is a slice of it, a set of states only if the state the cycle
returns to is on it. Groups are what is carried to the report, so the invariant says of all of them, from the
moment they are filed, that their states are in traps (`GroupsInTraps`): sets that no run leaves, connected, without a
terminal state, in which some locks are never acquired again and another lock still is. This is stable because the
graph never changes. A connected set that no run leaves is what is reachable from each of its states, and from this the
property follows, which counts the steps of a run; `Iteration` shows that as many steps as there are states suffice.

That no one-way cycle is missed has an invariant of its own (`CyclesFollowed`): such a cycle has not been met, or the search
is on its way round it (`OnTheWay`: the end of the path is all that was visited of it, and of the current state no edge has
been taken), or states are filed under the locks it blocks. The step that leaves it finds an edge to a state that is new or
to the start of the path's end: no other can be there, whichever state of the cycle the search came to first.

Its second part adds the explanations. `NetAssumption` says what the exploration promises of a graph with a net:
every state is reached from the initial one, tokens are numbers, and the ghost `holders` changes as the firings
say (who takes the single token of a resource holds it until there is one again).

* `ExplainingIsReading`: the detector with its explanations implements the detector alone (its steps are steps of
  `DeadlockDetector` or leave its variables alone). `ReportsStayGenuine`: so what is proved of the reports holds.
* `PathsAreShortest`: `PathIsShortest`; `NamesAreHolders`: `HoldersNamed`, both checked by run `deadlock`.

The invariant `RInv` (`ReportInductive`) is that of a breadth-first search: the queue is in the order of the distances,
which differ by one at most (`QueueInOrder`), and what is as near as its head has been found (`NearerIsReached`); without
these an edge could find a state by a way that is not the shortest. On the walk back what is still missing is what the
marking at that point lacks, so nothing is missing at the initial state; and a lock of one token is taken once on
the rest of the way, by who holds it at the end.

### The groups of locks

`LockGroups_proofs` is about `construct_lock_with_dfs` and the collector before it. Its theorems about groups are for every crate
with finitely many guards (`FiniteCrates`): all lock objects, all points-to sets, every order the hash map may list the guards in.

* `GroupsCorrect`: `GroupsAreComponents`, which run `analysis` checks: once places are made, two guards have one
  place exactly if a chain of may-alias leads from one to the other. As may-alias is not transitive this does not
  follow from the comparison of pairs, and as trees are joined in hash order the roots differ from run to run.

The invariant (`Inductive`) has three parts: `parent` is a forest (`Trees`: every set of guards that it maps into itself
holds a root); a set that may-alias does not cross is closed under finding the root (`NothingElseJoined`); the pairs
compared so far that may alias have one root (`ComparedAreJoined`). At the end every tree is such a set, and the
component of a guard is the least one that holds it. Finding a root and growing a component are defined over numbers
of steps; that both stop within the number of guards is shown in `Iteration` and `RootIsMet`.

* `KindsOfPlaces`: once places are made, `KindsAgree` holds exactly if may-alias takes no mutex and no RwLock for one
  lock (`KindsSeparate`). That it does not is a matter of the types the points-to analysis keeps apart, and is checked; that
  chains of guards and the guard that happens to be first add no mistake of their own is proved (`KindsTaken`).
* `ReceiversAreFound`: `ReceiversFound`, every guard that some lock call of its body reaches gets its lock object. This
  is of crates that are `Traceable`: what the collector does not follow (a store to a field, a call of another kind, a
  guard kept in a coroutine's state) is not moved on to a local it follows; a call that takes a lock is one the collector
  recognises or is given a borrow of the lock; and a wait that returns the guard itself returns it where it came
  from. Outside these the code does lose guards, as the one moved out of a coroutine's field in run `lost`.

`resolve_guard_receiver` is a depth-first search that gives up at a local it has met on its way, and takes the first
definition, in the order of the blocks, whose chain ends. That giving up loses nothing is not obvious: two chains may meet in a
local that only one of them may still enter. `WalkFinds` shows it by distance: a walk that is n definitions away from the nearest
end and has met no local nearer to one can go on to a local that is n - 1 away, and has still met none nearer.
`ResolveWalks` and `WalkExists` first show that there is such a search at all, and only one. What the body really moves (`Owned`)
is then followed from definition to definition to a place where the search starts (`OwnedComesFrom`, `BodyFinds`). The
invariant, `ReceiverInv`, is that of reading a body: what has been read is known (`ReadSoFar`), and a guard without a lock
object owns no lock or its body is still to be read to its end (`GuardsFollowed`).

### The atomicity detector

`AtomicityDetector_proofs` holds for every finite state graph, whatever the operations on its edges, and for all limits
(`GraphAssumption`, `LimitsAssumption`).

* `MemoryIsTheWalk`: `MemoryMirrorsTrace`, what the matcher updates event by event is what the whole walk says.
* `WitnessesAreReal`: `WitnessesReal`, there are no false alarms.
* `NoViolationMissed`: `ViolationsFound`, within the limits pruning by fingerprint misses no kind of violation.

`Remembers` says entry by entry what `Mirrors` says with maxima; `MatchedUpdates` what one event does to the memory, so
that the three updates of `try_match` in their order are looked at once. The invariant of the first two theorems is that
every frame is a walk from the initial state with the memory that belongs to it (`Sound`). For the third (`CInv`)
every expanded fingerprint is that of some sound frame all of whose edges were followed: the fingerprint behind each edge
is expanded or waits on the stack, and the witnesses of the edge were recorded. This is where pruning could go
wrong: the frame that is dropped has another walk than the one that was expanded. What is found in the end does not
depend on the walk, only on which intervals are open and who intruded into them, and that is in the fingerprint. With
no frame left the states whose fingerprints have the interval open, and those in which it is intruded, are closed under the steps that do
not restart or end it, so they contain what `Reached` contains.

### The net and the program

`NetVsProgram_proofs` holds for every program, however many functions, blocks, threads, locks and channels it has,
and for every interleaving of its threads. It proves all that run `net` checks of the two.

* `ExpectationsHoldAlways`: `ExpectationsHold`, of programs whose blocks jump to blocks that are translated (`JumpsLand`: a
  cleanup or empty unreachable block is no target of a jump, which MIR gives).
* `MarkingMirrors`: `MarkingMirrorsThreads`. `NoStepIsMissed`: `NetMissesNoStep`. `OnlyTheProgramRuns`: `NetAllowsOnlyProgram`.
  `RacesAreReal`: `RacesAreConcurrent`.
* `NetIsTheProgram`: these four together, of programs whose handles are in order (`HandlesAreFollowed`, below).

Those four have three hypotheses:

* `Regular` says of the program, before anything is run, what MIR and the collectors give: jumps have a target, a
  call is what its name and arguments make the visitor take it for, a channel call is of one channel, a wait is given a guard
  of a mutex and returns one of the same lock, a lock that has a mutex guard has no other. It also draws the limits: no
  ordering segments (finding 2), no scopes, no function that is translated without places (the ignored one above), one
  block that returns in a function, and a function that is called is not also the first of a thread.
* `HandlesFollowed`: the handle of a join stands for the thread it really joins when the join is translated. Handles
  are followed in block order and otherwise taken in the order of the spawns, which other programs can break; this is the
  hazard at `thread_control.rs:18`. `HandlesAreFollowed` proves it of every program that `HandlesInOrder` describes (regular or not): a
  handle is moved or joined only after a spawn or another move gave it, in the order of the blocks, and a handle and what it is moved to
  are of one thread. Its invariant is `HandlesKnown`: the handles given before the point the visitor has reached are in
  `spawn_handle_end`, and what is there stands for its thread. Of the 62 programs 60 are of this kind; the other two join by the order of the
  spawns and by what a handle may alias.
* `Orderly` says of a step that a thread is ready to take what the borrow checker gives (a guard moves to a local that owns
  nothing, what is released is alive, what is acquired is not) and what the net cannot express: a function is in one thread at
  a time, less than `RwLockCapacity` readers and `ChannelCapacity` messages, and only main ends the process.

None of them speaks of the net being right, only of the program and, in `HandlesFollowed`, of which end a join is given;
`NetIsTheProgram` has `HandlesInOrder` in its place, which is of the program alone. Run `net` finds all of them met in
every state of its regular programs, and `HandlesKnown` in those whose handles are in order (`RegularAreAlike`).

The argument has two halves. While the net is built, `BuildInv` (`BodyToPetriNet_proofs`) says of every block already visited that
exactly its transitions are there (`IdsOf`) with exactly the arcs its terminator calls for (`Shape`), of those not visited that
none is, and that every arc joins places that exist; there is one lemma for each handler. Its hard cases are the
transitions of a function that are filed under block 0, and `rayon::join`, which adds arcs to a return that may have been made before. While the net
runs, `Sim` says that the threads' stacks are calls of one another without a function in two frames (`Stacks`), that the
control places that hold a token are those of the frames (`Mirrored`), that a lock has lost the weights of the guards alive
(`LocksMirrored`) and that a channel holds what was sent (`ChannelsMirrored`). A step of the program is looked at by its
`Effect`: the frame places it leaves and enters, and the tokens of shared resources it takes and gives. For every kind of
step this is shown to be what the arcs of the transition of the same name do (`AllFollow`), so `Sim` stays true of every one.
Counts of guards change one guard at a time along the moves of a block, for which `Iteration` is used.

`NoStepIsMissed` follows with a lemma on tokens: if the program lets a thread take a lock the counts leave enough tokens
in its place. `OnlyTheProgramRuns` is the converse and needs more of `Sim`: the transition's control
place is marked, so some frame is there (`Occupant`); it is on top of its stack, or waits for the call above it, which has
ended, so that to come back is what the thread does next. `RacesAreReal` then reads `UnsafeAccess` transitions as accesses that threads are about to make.

### The whole pipeline

The rest of `Analysis_proofs` is about `AnalysisSpec`, all phases in one behaviour, for every set of crates and command lines. Besides
those of `CallGraph` it assumes `BodiesAssumption` (what has MIR and is of the crate can be expanded, a body has finitely
many locals, an operation has an index of its own), `GuardsAssumption` (finitely many guards) and `AskedAssumption` (clap lets
no other mode through, `options.rs:42`). TLC evaluates all of them in run `analysis`, which checks the properties named.

* `AnalysisBuildsGraph`: the pipeline implements `CallGraph`: every step of every phase builds the graph as `CallGraph` says or
  leaves it alone. `AnalysisGraph`: so the graph is complete and least there too (`EveryCallEntered`, `NothingElseSearched`).
* `NetHoldsEntered`: `EnteredIsTranslated`, of crates whose call sites hold the calls their bodies make (`CallsAreSites`).
  This is a hypothesis of the theorem and no assumption, since it compares what the call sites are computed to be with what
  a body really does: where the two differ the property fails. It holds of every crate of run `analysis`.
* `OperationsFound`: `AtomicOperationsFound`, which is of operations whose ordering is moved in from a local and of all
  settings but translation from main alone, where it fails. `SharedMemory`: `SharedMemoryShares`, whose parts have their own
  hypotheses on may-alias (see below).
* `AnalysisGroups`: `GroupsAreComponents`. `AnalysisKinds`: `KindsAgree`, exactly if may-alias separates the kinds.
* `AnalysisReceivers`: `ReceiversFound`, of crates that are `Traceable` once `ConstructFunctions` has chosen the functions to be
  collected. That all crates of the run are, and that the invariant holds of them step by step, is `ReceiversFollowed`, which
  run `analysis` checks.
* `ReportsWritten`: `ReportsAsAsked`. What is asked for (`Due`) is read off the help of the options, stage by stage. Nothing
  else is written unless the stop is pointsto or petrinet, and all of it is written unless the stop is mir or callgraph; what
  the code does at these stops is told in section 4.

The arguments: when the loop over the nodes has come to a node, each function among those before it is translated, and
as the first of its nodes that is wanted (`NodesTranslated`, `FirstTranslated` of `NetInv`); the collector files what it finds
under the first of all its nodes (`OperationsFiled`). The two are the same node unless only what main reaches is translated, as
what is wanted then is closed under calls but not under having the same definition. `SharedMemoryShares` is
proved through what the loop over the hash map keeps (`AtomicsInv`): two atomics that may be the same meet in a place at
any time; if may-alias is transitive each has one place, which bears the name of an atomic it may be. `ReportsAsAsked` needs to
know at each phase which files were due before it (`WrittenInv`), as the end may come in any of them. The lock
construction is that of `LockGroups`, whose theorems are used through an instance of `LockGroups_proofs` (`LP`).

The parts of `SharedMemoryShares`: atomics that may be the same meet without any hypothesis. That others do not, and what is
said of raw pointers, is of crates in which may-alias is transitive among them. `ChannelsShare` is of crates in which it
is transitive among channel ends (with an end that may be either of two others, the places the three are given differ) and
in which pairing by lines is right: the ends on a line are of one channel, and no channel is bound by two lines that have both
kinds. There an end has a place exactly if its channel is bound by a line with one sender, one receiver and no other
end, and shares it with the ends of that channel only. In `analysis` the worker's channel has its place if the worker is
called, and none if it is spawned as well, when its line has four ends (finding 6).

### Only model-checked

* liveness: `Terminates`, `BuildEnds`, `AnalysisReturns` (liveness and `ENABLED` are out of the prover's reach);
* of `LockGroups` what the points-to sets decide: `FollowedGuardsShare`, which is true of the shapes in `LockCrates` and needs
  points-to sets that hold every lock a borrow may be of, and that may-alias keeps mutexes from RwLocks;
* of `NetVsProgram` the programs that are not `Regular`: scopes, an ignored function, atomics with ordering segments, and what
  threads do once main has ended;
* `PointsToSoundness`: `TypeUtil`, on which it rests, needs a `RECURSIVE` operator, which the prover does not take.

## 6. What is not modelled

* handles kept in a `Vec` (`thread_control.rs`) and waits whose guard is unknown;
* a function that runs in two threads at once or calls itself: its subnet has capacity one, a limit the code accepts;
  the comparison is made on programs where this does not happen;
* which pair of a race is shown (ranking and merging of conditions in `datarace.rs`);
* what the compiler answers: which instance a call resolves to, which std function a path names, whether a type is a
  guard, a channel end or an atomic (the regular expressions and `ownership.rs`). These are part of the crates;
* `NetVsProgram` takes resources that are collected and grouped right; whether they are is the question of run `analysis`.
  The two are not one behaviour: a net and its program in step are already as much as TLC takes for one body;
* the report on unsafe code, which is `todo!()` in the code, and what is in the files that `Analysis` counts;
* the back edges of `cfg` helpers: `is_back_edge` returns false whatever they are;
* the grammar of the command line, which is that of `clap`, and `infer_crate_name_from_rustc_args`, which nobody calls;
* of the points-to builder, what MIR normalisation and paths of std functions decide: the kind of a library call is part
  of the program. std functions with MIR are descended into like others; here they are functions without MIR;
* flows the builder is known not to follow, which the programs of `pointsto` avoid: a struct moved out of a field
  (`builder.rs:483` appends the field after the leaf, its comment puts it before), a struct copied through a pointer
  (the leaves of the pointer's own local are read), an Arc within a struct that is moved (only leaves are copied), a
  pointer that is boxed by itself (`emit_boxed_value` copies nothing for it, its comment promises `Copy{heap, value}`),
  tuples by value, structs in structs, structs returned or stored through a pointer, `AtomicPtr`;
* precision: temporaries of the binding of calls share nodes with those of the first function (`analysis.rs:622`),
  which `PtaBuilder` models and no property measures;
* locks more than one field deep: the collector keeps the outermost field only (`concurrency/blocking.rs:368`), so all
  locks below it are one lock; the bodies of `LockCrates` borrow through one field;
* addresses past `FIELD_DEPTH_CAP`: `project()` drops the whole suffix (`memory/pta/loc.rs:135`), so one address
  reached in two ways is two locations;
* single patterns of an atomicity report: fingerprints hold indices, not transitions, so a second load with the same
  violation behind it may be pruned (`detect/atomicity_violation.rs:216`). `ViolationsFound` is per pair of threads;
* async code beyond coroutines that suspend: a coroutine nobody polls is not reached, other than `docs/async-modeling.md:14` has it;
* the exploration of markings (external, `unipn`) and its state limit; printing, drawing.

## 7. What could come next

1. Handles in a `Vec` (`thread_control.rs:360`); ranking and merging of race conditions.
2. The flows of the points-to builder listed above, one by one, against `PointsToCovers`.
3. Theorems: of ordering segments and scopes, so that `Regular` needs no exception for them; of joins by the order of the
   spawns; closure of `AbstractLoc` under `ProjectLoc`.
