# cargo-capslock in TLA+

cargo-capslock reports which capabilities a program uses (files, network, exec, ...).
It has two analyses. The *runtime* analysis traces a process tree with ptrace, maps each
successful system call to capabilities and charges them to processes and to the functions
on the stack. The *static* analysis builds LLVM bitcode, looks capabilities up by function
name and spreads them along the call graph. Both write a `capslock::Report`.

This directory models both, checks the models with TLC on small instances, and proves some
of the results with TLAPS for every instance.

```
tlc -config RuntimeTree.cfg MCRuntime.tla        # one run; PROJECT.json lists them all
tlapm RuntimeProofs.tla                          # one proof module
```

## 1. Inventory

| Part | Source | State | Operations | Talks to |
|---|---|---|---|---|
| Runtime tracer | `src/runtime/mod.rs`, `process.rs` | `process::Map` (`active`, `inactive`), `address_spaces`, `StartBehaviour` | an arm of `handle_event` per ptrace event, `into_report` | syscall metadata, fd tables, FunctionMap, debuginfo |
| System call metadata | `src/runtime/syscall/` | one `Meta` per call in progress, held by ptrace_iterator as userdata | `try_from_syscall` at entry, `into_capabilities` at exit, `ioctl::caps` | `process::State`, procfs |
| Descriptor metadata | `src/runtime/fd.rs` | `State::fds` | `insert_fd`, `infer_fd`, `close`, `close_range`, the copy at `spawn` | procfs |
| Debuginfo | `src/runtime/location.rs` | a `Process` per pid, read once | `Lookup::process`, `lookup` | procfs, DWARF |
| Session | `Runtime::main` in `src/runtime/mod.rs` | the forwarder's handle, the tracer | spawn, trace, stop forwarding, write, exit | all of the runtime analysis |
| Signal forwarder | `src/runtime/signal.rs` | a thread and its handle | `spawn`, `listen`, `Drop` | the traced process |
| Functions and call graph | `src/function.rs`, `src/graph.rs` | `FunctionMap`, `CallGraph` | `upsert`, `upsert_with_caps`, `bubble_transitive_capabilities` | both analyses |
| Static analysis | `src/static/` | `Builder` | `add_module` per bitcode file, `into_report` | LLVM call graph |
| LLVM call graph | `llvm-ir-analysis/src/call_graph.rs`, `functions_by_type.rs` | built once per module | `CallGraph::new` | bitcode |
| LLVM control flow | `llvm-ir-analysis/src/{control_flow_graph,dominator_tree,control_dep_graph}.rs` | built once per function | builders and queries | each other |
| LLVM analysis caches | `llvm-ir-analysis/src/lib.rs` | a `SimpleCache` per analysis | `get_or_insert_with` | each other |
| Report | `capslock/` | none | `serialize`, `deserialize` | both analyses, readers of the JSON |
| Capability map | `capslock-cm/`, `syscalls.cm`, `src/caps.rs` | none | compile-time parser, `lookup_sysno`, `FunctionCaps::get` | both analyses |
| Command line | `src/lib.rs`, `src/bin/` | none | dispatch | — |

What is hard in this code:

- **Interleaving.** The entry and the exit of a system call are two events. Between them
  come clones, exits and calls of every other traced process, in any order, and a process
  may die before its call returns.
- **Identity.** Everything is keyed by pid, and pids are given out again.
- **Partial failure.** Handling one exit reads memory, procfs, registers and names, and
  may return early after any of these; `main` logs the error and goes on. The iterator may
  also yield an error *instead of* an event.
- **Shadow state.** `State::fds` mirrors a table the kernel owns and sees only part of
  what changes it.
- **Fixpoints.** The bubbling loop and the dominator builder run until a pass changes
  nothing, over graphs of any shape in whatever order the edges come.
- **Threads.** The signal thread and `main` share a handle and a pid, and neither waits
  for the other. RefCells are borrowed by analyses inside analyses.
- **Formats.** A name is split by searching for separators that may occur elsewhere in it;
  what `Serialize` leaves out, `Deserialize` may require.
- **Order of input.** Bitcode files come in directory order, and functions of one are
  declared in others.

`PROJECT.json` lists these, line by line, under `hazards`, with the properties that watch
them.

## 2. Modules

```
ProcessState <- Syscalls <- Runtime <- TracedProgram          (runtime analysis)
                              |  refines CapabilityLedger
SignalForwarder <- Session                                    (main around it)
StaticAnalysis -> FlowGraph, CallGraphBubble                  (static analysis)
DominatorTree, ControlDependence -> FlowGraph                 (llvm-ir-analysis)
ModuleAnalysis
TextFormats -> CapabilityMap, RustName, ReportFormat -> ProcessState   (text in and out)
```

Modules named `MC...` give TLC its instances, modules named `...Proofs` hold the theorems:

```
RuntimeProofs          -> TracedProgram (and so Runtime, Syscalls, ProcessState, CapabilityLedger)
SessionProofs          -> Session
StaticAnalysisProofs   -> StaticAnalysis (and so CallGraphBubble)
FlowGraphProofs        -> FlowGraph
DominatorTreeProofs    -> DominatorTree, FlowGraphProofs
ControlDependenceProofs -> ControlDependence, FlowGraphProofs
ModuleAnalysisProofs   -> ModuleAnalysis
TextFormatsProofs      -> TextFormats (and so CapabilityMap, RustName, ReportFormat, ProcessState)
```

### Runtime analysis

- **ProcessState** is `process::State` with its FunctionMap and call graph: operators from
  a state to a state, one per method, and `RecordStack` for the loop over stack frames in
  `handle_syscall_exit`. Functions go by mangled name (the index in the FunctionMap only
  stands for it). `born` is a ghost field: it numbers processes so that a property can
  tell apart two that had the same pid.
- **Syscalls** is `syscall::Meta`: which variant a call becomes, what it needs from the
  state and procfs at entry, what it does to the state at exit, and the capabilities it is
  worth. It has every call the code treats specially, calls it does not (`read`, `dup`,
  `clone`, `gettid`), and one that `syscalls.cm` does not list. What procfs says is an
  input (`probe`), as is whether the tracer can read and understand the arguments.
- **Runtime** is `GlobalState` and `process::Map`. The operators named `Env...` are
  external: what a traced process may do next. Each handler is one action together with
  the external step it reacts to:

  | Action | Code |
  |---|---|
  | `CloneEvent` | `Event::Clone`, `Map::spawn` |
  | `ExitedEvent` | `Event::Exited`, `Map::exit` |
  | `SyscallEntry` | `handle_syscall_entry` |
  | `SyscallExit` | `handle_syscall_exit`, all of its early returns |
  | `SyscallError` | an exit with `is_error()`, which has no arm |
  | `TracerError` | the iterator yields an error in place of the event |
  | `Finish` | `into_report` when no process is left |

  `witnessed` is a history variable: the calls the tracer saw return, had a `Meta` for,
  and found the process started; of a recorded stack also its innermost function, its
  functions and the image they are of. The properties hold the map against it.
- **CapabilityLedger** is what the analysis promises, with no pid or event in it: accounts
  that are opened once and only grow, one at a time, and a report that copies them.
- **TracedProgram** composes Runtime with the kernel's descriptor tables, so that the
  return values and the procfs answers are those of a real table. An exec closes the
  descriptors that are close-on-exec; `execed` remembers who has made one.
- **SignalForwarder** and **Session** are `Runtime::main` from the command line to the exit
  status. What the events of the loop do is left to Runtime; here they only say how long it
  goes on. External are the kernel's answer to `kill` by pid (`owner`: the child, its
  zombie, nobody, a stranger), signal-hook's one flag for SIGINT, and the traced processes.

  | Action | Code |
  |---|---|
  | `SpawnChild`, `StartForwarding`, `StartTracing` | `cmd.spawn()`, `SignalForwarder::spawn`, `Tracer::new` |
  | `ReapChild`, `LoopEnds` | the iterator of the `for` loop |
  | `StopForwarding` | `drop(signal_forwarder)` |
  | `WriteReport` | the rest of `main`, with the child's status |
  | `MainFails` | every `?` of `main`; the forwarder is dropped where there is one |
  | `TakeSignal`, `Kill`, `SeeClosed` | `listen`: `forever()` yields, `kill(..)?`, `forever()` ends |

### Static analysis

- **CallGraphBubble** is `bubble_transitive_capabilities`, edge by edge. Its Init is any
  graph and any direct capabilities. The edges of a pass come in any order, which includes
  petgraph's.
- **StaticAnalysis** is `Static::main` after the build: files read in any order,
  `CallGraph::new` and `FunctionsByType` for the edges of a module, the upserts, every way
  `add_module` fails, and then `CallGraphBubble`'s own steps on the result.

### llvm-ir-analysis

- **FlowGraph** has `ControlFlowGraph` as a set of edges, and dominance and reachability
  by definition (through closed sets, with no recursion), to hold the algorithms against.
- **DominatorTree** is `DomTreeBuilder`: Dfs numbering, first estimates, revising passes
  and the queries on the tree. Any depth-first order is allowed. `PostDominatorTree` is
  the same builder on the reversed graph.
- **ControlDependence** is `ControlDependenceGraph::new` and the two ways of asking for
  transitive dependences. Its postdominator tree is by definition, which is what
  the builder returns (`ResultIsThatOfTheGraph`, of the reversed graph).

cargo-capslock uses only the call graph of llvm-ir-analysis; the rest is public API of the
vendored crate.

- **ModuleAnalysis** is `lib.rs`: each `get_or_insert_with` is split where its closure runs.
  `stack` holds the closures that are running, each with the RefMut it was called under and
  the Refs it has so far; `held` is what the user of the crate keeps. Any computation that
  has an `unimplemented!` in it may panic.

### Text in and out

- **CapabilityMap** is `capslock_cm::parse!`: a file is read line by line into the table
  the generated function looks into, or the compilation ends with one of five errors.
- **RustName** is `parse_rust_function_name` over names made of tokens: the separators the
  code searches for, and words. A word has no structure the parser could see.
- **ReportFormat** writes and reads `capslock::report`. A JSON object is a record, a
  skipped field is not in its domain.
- **TextFormats** composes them, end to end: the map is compiled, calls are traced (only
  `handle_syscall_exit` on a stack of two frames; events are Runtime's), the report is
  written, a reader reads it. `Spelled` is the demangler and external.

## 3. Runs

Mutants of the code (operators marked `mutant`) show that each property can fail: for each
pair of a run and a property `PROJECT.json` names one that TLC refutes.

| Run | Bounds | Why they are enough |
|---|---|---|
| `bubble` | 3 functions, all 512 graphs, 1 capability | cycles, self calls, two ways to one callee and chains against the edge order fit in three functions; capabilities do not influence each other |
| `runtime_tree` | 3 pids, one given out again, 3 spawns, 5 calls of `clone`, `gettid` and `execve` | a grandchild, a reused pid, a parent that dies first, an exec before or after the first recorded call; each child waits for its own start symbol |
| `runtime_faults` | 2 pids, 3 calls of 10 kinds, 1 lost event, 5 walks up a stack, 4 procfs answers | every early return of the two handlers, before and after a charge; names that do not parse at the bottom of a stack and in its middle; children left out of the report (`runtime_tree` has them in) |
| `fd_tables` | 2 forked processes, 3 descriptors, 5 calls | open, fork, close, reopen as something else, exec, dup, ioctl |
| `static_analysis` | 2 files, 3 functions of 2 types and one bad name, at most 1 call per file | chains through two files, a call of an alias, a pointer call, declared before defined and the reverse; longer chains are `bubble`'s |
| `dominator_tree` | every graph on the entry and 4 nodes, one of which may have an edge to itself and is no successor of the entry | loops with two entries, nested and crossing ones, and graphs where a second pass changes an estimate (without it `TreeIsDominance` fails here) |
| `control_dependence` | every function of 4 blocks | a loop with a branch in it and a way out; blocks that are unreachable or cannot return |
| `session` | 2 other processes, any number of signals | `others` only matters as none or some; the thread and `main` are finite |
| `module_analysis` | 2 modules (one as the cross-module analysis), 1 function | analyses of two functions share no cache, and those of a function and a module neither |
| `formats` | files of 2 lines, 2 calls of 3 kinds, 10 names | two lines about one call, a call no line is about, a function with two calls, two processes; every branch of the name parser that a demangled name reaches, and a name it gives up on |

What the passing runs establish:

- `bubble`: the loop ends (`Terminates`), at the least assignment closed under calls
  (`DoneIsClosed`, `OnlyReachable`), and Direct means own (`DirectIsOwn`).
- `runtime_tree`: `SilentBeforeStart` (nothing of a process before its start symbol),
  `NothingForgotten` (what was charged stays charged through exits and pid reuse),
  `ReportFaithful` (there is a report, with children: every call of every process, and no
  process is reported with what another did), `LocatedWhereRecorded` (a location comes from
  an image that a stack was recorded in under the same pid, through execs and a reused pid),
  and `ImplementsLedger`, the refinement.
- `runtime_faults`: `ReportAgrees` (functions claim nothing their process is not charged
  with; edges name known functions), `ClaimsTraceable` (from each function a path leads to
  one that made a call with the capability it claims, however many frames were skipped, and
  only that one is Direct), `NothingForgotten`, and `ReportFaithful` without children (every
  call of the first process, and none of another's) when handling fails half-way or an event
  is lost.
- `fd_tables`: `FdTableSound` (an entry of `State::fds` is true of the descriptor, but for
  the close-on-exec entries of a process that has executed another image) and
  `NetworkIoctlCharged` (with the same exception, an ioctl on an internet socket never
  counts as something milder).
- `static_analysis`: `ReportExact` (the report is that of the whole program, whatever the
  order of files) and `OnlyBadInputFails` (the `unwrap`s panic for aliases only).
- `dominator_tree`: `NeverStuck` (the two `expect`s), `Above` and `EstimatesRise` (the
  estimates approach from one side, so passes end), `TreeIsDominance`.
- `control_dependence`: `DependenceExact`, `AnswersAgree`.
- `session`: `ListensWhileTraced` (no failing `kill` ends the thread before the child was
  reaped, for a zombie still has its pid), `AtMostOneLate` ("Stop forwarding signals"
  leaves room for one that the thread already holds), and `InterruptEndsSession`.
- `module_analysis`: `NoBorrowPanic` (the comment in `get_or_insert_with` about outstanding
  borrows), `FilledForGood` (computed once, panics included), `OnlyOnDemand`.
- `formats`: `ReaderToldTheMap` (what a reader learns is what the last line of the map says
  of the calls), `ReadBackExactly` and `SplitTellsTheImpl`. The last two are equivalences:
  they also say when it does not work, see section 6.

Runs that must fail, each a place where the text of the repository and the code part:

- `first_call_only`: `--include-syscalls` promises "the actual syscalls invoked";
  `FunctionMap::upsert` keeps only those of the first stack a function appears in.
- `pipe_descriptor`: `pipe` returns 0, which is taken for a descriptor, and the entry of
  descriptor 0 becomes a Fifo.

### Fairness

`CallGraphBubble` has `WF_bubbleVars(BubbleNext)`: the loop is sequential code with no waiting in it, so
it takes its next step for as long as it has one.

`Session` has weak fairness of `Main` and of the thread (`Forwarding`), sequential code
both, and of `DiesOfInterrupt`: a process that was sent SIGINT and does not handle it ends.
There is none for the other ends of traced processes, which nothing in this code can
promise, nor for `MainFails`; and so `InterruptEndsSession` leaves out a program that
ignores the signal, and one whose other processes go on when the child is gone.

The other specifications check safety.

`CHECK_DEADLOCK FALSE` stands in every configuration but `ModuleAnalysis.cfg`: all of these
programs end, and a user of the analyses can always ask again.

### Bounds in the models

`MaxSpawns`, `MaxCalls` and `MaxLost` bound the traced program and the iterator's errors;
they are conjuncts of `EnvClone`, `EnvEntry` and `TracerError`. `MaxCalls` of
`MCStaticAnalysis` bounds the calls of a file, `MaxOthers` the processes besides the child
in `Session`, `MaxLines` the lines of a map, and `MaxCalls` of `TextFormats` its calls.
Symmetry is used in the three runs over graphs and files, for names no definition tells
apart, and only with safety properties.

## 4. Proofs

No theorem uses the bounds as anything but natural numbers, or the small constants of the
configurations.

**RuntimeProofs** — five parts, each on top of the one before.

- *Operations on a state.* One lemma per method of `State` and of `syscall::Meta`: what it
  keeps of a state's shape, and of the agreement of the three parts of a report (`Good`).
- *The map.* For any traced program, any interleaving, any number of lost events, reused
  pids included: `TypeCorrect`, `StartIsAFence`, `PartsAgree`, `NeverChildMissing`. The
  invariant `Inv` says that every state in the map is
  well-typed, silent while it waits, and agrees with itself. It is inductive because all of
  `handle_syscall_exit`, whichever way it ends, is shown to keep a state good
  (`HandledGood`).
- *Where it comes from.* `ClaimsLeadToCalls` (`ClaimsTraceable`) and `PlacedWhereRecorded`
  (`LocatedWhereRecorded`), with no more assumptions. The invariant `Provenance` holds each state in the map to an
  account (`Accounted`): of what it is charged with, of what its functions claim and of
  their locations, each by a witnessed call. Calls are only added, and so are edges, so an
  account stays one; what `handle_syscall_exit` adds is accounted for by the call it handles
  (`UnwoundAccounted`). The heart is `ChainReaches`: the edges of one stack lead from every
  frame that was kept to the innermost one. In a set closed under the edges, the lowest kept
  frame can only be the innermost, or the one `Adjacent` to it below would be lower.
- *History.* `NothingIsForgotten`, `ReportIsFaithful` (whose second half is `Provenance`'s) and the refinement of the ledger,
  `RuntimeIsALedger`, under the assumption `PidsTellApart`: no pid is given out again, or
  no event is lost and the first process's pid is not reused. The code needs it: `spawn`
  overwrites what `active` has under the pid; the first process is never removed from
  there, and another stays when its exit is lost. The invariant `History` adds to `Inv`
  that charges are remembered, that processes gone from the program are gone from `active`
  (`Tracked`), that no two entries are of one process (`Distinct`), and that nothing
  follows the report (`ReportStands`). For the refinement each event is mapped to the step
  of `CapabilityLedger` it makes, or to none: a clone opens an account, a handled exit
  charges one, `into_report` publishes, and an exit only moves an entry from one half of
  the map to the other.
- *Descriptors.* `TableIsTrue` (`FdTableSound`) and `NetworkIsCharged`
  (`NetworkIoctlCharged`), for any number of processes and descriptors, under the
  assumption `NoPipes`: no program calls `pipe` or `pipe2`. It cannot be dropped, as the
  run `pipe_descriptor` shows, and nothing else is assumed of the calls. The invariant
  `TracedInv` says of each process that its entries are true of its table (`AllTrue`), that
  the map has every process that runs (`Followed`: this composition loses no event), and
  that the `Meta` the library holds for a process is that of the call the process is in
  (`MetaHeld`), always so for `close`, `close_range` and `ioctl`: what is removed from the
  table or judged at the exit of a call is what was named at its entry.

**StaticAnalysisProofs** — first the bubbling loop by itself, for every graph and every
direct capability: `BubbleTypeCorrect`, `NothingInvented`, `DirectKept`, `NothingMissed`. The
last needs the invariant `VisitedSettled`: as long as `changed` is false, the edges the pass
has been over are settled. It is what ties the flag to the graph; without it nothing is
known when the loop is left. Then the analysis that ends with it, for every program, every
division into modules and every order of reading them: `TypeCorrect`, `FailureIsBadInput`
(`OnlyBadInputFails`) and `ReportIsExact` (`ReportExact`). Its invariant has two halves.
`Builder` says that the function map, the graph and the direct capabilities are a function of
the *set* of files read so far, which is why their order cannot matter. `Stages` says that
once all are read the loop's own invariant holds; the two share the loop's variables, and so
its lemmas apply as they are. Exactness is then shown both ways: a set closed under callers
that contains every owner contains every holder (`OnlyWhatIsReached`), and the functions
without a capability are closed under calls (`AllThatIsReached`).

**SessionProofs** — for any number of traced processes and signals: `TypeCorrect`,
`ThreadOutlivesChild`, `AtMostOneAfterDrop`. The invariant ties the place `main` is at to the
handle and the thread, and says that a signal the thread still holds after `Drop` is the only
one that can be late.

**ModuleAnalysisProofs** — for any number of modules and functions, and users that do
anything: `TypeCorrect`, `NeverBorrowed`, `ComputedOnce`, `OnDemand`. Each kind of cache has
a rank, an analysis asks only for lower ones, and so the closures on the stack strictly
descend: none finds itself there. What anyone has a Ref of is filled, so it is not written.
`OnDemand` needs that what is being computed is on demand as well as what has been
(`Demanded`): a closure on the stack was asked for, or is an input of one that was.

**FlowGraphProofs** — dominance and reachability as FlowGraph defines them, for any graph:
both are transitive, two dominators of a node are in line (`DomChain`), a dominator of a
node dominates its predecessors or is the node (`DomEdge`), and a node that is reached in a
finite graph has exactly one immediate dominator (`ImmediateExists`, `ImmediateUnique`).

**DominatorTreeProofs** — for every control flow graph, of any size, and every depth-first
order: `TreeTyped`, `BuilderNeverStuck`, `EstimatesAbove`, `TreeIsRight` (`TreeIsDominance`),
`EstimatesOnlyRise` and `ResultIsThatOfTheGraph`. The published correctness argument of the
algorithm walks in reverse postorder; this code does not, and the proof is about what it
does. Write "above" for the order of the tree of the estimates. The invariant `IInv` says

- of the numbers (`NumbersOK`), which count the reached nodes from the entry on, only that
  each node but the entry has a predecessor with a smaller one. Every depth-first order
  gives that, and nothing more is used of it;
- that the estimates are a tree in which numbers fall towards the entry (`TreeOK`);
- that what strictly dominates a node dominates its estimate (`Dominated`), from which
  `Above` follows by induction along the numbers;
- that the estimate of a node is above its earlier predecessors, but where the pass is past
  the estimate and has yet to come to the node (`Held`): only then can it have moved what
  lies between;
- that what is above all predecessors of a node is above its estimate (`Tight`), so a
  revision can only go up: `EstimatesRise`;
- that a pass that has set no flag has found each estimate it has been at above all
  predecessors (`Settled`). When the loop ends this holds of every node, and the nodes a
  node is *not* above are closed but for it: what is above dominates.

`common_dominator` and the fold of `compute_idom` are recursive functions. That they have
values at all, and that these are the lowest node above both (above all), is proved from
the least number for which it would fail (`CommonIs`, `FoldIs`).

**ControlDependenceProofs** — for every function with finitely many blocks: `ControlTyped`,
`DependencesAreExact` (`DependenceExact`) and `QuestionsAgree` (`AnswersAgree`). `TreeOK` says
that `ipostdom` is immediate postdominance. `GraphOK` says that the frontier of each visited
node is exactly its control dependences. A visit, which comes after those of the children,
keeps that because a dependence of a node is either a predecessor it does not postdominate
(`LocalFrontier`) or a dependence of a child (`UpFrontier`, `DownFrontier`). For the
questions, `QueryOK` says that what was collected or waits is an answer, and that whatever
is next to the block or to something collected was collected or waits; `Cycle` treats a
block that depends on itself.

**TextFormatsProofs** — for every file of lines, every stack symbol, any number of calls
of one process or two (the composition spawns at most one child) and either kind of
reader: `TypeCorrect`, `ReaderIsTold` (`ReaderToldTheMap`), `ReadBack` (`ReadBackExactly`)
and `SplitIsTold` (`SplitTellsTheImpl`). The invariant `Inv` has three parts.

- `MapInv`: the table has of each name the words of the last line about it (`Collected`). A
  line replaces what an earlier one said and leaves the other names alone.
- `CallsInv`: each process is charged with what the table says of its calls, and each of its
  functions has what the *first* call it was on top of is charged with (`Attributed`). The
  second is where `upsert` is: the frame of a function that is known changes nothing in it
  (`StackRecorded`), so a later call cannot disturb what the first one left.
- `ReportInv`: report, text and what was read are each made of the one before.

From it, what the reader is told is the table's words through `FunctionRead`, `ProcessRead`
and `FamilyReportRead`: each level of `Deserialize` undoes its level of `Serialize`, except
where the property says. The split of a name is about sequences alone: where the parts of a
joined text are (`AroundClosing`, `AroundAs`), that the last `>::` and the first ` as ` are
the ones it was joined by exactly when there is no other further out (`LastClosing`,
`FirstAs`), and that an ` as ` in a method gives either a trait where there is none or a name
that is not parsed, and then not reported (`AsInMethod`, `SplitImpl`). Names are sequences of
`Token`: the strings and the four separators.

Assumptions on constants are the named `ASSUME`s of `Runtime`, `StaticAnalysis`,
`DominatorTree`, `ControlDependence`, `Session`, `CapabilityMap` and `TextFormats`; TLC
evaluates each in the runs. Those of `DominatorTree` and `ControlDependence` say that no edge
leads to the entry block (LLVM allows none), that a function has finitely many blocks, and
that the model's `None` is none of them.

In `TextFormats` the names are records of sequences of strings, and a process has no path
(`Path = {None}`): what `exec` sets is `Runtime`'s, and a reader gets the path as it was
written.

Every invariant and every action property of the passing runs is proved, five of them under
a named hypothesis (`PidsTellApart`, `NoPipes`). What stays with TLC is liveness
(`Terminates`, `InterruptEndsSession`), which with ENABLED is beyond the provers at hand. For
the builder of the dominator tree there is no liveness run; what bounds its passes,
`EstimatesRise`, is proved.

## 5. What the models leave out

- The order of `Map::inactive`, `argv` and `envp`, demangled names and locations'
  contents: no decision depends on them. In the static analysis, locations altogether.
- **Descriptors** in `fd_tables`: `dup2` over a tracked descriptor, threads that share a
  table, and a `close` that fails but closes. Each makes `State::fds` stale, and no text of
  the repository promises otherwise. They are listed as hazards.
- What libunwind returns from a stale cache; the contents of debuginfo.
- Which functions a pointer may reach. `StaticAnalysis` draws the edges that
  `CallGraph::new` draws, and `ReportExact` is relative to those: a pointer to a function
  that the module only declares, or that another module defines, has no edge.
- Building with cargo, reading `--function-caps`, the temporary directory, an error of
  `WalkDir` at a path, and writing the report: each ends `Static::main` with an error and no
  report, before the first file, between two, or after the last. `StaticAnalysis` has the
  errors that depend on what the files hold (`Fail`), and `OnlyBadInputFails` is about those.
- What `fd::Type` says of block devices: `ioctl::caps` has no arm for them, nor for the
  Fifo that is modelled.
- Command lines: dispatch, with no state of its own. The wording of errors; `Session` has those that `main` returns, the
  errors of one event are logged and forgotten.
- `IntoLocation`, a conversion of one debug location without a decision in it.
- Queries that look names up in tables which never change (`fn_analysis`,
  `module_analysis`, `get_func_by_name`, `callers`, `callees`), and
  `Function::insert_capability`, which nothing in the repository calls.
- The demangler's spelling beyond the separators, spaces and quoting in `.cm` files and
  JSON, and the text of locations.

These are the parts that have no state or decision that a property could be about.

## 6. Observations without a run

- A comment in `handle_syscall_exit` calls the capabilities of the first named frame direct
  (`mod.rs:278`). `FunctionMap::upsert` drops them for a function it already has: one first
  met as a caller stays Transitive, and capabilities of its later calls are missing. It is
  the mechanism of `first_call_only`; `ReaderToldTheMap` says it of the reports.
- The numbers of `DomTreeBuilder` are called "rpo numbers" (`dominator_tree.rs:50`). They
  are depth-first preorder numbers; the trees are right all the same (`TreeIsDominance`).
- After an exec the close-on-exec entries stay in `State::fds`. An ioctl on a file that gets
  such a number is judged by the old entry; the exceptions of `FdTableSound` and
  `NetworkIoctlCharged` are exactly these.
- A report without children cannot be read back by `capslock`'s own `Deserialize`:
  `children` is skipped when empty and has no default. Nor can one with capabilities on a
  function be read from a stream, as `CapabilityType` asks for a borrowed `&str`.
- `parse_rust_function_name` splits at the first ` as ` and the last `>::`. A type with a
  qualified path in it, and a method with an impl block nested in it, are split elsewhere.
- Of two lines of a `.cm` file about one call the last decides, without a warning.
- SIGINT that arrives when the child has been reaped, but its children have not, may end the
  forwarding thread; from then on nothing interrupts the session.
- `main` returns without waiting for the child where it fails between spawning it and
  tracing it, and the output file is created only when everything was traced.
- `into_report` aggregates the capabilities of children into a value it does not use
  (`process.rs:105`).
- `close_range` ignores its flags: with `CLOSE_RANGE_CLOEXEC` the entries are dropped
  while the descriptors stay open.
- A relative `chdir` replaces the working directory by the relative path.
- The type of a socket is tested bit by bit (`syscall/mod.rs:120-127`), and types share bits.
- The start symbol is looked for in every stack: a later call under a frame of that name
  charges the process, and no function.
- Pid reuse and exec leave stale entries in `address_spaces`.
- Debuginfo is read once per pid, where the comment in `Process::build` speaks of "the
  debuginfo in the PID's executable" (`location.rs:66`). After a recorded call and an exec,
  or for a second process with the pid, functions of the new image are looked up in the old
  one: they get no location, or that of a function of the same name. This is a fault of the
  code, and `LocatedWhereRecorded` is not to be read as its absence: the property allows the
  image of any stack recorded under the pid, and excludes the others.
- Of a function that several modules mention, the file read first decides the location; a
  declaration has none. Of two calls along one edge, the last decides.
- Whether a call of an alias panics depends on the order of files: it does not when an
  earlier module had a function of that name.
- `ipostdom` is documented as `Some` for all blocks but unreachable ones and those of
  functions that cannot return; a block that cannot reach the return gets `None` also in a
  function that returns elsewhere.

## 7. Plan

Done: all of the runtime analysis and the session around it, the ledger and the descriptor
tables, the bubbling loop, the static analysis, the llvm-ir-analysis builders and caches,
the capability map, the names and the report format; the proofs of section 4.

What the provers at hand cannot reach stays as it is: the two liveness properties, and the
full behaviour of the recursive definitions of `DominatorTree` beyond the lemmas stated of
them. The next things worth modelling are descriptors shared by threads and `dup2` over a
tracked descriptor (section 5), once the code has a position on them.
