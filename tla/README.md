# A TLA+ model of THEO core

THEO is a deterministic "symbolic cognition" runtime in Python: a percept (a text) runs through nine
stages over three graphs (concepts, beliefs, thoughts) and comes out as a decision. Around that cycle
there is a kernel that boots and stops subsystems, a state store, replay, an event bus, and an older
engine with a memory of facts. Beside the package, `scripts/dataset_generator` holds 49 scripts
that build, freeze and examine a training corpus through files of one data directory. This directory
models the parts of both where order, failure and repeated calls matter, and the pure algorithms whose
answers can be compared with a definition. Paths below are relative to `src/src/theo_core/`, those of
scripts to `src/scripts/dataset_generator/`; `PROJECT.json` maps every definition to its lines.

## The system

| Component | State | Operations | What makes it hard | What makes it correct |
|---|---|---|---|---|
| Symbolic pipeline (`symbolic/pipeline.py`) | committed graphs, last results, provenance | `execute_cycle` | any stage or provider may raise midway; loops over a graph that changes | S_t changes only at LEARNING, once, and by growing; decisions rest on the state published |
| Beliefs (`symbolic/beliefs`) | belief graph with versions | detect and reconcile contradictions, revise | the list of contradictions is computed before the first is reconciled; version ids are derived from names | no two active beliefs contradict after a cycle; versions form chains |
| Inference (`symbolic/inference`) | locals of `forward_chain`; new beliefs and thoughts | fire a rule, next round | ids numbered per call; rules that feed each other | termination, fixpoint, evidence that exists |
| Thought graph (`symbolic/thoughts`, `symbolic/_graph`) | nodes, edges | `add_thought`, `add_edge`, `remove_thought`, `topological_sort` | the edge is inserted before it is checked; iterative search with colours; counting of parallel edges | acyclic between calls; a refusal changes nothing; a sort is complete and ordered |
| Hypotheses, conflict, decision | none of their own | generate, evaluate, resolve, decide | ties, empty graphs | the best candidate wins, references exist |
| Provider hooks (`runtime/providers`) | none | five hooks, fail fast | an exception between two state changes | complete provenance, nothing half done |
| Goal manager (`goals/manager`) | goal stack | `select_top_goal`, `add_goal` | mutated by the pipeline before LEARNING | does not grow on retries |
| Kernel (`kernel/*`) | registry states, `_is_booted` | `boot`, `shutdown` | hooks that fail, a second boot, configured names that repeat or do not exist | registry and hooks agree; nothing left running |
| Symbolic runtime and store (`symbolic/runtime.py`, `persistence`) | pipeline, file | `start`, `process`, `persist`, `stop` | crash in `write_text`, start on a torn file | a restart restores the last state saved |
| Interactive session (`__main__.py`) | the loop of the prompt | launch, a line, `/exit`, interrupt | an interrupt inside a shutdown, a cycle that raises | leaving saves and ends |
| Replay and traces (`explanation/replay`, `telemetry/tracing`) | recorded traces | record, replay | what is not restored | a replayed cycle has the recorded fingerprint |
| Event bus (`events/bus`) | handlers per type, log | `subscribe`, `unsubscribe`, `publish`, `clear` | handlers that change the list being iterated | nobody is left out but for an unsubscription |
| Memory (`memory`) | entries, counter, file | `store_fact`, load | counter rebuilt from the number of entries; write in place | one active fact per key, what was acknowledged is saved |
| Legacy cognitive engine (`cognitive_cycle/engine`) | context, goals, memory, records, trace files | `process` | any of twelve stages may raise; goals never completed | replies say what memory says; a trace is of one cycle |
| Graphs (`symbolic/_graph`, `symbolic/concepts`, `knowledge/graph`) | none in a query | searches, paths, activation, descendants | limits, loops and parallel edges, ids that do not exist | answers are those of the definition |
| Backward chaining, conflict policies, provider index | none | `backward_chain`, `resolve*`, `prune_candidates` | rules that rest on themselves, ties | the answer does not depend on the order of the input |
| Benchmark harness (`evaluation`) | one pipeline per case | `run` | 51 cases with expectations written by hand | the corpus passes and the recorded baseline comes out |
| Dataset scripts | the data directory | 49 `main()`s | scripts run one by one by hand, in any order, or two at a time | a result rests on the bytes that were hashed; labels come from a finished review |
| Repaired corpus | constants of the sources | generate, label, validate, review, repair | 264 records from templates | schema invariants, unique propositions |
| Causal experiment (`run_phase_6e17_causal_intervention.py`) | runs, checkpoint files, partial results, gate, verdict | a launch with any of three conditions | collapse guard, gate and endpoint with constants that have to fit; a halted launch feeds a later one | what is measured exists; no verdict past a failed gate |

They interact by direct calls on one thread. `SymbolicRuntime.process` calls `execute_cycle`, which
calls the engines and, at five points, `ProviderCoordinator`; `Kernel` calls `start` and `stop` of the
registered subsystems, of which the runtime is one, and publishes on the event bus. The legacy engine
calls the memory engine, the context, the goal manager and the trace recorder in turn. The scripts share
nothing but files. The package has no threads: its hard behaviours are exceptions between two state
changes, handlers that call back, calls in an order nobody tested, and restarts; only the scripts may
run side by side. The hazards are listed one by one in `PROJECT.json`.

## What is modelled

**`SymbolicPipeline`** is `execute_cycle` with the engines it drives. `committed` is S_t
(`pipeline.beliefs`, `pipeline.thoughts`), `working` the copy the stages compute over, `stage` the
stage about to run.

| Actions | Code |
|---|---|
| `Perceive` | PERCEPTION and the detection of contradictions |
| `Reconcile`, `ReconcileMissing`, `ReconcileAgain`, `EndRevision` | the REVISION loop: one turn, `KeyError`, `DuplicateIdError`, exit |
| `RankRules`, `FireRule`, `FireRuleAgain`, `SkipRule`, `EndRound` | INFERENCE: the hook, then `forward_chain` rule by rule and round by round |
| `Propose`, `ScoreHypotheses` | HYPOTHESIS with its two hooks, CONFLICT_RESOLUTION |
| `Decide`, `Calibrate` | DECISION: goal ranking and selection, the decision, the calibration hook |
| `Realize`, `Learn` | the FATAL constraint; publication |
| `ProviderFails` | `ProviderFailure` out of any of the five hooks |

`CognitiveCycle` is the abstract specification: a cycle begins, and either publishes one state that
grows from the previous one or aborts and leaves it. `SymbolicPipelineProperties` states the
properties and the refinement.

What is abstracted:

- propositions are names; the condition of a rule is the set of propositions its predicate occurs in,
  and a percept comes with the propositions its words occur in;
- a conclusion template with placeholders is not modelled: a rule has one conclusion;
- a confidence is a number of ten-thousandths, the precision `evaluate_hypotheses` rounds to; the
  values of the instances are chosen so that every product and mean is exact;
- evidence weights, timestamps, texts of decisions, the confidence calibration may change and the
  observed `last_proposals` are left out: no control depends on them;
- concepts and their activation are left out: no later stage reads them;
- the scheduler is left out: the pipeline ignores what `record_stage` returns;
- a belief seeded by the caller has revision 1; `MaxIterations` is a parameter (5 in the code).

**`ThoughtGraph`** is the graph the thoughts of a cycle go into, with the two algorithms it relies on:
the iterative depth-first search of `CycleDetector.has_cycle`, which `add_edge` runs after it inserted
the edge, and Kahn's algorithm in `topological_sort`. `nodes` and `edges` are the generic `Graph`;
`call` says which of the two is running, and the other variables are its locals, reset when it returns.
An entry of `stack` holds the edges a node has left where the code holds an index into their sorted
list; the queue of the sort is a set. Both allow any order, of which the code takes one: no property
depends on it. Calls that raise before they change anything (a duplicate thought, an edge to a missing
one) are no steps. `from_raw_graph` wraps a graph without checking it and is left out: the initial graph
is empty. `SymbolicPipeline` uses the same graph, where the edges a chain adds always lead to the thought
just added, as sets.

| Actions | Code |
|---|---|
| `AddThought`, `RemoveThought` | the calls of the same names |
| `AddEdge` | the edge is inserted, `has_cycle` begins |
| `Start`, `Descend`, `SkipVisited`, `Backtrack` | the outer loop's next node; the inner loop's three ways to go on |
| `CycleDetected`, `NoCycle` | `has_cycle` is true: the edge is removed and `CycleDetectedError` raised; it is false |
| `SortBegins`, `Emit`, `SortReturns` | the in-degrees; a turn of the loop; the result |

`Dag` is the abstract specification: an edge is added or refused in one step, according to whether a
cycle would result, and a sort returns some order that is one.

**`Kernel`** is `boot` and `shutdown` over the registry and the lifecycle manager, one step per call or
return of a hook. `state` is the state of the registry's entries; `live` is the subsystems' own view,
which the registry should agree with; `announced` and `ready` are what the events told. Registration
happens at composition and is part of `Init`, so is the start order of the configuration. Hooks may
fail, never hang; `LifecycleManager` turns every `Exception` of a hook into `False`, which makes the
`except` branches of `boot` and `shutdown` unreachable, and they are not modelled. A `ghost` name of
the instances is configured and never registered.

**`MemoryEngine`** is `store_fact` of the memory engine with `load_all` and `save_all` of its JSON
repository, and restarts. `entries` and `counter` are the engine's `_entries` and `_counter`; `file` is
missing, empty, torn or whole; `phase` says where in a call the process is. A statement that changes
the entries (`ConfirmFact`, `AddFact`) is followed by `OpenFile`, which truncates, and `WriteFile`;
`SaveFails` is an exception of either, after which the entries in memory stay changed, and `Exit` the
end of the process at any point. A cut JSON array never parses, so a torn file makes the next start
raise (`StartFails`) and nothing in the code repairs it; an empty one starts with no memories.
`times_confirmed`, importance and provenance are left out, since nothing depends on them here, as are
retrieval, classification and the working buffer. `FactLog` is the abstract specification: a log of
statements, and a copy that is replaced as a whole or lost.

**`SymbolicRuntime`** has the operations of the runtime over its state store; **`Session`** composes
them with `Kernel`: the hooks of the subsystem `Runtime` are `start()` and `stop()`, the other
subsystems keep the kernel's nondeterministic ones. A session is one process of the command `chat`;
the state file outlives it. `committed` is the pipeline's `state`. Cycles are deterministic, so it is
represented by the percepts of the cycles that were committed, and a cycle that raises ends the
process, since the loop of the prompt catches no `Exception`.

| Actions | Code |
|---|---|
| `Launch`, `KernelStep` | `bootstrap` and `boot`; the kernel's loops with the other subsystems |
| `StartRuntime`, `RuntimeStartFails` | `start`: `load` restores, finds no file, or raises |
| `StopRuntime`, `SaveOpens`, `RuntimeStopped` | `stop`: `save` serializes, `write_text` truncates, writes |
| `RuntimeStopFails` | an exception of `save`, before or after the file was opened |
| `Process` | a line; the prompt runs whether the runtime was started or not |
| `Exit`, `Interrupt`, `HandleInterrupt` | `/exit` or an interrupt of a cycle; `KeyboardInterrupt` out of a running shutdown; the handler's `shutdown` |
| `Return`, `Killed` | the process ends because nothing is left to do, or at any point |

`KeyboardInterrupt` is not an `Exception`: it passes the stop hook, the lifecycle manager and the
kernel, leaves the subsystem `STOPPING`, and the second shutdown skips it. At the prompt itself click
turns an interrupt and the end of the input into `Abort`, which the loop does not catch, so the process
ends without a shutdown: that is `Killed`. A file cut short and an empty one behave alike, neither
decodes; a file with a wrong checksum or type comes under the failure of `load`, which may happen on
any file. `persist()` has no caller in the code and is not modelled; the traces are in `Replay`. `Checkpoint`
is the abstract specification: a session begins from the copy or, detached, from nothing, and only an
attached one writes the copy or loses it.

**`EventBus`** is `publish` as a loop over the list of its event type, with handlers that may do
whatever a client may while they run: subscribe, unsubscribe, clear, publish again, raise. `frames` are
the calls of `publish` in progress, the innermost last; there is no thread but the caller's, so they form
a stack and only the top moves. A call iterates the list object itself: while that is the list in the
registry (`live`), every change is seen by the loop, and after a `clear` the call keeps the list that
was let go (`old`). `before`, `called` and `removed` record for the properties what happened during the
call. `unsubscribe` of an absent handler does nothing and is no step.

**`CognitiveEngine`** is `CognitiveEngine.process`, its twelve stages over the `MemoryEngine` it
extends, the context, the goal stack, the working buffer, the trace recorder and its files. A
line is a record of the phrases the rules of `configs/rules` look for and the name and topic it has,
since nothing else of it reaches the control.

| Actions | Code |
|---|---|
| `Launch`, `EndProcess` | `bootstrap` over the two kinds of file; the process ends, at any point |
| `Perceive`, `Retrieve`, `SelectGoal`, `Decide`, `Respond` | stages 1 to 11, grouped where nothing can raise or be seen in between |
| `StoreFact`, `SaveFact`, `FactStored`, `StoreRaises`, `FinishLearning` | stage 12, fact by fact: context, `store_fact` with its save, the working buffer |
| `OpenTrace`, `CloseTrace`, `TraceRaises` | the trace file, and only then the state `/explain` reads |

The score of a memory depends on wording; `Retrieve` takes any `TopK` of the active entries in any
order, which is more than the code does. The planner's plan is executed by nobody and is left out.

**`Queries`** puts the pure algorithms side by side: every question is an initial state, and the steps are
those of the algorithm it is about, one turn of its loops each. `Traversal` also has what they share: the
question, the answer and the locals of a call (`visited`, `waiting`, which is the queue or the stack,
`walk`, the entry at hand, `left`, its edges not yet looked at, and `order`, what is listed).

| Module | Actions | Code |
|---|---|---|
| `Traversal` | `Refuse`, `StayAtStart`, `Enter`, `Take`, `LookAt`, `Arrive`, `Finish` | the early returns, the loop over the queue or the stack and the loop over the edges of the entry taken: `bfs`, `dfs`, `depth_limited_search`, `shortest_path`, `expand_neighborhood`, `ancestors`, `descendants`, and `traverse` of the knowledge graph |
| `Activation` | `Seed`, `TakeEntry`, `Spread`, `Settle` | `ActivationEngine.activate`: a target that gains is queued again with what it passes on |
| `Deliberation` | `AskBeliefs`, `AskHypotheses`, `AskPrune`, `AskProvider` | the conflict policies, `prune_candidates` and the provider index, each one call |
| | `ProveGoal`, `ProveCondition`, `ListRule`, `ReturnChain` | `backward_chain`: `waiting` is the stack of the nested calls of `prove`, each with its next condition |

An entry of a search is the walk that led to it, of which the code keeps the end, the depth or, in
`shortest_path`, the whole; `place` is the place of an edge in the sorted order of the keys. The answers
are compared with definitions that have no queue and no stack: balls around a node, sums over walks
(`Reaching`), sets of what is best, layers of rules.

**`Benchmarks`** is the harness: each of the 51 cases of **`BenchmarkCases`** gets its own pipeline, an
instance of `SymbolicPipeline` with the constants of that case, runs one cycle and is compared with what
the case expects. Every case is run without a coordinator and with one whose providers answer, and may
fail, on every hook. The cases are the seeds, rules, goals and expectations of the corpus; which words
occur in which text is worked out beforehand and written down.

**`Replay`** drives the same pipelines by a runtime instead of the harness. The runtime takes several
percepts one after the other, of which some cycles raise, and records each cycle that commits; at any
time, between two percepts, in the middle of a cycle or of a write, a trace is replayed.

| Actions | Code |
|---|---|
| `Process`, `Continue` | `SymbolicRuntime.process`: the state before the cycle is kept, the cycle runs, the state after it is published with its percept and times |
| `OpenTrace`, `WriteTrace` | `TraceRecorder.record_trace`: the file is opened, which empties it, then written |
| `ReplayNotFound`, `BuildEngine` | `load_trace`; a fresh runtime with the rules of the first and no coordinator, and `restore_state` |
| `ProcessAgain`, `Continue`, `Compare` | the recorded input once more; response, both checksums and fingerprint compared |

Graphs are written and read as their envelopes are (`Envelope`, `Loads`), so that what the format leaves
out is left out: the goal stack, the provenance and the coordinator are in no trace, the wall-clock
fields are in the payload and not in the checksum. A SHA-256 checksum is what it is computed from.

**`ArtifactScripts`** are the dataset scripts as processes over files. A script is a sequence of steps:
`pin` (hash a file and assert the hash the source has), `hold` (hash and keep), `read` (parse), `check`
(assert something of what was read), `write` (truncate, then dump), `report` (write what no script
reads) and `compare` (hash again and assert). **`DatasetScripts`** gives the steps of 44 scripts in the
order of their code, with the checks and the labels they carry over; **`RepairedCorpus`** computes the
264 records of the repaired corpus, the oracle's labels, the schema invariants of the quality gates, the
review and the repair of duplicates, as the code does; **`MCDatasets`** runs the scripts. A content is a
stamp of the write it is of, whether that came to its end, and the review its labels go back to: a file
whose hash is asserted somewhere has a time of writing or trained weights in it, so no two writes give
the same bytes and stamp 0 is the file that was hashed when the source was written. What scripts compute
in between (losses, spectra, geometry) is left out, which is most of their text; the rows of the map
name only the lines that touch files, and those of the corpus.

**`CausalIntervention`** is the script of phase 6E.17 with its launches: training runs step by step with
the collapse guard, the checkpoints kept, the fingerprint gate after the baseline B, the partial results
a halted launch leaves and a later one takes, and the verdict. What the control reads of the training is
a choice: whether the model proposes at a step, and whether the measured fingerprint is inside its
limits.

## The runs

| Run | Expect | Properties | What it asks |
|---|---|---|---|
| `pipeline` | pass | `ThoughtsAcyclic`, `Grounded`, `VersionsRetire`, `PublishedConsistent`, `DecisionGrounded`, `ChainSaturated`, `ImplementsCognitiveCycle`, `CycleEnds` | any sequence of cycles, with hooks that fail |
| `kernel` | pass | `RegistryMatchesHooks`, `NothingRunsAfterShutdown`, `FailedBootIsFinal` | any sequence of boots and shutdowns |
| `memory` | pass | `FactIsLatest`, `ReturnedIsSaved`, `ImplementsFactLog` | any sequence of statements, failures and restarts |
| `thoughts` | pass | `ImplementsDag`, `CallsReturn` | any sequence of calls on a thought graph |
| `session` | pass | `SaveExtendsFile`, `StoppedIsSaved`, `ImplementsCheckpoint`, `LeavingEnds` | any sequence of processes over one state file |
| `bus` | pass | `EveryHandlerCalled`, `MissesBounded` | handlers that call back into the bus |
| `engine` | pass | `RepliesWithStoredName`, `LearnedIsSaved`, `TraceOfLastRecord`, `CyclesEnd` | any sequence of lines, failures and restarts |
| `searches` | pass | `SearchesReachTheBall`, `PathsAreShortest`, `ActivationSumsWalks`, `ChoicesIgnoreOrder`, `ChainInOrderOfUse` | every question over the small domains |
| `benchmarks` | pass | `CorpusPasses`, `BaselineReproduced`, `ReplayMatches` | every case of the corpus, with and without hooks; every trace of a runtime over it |
| `artifacts` | pass | `ClosedOnWhatItRead`, `FrozenFromFinishedReview`, `CorpusMeetsItsManifest` | any two scripts at a time; any three runs of those that carry labels |
| `causal` | pass | `PrimaryEndpointMeasured`, `OnsetLeavesGateCheckpoint`, `VerdictOfOwnBaseline` | two launches with any conditions and ends of the process |
| `reconcile_again` | violation | `CycleProducesState` | the second cycle over a contradiction raises `DuplicateIdError`, and so does every later one |

What the properties say is written above each of them. In short:

- *Pipeline.* The graph of thoughts never has a cycle. An inferred belief and its thought exist together,
  cite the same premises and are no more certain than those. Versions form chains of which one is active.
  No contradiction is left between active beliefs of the state published. A decision rests on the best
  candidate and on what was published. Chaining stops at a fixpoint or at its bound, and a cycle ends.
- *Kernel.* The registry agrees with what the hooks did; a shutdown leaves nothing running; a boot that
  raised is never followed by one that returns.
- *Memory.* The entries of a key form one chain whose last is active, although ids repeat; what a call
  acknowledged is on disk.
- *Thoughts.* The iterative search and Kahn's algorithm implement an atomic check and sort, and end.
- *Session.* A save begins only over a file whose state the saved one extends; a runtime called `STOPPED`
  is saved; leaving ends.
- *Bus.* A call of `publish` calls its list in order unless somebody unsubscribed meanwhile, and each
  unsubscription costs at most one delivery.
- *Engine.* A name in a reply is the one just said or the last one stored, even after a save that failed
  or a restart; when learning ends, what the line said is active and on disk; `/explain` and `/trace`
  speak of one finished cycle.
- *Searches.* Each search finds the ball of its limit; paths are shortest; activation is the sum over
  walks; policies and provider index do not depend on the order they are given things in; a backward
  chain lists premises before what uses them.
- *Benchmarks.* All 51 cases pass, and the recorded numbers come out. A cycle that was recorded commits
  again from its trace alone, with the same response, checksums and fingerprint, whatever its runtime did
  before and after.
- *Artifacts.* A script that ends with a comparison ended on the bytes it hashed. A final freeze that
  ends read a corpus and records that go back to a finished review and not to the blank one of a
  calibration. The corpus on disk satisfies the invariants its manifest claims.
- *Causal.* A run the guard stops still has a checkpoint of the primary endpoint, at any onset; a run
  whose onset the gate accepts has the checkpoint the gate reads; no verdict rests on a baseline of the
  same launch whose gate failed.

The `violation` run checks a sentence of the documentation, quoted in the finding of `PROJECT.json`. It has
no rules: the same sentence fails over `FireRuleAgain`, where a rule fires again under the number it had in
a cycle before, and there the run `pipeline` shows that the refusal leaves what was committed as it was.

### Bounds

`MCSymbolicPipeline` has three percepts (one without words), any subset of four seeds with two
contradiction edges and one contradiction recorded in a belief's own field (which may name a belief
that is absent), and three rules ordered so that each round enables one more: three rounds are needed,
`MaxIterations = 3` allows exactly those and a round that fires nothing is reached too when a premise
is missing. One rule has two conditions, and the confidences fall on both sides of 0.1 and 0.5. The
state space is finite without a further bound: ids collide before graphs grow further. 6,090 distinct
states. Candidates that tie are ordered as their ids are, that is, as strings of their numbers
(`CandidateRank`), for fewer than a thousand of them.

`MCThoughtGraph` has four thoughts and all sixteen edges between them, loops included, and a second
relation between two of them: cycles of every length up to four, a search that meets nodes it finished
in an earlier tree, and parallel edges. 716,713 distinct states; larger graphs are left to the proof.

`MCKernel` has three subsystems, two with hooks, every registration order of two or three of them, and
every start order of length zero to three over four names, so that names repeat, are missing or are
not registered. 66,574 distinct states.

The run `memory` has two keys, two values and `MaxIds = 5` ids issued by one engine; the counter starts
over at the number of entries, so restarts are not bounded. Five ids are enough for a chain of three
under one key with another key in between, and for a confirmation before or after a restart. 112,848
distinct states.

`MCSession` has the runtime and one other subsystem, alone or in either order of registration, every
start order of length zero to three over both names, two percepts and states of `MaxCycles = 2` cycles:
enough for a file with one cycle that a later session extends, for a runtime that is started twice, not
at all, or again after its start failed, and for any number of processes, which are not bounded.
53,028 distinct states.

`MCEventBus` has two event types, two handlers, four registrations, two events and calls nested two
deep: a handler can be registered twice, be removed by itself, by the other or by the inner call, and
the list can be let go under both calls. 843,788 distinct states; any depth is left to the proof.

`MCCognitiveEngine` has eleven lines (names, preferences, both, greetings, questions, nothing), three
cycles, `TopK = 2` and `WorkingCapacity = 2`, so that retrieval must leave a third memory out and the
buffer overflows, and `MaxIds = 6`. 878,337 distinct states.

`MCQueries` has every graph over ten edges between four concepts with a self loop, parallel edges of
different relations and cycles of every length, one id no graph has, limits from -1 to 5; every list of
candidates that tie in every way; every order of five rules, one of which makes a goal rest on itself,
and of four providers. Every state but the initial ones has one predecessor, so the state graph is a set
of computations, up to 63 steps long; one that stopped short of an answer would be a deadlock. 1,160,290 distinct
states.

`MCReplay` has the 51 cases, with and without hooks. The harness needs no bound. A runtime gets
`MaxTurns = 3` percepts, each the one of the case or a text unrelated to it, so that a trace can be of a
later turn, over a graph the first turns changed, after a cycle that failed and before another. 52,613
distinct states.

`MCDatasets` has two slots, which are symmetric, and two starting directories: `vouch`, where every
pinned file is in place, with two launches of any of the 44 scripts, and `labels`, where only the
repaired corpus and its review are, with three launches of the five scripts that carry labels: three are
needed to calibrate over a review, repair from it and freeze. 891,572 distinct states.

`MCCausal` has a horizon of 8 steps for the script's 20 and `K = 3`, with checkpoints, onsets and
endpoint in the order they have in the script, and two launches. 1,698,862 distinct states; the
constants of the script are left to the proof.

### Fairness

`pipeline`, `session` and `thoughts` use `FairSpec`, `engine` uses `FairEngineSpec`: weak fairness of `Cycle`, of `Call`, of `Search` and `Sorting`, that is, of the body of a call that is running. The code is
a plain loop on the caller's thread that ends or raises; no fairness is assumed of the caller, who need
not submit another percept, boot again, launch, type or interrupt, and none decides whether a hook or a
write fails. `LeavingEnds` needs no bound on interrupts: the handler is not inside the `try`, so a second
one ends the process. The other runs state no liveness and assume no fairness: a handler of the bus is
its client's code and may run on or publish for ever, and a script waits for whoever types its name.

## What is proved

With TLAPS, for every value of the constants that satisfies the named assumptions (`RulesAssumption`,
`RanksAssumption`, `SeedsAssumption`, `NamesAssumption`, `MaxIdsAssumption`, `EngineAssumption`,
`LinesAssumption`, `SessionAssumption`, `LinksAssumption`, `BoundsAssumption`, `BodyAssumption`,
`StartsAssumption`, `LabelsAssumption`, `DirectoryAssumption`, `BlankAssumption`, `StepsAssumption`,
`PrimaryAssumption`, `WindowAssumption`, `TraversalAssumption`, `ActivationAssumption`,
`DeliberationAssumption`), which TLC evaluates for the values of the runs. Most say of
what kind a constant is. Those that say more: `RanksAssumption`, that the places of ids in their order
are numbers and no two share one, since ids are distinct strings; `SeedsAssumption`, that the seeds are
finitely many; `LinesAssumption`, that a name or a
preference extracted from a line is a value and a key of the store; `BodyAssumption`, the order of the
hashes, reads and checks of a script; `DirectoryAssumption`, which labels the review and the corpus
repaired by it may carry; `BlankAssumption`, that a corpus repaired by the blank review has fewer than
264 distinct propositions, which TLC computes from the data; `PrimaryAssumption` and `WindowAssumption`,
how the constants of the causal script fit; `TraversalAssumption`, that the keys of the edges have one
order, in which each stands once, and that there are finitely many nodes; `DeliberationAssumption`, that
the candidates of a list and the rules have different ids. The theorems about the memory use neither of the engine's
two assumptions.

| Theorem | Module | Argument |
|---|---|---|
| `ThoughtsAlwaysAcyclic` | `SymbolicPipelineProofs` | `AlwaysDag`: every nonempty set of thoughts has one without a predecessor in it, and edges only join thoughts of the graph. A new thought is only the target of its edge, from an older thought, so it can be left out of any set (`NewNodeKeepsDag`). No assumption on the order of ids is used |
| `CycleRefines` | `SymbolicPipelineProofs` | `TodoInv` (pending pairs name beliefs of the working copy) and `GrowthInv` (the working copy grows from the committed state all through a cycle, and equals it when idle) turn `Learn` into `Publish` and every `Raise` into `Abort` |
| `TypeCorrect` | `SymbolicPipelineProofs` | `ChainInv` ties the counter of firings to round and position, which bounds identifiers; `GraphsInv` needs it and `AlwaysDag` |
| `SaturatedAtFixpoint` | `SymbolicPipelineProofs` | `RoundInv`: while nothing fired in a round, neither beliefs nor firings changed, so the rules before the position still have no new premises; at the end of such a round no rule has |
| `SupersededByOne`, `PublishedIsConsistent`, `AlwaysGrounded` | `SymbolicPipelineProofs` | `VersionsInv`: a belief has an id of the constants and supersedes none, or its id is the version id of the one it supersedes and both are at confidence 0; version ids are derived from what they supersede, so no two share it. `RevisionInv`: the pairs left cover every contradiction between active beliefs, retiring one of the pair settles it and makes none active, and what inference adds contradicts nothing. `Grounded` is inductive with `GraphsInv`: a belief and its thought are added together, their support never changes, and a premise changes by being retired only |
| `AlwaysDecisionGrounded` | `SymbolicPipelineProofs` | `DecisionInv`: what is decided over are the candidates of the working copy that `Learn` publishes. The mean of the scores is a recursive function over the ids in their order (`InIdOrder`, where `RanksAssumption` and finiteness make every place taken), bounded step by step; the winner has the best score (`WinnerIsBest`), which needs every candidate to have a number: belief graphs stay finite over finitely many seeds (`FiniteInv`) |
| `TypeCorrect`, `RegistryTruthful`, `ShutdownStopsAll`, `FailedBootFinal` | `KernelProofs` | the transient states belong to the hook that is running; `ShutdownStopsAll` needs that what runs during a shutdown is still in the list to visit, `FailedBootFinal` that a stopped entry, or a running one, stands in the start order where the boot raised, and neither state can leave it |
| `TypeCorrect`, `LatestFact`, `AcknowledgedIsSaved`, `RefinesFactLog` | `CognitiveEngineProofs`, about `MemoryEngine` | `TypeInv` adds to `TypeOK` that the file holds no more entries than ids exist. `ConfirmKeepsEntries`: with one active entry per key a confirmation supersedes nothing; `AddKeepsChains`: a new entry is the successor of the one that was active, by position, so repeated ids do no harm. Chains are an invariant by themselves, and with them a confirmation is a stutter of the log |
| `EngineRunsTheMemory` | `CognitiveEngineProofs` | `ControlInv` ties the stage of a cycle to the phase of the memory engine; with it every step of the engine is one of the memory engine or leaves it alone (`MemoryStep`), so the theorems above hold in the engine |
| `LearningIsSaved` | `CognitiveEngineProofs` | `LearnInv`: each fact of the line is still due, or active and on disk; while one is saved it is active. The facts of one line have distinct keys (`FactsOfLine`), so storing the second does not supersede the first |
| `RepliesAreStored` | `CognitiveEngineProofs` | `RecallInv`: from retrieval to the decision the memories recalled are active entries, and what the context holds is active at any time, also after a save that failed, since the entry stays in memory; a new process begins with an empty context |
| `TraceIsOfTheRecord` | `CognitiveEngineProofs` | `TraceInv`: at each stage the spans are the first so many of the twelve, because a cycle begins by forgetting those of one that raised, and the record is of the cycle from the decision on; with that the trace written is the whole one of the record |
| `TypeCorrect`, `AlwaysAcyclic`, `RefinesDag` | `AlgorithmProofs` | `PathInv` (the stack is a path of distinct nodes) makes an edge to a node being visited close a cycle (`CycleFound`). `ColourInv` (finished nodes lead to finished nodes only and form an acyclic part) makes a search that ends a proof of acyclicity: a node finishes when all it leads to has, so it can be added as a source (`NewSource`). `SortInv` counts in `in_degree` the edges from thoughts not emitted; an acyclic rest always has a thought that waits for none of it, so an empty queue means that all are emitted (`SortComplete`). The thoughts need not be finitely many; the edges of a reachable graph are |
| `SearchesKeepTheirInvariant`, `SearchesAreExact`, `ShortestPathIsShortest` | `AlgorithmProofs` | Breadth-first searches: the queue holds shortest walks, first those of the depth at hand and then those of the next (`QueueInv`); a visited node waits, is at hand, has its edges handled, or is at the limit (`VisitedInv`); what is listed comes by distance (`ListsInv`). So when the queue is empty every ball up to the limit is visited, by induction on the distance. `dfs`: an entry of the stack is owed to an edge of a listed node, and all that this node's smaller keys and all later nodes lead to is visited or above it (`StackInv`, `Owed`), which makes the list a preorder. `ancestors`: the visited nodes are closed under the filter (`AncestorsInv`). The recursive `Ball` is unfolded step by step, and the induction is that a set of numbers closed under successor holds all of them (`AllNaturals`), from the well-foundedness of `<` |
| `ActivationAddsUp` | `AlgorithmProofs` | `NothingLost`: at each turn, what a concept has, plus what the queued entries will bring it over all their walks, plus what the edges still to be looked at pass on, is the sum over walks from the seed (`Reaching`). Taking an entry turns its part into those of its edges, spreading moves an edge's part into the activation and the queue, and what the threshold cuts brings nothing; with both empty the activation is the sum. `Reaching` is recursive over the hops, `Total` over a sequence: their unfoldings come from `RecursionExists`, and `Total` does not depend on the order in which edges are taken (`TotalReplace`) |
| `ChoicesAreOfTheCandidates` | `AlgorithmProofs` | each order is strict and total because ids differ (`BeforeOrders`), so the rank of a candidate is the number of better ones, every rank is taken once (a pigeonhole over finite cardinalities, `EveryPlaceTaken`) and depends on the set of candidates alone (`RankedIgnoresOrder`) |
| `ChainsAreInOrderOfUse` | `AlgorithmProofs` | `ChainVisited`: a rule visited is listed or on the stack, once. `ChainStack`: each rule on the stack concludes a premise of the one below, so with rules that do not rest on themselves the stack descends through their layers and, the rules on it being different, is never higher than there are rules (`StackFitsRules`): a sufficient depth never cuts the search. `ChainUsed`: what is listed is needed by a later rule or one on the stack. `ChainSettled`: the first rule for each premise passed is listed, or lies just above on the stack; it cannot lie below, as it would be in a lower layer than itself |
| `TypeCorrect`, `SaveExtends`, `StoppedSaved`, `RefinesCheckpoint` | `SessionProofs` | `LoopInv` (what the kernel's loops visit), `CallInv` (the runtime is `STARTING` exactly during its start hook, and saves only while `STOPPING`), `StartedInv` (a runtime that started is `RUNNING` until the session is left, and a session that has not started one has processed nothing while it boots) and `FileInv` (the file of a `RUNNING` runtime can be read and its state is a prefix). So a second start never rolls back, and a stop never meets a file it does not extend |
| `TypeCorrect`, `Delivery` | `EventBusProofs` | `CalledThePrefix`: a call from whose list nothing was removed has called exactly the positions it passed, of a list that only grows at its end or is let go whole; a clear and every registration keep it, an unsubscription makes it void |
| `MissesAreBounded` | `EventBusProofs` | `ShortBounded`: a handler is short when what it received and what the list still has for it ahead are fewer than its registrations at the call. An unsubscription makes at most one handler short and is counted; no other step makes any, a clear lets the call keep its list |
| `TypeCorrect`, `ClosingComparison` | `ArtifactScriptsProofs` | no two writes have the same stamp, so the bytes of a file at a comparison that agrees are those of the hash and no write lies in between (`Ordered`, `Vouched`); `BodyAssumption` puts every parse between the two |
| `FrozenIsReviewed` | `ArtifactScriptsProofs` | `LabelInv`: a whole review, and a whole corpus repaired by it, carry the labels of a review; a process has read what is behind it, and the checks it passed still accept what it read, because nothing is read after a check. Then the count of propositions excludes the blank review for the corpus (`BlankAssumption`), and the count of labels for the records (`BlankHasNoPositive`). The hypothesis of the theorem, that the check of the freeze is `FreezeAccepts`, is so by definition in the scripts of the directory (`ChecksPassIsFreezeAccepts`) |
| `TypeCorrect`, `EndpointMeasured`, `GateCheckpointSaved`, `VerdictPastGate` | `CausalInterventionProofs` | `CountsItsSteps` ties the zeros, the onset and the steps of a run: a guard that fires has seen `K` steps since the onset; with `PrimaryAssumption` and `WindowAssumption` the checkpoints are behind it. `LaunchesInOrder` and `PassedTheGate`: a launch that holds its own B past the gate had it passed |

Not proved, and why. `CycleEnds`, `CallsReturn`, `LeavingEnds` and `CyclesEnd` are liveness. The corpus and
the benchmarks (`CorpusMeetsItsManifest`, `CorpusPasses`, `BaselineReproduced`) are about one set of data
written down in the source, which TLC evaluates and nothing is general about. `ReplayMatches` compares two
executions of whole cycles over the cases of the corpus. These are only model-checked. So is that the
constants of the runs satisfy the assumptions.

## Met while modelling

Disagreements between the code and what a document, a docstring or a name says, for which no run is kept.

- Pipeline: a rule that fired in a committed cycle raises `DuplicateIdError` in a later one
  (`FireRuleAgain`; `CANON.md:74`); the goal stack changes before LEARNING (`CANON.md:63`); a decision over an empty graph refers to a thought of no
  graph (`CANON.md:68`); `ADR-0028` has a failed provider in the provenance, and no code sets
  `ProviderStatus.FAILED`.
- Kernel: subsystems stop in the reverse order of registration, not of boot (`boot/__init__.py:107`).
- Memory: ids repeat after a restart that follows a confirmation (`deterministic_memory.py:8`).
- Engine: "I'll remember" is said of an entity of the pattern although no mapping stores it
  (`cognition/inference/strategies/rule_based.py:113`); a greeting that introduces a new name uses the
  old one; goals are never completed and the limit on active goals is read by nobody.
- Replay: the factory `bootstrap` gives the replay engine always builds a `SymbolicRuntime`, so `/replay`
  in `chat --engine legacy` runs the symbolic engine, where the docstring of the replay engine has legacy
  traces fall back to a comparison of texts.
- Searches: on a cycle of `is_a` a concept is its own descendant but not its own ancestor;
  `sub_chain_valid` is always true; a rejected candidate takes a place among the pruned;
  `search_concepts` of the engine gets the whole text. `backward_chain` may list a rule nothing requires,
  against "List of InferenceRule instances required to satisfy the goal" (`symbolic/inference/engine.py:195`):
  a premise met a second time finds its first rule visited and takes the next one that concludes the same.
- Corpus: 15 of 65 REPEAT records are labelled DERIVABLE by the oracle; the duplicate repair pairs records
  in the generator's order with a review in shuffled order, and the assertion of 264 unique propositions
  passes only because of it (paired by id there are 262); the manifest's `schema_invariants_verified` is a
  constant (`quality_gates.py:495`); `execute_final_freeze.py:78` hashes the deduplicated file after it was
  loaded; a calibration run again overwrites a finished review; several scripts of phase 6C write their
  results before the closing comparison, those of 6E.2 to 6E.6 never compare; the train and dev splits
  share propositions, which `docs/research/theo-slm-training-v0.md:304` excludes.
- Causal experiment: the joint spectrum may be of the file of an earlier launch; a launch of `I1 C2` takes
  the partial B whatever its gate said, and its verdict stands beside the gate of another launch (which
  `VerdictOfOwnBaseline` therefore excludes); a B that collapses before the printed checkpoints raises
  before its partial results are written; a launch without all three runs raises after `runs.json`;
  `H_CAUSAL_PARTIALLY_SUPPORTED` cannot be reached.

## Not modelled

- The scheduler's budget: the pipeline ignores what `record_stage` returns, so nothing depends on it.
- The gap analyzer, the response renderer and language output: texts computed from a finished cycle.
- The comparison of legacy traces: it compares renderings, and the model has no text.
- Composition, configuration, logging, domain classes and ports: no state whose order of changes matters.
- The packages `capabilities`, `datasets`, `identity`, `registry`, `scheduler`, `sdk`, `security`,
  `services`, `skills`, `tokenization`, `training`: every module of them is a docstring.
- In the dataset scripts: training, statistics and geometry, that is, floating-point computation, and the
  generator the repaired one replaced.

## How the project was built, and what is left

The order was: the pipeline with its abstract cycle, the kernel, the memory engine, the runtime and its
session, the thought graph, each checked and then proved; then the event bus, the legacy engine over the
memory engine, the pure algorithms, the benchmark corpus over the pipeline, the dataset scripts with the
corpus, and the causal experiment, with proofs for the first and the last two; then replay over the
benchmark corpus, and the proofs about chaining, versions, consistency and decisions of the pipeline,
about the legacy engine, missed deliveries and the frozen corpus; last, the pure algorithms taken one turn
of their loops at a time, with the proofs about them. The legacy engine extends `MemoryEngine` instead of
instantiating it, and the scripts extend `ArtifactScripts`, so that the two share their variables by name.

Left: that the `Replay` of a single cycle over arbitrary rules commits, as far as it does not rest on
the evaluation of a case; a bound on the goal stack, which the code does not have.
