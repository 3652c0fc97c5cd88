------------------------------- MODULE Replay -------------------------------
(***************************************************************************)
(* SymbolicRuntime.process over the pipeline of a case, with a trace       *)
(* recorder, and ReplayEngine.replay of the traces.                        *)
(*                                                                         *)
(* A cycle that commits is recorded as one JSON file: its input, response, *)
(* golden fingerprint, the committed state before it and the checksums of  *)
(* the states before and after.  The file is opened, which empties it, and *)
(* then written.  A replay reads one file, in this process or in another   *)
(* one, at any time; it builds a fresh runtime with the same rules and no  *)
(* coordinator, restores the state before the cycle, runs the input again  *)
(* and compares.  What the process did otherwise no longer matters then.   *)
(*                                                                         *)
(* Data: a JSON payload is the record it holds and a SHA-256 checksum what *)
(* it is computed from.  The wall-clock fields of a state are the number   *)
(* of the cycle that wrote them last.                                      *)
(***************************************************************************)
EXTENDS Benchmarks

CONSTANT MaxTurns    \* bound: percepts submitted to the runtime

ASSUME MaxTurnsAssumption == MaxTurns \in Nat \ {0}

VARIABLES
  rest,        \* what pipeline.state holds besides the graphs of `committed`
  before,      \* pre_state of the running process, or of the replay
  recording,   \* "due" once a cycle committed, "open" once its file is
  traces,      \* the trace files, in the order they were opened
  turns,       \* cycles begun so far
  replayed,    \* the trace being replayed
  verdict      \* of the ReplayResult

recorder == <<rest, before, recording, traces, turns, replayed, verdict>>
replayVars == <<vars, recorder>>

-----------------------------------------------------------------------------
(* Graphs and states as JSON payloads. *)

\* GraphSerializer.serialize
Envelope(type, nodes, edges) ==
  LET listed == {<<id, nodes[id]>> : id \in DOMAIN nodes}
  IN  [graph_type |-> type, nodes |-> listed, edges |-> edges, checksum |-> <<listed, edges>>]

\* GraphLoader.deserialize raises unless all of these hold: the type and the
\* checksum are right, no id comes twice (add_node) and both ends of an edge
\* are nodes (add_edge).
Loads(type, e) ==
  LET ids == {q[1] : q \in e.nodes} IN
  /\ e.graph_type = type
  /\ e.checksum = <<e.nodes, e.edges>>
  /\ \A q, r \in e.nodes : q[1] = r[1] => q = r
  /\ e.edges \subseteq ids \X ids

NodesOf(e) ==
  [id \in {q[1] : q \in e.nodes} |-> (CHOOSE q \in e.nodes : q[1] = id)[2]]

CycleState(concepts, graphs, text, stamped) ==
  [concepts |-> concepts, graphs |-> graphs, percept |-> text, stamped |-> stamped]

\* The CONTRADICTS edges of the belief graph, which no cycle changes.
BeliefEdges == {<<Pipeline(case, {})!SeedId(s), Pipeline(case, {})!SeedId(t)>> :
                  <<s, t>> \in {q \in ToSet(Ids(case.seeds)) \X ToSet(Ids(case.seeds)) :
                                  {q[1], q[2]} \in case.contradicts}}

SerializeCycleState(s) ==
  [concepts |-> Envelope("concept", [id \in s.concepts |-> id], case.isA),
   beliefs |-> Envelope("belief", s.graphs.beliefs, BeliefEdges),
   thoughts |-> Envelope("thought", s.graphs.thoughts, s.graphs.edges),
   percept |-> s.percept,
   stamped |-> s.stamped]

Deserializes(data) ==
  /\ Loads("concept", data.concepts)
  /\ Loads("belief", data.beliefs)
  /\ Loads("thought", data.thoughts)

\* Fault: the thought graph is not restored.
DeserializeWithoutThoughts(data) ==
  CycleState(DOMAIN NodesOf(data.concepts),
             [beliefs |-> NodesOf(data.beliefs), thoughts |-> <<>>, edges |-> {}],
             data.percept, data.stamped)

DeserializeCycleState(data) ==
  CycleState(DOMAIN NodesOf(data.concepts),
             [beliefs |-> NodesOf(data.beliefs), thoughts |-> NodesOf(data.thoughts),
              edges |-> data.thoughts.edges],
             data.percept, data.stamped)

\* checksum_cycle_state: over the payload without its wall-clock fields and
\* without the checksums of the graphs, which repeat them.
ChecksumCycleState(s) ==
  LET data == SerializeCycleState(s)
      Projected(e) == <<e.graph_type, e.nodes, e.edges>>
  IN  <<Projected(data.concepts), Projected(data.beliefs), Projected(data.thoughts),
        data.percept>>

-----------------------------------------------------------------------------
(* Recording. *)

\* pipeline.state
PipelineState == CycleState(rest.concepts, committed, rest.percept, rest.stamped)

ActiveBefore(s) == {b \in DOMAIN s.graphs.beliefs : s.graphs.beliefs[b].conf >= 1000}

\* golden_fingerprint of the cycle just committed, which began in state s.
GoldenFingerprint(s) ==
  [decision |-> <<decision.type, decision.belief>>,
   response |-> Answer,
   activated |-> rest.concepts,
   retrieved |-> ActiveBefore(s),
   hypotheses |-> Produced.hypotheses,
   fired |-> {t.rule : t \in DOMAIN committed.thoughts \ DOMAIN s.graphs.thoughts},
   derived |-> ActiveAfter \ ActiveBefore(s),
   conflicts |-> Produced.conflicts,
   thoughts |-> Cardinality(DOMAIN committed.thoughts)]

Torn == [whole |-> FALSE]

\* The CognitiveTrace record_trace builds, with its metadata.
CognitiveTrace ==
  [whole |-> TRUE, input |-> percept, response |-> Answer,
   fingerprint |-> GoldenFingerprint(before[1]),
   pre |-> SerializeCycleState(before[1]),
   hash_before |-> ChecksumCycleState(before[1]),
   hash_after |-> ChecksumCycleState(PipelineState)]

ReplayInit ==
  /\ driver \in {"harness", "runtime"}
  /\ Seeded
  /\ rest = [concepts |-> ToSet(case.concepts), percept |-> "none", stamped |-> 0]
  /\ before = <<>> /\ recording = "no" /\ traces = <<>> /\ turns = 0
  /\ replayed = 0 /\ verdict = "none"

Process(c, h, p) ==
  /\ driver = "runtime" /\ case = c /\ hooks = h
  /\ recording = "no" /\ turns < MaxTurns
  /\ Pipeline(c, h)!Perceive(p)
  /\ before' = <<PipelineState>>
  /\ turns' = turns + 1
  /\ UNCHANGED <<driver, case, hooks, rest, recording, traces, replayed, verdict>>

\* The cycle goes on; published, its state has the percept, and the nodes it
\* added have the time.  One that raises leaves neither a state nor a trace.
Continue(c, h) ==
  /\ driver \in {"runtime", "replay"} /\ case = c /\ hooks = h
  /\ Pipeline(c, h)!Cycle
  /\ IF stage = "learn"
     THEN /\ rest' = [rest EXCEPT !.percept = percept, !.stamped = turns]
          /\ recording' = IF driver = "runtime" THEN "due" ELSE "no"
     ELSE UNCHANGED <<rest, recording>>
  /\ UNCHANGED <<driver, case, hooks, before, traces, turns, replayed, verdict>>

OpenTrace ==
  /\ driver = "runtime" /\ recording = "due"
  /\ recording' = "open"
  /\ traces' = Append(traces, Torn)
  /\ UNCHANGED <<vars, rest, before, turns, replayed, verdict>>

WriteTrace ==
  /\ driver = "runtime" /\ recording = "open"
  /\ recording' = "no"
  /\ traces' = [traces EXCEPT ![Len(traces)] = CognitiveTrace]
  /\ UNCHANGED <<vars, rest, before, turns, replayed, verdict>>

-----------------------------------------------------------------------------
(* Replay. *)

\* load_trace returns None for a file it cannot read.
ReplayNotFound(i) ==
  /\ driver = "runtime" /\ ~ traces[i].whole
  /\ driver' = "replayed"
  /\ replayed' = i /\ verdict' = "not_found"
  /\ UNCHANGED <<case, hooks, pipeline, rest, before, recording, traces, turns>>

\* _build_engine: a fresh runtime, whose pipeline has the rules of the case
\* and nothing else, and restore_state.
BuildEngine(c, i) ==
  LET restored == DeserializeCycleState(traces[i].pre)
      fresh == Pipeline(c, {})!NoChain
  IN
  /\ driver = "runtime" /\ case = c /\ traces[i].whole
  /\ driver' = IF Deserializes(traces[i].pre) THEN "replay" ELSE "raised"
  /\ replayed' = i
  /\ committed' = restored.graphs /\ working' = restored.graphs
  /\ rest' = [concepts |-> restored.concepts, percept |-> restored.percept,
              stamped |-> restored.stamped]
  /\ before' = <<restored>>
  /\ hooks' = {} /\ goals' = <<>>
  /\ stage' = "idle" /\ percept' = "none" /\ outcome' = "none"
  /\ todo' = {} /\ chain' = fresh /\ hypotheses' = {} /\ observed' = {}
  /\ decision' = Pipeline(c, {})!NoDecision
  /\ invoked' = <<>> /\ provenance' = <<>>
  /\ recording' = "no"
  /\ UNCHANGED <<case, traces, turns, verdict>>

ProcessAgain(c) ==
  /\ driver = "replay" /\ case = c /\ percept = "none"
  /\ Pipeline(c, {})!Perceive(traces[replayed].input)
  /\ turns' = turns + 1
  /\ UNCHANGED <<driver, case, hooks, rest, before, recording, traces, replayed, verdict>>

\* The response, both checksums and the fingerprint are compared.
Matched(t) ==
  /\ Answer = t.response
  /\ ChecksumCycleState(before[1]) = t.hash_before
  /\ ChecksumCycleState(PipelineState) = t.hash_after
  /\ GoldenFingerprint(before[1]) = t.fingerprint

Compare ==
  /\ driver = "replay" /\ stage = "idle" /\ outcome = "committed"
  /\ driver' = "replayed"
  /\ verdict' = IF Matched(traces[replayed]) THEN "match" ELSE "mismatch"
  /\ UNCHANGED <<case, hooks, pipeline, rest, before, recording, traces, turns, replayed>>

ReplayNext ==
  \/ Next /\ UNCHANGED recorder
  \/ \E c \in Cases, h \in {{}, AllHooks} :
        (\E p \in {c.percept, Unrelated} : Process(c, h, p)) \/ Continue(c, h)
  \/ OpenTrace \/ WriteTrace
  \/ \E i \in DOMAIN traces :
        ReplayNotFound(i) \/ \E c \in Cases : BuildEngine(c, i)
  \/ \E c \in Cases : ProcessAgain(c)
  \/ Compare

ReplaySpec == ReplayInit /\ [][ReplayNext]_replayVars

-----------------------------------------------------------------------------
(* Property. *)

\* Replay is faithful "even for later turns of a multi-turn session"
\* (ReplayEngine._build_engine): whatever the runtime did before and after the
\* recorded cycle, with failed cycles, failing providers and seeded goals the
\* fresh runtime knows nothing of, the cycle commits again from the restored
\* state and the response, both checksums and the fingerprint match.  Only a
\* trace whose write was cut off is reported as not found.
ReplayMatches ==
  /\ driver # "raised"
  /\ driver = "replay" => outcome \in {"none", "committed"}
  /\ driver = "replayed" =>
        verdict = IF traces[replayed].whole THEN "match" ELSE "not_found"

=============================================================================
