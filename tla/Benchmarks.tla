----------------------------- MODULE Benchmarks -----------------------------
(***************************************************************************)
(* BenchmarkHarness.run: each case of the frozen corpus gets its own       *)
(* pipeline, seeded with the beliefs, rules and goals of the case, runs    *)
(* one cycle on the case's percept and is then compared with what the case *)
(* expects.  The pipeline is SymbolicPipeline, with the constants of the   *)
(* case, so what is compared is the model the other runs check.  The       *)
(* harness may be given a coordinator: hooks are configured all or none.   *)
(* Replay drives the pipeline of a case by a runtime instead.              *)
(***************************************************************************)
EXTENDS BenchmarkCases, FiniteSets, SequencesExt

VARIABLES
  driver,      \* "harness" here; Replay has others
  case,        \* the case being run
  hooks,       \* hooks the coordinator of the run answers
  committed, working, stage, percept, todo, chain, hypotheses, observed,
  decision, goals, invoked, provenance, outcome     \* of its pipeline

pipeline == <<committed, working, stage, percept, todo, chain, hypotheses, observed,
              decision, goals, invoked, provenance, outcome>>
vars == <<driver, case, hooks, pipeline>>

AllHooks == {"rank_rules", "propose_hypotheses", "score_hypotheses", "rank_goals",
             "score_confidence"}

Ids(s) == [i \in DOMAIN s |-> s[i].id]
Named(s, id) == CHOOSE x \in ToSet(s) : x.id = id
Position(s, id) == CHOOSE i \in DOMAIN s : s[i].id = id

\* A text that shares no word with any case.
Unrelated == "unrelated"

\* The order of the id strings: seeds, then derived beliefs, then percepts.
RankOfBelief(c, b) ==
  CASE b.kind = "none" -> 0
    [] b.kind = "seed" -> 10 * Position(c.seeds, b.name) + b.rev
    [] b.kind = "inf" -> 1000 * Position(c.rules, b.name) + 10 * b.n + b.rev
    [] OTHER -> 100000 + (IF b.name = c.percept THEN 0 ELSE 10) + b.rev
RankOfThought(c, t) == IF t.rule = "sys" THEN 100000 ELSE 100 * Position(c.rules, t.rule) + t.n

\* The pipeline the harness builds for a case.
Pipeline(c, h) == INSTANCE SymbolicPipeline WITH
  Percepts <- {c.percept, Unrelated},
  Seeds <- ToSet(Ids(c.seeds)),
  SeedBelief <- [s \in ToSet(Ids(c.seeds)) |-> Named(c.seeds, s)],
  ContradictEdges <- c.contradicts,
  Mentions <- {},
  Rules <- Ids(c.rules),
  Conditions <- [r \in ToSet(Ids(c.rules)) |-> <<Named(c.rules, r)>>],
  Conclusion <- [r \in ToSet(Ids(c.rules)) |-> Named(c.rules, r).conclusion],
  Multiplier <- [r \in ToSet(Ids(c.rules)) |-> Named(c.rules, r).multiplier],
  Relevant <- [p \in {c.percept, Unrelated} |->
                 {p} \cup (IF p = c.percept THEN c.relevant ELSE {})],
  BeliefRank <- LAMBDA b : RankOfBelief(c, b),
  ThoughtRank <- LAMBDA t : RankOfThought(c, t),
  Configured <- h,
  InitialGoals <- c.goals,
  MaxIterations <- 5

Seeded ==
  \E c \in Cases, h \in {{}, AllHooks} :
    /\ case = c /\ hooks = h
    /\ Pipeline(c, h)!Init
    /\ Cardinality(DOMAIN committed.beliefs) = Len(c.seeds)

Init == driver = "harness" /\ Seeded

ExecuteCycle(c, h) ==
  /\ driver = "harness" /\ case = c /\ hooks = h
  /\ \/ percept = "none" /\ Pipeline(c, h)!Perceive(c.percept)
     \/ Pipeline(c, h)!Cycle
  /\ UNCHANGED <<driver, case, hooks>>

Next == \E c \in Cases, h \in {{}, AllHooks} : ExecuteCycle(c, h)

Spec == Init /\ [][Next]_vars

-----------------------------------------------------------------------------
(* The golden trace of the cycle. *)

SortedBy(S, Before(_, _)) ==
  [i \in 1..Cardinality(S) |-> CHOOSE x \in S : Cardinality({y \in S : Before(y, x)}) = i - 1]

\* get_active_beliefs before the cycle: the seeds of at least 0.1, by id.
Retrieved == SelectSeq(case.seeds, LAMBDA s : s.conf >= 1000)

\* Candidates are numbered by the id of their belief, and evaluated ones
\* listed by score, then by number.
Number(h) ==
  Cardinality({k \in observed : RankOfBelief(case, k.belief) <= RankOfBelief(case, h.belief)})
Evaluated ==
  SortedBy(observed,
           LAMBDA h, k : h.score > k.score \/ (h.score = k.score /\ Number(h) < Number(k)))

ActiveAfter == {b \in DOMAIN committed.beliefs : committed.beliefs[b].conf >= 1000}
Derived ==
  SortedBy({b \in ActiveAfter : \A i \in DOMAIN Retrieved :
               <<b.kind, b.name, b.rev>> # <<"seed", Retrieved[i].id, 1>>},
           LAMBDA a, b : RankOfBelief(case, a) < RankOfBelief(case, b))

Concepts == case.concepts

Produced ==
  [concepts |-> Concepts,
   retrieved |-> Ids(Retrieved),
   hypotheses |-> [i \in DOMAIN Evaluated |-> Number(Evaluated[i])],
   fired |-> {t.rule : t \in DOMAIN committed.thoughts},
   conflicts |-> [i \in 1..(Len(Evaluated) - 1) |->
                    <<Number(Evaluated[1]), Number(Evaluated[i + 1])>>],
   thoughts |-> Cardinality(DOMAIN committed.thoughts),
   derived |-> [i \in DOMAIN Derived |->
                  IF Derived[i].kind = "percept" THEN <<"percept", 0>>
                  ELSE <<Derived[i].name, Derived[i].n>>]]

\* _golden_trace_mismatches: fields left at their defaults are not asserted.
Mismatches(expected) ==
  {f \in DOMAIN expected : expected[f] # NoTrace[f] /\ expected[f] # Produced[f]}

-----------------------------------------------------------------------------
(* The comparison with the case. *)

IntentOfGoal ==
  [AcknowledgeGreeting |-> "acknowledge_greeting", RememberFact |-> "remember_fact",
   ProvideRecommendation |-> "provide_recommendation", AnswerQuestion |-> "answer_question",
   MaintainConversation |-> "maintain_conversation"]
SlugOfGoal ==
  [AcknowledgeGreeting |-> "acknowledgegreeting", RememberFact |-> "rememberfact",
   ProvideRecommendation |-> "providerecommendation", AnswerQuestion |-> "answerquestion",
   MaintainConversation |-> "maintainconversation"]

Finished == driver = "harness" /\ outcome = "committed"
Confidence == IF decision.type = "defer" THEN 0 ELSE Evaluated[1].score

\* The proposition the action text quotes.
Answer ==
  CASE decision.type = "defer" -> "deferred"
    [] decision.belief.kind = "none" -> "direct"
    [] committed.beliefs[decision.belief].prop = case.percept -> "percept"
    [] OTHER -> committed.beliefs[decision.belief].prop

ActivePropositions == {committed.beliefs[b].prop : b \in ActiveAfter}

\* run, with the checks in the order of its docstring.  A coordinator may
\* replace the confidence, so its bounds are not compared then.
Passes ==
  /\ decision.type = "response"
  /\ hooks = {} => Confidence >= case.min /\ Confidence <= case.max
  /\ Answer = case.answer
  /\ case.intent \in {"any", IntentOfGoal[decision.goal]}
  /\ case.active \subseteq ActivePropositions
  /\ case.excluded \cap ActivePropositions = {}
  /\ Mismatches(case.golden) = {}

-----------------------------------------------------------------------------
(* Properties. *)

\* Every case of the corpus passes the harness, with and without providers on
\* the hooks: seeding, revision, chaining, scoring, conflict resolution and the
\* decision together give what the case was frozen with.
CorpusPasses == Finished => Passes

\* The measurement frozen with a case before any provider existed, which the
\* harness itself never compares, is what the pipeline still produces: every
\* trace field, the accepted hypothesis and its confidence, and the goal.
BaselineReproduced ==
  Finished /\ case.accepted # <<>> =>
    /\ Mismatches(case.baseline) = {}
    /\ case.accepted = <<Number(Evaluated[1]), Confidence>>
    /\ case.goal = SlugOfGoal[decision.goal]

=============================================================================
