-------------------------- MODULE SymbolicPipeline --------------------------
(***************************************************************************)
(* SymbolicCognitivePipeline.execute_cycle and the engines it drives:      *)
(* belief revision, forward chaining, hypothesis evaluation, the decision  *)
(* engine, the five provider hooks and the goal stack.                     *)
(*                                                                         *)
(* The stages of a cycle compute over `working`, a copy of the committed   *)
(* graphs; the LEARNING stage publishes it.  An exception in any stage     *)
(* leaves execute_cycle at once.  One step of this module is one stage, or *)
(* one turn of a loop inside a stage.                                      *)
(*                                                                         *)
(* Data: a proposition is a name; the condition of a rule is the set of    *)
(* propositions its predicate occurs in; a confidence is a number of       *)
(* ten-thousandths, the precision evaluate_hypotheses rounds to.           *)
(***************************************************************************)
EXTENDS Integers, Sequences, FiniteSets

CONSTANTS
  Percepts,          \* the texts a caller may submit
  Seeds,             \* names of the beliefs a seeded graph may hold
  SeedBelief,        \* [Seeds -> [prop, conf]]
  ContradictEdges,   \* set of two-element sets of seeds: CONTRADICTS edges
  Mentions,          \* pairs <<s, t>>: t is in the contradictions field of s
  Rules,             \* the rule ids, by decreasing salience, then by id
  Conditions,        \* rule -> sequence of [pred: set of propositions, min]
  Conclusion,        \* rule -> proposition it derives
  Multiplier,        \* rule -> confidence multiplier
  Relevant,          \* percept -> propositions containing one of its words
  BeliefRank(_),     \* position of a belief id in the order of id strings
  ThoughtRank(_),    \* position of a thought id in the order of id strings
  Configured,        \* the hooks some registered provider answers
  InitialGoals,      \* active goals on the stack before the first cycle
  MaxIterations      \* rounds of forward chaining (5 in the code)

One == 10000           \* confidence 1.0
ActiveMin == 1000      \* get_active_beliefs: 0.1
DecisionMin == 5000    \* make_decision: 0.5
DefaultScore == 5000   \* the hypothesis of a percept no belief matches: 0.5
DefaultGoal == "MaintainConversation"
HookOrder == <<"rank_rules", "propose_hypotheses", "score_hypotheses",
               "rank_goals", "score_confidence">>

RuleIds == {Rules[i] : i \in DOMAIN Rules}
MaxFirings == MaxIterations * Len(Rules)

ASSUME RulesAssumption ==
  /\ Rules \in Seq(RuleIds)
  /\ MaxIterations \in Nat \ {0}
  /\ \A r \in RuleIds : Multiplier[r] \in 0..One

ASSUME SeedsAssumption ==
  /\ IsFiniteSet(Seeds)
  /\ \A s \in Seeds : SeedBelief[s].conf \in 0..One
  /\ ContradictEdges \subseteq {{s, t} : s, t \in Seeds}
  /\ Mentions \subseteq Seeds \X Seeds

(***************************************************************************)
(* Identifiers.  A version id is the id it supersedes with "/v<n>"         *)
(* appended, n being the revision it holds; seeds are created at revision  *)
(* 1, so the base id and the revision determine the version id.            *)
(***************************************************************************)
SeedId(s) == [kind |-> "seed", name |-> s, n |-> 0, rev |-> 1]
PerceptId(p) == [kind |-> "percept", name |-> p, n |-> 0, rev |-> 1]
InferredId(r, n) == [kind |-> "inf", name |-> r, n |-> n, rev |-> 1]
VersionId(b) == [kind |-> b.kind, name |-> b.name, n |-> b.n, rev |-> b.rev + 1]
NoBelief == [kind |-> "none", name |-> "none", n |-> 0, rev |-> 0]
ThoughtId(r, n) == [rule |-> r, n |-> n]
SystemThought == ThoughtId("sys", 0)

\* Places in the order of id strings: of the beliefs a cycle may find active,
\* of the default candidate, which has none, and of the thoughts, no two of
\* which share a place.
ASSUME RanksAssumption ==
  /\ \A s \in Seeds : BeliefRank(SeedId(s)) \in Nat
  /\ \A p \in Percepts : BeliefRank(PerceptId(p)) \in Nat
  /\ BeliefRank(NoBelief) \in Nat
  /\ \A r \in RuleIds, n \in 1..MaxFirings :
        BeliefRank(InferredId(r, n)) \in Nat /\ ThoughtRank(ThoughtId(r, n)) \in Nat
  /\ \A r, s \in RuleIds, n, k \in 1..MaxFirings :
        ThoughtRank(ThoughtId(r, n)) = ThoughtRank(ThoughtId(s, k)) => r = s /\ n = k

Belief(prop, conf, support, prev) ==
  [prop |-> prop, conf |-> conf, support |-> support, prev |-> prev]
Thought(conf, consumed) == [conf |-> conf, consumed |-> consumed]
State(b, t, e) == [beliefs |-> b, thoughts |-> t, edges |-> e]

\* A graph is a function from ids: Put adds an id or overwrites it.
Put(f, id, node) == [x \in DOMAIN f \cup {id} |-> IF x = id THEN node ELSE f[x]]

VARIABLES
  committed,    \* pipeline.concepts / beliefs / thoughts: S_t
  working,      \* the copy the stages of the running cycle compute over
  stage,        \* the stage about to run; "idle" between cycles
  percept,      \* the text of the running cycle
  todo,         \* contradictions detected and not yet reconciled
  chain,        \* locals of forward_chain
  hypotheses,   \* evaluated candidates of the running cycle
  observed,     \* pipeline.last_hypotheses: set when HYPOTHESIS ran last
  decision,     \* the decision of the running, then of the last, cycle
  goals,        \* GoalManager._goals that are active, top first
  invoked,      \* provider_invocations of the running cycle
  provenance,   \* pipeline.provider_provenance
  outcome       \* how the last cycle ended

locals == <<percept, todo, chain, hypotheses, invoked>>
results == <<observed, decision, goals, provenance, outcome>>
vars == <<committed, working, stage, locals, results>>

NoChain ==
  [iteration |-> 1, position |-> 1, counter |-> 0, fired |-> {}, progressed |-> FALSE]
NoDecision == [type |-> "none", belief |-> NoBelief, refs |-> {}, goal |-> "none"]

-----------------------------------------------------------------------------
(* Queries on the belief graph and the thought graph. *)

Active(bs) == {b \in DOMAIN bs : bs[b].conf >= ActiveMin}

\* get_contradicting_beliefs: edges in either direction (an edge needs both
\* its ends in the graph), then the ids in the belief's own field.
Contradicting(bs, b) ==
  {c \in DOMAIN bs : /\ b.kind = "seed" /\ c.kind = "seed" /\ b.rev = 1 /\ c.rev = 1
                     /\ {b.name, c.name} \in ContradictEdges}
  \cup {SeedId(t) : t \in {u \in Seeds : b.kind = "seed" /\ <<b.name, u>> \in Mentions}}

\* detect_contradictions: every active belief in id order, with every id it
\* contradicts; a pair met again from its other end is dropped.
DetectContradictions(bs) ==
  {q \in Active(bs) \X (DOMAIN bs \cup {SeedId(s) : s \in Seeds}) :
      /\ q[2] \in Contradicting(bs, q[1])
      /\ ~ /\ q[2] \in Active(bs)
           /\ q[1] \in Contradicting(bs, q[2])
           /\ BeliefRank(q[2]) < BeliefRank(q[1])}

\* The pair the loop of the REVISION stage takes next.
Precedes(p, q) ==
  \/ BeliefRank(p[1]) < BeliefRank(q[1])
  \/ p[1] = q[1] /\ BeliefRank(p[2]) <= BeliefRank(q[2])

\* The ids a condition takes its premise from: the first match in id order.
FirstMatch(bs, cond) ==
  LET matching == {b \in DOMAIN bs : bs[b].conf >= cond.min /\ bs[b].prop \in cond.pred}
  IN  {b \in matching : \A c \in matching : BeliefRank(b) <= BeliefRank(c)}

\* The tuple of premises of a rule: none when a condition has no match, or
\* when the rule has no conditions.
Premises(bs, r) ==
  {m \in [DOMAIN Conditions[r] -> DOMAIN bs] :
      /\ DOMAIN Conditions[r] # {}
      /\ \A i \in DOMAIN Conditions[r] : m[i] \in FirstMatch(bs, Conditions[r][i])}

\* Fault: the most certain premise decides.
HighestConf(bs, m) ==
  CHOOSE c \in {bs[m[i]].conf : i \in DOMAIN m} :
    \A i \in DOMAIN m : c >= bs[m[i]].conf

LowestConf(bs, m) ==
  CHOOSE c \in {bs[m[i]].conf : i \in DOMAIN m} :
    \A i \in DOMAIN m : c <= bs[m[i]].conf

\* prior_thoughts[-2]: the thought next to last in id order.
NextToLast(ts) ==
  {t \in ts : Cardinality({u \in ts : ThoughtRank(t) < ThoughtRank(u)}) = 1}

\* Fault: the new thought is linked to itself when it is next to last.
LinkSourcesUnchecked(ts, t) == NextToLast(ts \cup {t})

\* The thought a new thought is linked from: the next to last once it is
\* added, unless that is the new thought itself.
LinkSources(ts, t) == NextToLast(ts \cup {t}) \ {t}

FirstThoughts(ts) == {t \in ts : \A u \in ts : ThoughtRank(t) <= ThoughtRank(u)}

-----------------------------------------------------------------------------
(* Hypotheses and the decision. *)

\* The i-th of a set of thoughts in id order.
InIdOrder(S, i) ==
  CHOOSE t \in S : Cardinality({u \in S : ThoughtRank(u) <= ThoughtRank(t)}) = i

\* evaluate_hypotheses: the score of a belief's hypothesis, averaged in turn
\* with the confidence of each thought that consumed the belief, in id order.
Score(ts, conf, supporting) ==
  LET averaged[i \in 0..Cardinality(supporting)] ==
        IF i = 0 THEN conf
        ELSE (averaged[i - 1] + ts[InIdOrder(supporting, i)].conf) \div 2
  IN  averaged[Cardinality(supporting)]

\* generate_hypotheses: one candidate per active belief the percept shares a
\* word with, or a single default candidate.
Candidates(g, p) ==
  LET matching == {b \in Active(g.beliefs) : g.beliefs[b].prop \in Relevant[p]}
      Supporting(b) ==
        {t \in DOMAIN g.thoughts :
            \E i \in DOMAIN g.thoughts[t].consumed : g.thoughts[t].consumed[i] = b}
  IN  IF matching = {}
      THEN {[belief |-> NoBelief, thoughts |-> {}, score |-> DefaultScore]}
      ELSE {[belief |-> b, thoughts |-> Supporting(b),
             score |-> Score(g.thoughts, g.beliefs[b].conf, Supporting(b))] : b \in matching}

\* generate_hypotheses numbers the candidates in the order of their beliefs.
Number(hs, h) == Cardinality({k \in hs : BeliefRank(k.belief) <= BeliefRank(h.belief)})

\* The place of the id hypothesis://cand/i in the order of id strings, "1", "10",
\* "11", "2", for fewer than a thousand candidates.
CandidateRank(i) ==
  CASE i < 10 -> 1000 * i
    [] i \in 10..99 -> 100 * i + 1
    [] OTHER -> 10 * i + 2

\* Fault: the sort by score is ascending.
WinnerLowest(hs) == CHOOSE h \in hs : \A k \in hs : h.score <= k.score

\* resolve_hypotheses_conflict: the candidate ConflictResolver accepts, by
\* score, then by id.
Winner(hs) ==
  CHOOSE h \in hs : \A k \in hs :
    \/ k.score < h.score
    \/ /\ k.score = h.score
       /\ CandidateRank(Number(hs, h)) <= CandidateRank(Number(hs, k))

\* The thoughts a decision refers to when its hypothesis names none.
FallbackThoughts(ts) == IF ts = {} THEN {SystemThought} ELSE FirstThoughts(ts)

MakeDecision(hs, ts, goal) ==
  LET w == Winner(hs) IN
  IF w.score >= DecisionMin
  THEN [type |-> "response", belief |-> w.belief, goal |-> goal,
        refs |-> IF w.thoughts # {} THEN w.thoughts ELSE FallbackThoughts(ts)]
  ELSE [type |-> "defer", belief |-> NoBelief, goal |-> goal, refs |-> FallbackThoughts(ts)]

-----------------------------------------------------------------------------
(* Control. *)

\* Fault: the stages work on the committed graphs themselves.
RaiseInPlace(kind) ==
  /\ stage' = "idle"
  /\ outcome' = kind
  /\ committed' = working
  /\ decision' = NoDecision
  /\ todo' = {} /\ chain' = NoChain /\ hypotheses' = {} /\ invoked' = <<>>
  /\ UNCHANGED <<working, percept, observed, goals, provenance>>

\* An exception propagates out of execute_cycle: the working copy is dropped.
Raise(kind) ==
  /\ stage' = "idle"
  /\ outcome' = kind
  /\ working' = committed
  /\ decision' = NoDecision
  /\ todo' = {} /\ chain' = NoChain /\ hypotheses' = {} /\ invoked' = <<>>
  /\ UNCHANGED <<committed, percept, observed, goals, provenance>>

\* A hook of ProviderCoordinator: an invocation is recorded when a provider
\* is resolved and answers; Raise when it fails.
Consult(hook) ==
  invoked' = IF hook \in Configured
             THEN Append(invoked, [hook |-> hook, status |-> "executed"])
             ELSE invoked

HookOf == [rank_rules |-> "rank_rules", propose |-> "propose_hypotheses",
           score |-> "score_hypotheses", decide |-> "rank_goals",
           calibrate |-> "score_confidence"]

SeedGraph(S) ==
  [b \in {SeedId(s) : s \in S} |->
     Belief(SeedBelief[b.name].prop, SeedBelief[b.name].conf, {}, NoBelief)]

Init ==
  /\ \E S \in SUBSET Seeds : committed = State(SeedGraph(S), <<>>, {})
  /\ working = committed
  /\ stage = "idle"
  /\ percept = "none"
  /\ todo = {} /\ chain = NoChain /\ hypotheses = {} /\ invoked = <<>>
  /\ observed = {}
  /\ decision = NoDecision
  /\ goals = InitialGoals
  /\ provenance = <<>>
  /\ outcome = "none"

\* PERCEPTION and the head of REVISION: the percept becomes a belief unless
\* the graph has its id already, in whatever version.
WithPercept(bs, p) ==
  IF PerceptId(p) \in DOMAIN bs THEN bs ELSE Put(bs, PerceptId(p), Belief(p, One, {}, NoBelief))

Perceive(p) ==
  LET bs == WithPercept(committed.beliefs, p) IN
  /\ stage = "idle"
  /\ stage' = "revise"
  /\ percept' = p
  /\ working' = State(bs, committed.thoughts, committed.edges)
  /\ todo' = DetectContradictions(bs)
  /\ chain' = NoChain /\ hypotheses' = {} /\ invoked' = <<>>
  /\ decision' = NoDecision
  /\ UNCHANGED <<committed, observed, goals, provenance, outcome>>

\* REVISION: reconcile_contradiction on the next pair.
IsNextPair(q) == q \in todo /\ \A r \in todo : Precedes(q, r)

Loser(bs, q) == IF bs[q[1]].conf >= bs[q[2]].conf THEN q[2] ELSE q[1]

\* Fault: the version is added and the old id keeps its confidence.
RetireAddsOnly(bs, b) ==
  Put(bs, VersionId(b), Belief(bs[b].prop, 0, bs[b].support, b))

\* Fault: the version takes the confidence over instead of 0.
RetireKeepsConfidence(bs, b) ==
  Put(Put(bs, b, Belief(bs[b].prop, 0, bs[b].support, bs[b].prev)),
      VersionId(b), Belief(bs[b].prop, bs[b].conf, bs[b].support, b))

\* revise_belief with confidence 0: the old id keeps its place with
\* confidence 0 and a new version, also at 0, replaces it.
Retire(bs, b) ==
  Put(Put(bs, b, Belief(bs[b].prop, 0, bs[b].support, bs[b].prev)),
      VersionId(b), Belief(bs[b].prop, 0, bs[b].support, b))

Reconcile(q) ==
  LET bs == working.beliefs IN
  /\ stage = "revise" /\ IsNextPair(q)
  /\ q[2] \in DOMAIN bs
  /\ VersionId(Loser(bs, q)) \notin DOMAIN bs
  /\ working' = State(Retire(bs, Loser(bs, q)), working.thoughts, working.edges)
  /\ todo' = todo \ {q}
  /\ UNCHANGED <<committed, stage, percept, chain, hypotheses, invoked, results>>

\* The contradicted id is not in the graph.
ReconcileMissing(q) ==
  /\ stage = "revise" /\ IsNextPair(q)
  /\ q[2] \notin DOMAIN working.beliefs
  /\ Raise("key_error")

\* The loser was superseded before: its next version id is taken.
ReconcileAgain(q) ==
  /\ stage = "revise" /\ IsNextPair(q)
  /\ q[2] \in DOMAIN working.beliefs
  /\ VersionId(Loser(working.beliefs, q)) \in DOMAIN working.beliefs
  /\ Raise("duplicate_id")

EndRevision ==
  /\ stage = "revise" /\ todo = {}
  /\ stage' = "rank_rules"
  /\ UNCHANGED <<committed, working, locals, results>>

\* A provider raises, or returns something that is not an execution.
ProviderFails ==
  /\ stage \in DOMAIN HookOf
  /\ HookOf[stage] \in Configured
  /\ Raise("provider_failure")

\* INFERENCE: the rules are shown to the ranking provider, whose answer is
\* not used; then forward_chain starts.
RankRules ==
  /\ stage = "rank_rules"
  /\ stage' = "infer"
  /\ Consult("rank_rules")
  /\ UNCHANGED <<committed, working, percept, todo, chain, hypotheses, results>>

\* The rule the inner loop of forward_chain is at, and its premises that did
\* not fire before in this call.
AtRule == stage = "infer" /\ chain.position <= Len(Rules)
CurrentRule == Rules[chain.position]
NewPremises(r) == {m \in Premises(working.beliefs, r) : <<r, m>> \notin chain.fired}

FireRule(m) ==
  LET r == CurrentRule
      n == chain.counter + 1
      conf == (LowestConf(working.beliefs, m) * Multiplier[r]) \div One
      t == ThoughtId(r, n)
  IN
  /\ AtRule
  /\ m \in NewPremises(r)
  /\ t \notin DOMAIN working.thoughts /\ InferredId(r, n) \notin DOMAIN working.beliefs
  /\ working' = State(
        Put(working.beliefs, InferredId(r, n),
            Belief(Conclusion[r], conf, {m[i] : i \in DOMAIN m}, NoBelief)),
        Put(working.thoughts, t, Thought(conf, m)),
        working.edges \cup {<<u, t>> : u \in LinkSources(DOMAIN working.thoughts, t)})
  /\ chain' = [iteration |-> chain.iteration, position |-> chain.position + 1, counter |-> n,
               fired |-> chain.fired \cup {<<r, m>>}, progressed |-> TRUE]
  /\ UNCHANGED <<committed, stage, percept, todo, hypotheses, invoked, results>>

\* The counter of this call gives an id an earlier cycle committed.
FireRuleAgain ==
  LET r == CurrentRule
      n == chain.counter + 1
  IN
  /\ AtRule
  /\ NewPremises(r) # {}
  /\ \/ ThoughtId(r, n) \in DOMAIN working.thoughts
     \/ InferredId(r, n) \in DOMAIN working.beliefs
  /\ Raise("duplicate_id")

\* Fault: fired_in_iteration is reset for every rule instead of every round.
SkipRuleResets ==
  /\ AtRule
  /\ NewPremises(CurrentRule) = {}
  /\ chain' = [chain EXCEPT !.position = @ + 1, !.progressed = FALSE]
  /\ UNCHANGED <<committed, working, stage, percept, todo, hypotheses, invoked, results>>

SkipRule ==
  /\ AtRule
  /\ NewPremises(CurrentRule) = {}
  /\ chain' = [chain EXCEPT !.position = @ + 1]
  /\ UNCHANGED <<committed, working, stage, percept, todo, hypotheses, invoked, results>>

\* Fault: the flag is set once, before the loop, and rounds are not counted.
OtherRoundForever ==
  /\ chain' = [chain EXCEPT !.position = 1]
  /\ UNCHANGED stage

\* The end of a round of forward_chain: another one when a rule fired in it
\* and rounds are left.
OtherRound ==
  /\ chain' = [chain EXCEPT !.iteration = @ + 1, !.position = 1, !.progressed = FALSE]
  /\ UNCHANGED stage

RoundsLeft == chain.iteration < MaxIterations

EndRound ==
  /\ stage = "infer" /\ chain.position > Len(Rules)
  /\ IF chain.progressed /\ RoundsLeft
     THEN OtherRound
     ELSE stage' = "propose" /\ UNCHANGED chain
  /\ UNCHANGED <<committed, working, percept, todo, hypotheses, invoked, results>>

\* HYPOTHESIS: proposals are only observed; the symbolic candidates are
\* generated, evaluated and exposed as last_hypotheses.
Propose ==
  /\ stage = "propose"
  /\ stage' = "score"
  /\ Consult("propose_hypotheses")
  /\ hypotheses' = Candidates(working, percept)
  /\ observed' = hypotheses'
  /\ UNCHANGED <<committed, working, percept, todo, chain, decision, goals, provenance, outcome>>

\* The scores of the provider are not consumed.  CONFLICT_RESOLUTION has no
\* state of its own: the decision takes its winner.
ScoreHypotheses ==
  /\ stage = "score"
  /\ stage' = "decide"
  /\ Consult("score_hypotheses")
  /\ UNCHANGED <<committed, working, percept, todo, chain, hypotheses, results>>

\* select_top_goal for a percept without an intent (the pipeline gives it
\* none): the stack afterwards, its top being the goal selected.
SelectTopGoal(gs) == IF gs = <<>> THEN <<DefaultGoal>> ELSE gs

\* DECISION: rank_goals is shown the goals, a goal is selected, and the
\* decision is made.
Decide ==
  /\ stage = "decide"
  /\ stage' = "calibrate"
  /\ Consult("rank_goals")
  /\ goals' = SelectTopGoal(goals)
  /\ decision' = MakeDecision(hypotheses, DOMAIN working.thoughts, goals'[1])
  /\ UNCHANGED <<committed, working, percept, todo, chain, hypotheses, observed,
                 provenance, outcome>>

\* The calibration hook can change the confidence of the decision only.
Calibrate ==
  /\ stage = "calibrate"
  /\ stage' = "realize"
  /\ Consult("score_confidence")
  /\ UNCHANGED <<committed, working, percept, todo, chain, hypotheses, results>>

\* Every nonempty set of thoughts has one no edge of the set leads to.
Acyclic(g) ==
  \A S \in SUBSET DOMAIN g.thoughts :
    S # {} => \E t \in S : \A u \in S : <<u, t>> \notin g.edges

\* REALIZATION: ConstraintEngine.assert_valid raises on a cyclic thought
\* graph; its belief source check only warns, and every source is set.
Realize ==
  /\ stage = "realize"
  /\ IF Acyclic(working)
     THEN /\ stage' = "learn"
          /\ UNCHANGED <<committed, working, locals, results>>
     ELSE Raise("constraint_violation")

\* LEARNING: the working copy becomes the committed state.
Learn ==
  /\ stage = "learn"
  /\ stage' = "idle"
  /\ committed' = working
  /\ provenance' = invoked
  /\ outcome' = "committed"
  /\ todo' = {} /\ chain' = NoChain /\ hypotheses' = {} /\ invoked' = <<>>
  /\ UNCHANGED <<working, percept, observed, decision, goals>>

Cycle ==
  \/ \E q \in todo : Reconcile(q) \/ ReconcileMissing(q) \/ ReconcileAgain(q)
  \/ EndRevision
  \/ RankRules
  \/ AtRule /\ \E m \in NewPremises(CurrentRule) : FireRule(m)
  \/ FireRuleAgain \/ SkipRule \/ EndRound
  \/ Propose \/ ScoreHypotheses \/ Decide \/ Calibrate
  \/ ProviderFails
  \/ Realize \/ Learn

Next == (\E p \in Percepts : Perceive(p)) \/ Cycle

Spec == Init /\ [][Next]_vars

\* execute_cycle runs on its own thread of control until it returns or
\* raises; whether another percept arrives is up to the caller.
FairSpec == Spec /\ WF_vars(Cycle)
=============================================================================
