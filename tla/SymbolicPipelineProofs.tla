------------------------ MODULE SymbolicPipelineProofs ------------------------
(***************************************************************************)
(* Proofs of the properties of SymbolicPipelineProperties that hold for    *)
(* every graph, rule set, provider configuration and number of rounds.     *)
(***************************************************************************)
EXTENDS SymbolicPipelineProperties, FiniteSetTheorems, TLAPS

-----------------------------------------------------------------------------
(* Graphs as functions. *)

\* Put keeps every node but the one it writes.
LEMMA PutNodes ==
  ASSUME NEW f, NEW id, NEW node
  PROVE  /\ DOMAIN Put(f, id, node) = DOMAIN f \cup {id}
         /\ Put(f, id, node)[id] = node
         /\ \A x \in DOMAIN f : x # id => Put(f, id, node)[x] = f[x]
BY DEF Put

\* The fields of a state are what it was built from.
LEMMA StateFields ==
  ASSUME NEW b, NEW t, NEW e
  PROVE  /\ State(b, t, e).beliefs = b
         /\ State(b, t, e).thoughts = t
         /\ State(b, t, e).edges = e
BY DEF State

-----------------------------------------------------------------------------
(* The thought graph is a DAG.  Acyclicity alone is not inductive: a node   *)
(* that is added could close a cycle over edges that dangle.  With the      *)
(* edges confined to the nodes, a new node has no edge out of it.           *)

Dag(g) ==
  /\ g.edges \subseteq (DOMAIN g.thoughts) \X (DOMAIN g.thoughts)
  /\ Acyclic(g)

DagInv == Dag(committed) /\ Dag(working)

\* The sources of the links to a new thought are thoughts that exist.
LEMMA LinkSourcesExist ==
  ASSUME NEW ts, NEW t
  PROVE  LinkSources(ts, t) \subseteq ts
BY DEF LinkSources, NextToLast

\* A new node with edges from old ones keeps a DAG a DAG.
LEMMA NewNodeKeepsDag ==
  ASSUME NEW g, Dag(g), NEW t, t \notin DOMAIN g.thoughts, NEW x, NEW bs,
         NEW sources, sources \subseteq DOMAIN g.thoughts
  PROVE  Dag(State(bs, Put(g.thoughts, t, x), g.edges \cup {<<u, t>> : u \in sources}))
<1> DEFINE ts == Put(g.thoughts, t, x)
           es == g.edges \cup {<<u, t>> : u \in sources}
           h == State(bs, ts, es)
<1>1. h.thoughts = ts /\ h.edges = es
  BY StateFields
<1>2. DOMAIN ts = DOMAIN g.thoughts \cup {t}
  BY PutNodes
<1> HIDE DEF ts, h
<1>3. g.edges \subseteq (DOMAIN g.thoughts) \X (DOMAIN g.thoughts)
  BY DEF Dag
<1>4. h.edges \subseteq (DOMAIN h.thoughts) \X (DOMAIN h.thoughts)
  BY <1>1, <1>2, <1>3
<1>5. ASSUME NEW S \in SUBSET DOMAIN h.thoughts, S # {}
      PROVE  \E y \in S : \A u \in S : <<u, y>> \notin h.edges
  <2>1. CASE S \ {t} = {}
    <3>1. S = {t}
      BY <2>1, <1>5
    <3>2. <<t, t>> \notin es
      BY <1>3
    <3> QED  BY <3>1, <3>2, <1>1
  <2>2. CASE S \ {t} # {}
    <3>1. S \ {t} \in SUBSET DOMAIN g.thoughts
      BY <1>1, <1>2
    <3>2. PICK y \in S \ {t} : \A u \in S \ {t} : <<u, y>> \notin g.edges
      BY <2>2, <3>1 DEF Dag, Acyclic
    <3>3. \A u \in S : <<u, y>> \notin es
      BY <3>2, <1>3
    <3> QED  BY <3>2, <3>3, <1>1
  <2> QED  BY <2>1, <2>2
<1>6. Dag(h)
  BY <1>4, <1>5 DEF Dag, Acyclic
<1> QED  BY <1>6 DEF h, ts

\* Beliefs do not matter to the thought graph.
LEMMA BeliefsKeepDag ==
  ASSUME NEW g, Dag(g), NEW bs
  PROVE  Dag(State(bs, g.thoughts, g.edges))
<1>1. /\ State(bs, g.thoughts, g.edges).thoughts = g.thoughts
      /\ State(bs, g.thoughts, g.edges).edges = g.edges
  BY StateFields
<1> QED  BY <1>1, Zenon DEF Dag, Acyclic

LEMMA DagInit == Init => DagInv
<1> SUFFICES ASSUME Init PROVE Dag(committed) /\ Dag(working)
  BY DEF DagInv
<1>1. committed.edges = {} /\ working = committed
  BY StateFields DEF Init
<1> QED  BY <1>1 DEF Dag, Acyclic

LEMMA DagStep == DagInv /\ [Next]_vars => DagInv'
<1> SUFFICES ASSUME DagInv, [Next]_vars PROVE Dag(committed') /\ Dag(working')
  BY DEF DagInv, Dag, Acyclic
<1> USE DEF DagInv
<1>r. ASSUME NEW kind, Raise(kind) PROVE Dag(committed') /\ Dag(working')
  BY <1>r DEF Raise
<1>1. ASSUME NEW p \in Percepts, Perceive(p) PROVE Dag(committed') /\ Dag(working')
  BY <1>1, BeliefsKeepDag DEF Perceive
<1>2. ASSUME NEW q \in todo, Reconcile(q) PROVE Dag(committed') /\ Dag(working')
  BY <1>2, BeliefsKeepDag DEF Reconcile
<1>3. ASSUME NEW q \in todo, ReconcileMissing(q) \/ ReconcileAgain(q)
      PROVE  Dag(committed') /\ Dag(working')
  BY <1>3, <1>r DEF ReconcileMissing, ReconcileAgain
<1>4. ASSUME NEW m, FireRule(m) PROVE Dag(committed') /\ Dag(working')
  BY <1>4, NewNodeKeepsDag, LinkSourcesExist DEF FireRule
<1>5. ASSUME FireRuleAgain \/ ProviderFails PROVE Dag(committed') /\ Dag(working')
  BY <1>5, <1>r DEF FireRuleAgain, ProviderFails
<1>6. CASE EndRevision \/ RankRules \/ SkipRule \/ EndRound
  BY <1>6 DEF EndRevision, RankRules, SkipRule, EndRound
<1>7. CASE Propose \/ ScoreHypotheses \/ Decide \/ Calibrate
  BY <1>7 DEF Propose, ScoreHypotheses, Decide, Calibrate
<1>8. CASE Realize
  BY <1>8, <1>r DEF Realize
<1>9. CASE Learn
  BY <1>9 DEF Learn
<1>10. CASE UNCHANGED vars
  BY <1>10 DEF vars
<1> QED
  BY <1>1, <1>2, <1>3, <1>4, <1>5, <1>6, <1>7, <1>8, <1>9, <1>10 DEF Next, Cycle

THEOREM AlwaysDag == Spec => []DagInv
BY DagInit, DagStep, PTL DEF Spec

\* The thought graph is acyclic in every state of every cycle, whatever the
\* rules are: ThoughtGraph.add_edge never meets a cycle and
\* the REALIZATION stage never rejects a cycle.
THEOREM ThoughtsAlwaysAcyclic == Spec => []ThoughtsAcyclic
<1>1. DagInv => ThoughtsAcyclic
  BY DEF DagInv, Dag, ThoughtsAcyclic
<1> QED  BY <1>1, AlwaysDag, PTL

-----------------------------------------------------------------------------
(* The contradictions left to reconcile have their first belief in the     *)
(* graph, so that a retired belief always exists.                          *)

TodoInv == \A q \in todo : q[1] \in DOMAIN working.beliefs

LEMMA DetectedFirst ==
  ASSUME NEW bs, NEW q \in DetectContradictions(bs)
  PROVE  q[1] \in DOMAIN bs
BY DEF DetectContradictions, Active

\* The loser of a contradiction between two beliefs is one of them.
LEMMA LoserExists ==
  ASSUME NEW bs, NEW q, q[1] \in DOMAIN bs, q[2] \in DOMAIN bs
  PROVE  Loser(bs, q) \in DOMAIN bs
BY DEF Loser

LEMMA RetireDomain ==
  ASSUME NEW bs, NEW b \in DOMAIN bs
  PROVE  DOMAIN Retire(bs, b) = DOMAIN bs \cup {VersionId(b)}
BY DEF Retire, Put

LEMMA TodoInit == Init => TodoInv
BY DEF Init, TodoInv

LEMMA TodoStep == TodoInv /\ [Next]_vars => TodoInv'
<1> SUFFICES ASSUME TodoInv, [Next]_vars, NEW q \in todo'
             PROVE  q[1] \in DOMAIN working'.beliefs
  BY DEF TodoInv
<1> USE DEF TodoInv
<1>r. \A kind : ~ Raise(kind)
  BY DEF Raise
<1>1. ASSUME NEW p \in Percepts, Perceive(p) PROVE q[1] \in DOMAIN working'.beliefs
  BY <1>1, DetectedFirst, StateFields DEF Perceive
<1>2. ASSUME NEW r \in todo, Reconcile(r) PROVE q[1] \in DOMAIN working'.beliefs
  <2>1. q \in todo
    BY <1>2 DEF Reconcile
  <2>2. Loser(working.beliefs, r) \in DOMAIN working.beliefs
    BY <1>2, LoserExists DEF Reconcile
  <2>3. DOMAIN working.beliefs \subseteq DOMAIN working'.beliefs
    <3>1. working'.beliefs = Retire(working.beliefs, Loser(working.beliefs, r))
      BY <1>2, StateFields DEF Reconcile
    <3> QED  BY <2>2, <3>1, RetireDomain
  <2> QED  BY <2>1, <2>3
<1>3. ASSUME NEW r \in todo, ReconcileMissing(r) \/ ReconcileAgain(r) PROVE FALSE
  BY <1>3, <1>r DEF ReconcileMissing, ReconcileAgain
<1>4. ASSUME NEW m, FireRule(m) PROVE q[1] \in DOMAIN working'.beliefs
  <2>1. PICK b, x, t, e : working' = State(Put(working.beliefs, b, x), t, e)
    BY <1>4 DEF FireRule
  <2>2. DOMAIN working.beliefs \subseteq DOMAIN working'.beliefs
    BY <2>1, StateFields DEF Put
  <2> QED  BY <1>4, <2>2 DEF FireRule
<1>5. ASSUME FireRuleAgain \/ ProviderFails PROVE FALSE
  BY <1>5, <1>r DEF FireRuleAgain, ProviderFails
<1>6. CASE EndRevision \/ RankRules \/ SkipRule \/ EndRound
  BY <1>6 DEF EndRevision, RankRules, SkipRule, EndRound, locals
<1>7. CASE Propose \/ ScoreHypotheses \/ Decide \/ Calibrate
  BY <1>7 DEF Propose, ScoreHypotheses, Decide, Calibrate
<1>8. CASE Realize
  BY <1>8, <1>r DEF Realize, locals
<1>9. CASE Learn
  BY <1>9 DEF Learn
<1>10. CASE UNCHANGED vars
  BY <1>10 DEF vars, locals
<1> QED
  BY <1>1, <1>2, <1>3, <1>4, <1>5, <1>6, <1>7, <1>8, <1>9, <1>10 DEF Next, Cycle

LEMMA AlwaysTodo == Spec => []TodoInv
BY TodoInit, TodoStep, PTL DEF Spec

-----------------------------------------------------------------------------
(* Refinement.  The working copy of a running cycle has only grown out of  *)
(* the committed state it was taken from; LEARNING may therefore publish   *)
(* it, and an exception drops it.                                          *)

GrowsTo(g, h) == CognitiveCycleOf!GrowsTo(g, h)

GrowthInv == stage # "idle" => GrowsTo(committed, working)

\* A belief graph grows by an id it does not hold.
LEMMA NewBeliefGrows ==
  ASSUME NEW g, NEW h, GrowsTo(g, h), NEW b, b \notin DOMAIN h.beliefs, NEW x
  PROVE  GrowsTo(g, State(Put(h.beliefs, b, x), h.thoughts, h.edges))
<1>1. /\ DOMAIN Put(h.beliefs, b, x) = DOMAIN h.beliefs \cup {b}
      /\ \A c \in DOMAIN h.beliefs : Put(h.beliefs, b, x)[c] = h.beliefs[c]
  BY DEF Put
<1> QED  BY <1>1, StateFields DEF GrowsTo, CognitiveCycleOf!GrowsTo

\* It also grows when one of its ids is superseded.
LEMMA RetireGrows ==
  ASSUME NEW g, NEW h, GrowsTo(g, h), NEW b \in DOMAIN h.beliefs,
         VersionId(b) \notin DOMAIN h.beliefs
  PROVE  GrowsTo(g, State(Retire(h.beliefs, b), h.thoughts, h.edges))
<1> DEFINE zero == Belief(h.beliefs[b].prop, 0, h.beliefs[b].support, h.beliefs[b].prev)
           mid == Put(h.beliefs, b, zero)
           v == VersionId(b)
           version == Belief(h.beliefs[b].prop, 0, h.beliefs[b].support, b)
           bs == Put(mid, v, version)
<1>0. bs = Retire(h.beliefs, b)
  BY DEF Retire
<1>z. zero.prop = h.beliefs[b].prop /\ zero.conf = 0
  BY DEF Belief
<1>v. v \notin DOMAIN h.beliefs
  OBVIOUS
<1> HIDE DEF zero, v, version
<1>1. /\ DOMAIN mid = DOMAIN h.beliefs
      /\ mid[b] = zero
      /\ \A c \in DOMAIN h.beliefs : c # b => mid[c] = h.beliefs[c]
  BY DEF Put
<1> HIDE DEF mid
<1>3. DOMAIN bs = DOMAIN h.beliefs \cup {v}
  BY <1>1, <1>v DEF Put
<1>4. \A c \in DOMAIN h.beliefs : bs[c] = mid[c]
  BY <1>1, <1>v DEF Put
<1> HIDE DEF bs
<1>5. \A c \in DOMAIN h.beliefs :
        bs[c].prop = h.beliefs[c].prop /\ bs[c].conf \in {h.beliefs[c].conf, 0}
  BY <1>1, <1>z, <1>4
<1>6. GrowsTo(g, State(bs, h.thoughts, h.edges))
  BY <1>3, <1>5, StateFields DEF GrowsTo, CognitiveCycleOf!GrowsTo
<1> QED  BY <1>0, <1>6

\* A firing adds a belief and a thought under ids that are new.
LEMMA FiringGrows ==
  ASSUME NEW g, NEW h, GrowsTo(g, h),
         NEW b, b \notin DOMAIN h.beliefs, NEW x,
         NEW t, t \notin DOMAIN h.thoughts, NEW y, NEW links
  PROVE  GrowsTo(g, State(Put(h.beliefs, b, x), Put(h.thoughts, t, y), h.edges \cup links))
<1>1. /\ DOMAIN Put(h.beliefs, b, x) = DOMAIN h.beliefs \cup {b}
      /\ \A c \in DOMAIN h.beliefs : Put(h.beliefs, b, x)[c] = h.beliefs[c]
  BY DEF Put
<1>2. /\ DOMAIN Put(h.thoughts, t, y) = DOMAIN h.thoughts \cup {t}
      /\ \A c \in DOMAIN h.thoughts : Put(h.thoughts, t, y)[c] = h.thoughts[c]
  BY DEF Put
<1> QED  BY <1>1, <1>2, StateFields DEF GrowsTo, CognitiveCycleOf!GrowsTo

\* The percept of a cycle is the first thing its copy grows by.
LEMMA PerceptGrows ==
  ASSUME NEW g, NEW p
  PROVE  GrowsTo(g, State(WithPercept(g.beliefs, p), g.thoughts, g.edges))
<1>1. GrowsTo(g, State(g.beliefs, g.thoughts, g.edges))
  BY StateFields DEF GrowsTo, CognitiveCycleOf!GrowsTo
<1>2. GrowsTo(g, g)
  BY DEF GrowsTo, CognitiveCycleOf!GrowsTo
<1> QED  BY <1>1, <1>2, NewBeliefGrows DEF WithPercept

LEMMA GrowthInit == Init => GrowthInv
BY DEF Init, GrowthInv

LEMMA GrowthStep == TodoInv /\ GrowthInv /\ [Next]_vars => GrowthInv'
<1> SUFFICES ASSUME TodoInv, GrowthInv, [Next]_vars, stage' # "idle"
             PROVE  GrowsTo(committed', working')
  BY DEF GrowthInv, GrowsTo, CognitiveCycleOf!GrowsTo
<1>r. \A kind : ~ Raise(kind)
  BY DEF Raise
<1>k. ASSUME stage # "idle", UNCHANGED <<committed, working>>
      PROVE  GrowsTo(committed', working')
  BY <1>k DEF GrowthInv
<1>1. ASSUME NEW p \in Percepts, Perceive(p) PROVE GrowsTo(committed', working')
  BY <1>1, PerceptGrows DEF Perceive
<1>2. ASSUME NEW q \in todo, Reconcile(q) PROVE GrowsTo(committed', working')
  <2>1. Loser(working.beliefs, q) \in DOMAIN working.beliefs
    BY <1>2, LoserExists DEF Reconcile, TodoInv
  <2> QED  BY <1>2, <2>1, RetireGrows DEF Reconcile, GrowthInv
<1>3. ASSUME NEW q \in todo, ReconcileMissing(q) \/ ReconcileAgain(q) PROVE FALSE
  BY <1>3, <1>r DEF ReconcileMissing, ReconcileAgain
<1>4. ASSUME NEW m, FireRule(m) PROVE GrowsTo(committed', working')
  BY <1>4, FiringGrows DEF FireRule, AtRule, GrowthInv
<1>5. ASSUME FireRuleAgain \/ ProviderFails PROVE FALSE
  BY <1>5, <1>r DEF FireRuleAgain, ProviderFails
<1>6. CASE EndRevision \/ RankRules \/ SkipRule \/ EndRound
  BY <1>6, <1>k DEF EndRevision, RankRules, SkipRule, AtRule, EndRound
<1>7. CASE Propose \/ ScoreHypotheses \/ Decide \/ Calibrate
  BY <1>7, <1>k DEF Propose, ScoreHypotheses, Decide, Calibrate
<1>8. CASE Realize
  BY <1>8, <1>r, <1>k DEF Realize
<1>9. CASE Learn
  BY <1>9 DEF Learn
<1>10. CASE UNCHANGED vars
  BY <1>10, <1>k DEF vars
<1> QED
  BY <1>1, <1>2, <1>3, <1>4, <1>5, <1>6, <1>7, <1>8, <1>9, <1>10 DEF Next, Cycle

LEMMA AlwaysGrowing == Spec => []GrowthInv
BY GrowthInit, GrowthStep, AlwaysTodo, PTL DEF Spec

\* Every step of a cycle is a step of CognitiveCycle or invisible to it.
LEMMA StepRefines ==
  GrowthInv /\ [Next]_vars => [CognitiveCycleOf!Next]_(CognitiveCycleOf!vars)
<1> SUFFICES ASSUME GrowthInv, [Next]_vars
             PROVE  CognitiveCycleOf!Next \/ UNCHANGED CognitiveCycleOf!vars
  OBVIOUS
<1> USE DEF CognitiveCycleOf!Next, CognitiveCycleOf!Begin, CognitiveCycleOf!Publish,
            CognitiveCycleOf!Abort, CognitiveCycleOf!vars
<1>r. ASSUME stage # "idle", NEW kind, kind # "committed", Raise(kind)
      PROVE  CognitiveCycleOf!Next
  BY <1>r DEF Raise
<1>s. ASSUME stage # "idle", stage' # "idle", UNCHANGED <<committed, outcome>>
      PROVE  UNCHANGED CognitiveCycleOf!vars
  BY <1>s
<1>1. ASSUME NEW p \in Percepts, Perceive(p) PROVE CognitiveCycleOf!Next
  BY <1>1 DEF Perceive
<1>2. ASSUME NEW q \in todo, Reconcile(q) PROVE UNCHANGED CognitiveCycleOf!vars
  BY <1>2, <1>s DEF Reconcile, results
<1>3. ASSUME NEW q \in todo, ReconcileMissing(q) \/ ReconcileAgain(q)
      PROVE  CognitiveCycleOf!Next
  BY <1>3, <1>r DEF ReconcileMissing, ReconcileAgain
<1>4. ASSUME NEW m, FireRule(m) PROVE UNCHANGED CognitiveCycleOf!vars
  BY <1>4, <1>s DEF FireRule, AtRule, results
<1>5. ASSUME FireRuleAgain \/ ProviderFails PROVE CognitiveCycleOf!Next
  BY <1>5, <1>r DEF FireRuleAgain, ProviderFails, AtRule, HookOf
<1>6. CASE EndRevision \/ RankRules \/ SkipRule \/ EndRound
  BY <1>6, <1>s DEF EndRevision, RankRules, SkipRule, AtRule, EndRound, OtherRound, results
<1>7. CASE Propose \/ ScoreHypotheses \/ Decide \/ Calibrate
  BY <1>7, <1>s DEF Propose, ScoreHypotheses, Decide, Calibrate, results
<1>8. CASE Realize
  BY <1>8, <1>r, <1>s DEF Realize, results
<1>9. CASE Learn
  BY <1>9 DEF Learn, GrowthInv, GrowsTo, CognitiveCycleOf!GrowsTo
<1>10. CASE UNCHANGED vars
  BY <1>10 DEF vars, results
<1> QED
  BY <1>1, <1>2, <1>3, <1>4, <1>5, <1>6, <1>7, <1>8, <1>9, <1>10 DEF Next, Cycle

\* execute_cycle implements the abstract cognitive cycle: the committed state
\* changes in the LEARNING stage only, at most once per cycle, by growing, and
\* every exception leaves it as the cycle found it.
THEOREM CycleRefines == Spec => ImplementsCognitiveCycle
<1>1. Init => CognitiveCycleOf!Init
  BY DEF Init, CognitiveCycleOf!Init
<1> QED
  BY <1>1, StepRefines, AlwaysGrowing, PTL
  DEF Spec, ImplementsCognitiveCycle, CognitiveCycleOf!Spec

-----------------------------------------------------------------------------
(***************************************************************************)
(* The type invariant of the pipeline: whatever rules feed each other, the *)
(* counter of forward_chain, and so the ids it makes, stay within the      *)
(* rounds it runs, no edge or support dangles, and no confidence leaves    *)
(* the unit interval.                                                      *)
(***************************************************************************)

(* Arithmetic. *)

LEMMA NatHasLeast ==
  ASSUME NEW C \in SUBSET Nat, C # {}
  PROVE  \E c \in C : \A d \in C : c <= d
<1>1. \E c \in C : \A d \in C : ~ (<<d, c>> \in OpToRel(<, Nat))
  BY WFMin, NatLessThanWellFounded, Zenon
<1>2. PICK c \in C : \A d \in C : ~ (<<d, c>> \in OpToRel(<, Nat))
  BY <1>1
<1>3. \A d \in C : ~ (d < c)
  BY <1>2, Zenon DEF OpToRel
<1> QED  BY <1>3

\* A confidence scaled by a multiplier is a confidence.
LEMMA ScaledConfidence ==
  ASSUME NEW c \in 0..One, NEW m \in 0..One
  PROVE  (c * m) \div One \in 0..One
<1> DEFINE k == c * m
<1>1. k \in Nat /\ k <= One * m
  BY DEF One
<1>2. One * m <= One * One
  BY DEF One
<1> HIDE DEF k
<1>3. k \div One \in 0..One
  BY <1>1, <1>2 DEF One
<1> QED  BY <1>3 DEF k

\* A round has one firing per rule at most, and there are MaxIterations rounds.
LEMMA FiringsBounded ==
  ASSUME NEW n \in Nat, NEW i \in 1..MaxIterations, NEW p \in 1..Len(Rules),
         n <= (i - 1) * Len(Rules) + p - 1
  PROVE  n + 1 \in 1..MaxFirings
<1>1. Len(Rules) \in Nat /\ MaxIterations \in Nat
  BY RulesAssumption
<1> DEFINE L == Len(Rules)
<1> HIDE DEF L
<1>2. (i - 1) * L + L = i * L
  BY <1>1 DEF L
<1>3. i * L <= MaxIterations * L
  BY <1>1 DEF L
<1> QED  BY <1>1, <1>2, <1>3 DEF MaxFirings, L

-----------------------------------------------------------------------------
(* The two loops of forward_chain. *)

\* chain is a record, and its counter does not outrun the rules passed: the
\* strengthening that bounds the ids.
ChainInv ==
  /\ chain = [iteration |-> chain.iteration, position |-> chain.position,
              counter |-> chain.counter, fired |-> chain.fired,
              progressed |-> chain.progressed]
  /\ chain.iteration \in 1..MaxIterations
  /\ chain.position \in 1..(Len(Rules) + 1)
  /\ chain.counter \in Nat
  /\ chain.counter <= (chain.iteration - 1) * Len(Rules) + chain.position - 1

LEMMA ConstantTypes ==
  /\ Len(Rules) \in Nat
  /\ MaxIterations \in Nat \ {0}
  /\ MaxFirings \in Nat
  /\ DOMAIN Rules = 1..Len(Rules)
  /\ \A i \in 1..Len(Rules) : Rules[i] \in RuleIds
BY RulesAssumption DEF MaxFirings

\* The counter stays within the rounds.
LEMMA CounterBounded == ChainInv => chain.counter \in 0..MaxFirings
<1> SUFFICES ASSUME ChainInv PROVE chain.counter <= MaxFirings
  BY ConstantTypes DEF ChainInv
<1> DEFINE L == Len(Rules)
           i == chain.iteration
<1>1. L \in Nat /\ i \in 1..MaxIterations /\ MaxIterations \in Nat
  BY ConstantTypes DEF ChainInv
<1>2. chain.counter \in Nat /\ chain.counter <= (i - 1) * L + L
  <2>1. chain.position - 1 <= L /\ chain.position \in Int /\ chain.counter \in Nat
    BY <1>1 DEF ChainInv
  <2>2. chain.counter <= (i - 1) * L + chain.position - 1
    BY DEF ChainInv
  <2>3. (i - 1) * L \in Nat
    BY <1>1
  <2> HIDE DEF L, i
  <2> QED  BY <1>1, <2>1, <2>2, <2>3
<1> HIDE DEF L, i
<1>3. (i - 1) * L + L = i * L
  BY <1>1
<1>4. i * L <= MaxIterations * L
  BY <1>1
<1>5. i * L \in Nat /\ MaxIterations * L \in Nat
  BY <1>1
<1> QED  BY <1>1, <1>2, <1>3, <1>4, <1>5 DEF MaxFirings, L

LEMMA NoChainInv == ChainInv' \/ chain' # NoChain
BY ConstantTypes DEF ChainInv, NoChain

LEMMA ChainInit == Init => ChainInv
BY ConstantTypes DEF Init, ChainInv, NoChain

\* The next position of a round, after a rule that fired or was passed.
LEMMA NextPosition ==
  ASSUME ChainInv, chain.position \in 1..Len(Rules),
         NEW c \in {chain.counter, chain.counter + 1}
  PROVE  /\ chain.position + 1 \in 1..(Len(Rules) + 1) /\ c \in Nat
         /\ c <= (chain.iteration - 1) * Len(Rules) + (chain.position + 1) - 1
<1> DEFINE before == (chain.iteration - 1) * Len(Rules)
<1>1. before \in Int /\ chain.counter \in Nat /\ Len(Rules) \in Nat
  BY ConstantTypes DEF ChainInv
<1>2. chain.counter <= before + chain.position - 1
  BY DEF ChainInv
<1> HIDE DEF before
<1>3. c <= before + (chain.position + 1) - 1
  BY <1>1, <1>2
<1>4. chain.position + 1 \in 1..(Len(Rules) + 1) /\ c \in Nat
  BY <1>1
<1> QED  BY <1>3, <1>4 DEF before

LEMMA ChainStep == ChainInv /\ [Next]_vars => ChainInv'
<1> SUFFICES ASSUME ChainInv, [Next]_vars, chain' # chain, chain' # NoChain
             PROVE  ChainInv'
  BY NoChainInv DEF ChainInv
<1>r. \A kind : ~ Raise(kind)
  BY DEF Raise
<1>1. ASSUME NEW p \in Percepts, Perceive(p) PROVE FALSE
  BY <1>1 DEF Perceive
<1>2. ASSUME NEW q \in todo, Reconcile(q) \/ ReconcileMissing(q) \/ ReconcileAgain(q)
      PROVE  FALSE
  BY <1>2, <1>r DEF Reconcile, ReconcileMissing, ReconcileAgain
<1>4. ASSUME NEW m, FireRule(m) PROVE ChainInv'
  <2>1. chain.position \in 1..Len(Rules)
    BY <1>4, ConstantTypes DEF FireRule, AtRule, ChainInv
  <2>2. PICK f : chain' = [iteration |-> chain.iteration, position |-> chain.position + 1,
                          counter |-> chain.counter + 1, fired |-> f, progressed |-> TRUE]
    BY <1>4 DEF FireRule
  <2>3. /\ chain.position + 1 \in 1..(Len(Rules) + 1) /\ chain.counter + 1 \in Nat
        /\ chain.counter + 1 <= (chain.iteration - 1) * Len(Rules) + (chain.position + 1) - 1
    BY <2>1, NextPosition
  <2> QED  BY <2>2, <2>3 DEF ChainInv
<1>5. ASSUME FireRuleAgain \/ ProviderFails PROVE FALSE
  BY <1>5, <1>r DEF FireRuleAgain, ProviderFails
<1>6. CASE SkipRule
  <2>1. chain.position \in 1..Len(Rules)
    BY <1>6, ConstantTypes DEF SkipRule, AtRule, ChainInv
  <2>2. chain' = [iteration |-> chain.iteration, position |-> chain.position + 1,
                  counter |-> chain.counter, fired |-> chain.fired,
                  progressed |-> chain.progressed]
    BY <1>6 DEF SkipRule, ChainInv
  <2>3. /\ chain.position + 1 \in 1..(Len(Rules) + 1) /\ chain.counter \in Nat
        /\ chain.counter <= (chain.iteration - 1) * Len(Rules) + (chain.position + 1) - 1
    BY <2>1, NextPosition
  <2> QED  BY <2>2, <2>3 DEF ChainInv
<1>7. CASE EndRound
  <2>1. chain.position = Len(Rules) + 1 /\ chain.iteration < MaxIterations
    BY <1>7, ConstantTypes DEF EndRound, OtherRound, RoundsLeft, ChainInv
  <2>2. chain' = [iteration |-> chain.iteration + 1, position |-> 1,
                  counter |-> chain.counter, fired |-> chain.fired,
                  progressed |-> FALSE]
    BY <1>7 DEF EndRound, OtherRound, ChainInv
  <2>3. (chain.iteration - 1) * Len(Rules) + Len(Rules)
          = (chain.iteration + 1 - 1) * Len(Rules)
    BY ConstantTypes DEF ChainInv
  <2>4. chain.counter <= (chain.iteration + 1 - 1) * Len(Rules)
    BY <2>1, <2>3, ConstantTypes DEF ChainInv
  <2> QED  BY <2>1, <2>2, <2>4, ConstantTypes DEF ChainInv
<1>8. ASSUME EndRevision \/ RankRules \/ Propose \/ ScoreHypotheses \/ Decide \/ Calibrate
      PROVE  FALSE
  BY <1>8 DEF EndRevision, RankRules, Propose, ScoreHypotheses, Decide, Calibrate, locals
<1>9. ASSUME Realize \/ Learn PROVE FALSE
  BY <1>9, <1>r DEF Realize, Learn, locals
<1>10. ASSUME UNCHANGED vars PROVE FALSE
  BY <1>10 DEF vars, locals
<1> QED
  BY <1>1, <1>2, <1>4, <1>5, <1>6, <1>7, <1>8, <1>9, <1>10 DEF Next, Cycle

LEMMA AlwaysChain == Spec => []ChainInv
BY ChainInit, ChainStep, PTL DEF Spec

-----------------------------------------------------------------------------
(* Well-formed graphs. *)

BeliefsOK(bs) ==
  /\ DOMAIN bs \subseteq BeliefIds
  /\ \A b \in DOMAIN bs : bs[b].conf \in 0..One /\ bs[b].support \subseteq DOMAIN bs

ThoughtsOK(ts) ==
  /\ DOMAIN ts \subseteq ThoughtIds
  /\ \A t \in DOMAIN ts : ts[t].conf \in 0..One

GraphsOK(g) == BeliefsOK(g.beliefs) /\ ThoughtsOK(g.thoughts)

LEMMA GraphsOfState ==
  ASSUME NEW g
  PROVE  /\ IsState(g) => GraphsOK(g)
         /\ GraphsOK(g) /\ Dag(g) => IsState(g)
BY DEF IsState, GraphsOK, BeliefsOK, ThoughtsOK, Dag

LEMMA PutBeliefOK ==
  ASSUME NEW bs, BeliefsOK(bs), NEW id \in BeliefIds,
         NEW prop, NEW conf \in 0..One, NEW support \in SUBSET DOMAIN bs, NEW prev
  PROVE  BeliefsOK(Put(bs, id, Belief(prop, conf, support, prev)))
<1> DEFINE x == Belief(prop, conf, support, prev)
<1>1. x.conf = conf /\ x.support = support
  BY DEF Belief
<1> HIDE DEF x
<1>2. BeliefsOK(Put(bs, id, x))
  BY <1>1 DEF BeliefsOK, Put
<1> QED  BY <1>2 DEF x

LEMMA RetireOK ==
  ASSUME NEW bs, BeliefsOK(bs), NEW b \in DOMAIN bs
  PROVE  BeliefsOK(Retire(bs, b))
<1> DEFINE mid == Put(bs, b, Belief(bs[b].prop, 0, bs[b].support, bs[b].prev))
<1>v. b \in BeliefIds /\ bs[b].support \in SUBSET DOMAIN bs
  BY DEF BeliefsOK
<1>i. VersionId(b) \in BeliefIds
  BY <1>v DEF BeliefIds, VersionId
<1>1. /\ b \in BeliefIds /\ bs[b].support \in SUBSET DOMAIN bs /\ 0 \in 0..One
      /\ VersionId(b) \in BeliefIds
  BY <1>v, <1>i DEF One
<1>2. BeliefsOK(mid)
  BY <1>1, PutBeliefOK
<1>3. DOMAIN mid = DOMAIN bs
  BY DEF Put
<1>4. Retire(bs, b) = Put(mid, VersionId(b), Belief(bs[b].prop, 0, bs[b].support, b))
  BY DEF Retire
<1> HIDE DEF mid
<1> QED  BY <1>1, <1>2, <1>3, <1>4, PutBeliefOK

\* The premises of a firing are beliefs, at least one, so that the lowest of
\* their confidences exists.
LEMMA LowestOK ==
  ASSUME NEW bs, BeliefsOK(bs), NEW r, NEW m \in Premises(bs, r)
  PROVE  /\ LowestConf(bs, m) \in 0..One
         /\ {m[i] : i \in DOMAIN m} \in SUBSET DOMAIN bs
         /\ \A i \in DOMAIN m : LowestConf(bs, m) <= bs[m[i]].conf
<1> DEFINE C == {bs[m[i]].conf : i \in DOMAIN m}
<1>1. DOMAIN m # {} /\ \A i \in DOMAIN m : m[i] \in DOMAIN bs
  BY DEF Premises
<1>2. C # {} /\ C \subseteq 0..One
  BY <1>1 DEF BeliefsOK
<1>3. C \in SUBSET Nat
  <2> HIDE DEF C
  <2> QED  BY <1>2 DEF One
<1>4. \E c \in C : \A d \in C : c <= d
  <2> HIDE DEF C
  <2> QED  BY <1>2, <1>3, NatHasLeast
<1>5. \E c \in C : \A i \in DOMAIN m : c <= bs[m[i]].conf
  BY <1>4
<1>6. LowestConf(bs, m) \in C /\ \A i \in DOMAIN m : LowestConf(bs, m) <= bs[m[i]].conf
  BY <1>5 DEF LowestConf
<1> QED  BY <1>1, <1>2, <1>6

\* The rule forward_chain is at, and the number its firing would get.
LEMMA NextFiring ==
  ASSUME ChainInv, AtRule
  PROVE  CurrentRule \in RuleIds /\ chain.counter + 1 \in 1..MaxFirings
<1>1. chain.position \in 1..Len(Rules) /\ CurrentRule \in RuleIds
  BY ConstantTypes DEF ChainInv, AtRule, CurrentRule
<1>2. chain.counter \in Nat /\ chain.iteration \in 1..MaxIterations
      /\ chain.counter <= (chain.iteration - 1) * Len(Rules) + chain.position - 1
  BY DEF ChainInv
<1> QED  BY <1>1, <1>2, FiringsBounded

LEMMA FiringOK ==
  ASSUME ChainInv, AtRule, GraphsOK(working), NEW m, FireRule(m)
  PROVE  GraphsOK(working')
<1> DEFINE r == CurrentRule
           n == chain.counter + 1
           low == LowestConf(working.beliefs, m)
           conf == (low * Multiplier[r]) \div One
           bs == Put(working.beliefs, InferredId(r, n),
                     Belief(Conclusion[r], conf, {m[i] : i \in DOMAIN m}, NoBelief))
           ts == Put(working.thoughts, ThoughtId(r, n), Thought(conf, m))
<1>1. r \in RuleIds
  BY NextFiring
<1>2. n \in 1..MaxFirings
  BY NextFiring
<1>3. m \in Premises(working.beliefs, r)
  BY DEF FireRule, NewPremises
<1>4. low \in 0..One /\ {m[i] : i \in DOMAIN m} \in SUBSET DOMAIN working.beliefs
  BY <1>3, LowestOK DEF GraphsOK
<1>5. Multiplier[r] \in 0..One
  BY <1>1, RulesAssumption
<1>6. conf \in 0..One
  <2> HIDE DEF low, r
  <2> QED  BY <1>4, <1>5, ScaledConfidence
<1>7. working'.beliefs = bs /\ working'.thoughts = ts
  BY StateFields DEF FireRule
<1> HIDE DEF r, n, low, conf
<1>8. InferredId(r, n) \in BeliefIds /\ ThoughtId(r, n) \in ThoughtIds
  BY <1>1, <1>2, ConstantTypes DEF InferredId, ThoughtId, BeliefIds, ThoughtIds
<1>9. BeliefsOK(bs)
  BY <1>4, <1>6, <1>8, PutBeliefOK DEF GraphsOK
<1>10. ThoughtsOK(ts)
  BY <1>6, <1>8 DEF GraphsOK, ThoughtsOK, Put, Thought
<1> HIDE DEF bs, ts
<1> QED  BY <1>7, <1>9, <1>10 DEF GraphsOK

LEMMA PerceptOK ==
  ASSUME NEW bs, BeliefsOK(bs), NEW p \in Percepts
  PROVE  BeliefsOK(WithPercept(bs, p))
<1>1. PerceptId(p) \in BeliefIds
  BY ConstantTypes DEF PerceptId, BeliefIds
<1>2. One \in 0..One /\ {} \in SUBSET DOMAIN bs
  BY DEF One
<1> QED  BY <1>1, <1>2, PutBeliefOK DEF WithPercept

LEMMA SeedGraphOK ==
  ASSUME NEW S \in SUBSET Seeds
  PROVE  GraphsOK(State(SeedGraph(S), <<>>, {}))
<1>1. \A s \in S : SeedId(s) \in BeliefIds /\ SeedId(s).name = s
  BY ConstantTypes DEF SeedId, BeliefIds
<1>2. \A s \in S : SeedBelief[s].conf \in 0..One
  BY SeedsAssumption
<1>3. DOMAIN SeedGraph(S) = {SeedId(s) : s \in S}
  BY DEF SeedGraph
<1>4. \A b \in DOMAIN SeedGraph(S) :
        SeedGraph(S)[b].conf = SeedBelief[b.name].conf /\ SeedGraph(S)[b].support = {}
  BY DEF SeedGraph, Belief
<1>5. BeliefsOK(SeedGraph(S))
  BY <1>1, <1>2, <1>3, <1>4 DEF BeliefsOK
<1>6. ThoughtsOK(<<>>)
  BY DEF ThoughtsOK
<1> QED  BY <1>5, <1>6, StateFields DEF GraphsOK

-----------------------------------------------------------------------------
(* The type invariant. *)

GraphsInv == GraphsOK(committed) /\ GraphsOK(working)

LEMMA GraphsInit == Init => GraphsInv
BY SeedGraphOK DEF Init, GraphsInv

LEMMA GraphsStep == TodoInv /\ ChainInv /\ GraphsInv /\ [Next]_vars => GraphsInv'
<1> SUFFICES ASSUME TodoInv, ChainInv, GraphsInv, [Next]_vars
             PROVE  GraphsOK(committed') /\ GraphsOK(working')
  BY DEF GraphsInv, GraphsOK, BeliefsOK, ThoughtsOK
<1> USE DEF GraphsInv
<1>r. ASSUME NEW kind, Raise(kind) PROVE GraphsOK(committed') /\ GraphsOK(working')
  BY <1>r DEF Raise
<1>1. ASSUME NEW p \in Percepts, Perceive(p)
      PROVE  GraphsOK(committed') /\ GraphsOK(working')
  BY <1>1, PerceptOK, StateFields DEF Perceive, GraphsOK
<1>2. ASSUME NEW q \in todo, Reconcile(q)
      PROVE  GraphsOK(committed') /\ GraphsOK(working')
  <2>1. Loser(working.beliefs, q) \in DOMAIN working.beliefs
    BY <1>2, LoserExists DEF Reconcile, TodoInv
  <2>2. /\ working'.beliefs = Retire(working.beliefs, Loser(working.beliefs, q))
        /\ working'.thoughts = working.thoughts
        /\ committed' = committed
    BY <1>2, StateFields DEF Reconcile
  <2> QED  BY <2>1, <2>2, RetireOK DEF GraphsOK
<1>3. ASSUME NEW q \in todo, ReconcileMissing(q) \/ ReconcileAgain(q)
      PROVE  GraphsOK(committed') /\ GraphsOK(working')
  BY <1>3, <1>r DEF ReconcileMissing, ReconcileAgain
<1>4. ASSUME AtRule, NEW m, FireRule(m)
      PROVE  GraphsOK(committed') /\ GraphsOK(working')
  BY <1>4, FiringOK DEF FireRule
<1>5. ASSUME FireRuleAgain \/ ProviderFails
      PROVE  GraphsOK(committed') /\ GraphsOK(working')
  BY <1>5, <1>r DEF FireRuleAgain, ProviderFails
<1>6. CASE EndRevision \/ RankRules \/ SkipRule \/ EndRound
  BY <1>6 DEF EndRevision, RankRules, SkipRule, EndRound
<1>7. CASE Propose \/ ScoreHypotheses \/ Decide \/ Calibrate
  BY <1>7 DEF Propose, ScoreHypotheses, Decide, Calibrate
<1>8. CASE Realize
  BY <1>8, <1>r DEF Realize
<1>9. CASE Learn
  BY <1>9 DEF Learn
<1>10. CASE UNCHANGED vars
  BY <1>10 DEF vars
<1> QED
  BY <1>1, <1>2, <1>3, <1>4, <1>5, <1>6, <1>7, <1>8, <1>9, <1>10 DEF Next, Cycle

\* The stage, the percept and the ways a cycle ends: the constraint engine
\* rejects none, because the thought graph is a DAG.
ControlInv ==
  /\ stage \in {"idle", "revise", "infer", "realize", "learn"} \cup DOMAIN HookOf
  /\ percept \in Percepts \cup {"none"}
  /\ outcome \in {"none", "committed", "provider_failure", "duplicate_id", "key_error"}

LEMMA ControlInit == Init => ControlInv
BY DEF Init, ControlInv

LEMMA ControlStep == DagInv /\ ControlInv /\ [Next]_vars => ControlInv'
<1> SUFFICES ASSUME DagInv, ControlInv, [Next]_vars PROVE ControlInv'
  OBVIOUS
<1> USE DEF ControlInv, HookOf
<1>r. ASSUME NEW kind \in {"provider_failure", "duplicate_id", "key_error"}, Raise(kind)
      PROVE  ControlInv'
  BY <1>r DEF Raise
<1>1. ASSUME NEW p \in Percepts, Perceive(p) PROVE ControlInv'
  BY <1>1 DEF Perceive
<1>2. ASSUME NEW q \in todo, Reconcile(q) PROVE ControlInv'
  BY <1>2 DEF Reconcile, results
<1>3. ASSUME NEW q \in todo, ReconcileMissing(q) \/ ReconcileAgain(q) PROVE ControlInv'
  BY <1>3, <1>r DEF ReconcileMissing, ReconcileAgain
<1>4. ASSUME NEW m, FireRule(m) PROVE ControlInv'
  BY <1>4 DEF FireRule, results
<1>5. ASSUME FireRuleAgain \/ ProviderFails PROVE ControlInv'
  BY <1>5, <1>r DEF FireRuleAgain, ProviderFails
<1>6. CASE EndRevision \/ RankRules \/ SkipRule \/ EndRound
  BY <1>6 DEF EndRevision, RankRules, SkipRule, EndRound, OtherRound, locals, results
<1>7. CASE Propose \/ ScoreHypotheses \/ Decide \/ Calibrate
  BY <1>7 DEF Propose, ScoreHypotheses, Decide, Calibrate, results
<1>8. CASE Realize
  <2>1. Acyclic(working)
    BY DEF DagInv, Dag
  <2> QED  BY <1>8, <2>1 DEF Realize, locals, results
<1>9. CASE Learn
  BY <1>9 DEF Learn
<1>10. CASE UNCHANGED vars
  BY <1>10 DEF vars, locals, results
<1> QED
  BY <1>1, <1>2, <1>3, <1>4, <1>5, <1>6, <1>7, <1>8, <1>9, <1>10 DEF Next, Cycle

\* The pipeline keeps its types: ids stay within the bounds of forward_chain,
\* evidence and edges never dangle, confidences stay in the unit interval and
\* a cycle ends in one of the listed ways, for all rules, seeds and providers.
THEOREM TypeCorrect == Spec => []TypeOK
<1>1. Spec => []GraphsInv
  BY GraphsInit, GraphsStep, AlwaysTodo, AlwaysChain, PTL DEF Spec
<1>2. Spec => []ControlInv
  BY ControlInit, ControlStep, AlwaysDag, PTL DEF Spec
<1>3. GraphsInv /\ ControlInv /\ ChainInv /\ DagInv => TypeOK
  BY GraphsOfState, CounterBounded DEF GraphsInv, ControlInv, ChainInv, DagInv, TypeOK
<1> QED
  BY <1>1, <1>2, <1>3, AlwaysChain, AlwaysDag, PTL

-----------------------------------------------------------------------------
(* Forward chaining stops at a fixpoint.  While no rule fired in a round,  *)
(* neither the beliefs nor the firings changed, so a rule found without    *)
(* new premises still has none at the end of the round.                    *)

RoundInv ==
  /\ stage \in {"revise", "rank_rules"} => chain.position = 1
  /\ stage = "infer" /\ ~ chain.progressed =>
       \A i \in 1..(chain.position - 1) : NewPremises(Rules[i]) = {}
  /\ stage = "propose" /\ ~ chain.progressed =>
       \A r \in RuleIds : NewPremises(r) = {}

LEMMA RoundInit == Init => RoundInv
BY DEF Init, RoundInv

LEMMA NoRoundWhenRaised ==
  ASSUME NEW kind, Raise(kind)
  PROVE  RoundInv'
BY DEF Raise, RoundInv

LEMMA RoundStep == ChainInv /\ RoundInv /\ [Next]_vars => RoundInv'
<1> SUFFICES ASSUME ChainInv, RoundInv, [Next]_vars PROVE RoundInv'
  OBVIOUS
<1>1. ASSUME NEW p \in Percepts, Perceive(p) PROVE RoundInv'
  BY <1>1 DEF Perceive, RoundInv, NoChain
<1>2. ASSUME NEW q \in todo, Reconcile(q) PROVE RoundInv'
  BY <1>2 DEF Reconcile, RoundInv
<1>3. ASSUME NEW q \in todo, ReconcileMissing(q) \/ ReconcileAgain(q) PROVE RoundInv'
  BY <1>3, NoRoundWhenRaised DEF ReconcileMissing, ReconcileAgain
<1>4. ASSUME NEW m, FireRule(m) PROVE RoundInv'
  <2>1. stage' = "infer" /\ chain'.progressed
    BY <1>4 DEF FireRule, AtRule
  <2> QED  BY <2>1 DEF RoundInv
<1>5. ASSUME FireRuleAgain \/ ProviderFails PROVE RoundInv'
  BY <1>5, NoRoundWhenRaised DEF FireRuleAgain, ProviderFails
<1>6. CASE EndRevision \/ RankRules
  BY <1>6 DEF EndRevision, RankRules, RoundInv, locals
<1>7. CASE SkipRule
  <2>1. /\ chain'.position = chain.position + 1 /\ chain'.fired = chain.fired
        /\ chain'.progressed = chain.progressed
    BY <1>7 DEF SkipRule, ChainInv
  <2>2. chain.position \in Nat /\ stage = "infer" /\ stage' = "infer" /\ working' = working
    BY <1>7 DEF SkipRule, AtRule, ChainInv
  <2>3. \A r : NewPremises(r)' = NewPremises(r)
    BY <2>1, <2>2 DEF NewPremises
  <2>4. NewPremises(Rules[chain.position]) = {}
    BY <1>7 DEF SkipRule, CurrentRule
  <2>5. ASSUME ~ chain'.progressed, NEW i \in 1..(chain'.position - 1)
        PROVE  NewPremises(Rules[i])' = {}
    <3>1. i = chain.position \/ i \in 1..(chain.position - 1)
      BY <2>1, <2>2
    <3> QED  BY <2>1, <2>2, <2>3, <2>4, <2>5, <3>1 DEF RoundInv
  <2> QED  BY <2>2, <2>5 DEF RoundInv
<1>8. CASE EndRound
  <2>1. CASE chain.progressed /\ RoundsLeft
    <3>1. chain'.position = 1 /\ stage' = "infer"
      BY <1>8, <2>1 DEF EndRound, OtherRound, ChainInv
    <3> QED  BY <3>1 DEF RoundInv
  <2>2. CASE ~ (chain.progressed /\ RoundsLeft)
    <3>1. /\ stage = "infer" /\ stage' = "propose" /\ chain' = chain /\ working' = working
          /\ chain.position > Len(Rules)
      BY <1>8, <2>2 DEF EndRound
    <3>2. \A r : NewPremises(r)' = NewPremises(r)
      BY <3>1 DEF NewPremises
    <3>3. DOMAIN Rules \subseteq 1..(chain.position - 1)
      BY <3>1, ConstantTypes DEF ChainInv
    <3> QED  BY <3>1, <3>2, <3>3 DEF RoundInv, RuleIds
  <2> QED  BY <2>1, <2>2
<1>9. CASE Propose \/ ScoreHypotheses \/ Decide \/ Calibrate
  BY <1>9 DEF Propose, ScoreHypotheses, Decide, Calibrate, RoundInv
<1>10. CASE Realize
  BY <1>10, NoRoundWhenRaised DEF Realize, RoundInv
<1>11. CASE Learn
  BY <1>11 DEF Learn, RoundInv
<1>12. CASE UNCHANGED vars
  BY <1>12 DEF vars, locals, RoundInv, NewPremises
<1> QED
  BY <1>1, <1>2, <1>3, <1>4, <1>5, <1>6, <1>7, <1>8, <1>9, <1>10, <1>11, <1>12
  DEF Next, Cycle

\* forward_chain gives up rounds only when none of its rules has premises left
\* that it did not fire on, for every rule set and every limit on the rounds.
THEOREM SaturatedAtFixpoint == Spec => []ChainSaturated
<1>1. RoundInv => ChainSaturated
  BY DEF RoundInv, ChainSaturated
<1> QED  BY <1>1, RoundInit, RoundStep, AlwaysChain, PTL DEF Spec

-----------------------------------------------------------------------------
(* Versions.  A belief is an original or the version of one it superseded,  *)
(* and a superseded belief is certain of nothing: so its version id says    *)
(* which belief it replaces, and no two can replace the same one.           *)

\* The ids of seeds, percepts and firings.
Originals ==
  {SeedId(s) : s \in Seeds} \cup {PerceptId(p) : p \in Percepts}
  \cup {InferredId(r, n) : r \in RuleIds, n \in 1..MaxFirings}

LEMMA OriginalRevision == \A b \in Originals : b.rev = 1
BY DEF Originals, SeedId, PerceptId, InferredId

VersionsOK(bs) ==
  \A b \in DOMAIN bs :
    /\ b.rev \in Nat \ {0}
    /\ \/ b \in Originals /\ bs[b].prev = NoBelief
       \/ /\ bs[b].prev \in DOMAIN bs /\ b = VersionId(bs[b].prev)
          /\ bs[b].conf = 0 /\ bs[bs[b].prev].conf = 0

VersionsInv == VersionsOK(committed.beliefs) /\ VersionsOK(working.beliefs)

\* An original belief under an id the graph does not hold.
LEMMA OriginalKeepsVersions ==
  ASSUME NEW bs, VersionsOK(bs), NEW id \in Originals, id \notin DOMAIN bs,
         NEW prop, NEW conf, NEW support
  PROVE  VersionsOK(Put(bs, id, Belief(prop, conf, support, NoBelief)))
<1> DEFINE x == Belief(prop, conf, support, NoBelief)
           cs == Put(bs, id, x)
<1>1. x.prev = NoBelief
  BY DEF Belief
<1> HIDE DEF x
<1>2. DOMAIN cs = DOMAIN bs \cup {id} /\ cs[id] = x /\ \A b \in DOMAIN bs : cs[b] = bs[b]
  BY DEF Put
<1> HIDE DEF cs
<1>3. VersionsOK(cs)
  BY <1>1, <1>2, OriginalRevision DEF VersionsOK
<1> QED  BY <1>3 DEF cs, x

\* What Retire makes of a graph: the belief and its version at confidence 0,
\* everything else as it was.
LEMMA RetireFields ==
  ASSUME NEW bs, NEW b \in DOMAIN bs, VersionId(b) \notin DOMAIN bs
  PROVE  /\ DOMAIN Retire(bs, b) = DOMAIN bs \cup {VersionId(b)}
         /\ \A c \in DOMAIN bs : /\ Retire(bs, b)[c].support = bs[c].support
                                 /\ Retire(bs, b)[c].prev = bs[c].prev
                                 /\ c # b => Retire(bs, b)[c] = bs[c]
         /\ Retire(bs, b)[b].conf = 0
         /\ Retire(bs, b)[VersionId(b)].conf = 0
         /\ Retire(bs, b)[VersionId(b)].prev = b
         /\ Retire(bs, b)[VersionId(b)].support = bs[b].support
<1> DEFINE v == VersionId(b)
           zero == Belief(bs[b].prop, 0, bs[b].support, bs[b].prev)
           version == Belief(bs[b].prop, 0, bs[b].support, b)
           mid == Put(bs, b, zero)
           cs == Put(mid, v, version)
<1>0. cs = Retire(bs, b)
  BY DEF Retire
<1>1. /\ zero.conf = 0 /\ zero.support = bs[b].support /\ zero.prev = bs[b].prev
      /\ version.conf = 0 /\ version.support = bs[b].support /\ version.prev = b
  BY DEF Belief
<1>v. v \notin DOMAIN bs
  OBVIOUS
<1> HIDE DEF zero, version, v
<1>2. DOMAIN mid = DOMAIN bs /\ mid[b] = zero /\ \A c \in DOMAIN bs : c # b => mid[c] = bs[c]
  BY DEF Put
<1> HIDE DEF mid
<1>3. DOMAIN cs = DOMAIN bs \cup {v} /\ cs[v] = version /\ \A c \in DOMAIN bs : cs[c] = mid[c]
  BY <1>2, <1>v DEF Put
<1> HIDE DEF cs
<1>4. /\ DOMAIN cs = DOMAIN bs \cup {v}
      /\ \A c \in DOMAIN bs : /\ cs[c].support = bs[c].support
                              /\ cs[c].prev = bs[c].prev
                              /\ c # b => cs[c] = bs[c]
      /\ cs[b].conf = 0
      /\ cs[v].conf = 0 /\ cs[v].prev = b /\ cs[v].support = bs[b].support
  BY <1>1, <1>2, <1>3
<1> QED  BY <1>0, <1>4 DEF v

LEMMA RetireKeepsVersions ==
  ASSUME NEW bs, VersionsOK(bs), NEW b \in DOMAIN bs, VersionId(b) \notin DOMAIN bs
  PROVE  VersionsOK(Retire(bs, b))
<1> DEFINE cs == Retire(bs, b)
           v == VersionId(b)
<1>0. /\ DOMAIN cs = DOMAIN bs \cup {v}
      /\ \A c \in DOMAIN bs : /\ cs[c].support = bs[c].support
                              /\ cs[c].prev = bs[c].prev
                              /\ c # b => cs[c] = bs[c]
      /\ cs[b].conf = 0
      /\ cs[v].conf = 0
      /\ cs[v].prev = b
      /\ cs[v].support = bs[b].support
  BY RetireFields
<1>1. /\ DOMAIN cs = DOMAIN bs \cup {v}
      /\ \A c \in DOMAIN bs : cs[c].prev = bs[c].prev /\ (c # b => cs[c] = bs[c])
      /\ cs[b].conf = 0 /\ cs[v].conf = 0 /\ cs[v].prev = b
  BY <1>0
<1>2. v.rev \in Nat \ {0} /\ v = VersionId(b)
  BY DEF VersionsOK, VersionId
<1> HIDE DEF cs, v
<1>3. VersionsOK(cs)
  BY <1>1, <1>2 DEF VersionsOK
<1> QED  BY <1>3 DEF cs

LEMMA VersionsInit == Init => VersionsInv
<1>1. ASSUME NEW S \in SUBSET Seeds PROVE VersionsOK(SeedGraph(S))
  <2>1. \A b \in DOMAIN SeedGraph(S) : b \in Originals /\ b.rev = 1
    BY OriginalRevision DEF SeedGraph, Originals
  <2>2. \A b \in DOMAIN SeedGraph(S) : SeedGraph(S)[b].prev = NoBelief
    BY DEF SeedGraph, Belief
  <2> QED  BY <2>1, <2>2 DEF VersionsOK
<1> QED  BY <1>1, StateFields DEF Init, VersionsInv

LEMMA VersionsStep == TodoInv /\ ChainInv /\ VersionsInv /\ [Next]_vars => VersionsInv'
<1> SUFFICES ASSUME TodoInv, ChainInv, VersionsInv, [Next]_vars
             PROVE  VersionsOK(committed'.beliefs) /\ VersionsOK(working'.beliefs)
  BY DEF VersionsInv, VersionsOK
<1> USE DEF VersionsInv
<1>r. ASSUME NEW kind, Raise(kind)
      PROVE  VersionsOK(committed'.beliefs) /\ VersionsOK(working'.beliefs)
  BY <1>r DEF Raise
<1>1. ASSUME NEW p \in Percepts, Perceive(p)
      PROVE  VersionsOK(committed'.beliefs) /\ VersionsOK(working'.beliefs)
  <2>1. PerceptId(p) \in Originals
    BY DEF Originals
  <2>2. VersionsOK(WithPercept(committed.beliefs, p))
    BY <2>1, OriginalKeepsVersions DEF WithPercept
  <2> QED  BY <1>1, <2>2, StateFields DEF Perceive
<1>2. ASSUME NEW q \in todo, Reconcile(q)
      PROVE  VersionsOK(committed'.beliefs) /\ VersionsOK(working'.beliefs)
  <2>1. Loser(working.beliefs, q) \in DOMAIN working.beliefs
    BY <1>2, LoserExists DEF Reconcile, TodoInv
  <2> QED  BY <1>2, <2>1, RetireKeepsVersions, StateFields DEF Reconcile
<1>3. ASSUME NEW q \in todo, ReconcileMissing(q) \/ ReconcileAgain(q)
      PROVE  VersionsOK(committed'.beliefs) /\ VersionsOK(working'.beliefs)
  BY <1>3, <1>r DEF ReconcileMissing, ReconcileAgain
<1>4. ASSUME NEW m, FireRule(m)
      PROVE  VersionsOK(committed'.beliefs) /\ VersionsOK(working'.beliefs)
  <2> DEFINE id == InferredId(CurrentRule, chain.counter + 1)
  <2>1. id \in Originals
    BY <1>4, NextFiring DEF FireRule, Originals
  <2> HIDE DEF id
  <2>2. PICK prop, conf, support, t, e :
          /\ id \notin DOMAIN working.beliefs
          /\ working' = State(Put(working.beliefs, id, Belief(prop, conf, support, NoBelief)), t, e)
    BY <1>4 DEF FireRule, id
  <2> QED  BY <1>4, <2>1, <2>2, OriginalKeepsVersions, StateFields DEF FireRule
<1>5. ASSUME FireRuleAgain \/ ProviderFails
      PROVE  VersionsOK(committed'.beliefs) /\ VersionsOK(working'.beliefs)
  BY <1>5, <1>r DEF FireRuleAgain, ProviderFails
<1>6. CASE EndRevision \/ RankRules \/ SkipRule \/ EndRound
  BY <1>6 DEF EndRevision, RankRules, SkipRule, EndRound
<1>7. CASE Propose \/ ScoreHypotheses \/ Decide \/ Calibrate
  BY <1>7 DEF Propose, ScoreHypotheses, Decide, Calibrate
<1>8. CASE Realize
  BY <1>8, <1>r DEF Realize
<1>9. CASE Learn
  BY <1>9 DEF Learn
<1>10. CASE UNCHANGED vars
  BY <1>10 DEF vars
<1> QED
  BY <1>1, <1>2, <1>3, <1>4, <1>5, <1>6, <1>7, <1>8, <1>9, <1>10 DEF Next, Cycle

LEMMA AlwaysVersions == Spec => []VersionsInv
BY VersionsInit, VersionsStep, AlwaysTodo, AlwaysChain, PTL DEF Spec

LEMMA AlwaysGraphs == Spec => []GraphsInv
BY GraphsInit, GraphsStep, AlwaysTodo, AlwaysChain, PTL DEF Spec

\* Whatever is reconciled, in any number of cycles and after any exception, a
\* version has the belief it replaces below it, both retired, and a belief is
\* replaced by one version at most (revise_belief).
THEOREM SupersededByOne == Spec => []VersionsRetire
<1>1. ASSUME VersionsOK(working.beliefs), BeliefsOK(working.beliefs),
             NEW b \in DOMAIN working.beliefs, b.rev > 1
      PROVE  LET old == working.beliefs[b].prev IN
             /\ old \in DOMAIN working.beliefs
             /\ old.rev = b.rev - 1
             /\ working.beliefs[b].conf = 0 /\ working.beliefs[old].conf = 0
             /\ \A c \in DOMAIN working.beliefs : working.beliefs[c].prev = old => c = b
  <2> DEFINE old == working.beliefs[b].prev
  <2>1. /\ old \in DOMAIN working.beliefs /\ b = VersionId(old)
        /\ working.beliefs[b].conf = 0 /\ working.beliefs[old].conf = 0
    BY <1>1, OriginalRevision DEF VersionsOK
  <2>2. old.rev \in Nat /\ b.rev = old.rev + 1
    BY <1>1, <2>1 DEF VersionsOK, VersionId
  <2>3. old # NoBelief
    BY <1>1, <2>1 DEF BeliefsOK, BeliefIds, NoBelief
  <2>4. ASSUME NEW c \in DOMAIN working.beliefs, working.beliefs[c].prev = old
        PROVE  c = b
    BY <1>1, <2>1, <2>3, <2>4 DEF VersionsOK
  <2> QED  BY <2>1, <2>2, <2>4
<1>2. VersionsInv /\ GraphsInv => VersionsRetire
  BY <1>1 DEF VersionsInv, GraphsInv, GraphsOK, VersionsRetire
<1> QED  BY <1>2, AlwaysVersions, AlwaysGraphs, PTL

-----------------------------------------------------------------------------
(* Belief revision.  While REVISION runs, the pairs left to reconcile cover *)
(* every contradiction between active beliefs: retiring one belief of the   *)
(* pair taken next settles that pair and makes no belief active.  After it, *)
(* only inferred beliefs are added, and they contradict nothing.            *)

Clash(b, c) ==
  /\ b.kind = "seed"
  /\ \/ c.kind = "seed" /\ b.rev = 1 /\ c.rev = 1 /\ {b.name, c.name} \in ContradictEdges
     \/ \E u \in Seeds : c = SeedId(u) /\ <<b.name, u>> \in Mentions

\* Which of its beliefs contradict each other does not depend on the graph.
LEMMA ContradictingIsClash ==
  ASSUME NEW bs, NEW b, NEW c \in DOMAIN bs
  PROVE  c \in Contradicting(bs, b) <=> Clash(b, c)
BY DEF Contradicting, Clash

LEMMA SeedsClash ==
  ASSUME NEW b, NEW c, Clash(b, c)
  PROVE  b.kind = "seed" /\ c.kind = "seed"
<1>1. \A u : SeedId(u).kind = "seed"
  BY DEF SeedId
<1> QED  BY <1>1 DEF Clash

Consistent(bs) == \A b, c \in Active(bs) : ~ Clash(b, c)

CoveredBy(bs, pairs) ==
  \A b, c \in Active(bs) : Clash(b, c) => <<b, c>> \in pairs \/ <<c, b>> \in pairs

RevisionInv ==
  /\ outcome = "committed" => Consistent(committed.beliefs)
  /\ stage = "revise" => CoveredBy(working.beliefs, todo)
  /\ stage \notin {"idle", "revise"} => Consistent(working.beliefs)

\* An active belief was never superseded, so that its place in the order of
\* ids is one of those the constants give.
LEMMA ActiveIsOriginal ==
  ASSUME NEW bs, VersionsOK(bs), NEW b \in Active(bs)
  PROVE  b \in Originals
BY DEF VersionsOK, Active, ActiveMin

LEMMA OriginalRank == \A b \in Originals : BeliefRank(b) \in Nat
BY RanksAssumption DEF Originals

\* Of the two ends a pair can be met from, detect_contradictions drops one at
\* most.
LEMMA DetectCovers ==
  ASSUME NEW bs, VersionsOK(bs)
  PROVE  CoveredBy(bs, DetectContradictions(bs))
<1> SUFFICES ASSUME NEW b \in Active(bs), NEW c \in Active(bs), Clash(b, c),
                    <<b, c>> \notin DetectContradictions(bs)
             PROVE  <<c, b>> \in DetectContradictions(bs)
  BY DEF CoveredBy
<1>1. b \in DOMAIN bs /\ c \in DOMAIN bs
  BY DEF Active
<1>2. c \in Contradicting(bs, b)
  BY <1>1, ContradictingIsClash
<1>3. b \in Contradicting(bs, c) /\ BeliefRank(c) < BeliefRank(b)
  BY <1>1, <1>2 DEF DetectContradictions
<1>4. BeliefRank(b) \in Nat /\ BeliefRank(c) \in Nat
  BY ActiveIsOriginal, OriginalRank
<1>5. ~ (BeliefRank(b) < BeliefRank(c))
  BY <1>3, <1>4
<1> QED  BY <1>1, <1>3, <1>5 DEF DetectContradictions

LEMMA RetiredIsInactive ==
  ASSUME NEW bs, NEW b \in DOMAIN bs, VersionId(b) \notin DOMAIN bs
  PROVE  Active(Retire(bs, b)) \subseteq Active(bs) \ {b}
<1> DEFINE cs == Retire(bs, b)
           v == VersionId(b)
<1>1. /\ DOMAIN cs = DOMAIN bs \cup {v}
      /\ \A c \in DOMAIN bs : /\ cs[c].support = bs[c].support
                              /\ cs[c].prev = bs[c].prev
                              /\ c # b => cs[c] = bs[c]
      /\ cs[b].conf = 0
      /\ cs[v].conf = 0
      /\ cs[v].prev = b
      /\ cs[v].support = bs[b].support
  BY RetireFields
<1> HIDE DEF cs, v
<1>2. Active(cs) \subseteq Active(bs) \ {b}
  BY <1>1 DEF Active, ActiveMin
<1> QED  BY <1>2 DEF cs

LEMMA RetireCovers ==
  ASSUME NEW bs, NEW pairs, CoveredBy(bs, pairs), NEW q,
         Loser(bs, q) \in DOMAIN bs, VersionId(Loser(bs, q)) \notin DOMAIN bs
  PROVE  CoveredBy(Retire(bs, Loser(bs, q)), pairs \ {q})
<1>1. Active(Retire(bs, Loser(bs, q))) \subseteq Active(bs) \ {Loser(bs, q)}
  BY RetiredIsInactive
<1>2. Loser(bs, q) = q[1] \/ Loser(bs, q) = q[2]
  BY DEF Loser
<1> QED  BY <1>1, <1>2 DEF CoveredBy

LEMMA FiringKeepsConsistent ==
  ASSUME NEW bs, Consistent(bs), NEW id, id.kind = "inf", NEW x
  PROVE  Consistent(Put(bs, id, x))
<1>1. Active(Put(bs, id, x)) \subseteq Active(bs) \cup {id}
  BY DEF Active, Put
<1>2. \A c : ~ Clash(id, c) /\ ~ Clash(c, id)
  BY SeedsClash
<1> QED  BY <1>1, <1>2 DEF Consistent

LEMMA RevisionInit == Init => RevisionInv
BY DEF Init, RevisionInv

LEMMA RevisionWhenRaised ==
  ASSUME NEW kind, kind # "committed", Raise(kind)
  PROVE  RevisionInv'
BY DEF Raise, RevisionInv

\* A stage that leaves the beliefs alone.
LEMMA RevisionWhenKept ==
  ASSUME RevisionInv, stage \notin {"idle", "revise"}, stage' \notin {"idle", "revise"},
         committed' = committed, working' = working, outcome' = outcome
  PROVE  RevisionInv'
BY DEF RevisionInv, Consistent, Active

LEMMA RevisionStep == TodoInv /\ VersionsInv /\ RevisionInv /\ [Next]_vars => RevisionInv'
<1> SUFFICES ASSUME TodoInv, VersionsInv, RevisionInv, [Next]_vars PROVE RevisionInv'
  OBVIOUS
<1>1. ASSUME NEW p \in Percepts, Perceive(p) PROVE RevisionInv'
  <2>1. VersionsOK(WithPercept(committed.beliefs, p))
    <3>1. PerceptId(p) \in Originals
      BY DEF Originals
    <3> QED  BY <3>1, OriginalKeepsVersions DEF WithPercept, VersionsInv
  <2>2. CoveredBy(working'.beliefs, todo')
    BY <1>1, <2>1, DetectCovers, StateFields DEF Perceive
  <2> QED  BY <1>1, <2>2 DEF Perceive, RevisionInv
<1>2. ASSUME NEW q \in todo, Reconcile(q) PROVE RevisionInv'
  <2>1. Loser(working.beliefs, q) \in DOMAIN working.beliefs
    BY <1>2, LoserExists DEF Reconcile, TodoInv
  <2>2. /\ working'.beliefs = Retire(working.beliefs, Loser(working.beliefs, q))
        /\ todo' = todo \ {q} /\ VersionId(Loser(working.beliefs, q)) \notin DOMAIN working.beliefs
        /\ stage = "revise" /\ stage' = "revise" /\ committed' = committed /\ outcome' = outcome
    BY <1>2, StateFields DEF Reconcile, results
  <2>3. CoveredBy(working'.beliefs, todo')
    BY <2>1, <2>2, RetireCovers DEF RevisionInv
  <2> QED  BY <2>2, <2>3 DEF RevisionInv
<1>3. ASSUME NEW q \in todo, ReconcileMissing(q) \/ ReconcileAgain(q) PROVE RevisionInv'
  BY <1>3, RevisionWhenRaised DEF ReconcileMissing, ReconcileAgain
<1>4. ASSUME NEW m, FireRule(m) PROVE RevisionInv'
  <2>1. PICK id, x, t, e : id.kind = "inf" /\ working' = State(Put(working.beliefs, id, x), t, e)
    BY <1>4 DEF FireRule, InferredId
  <2>2. /\ stage = "infer" /\ stage' = "infer" /\ committed' = committed /\ outcome' = outcome
    BY <1>4 DEF FireRule, AtRule, results
  <2>3. Consistent(working'.beliefs)
    BY <2>1, <2>2, FiringKeepsConsistent, StateFields DEF RevisionInv
  <2> QED  BY <2>2, <2>3 DEF RevisionInv
<1>5. ASSUME FireRuleAgain \/ ProviderFails PROVE RevisionInv'
  BY <1>5, RevisionWhenRaised DEF FireRuleAgain, ProviderFails
<1>6. CASE EndRevision
  <2>1. Consistent(working.beliefs)
    BY <1>6 DEF EndRevision, RevisionInv, CoveredBy, Consistent
  <2> QED  BY <1>6, <2>1 DEF EndRevision, RevisionInv, results
<1>7. CASE RankRules \/ SkipRule \/ EndRound
  BY <1>7, RevisionWhenKept DEF RankRules, SkipRule, AtRule, EndRound, OtherRound, results
<1>8. CASE Propose \/ ScoreHypotheses \/ Decide \/ Calibrate
  BY <1>8, RevisionWhenKept DEF Propose, ScoreHypotheses, Decide, Calibrate, results
<1>9. CASE Realize
  BY <1>9, RevisionWhenRaised, RevisionWhenKept DEF Realize, results
<1>10. CASE Learn
  BY <1>10 DEF Learn, RevisionInv
<1>11. CASE UNCHANGED vars
  BY <1>11 DEF vars, locals, results, RevisionInv
<1> QED
  BY <1>1, <1>2, <1>3, <1>4, <1>5, <1>6, <1>7, <1>8, <1>9, <1>10, <1>11 DEF Next, Cycle

LEMMA AlwaysRevised == Spec => []RevisionInv
BY RevisionInit, RevisionStep, AlwaysTodo, AlwaysVersions, PTL DEF Spec

\* A published state holds no two active beliefs that contradict each other,
\* whatever the seeds, the edges and the contradictions fields are: reconciling
\* the pairs detected once, at the head of REVISION, is enough.
THEOREM PublishedIsConsistent == Spec => []PublishedConsistent
<1>1. ASSUME NEW b \in Active(committed.beliefs), NEW c \in Active(committed.beliefs),
             Consistent(committed.beliefs)
      PROVE  c \notin Contradicting(committed.beliefs, b)
  <2>1. c \in DOMAIN committed.beliefs
    BY DEF Active
  <2> QED  BY <1>1, <2>1, ContradictingIsClash DEF Consistent
<1>2. RevisionInv => PublishedConsistent
  BY <1>1 DEF RevisionInv, PublishedConsistent
<1> QED  BY <1>2, AlwaysRevised, PTL

-----------------------------------------------------------------------------
(* Inference is grounded.  A belief and its thought are added together,     *)
(* under ids that name each other; afterwards the support of the belief     *)
(* never changes and a premise changes by being retired only.               *)

\* A certainty scaled by a multiplier is not exceeded.
LEMMA ScaledBelow ==
  ASSUME NEW c \in 0..One, NEW m \in 0..One
  PROVE  (c * m) \div One <= c
<1> DEFINE k == c * m
<1>1. k \in Nat /\ k <= c * One
  BY DEF One
<1> HIDE DEF k
<1>2. k \div One <= c
  BY <1>1 DEF One
<1> QED  BY <1>2 DEF k

LEMMA IdFields ==
  ASSUME NEW r, NEW n
  PROVE  /\ InferredId(r, n).kind = "inf" /\ InferredId(r, n).name = r /\ InferredId(r, n).n = n
         /\ ThoughtId(r, n).rule = r /\ ThoughtId(r, n).n = n
BY DEF InferredId, ThoughtId

\* Of one thought of a graph, and of the whole graph.
ThoughtGrounded(bs, ts, t) ==
  LET i == InferredId(t.rule, t.n) IN
  /\ i \in DOMAIN bs
  /\ bs[i].support = {ts[t].consumed[j] : j \in DOMAIN ts[t].consumed}
  /\ \A c \in bs[i].support : bs[c].conf = 0 \/ ts[t].conf <= bs[c].conf

GroundedIn(bs, ts) ==
  /\ \A t \in DOMAIN ts : ThoughtGrounded(bs, ts, t)
  /\ \A b \in DOMAIN bs : b.kind = "inf" => ThoughtId(b.name, b.n) \in DOMAIN ts

LEMMA GroundedFields ==
  ASSUME NEW g
  PROVE  InferenceGrounded(g) <=> GroundedIn(g.beliefs, g.thoughts)
BY Zenon DEF InferenceGrounded, GroundedIn, ThoughtGrounded

\* A belief that no rule inferred, under an id the graph does not hold.
LEMMA ObservationKeepsGrounded ==
  ASSUME NEW bs, NEW ts, GroundedIn(bs, ts), BeliefsOK(bs),
         NEW id, id \notin DOMAIN bs, id.kind # "inf", NEW x
  PROVE  GroundedIn(Put(bs, id, x), ts)
<1> DEFINE cs == Put(bs, id, x)
<1>1. DOMAIN cs = DOMAIN bs \cup {id} /\ \A b \in DOMAIN bs : cs[b] = bs[b]
  BY DEF Put
<1> HIDE DEF cs
<1>2. \A b \in DOMAIN bs : bs[b].support \subseteq DOMAIN bs
  BY DEF BeliefsOK
<1>3. ASSUME NEW t \in DOMAIN ts PROVE ThoughtGrounded(cs, ts, t)
  <2>1. ThoughtGrounded(bs, ts, t)
    BY DEF GroundedIn
  <2> QED  BY <1>1, <1>2, <2>1 DEF ThoughtGrounded
<1>4. \A b \in DOMAIN cs : b.kind = "inf" => ThoughtId(b.name, b.n) \in DOMAIN ts
  BY <1>1 DEF GroundedIn
<1>5. GroundedIn(cs, ts)
  BY <1>3, <1>4 DEF GroundedIn
<1> QED  BY <1>5 DEF cs

LEMMA RetireKeepsGrounded ==
  ASSUME NEW bs, NEW ts, GroundedIn(bs, ts), BeliefsOK(bs),
         NEW b \in DOMAIN bs, VersionId(b) \notin DOMAIN bs
  PROVE  GroundedIn(Retire(bs, b), ts)
<1> DEFINE cs == Retire(bs, b)
           v == VersionId(b)
<1>1. /\ DOMAIN cs = DOMAIN bs \cup {v}
      /\ \A c \in DOMAIN bs : /\ cs[c].support = bs[c].support
                              /\ cs[c].prev = bs[c].prev
                              /\ c # b => cs[c] = bs[c]
      /\ cs[b].conf = 0
      /\ cs[v].conf = 0
      /\ cs[v].prev = b
      /\ cs[v].support = bs[b].support
  BY RetireFields
<1>2. v.kind = b.kind /\ v.name = b.name /\ v.n = b.n
  BY DEF VersionId
<1> HIDE DEF cs, v
<1>3. \A c \in DOMAIN bs : bs[c].support \subseteq DOMAIN bs
  BY DEF BeliefsOK
<1>4. \A c \in DOMAIN bs : cs[c].conf = 0 \/ cs[c].conf = bs[c].conf
  BY <1>1
<1>5. \A c \in DOMAIN cs : c.kind = "inf" => ThoughtId(c.name, c.n) \in DOMAIN ts
  BY <1>1, <1>2 DEF GroundedIn
<1>6. ASSUME NEW t \in DOMAIN ts PROVE ThoughtGrounded(cs, ts, t)
  <2> DEFINE i == InferredId(t.rule, t.n)
  <2>1. /\ i \in DOMAIN bs
        /\ bs[i].support = {ts[t].consumed[j] : j \in DOMAIN ts[t].consumed}
        /\ \A c \in bs[i].support : bs[c].conf = 0 \/ ts[t].conf <= bs[c].conf
    BY DEF GroundedIn, ThoughtGrounded
  <2> HIDE DEF i
  <2>2. i \in DOMAIN cs /\ cs[i].support = bs[i].support
    BY <1>1, <2>1
  <2>3. \A c \in bs[i].support : cs[c].conf = 0 \/ ts[t].conf <= cs[c].conf
    BY <1>3, <1>4, <2>1
  <2> QED  BY <2>1, <2>2, <2>3 DEF i, ThoughtGrounded
<1>7. GroundedIn(cs, ts)
  BY <1>5, <1>6 DEF GroundedIn
<1> QED  BY <1>7 DEF cs

\* A firing whose conclusion is no more certain than any of its premises.
LEMMA FiringKeepsGrounded ==
  ASSUME NEW bs, NEW ts, GroundedIn(bs, ts), BeliefsOK(bs), NEW r, NEW n,
         InferredId(r, n) \notin DOMAIN bs, ThoughtId(r, n) \notin DOMAIN ts,
         NEW m, \A i \in DOMAIN m : m[i] \in DOMAIN bs,
         NEW conf, \A i \in DOMAIN m : conf <= bs[m[i]].conf, NEW prop
  PROVE  GroundedIn(Put(bs, InferredId(r, n),
                        Belief(prop, conf, {m[i] : i \in DOMAIN m}, NoBelief)),
                    Put(ts, ThoughtId(r, n), Thought(conf, m)))
<1> DEFINE id == InferredId(r, n)
           t == ThoughtId(r, n)
           x == Belief(prop, conf, {m[i] : i \in DOMAIN m}, NoBelief)
           y == Thought(conf, m)
           cs == Put(bs, id, x)
           us == Put(ts, t, y)
<1>1. x.support = {m[i] : i \in DOMAIN m} /\ y.consumed = m /\ y.conf = conf
  BY DEF Belief, Thought
<1>2. id \notin DOMAIN bs /\ t \notin DOMAIN ts
  OBVIOUS
<1>3. id.kind = "inf" /\ ThoughtId(id.name, id.n) = t /\ InferredId(t.rule, t.n) = id
  BY IdFields
<1> HIDE DEF id, t, x, y
<1>4. DOMAIN cs = DOMAIN bs \cup {id} /\ cs[id] = x /\ \A b \in DOMAIN bs : cs[b] = bs[b]
  BY <1>2 DEF Put
<1>5. DOMAIN us = DOMAIN ts \cup {t} /\ us[t] = y /\ \A u \in DOMAIN ts : us[u] = ts[u]
  BY <1>2 DEF Put
<1> HIDE DEF cs, us
<1>6. \A b \in DOMAIN bs : bs[b].support \subseteq DOMAIN bs
  BY DEF BeliefsOK
<1>7. \A b \in DOMAIN cs : b.kind = "inf" => ThoughtId(b.name, b.n) \in DOMAIN us
  BY <1>3, <1>4, <1>5 DEF GroundedIn
<1>8. ThoughtGrounded(cs, us, t)
  <2>1. cs[id].support = {us[t].consumed[j] : j \in DOMAIN us[t].consumed}
    BY <1>1, <1>4, <1>5
  <2>2. \A c \in cs[id].support : us[t].conf <= cs[c].conf
    BY <1>1, <1>4, <1>5
  <2> QED  BY <1>3, <1>4, <2>1, <2>2 DEF ThoughtGrounded
<1>9. ASSUME NEW u \in DOMAIN ts PROVE ThoughtGrounded(cs, us, u)
  <2> DEFINE i == InferredId(u.rule, u.n)
  <2>1. us[u] = ts[u]
    BY <1>5
  <2>2. /\ i \in DOMAIN bs
        /\ bs[i].support = {us[u].consumed[j] : j \in DOMAIN us[u].consumed}
        /\ \A c \in bs[i].support : bs[c].conf = 0 \/ us[u].conf <= bs[c].conf
    BY <2>1 DEF GroundedIn, ThoughtGrounded
  <2> HIDE DEF i
  <2>3. cs[i] = bs[i] /\ \A c \in bs[i].support : cs[c] = bs[c]
    BY <1>4, <1>6, <2>2
  <2> QED  BY <1>4, <2>2, <2>3 DEF i, ThoughtGrounded
<1>10. GroundedIn(cs, us)
  BY <1>5, <1>7, <1>8, <1>9 DEF GroundedIn
<1> QED  BY <1>10 DEF cs, us, id, t, x, y

LEMMA GroundedInit == Init => Grounded
<1> SUFFICES ASSUME Init PROVE GroundedIn(committed.beliefs, committed.thoughts)
  BY GroundedFields DEF Init, Grounded
<1>1. PICK S \in SUBSET Seeds : committed.beliefs = SeedGraph(S) /\ committed.thoughts = <<>>
  BY StateFields DEF Init
<1>2. \A b \in DOMAIN SeedGraph(S) : b.kind = "seed"
  BY DEF SeedGraph, SeedId
<1> QED  BY <1>1, <1>2 DEF GroundedIn

LEMMA GroundedStep ==
  TodoInv /\ ChainInv /\ GraphsInv /\ Grounded /\ [Next]_vars => Grounded'
<1> SUFFICES ASSUME TodoInv, ChainInv, GraphsInv, Grounded, [Next]_vars
             PROVE  InferenceGrounded(committed') /\ InferenceGrounded(working')
  BY GroundedFields DEF Grounded
<1> USE DEF Grounded
<1>g. /\ GroundedIn(committed.beliefs, committed.thoughts)
      /\ GroundedIn(working.beliefs, working.thoughts)
  BY GroundedFields
<1>b. BeliefsOK(committed.beliefs) /\ BeliefsOK(working.beliefs)
  BY DEF GraphsInv, GraphsOK
<1>r. ASSUME NEW kind, Raise(kind)
      PROVE  InferenceGrounded(committed') /\ InferenceGrounded(working')
  BY <1>r DEF Raise
<1>1. ASSUME NEW p \in Percepts, Perceive(p)
      PROVE  InferenceGrounded(committed') /\ InferenceGrounded(working')
  <2>1. PerceptId(p).kind # "inf"
    BY DEF PerceptId
  <2>2. GroundedIn(WithPercept(committed.beliefs, p), committed.thoughts)
    BY <1>b, <1>g, <2>1, ObservationKeepsGrounded DEF WithPercept
  <2>3. GroundedIn(working'.beliefs, working'.thoughts) /\ committed' = committed
    BY <1>1, <2>2, StateFields DEF Perceive
  <2> QED  BY <2>3, GroundedFields
<1>2. ASSUME NEW q \in todo, Reconcile(q)
      PROVE  InferenceGrounded(committed') /\ InferenceGrounded(working')
  <2>1. Loser(working.beliefs, q) \in DOMAIN working.beliefs
    BY <1>2, LoserExists DEF Reconcile, TodoInv
  <2>2. GroundedIn(working'.beliefs, working'.thoughts) /\ committed' = committed
    BY <1>2, <1>b, <1>g, <2>1, RetireKeepsGrounded, StateFields DEF Reconcile
  <2> QED  BY <2>2, GroundedFields
<1>3. ASSUME NEW q \in todo, ReconcileMissing(q) \/ ReconcileAgain(q)
      PROVE  InferenceGrounded(committed') /\ InferenceGrounded(working')
  BY <1>3, <1>r DEF ReconcileMissing, ReconcileAgain
<1>4. ASSUME NEW m, FireRule(m)
      PROVE  InferenceGrounded(committed') /\ InferenceGrounded(working')
  <2> DEFINE r == CurrentRule
             low == LowestConf(working.beliefs, m)
             conf == (low * Multiplier[r]) \div One
  <2>1. m \in Premises(working.beliefs, r) /\ r \in RuleIds
    BY <1>4, NextFiring DEF FireRule, NewPremises
  <2>2. /\ low \in 0..One
        /\ \A i \in DOMAIN m : m[i] \in DOMAIN working.beliefs /\ low <= working.beliefs[m[i]].conf
    BY <1>b, <2>1, LowestOK
  <2>3. Multiplier[r] \in 0..One
    BY <2>1, RulesAssumption
  <2>4. conf <= low /\ conf \in 0..One
    <3> HIDE DEF low, r
    <3> QED  BY <2>2, <2>3, ScaledBelow, ScaledConfidence
  <2>5. \A i \in DOMAIN m : working.beliefs[m[i]].conf \in 0..One
    BY <2>2 DEF GraphsInv, GraphsOK, BeliefsOK
  <2>6. ASSUME NEW i \in DOMAIN m PROVE conf <= working.beliefs[m[i]].conf
    <3> DEFINE c == working.beliefs[m[i]].conf
    <3>1. c \in 0..One /\ low <= c
      BY <2>2, <2>5
    <3> HIDE DEF low, conf, c
    <3>2. conf <= c
      BY <2>2, <2>4, <3>1 DEF One
    <3> QED  BY <3>2 DEF c
  <2>7. GroundedIn(working'.beliefs, working'.thoughts) /\ committed' = committed
    BY <1>4, <1>b, <1>g, <2>2, <2>6, FiringKeepsGrounded, StateFields DEF FireRule
  <2> QED  BY <2>7, GroundedFields
<1>5. ASSUME FireRuleAgain \/ ProviderFails
      PROVE  InferenceGrounded(committed') /\ InferenceGrounded(working')
  BY <1>5, <1>r DEF FireRuleAgain, ProviderFails
<1>6. CASE EndRevision \/ RankRules \/ SkipRule \/ EndRound
  BY <1>6 DEF EndRevision, RankRules, SkipRule, EndRound
<1>7. CASE Propose \/ ScoreHypotheses \/ Decide \/ Calibrate
  BY <1>7 DEF Propose, ScoreHypotheses, Decide, Calibrate
<1>8. CASE Realize
  BY <1>8, <1>r DEF Realize
<1>9. CASE Learn
  BY <1>9 DEF Learn
<1>10. CASE UNCHANGED vars
  BY <1>10 DEF vars
<1> QED
  BY <1>1, <1>2, <1>3, <1>4, <1>5, <1>6, <1>7, <1>8, <1>9, <1>10 DEF Next, Cycle

\* Every inferred belief has the thought of its firing, cites exactly the
\* premises that thought consumed, and is no more certain than any of them
\* that was not superseded since, for all rules, multipliers and graphs.
THEOREM AlwaysGrounded == Spec => []Grounded
BY GroundedInit, GroundedStep, AlwaysTodo, AlwaysChain, AlwaysGraphs, PTL DEF Spec

-----------------------------------------------------------------------------
(* Scores.  The average that evaluate_hypotheses takes in turn is defined    *)
(* by recursion over the supporting thoughts in id order.  Its value exists  *)
(* and stays within the unit interval because every place in that order is   *)
(* taken: the thoughts are finitely many and no two share a place.  Facts    *)
(* about all the places are proved from a least place where they fail.       *)

LEMMA ThoughtIdsFinite == IsFiniteSet(ThoughtIds)
<1>1. IsFiniteSet(1..Len(Rules)) /\ IsFiniteSet(1..MaxFirings)
  BY ConstantTypes, FS_Interval
<1>2. Rules \in Surjection(1..Len(Rules), RuleIds)
  BY RulesAssumption, ConstantTypes DEF Surjection, RuleIds
<1>3. IsFiniteSet(RuleIds)
  BY <1>1, <1>2, FS_Surjection
<1> DEFINE P == RuleIds \X (1..MaxFirings)
           f == [x \in P |-> [rule |-> x[1], n |-> x[2]]]
<1>4. IsFiniteSet(P)
  BY <1>1, <1>3, FS_Product
<1>5. f \in Surjection(P, ThoughtIds)
  <2>1. f \in [P -> ThoughtIds]
    BY DEF ThoughtIds
  <2>2. ASSUME NEW t \in ThoughtIds PROVE \E x \in P : f[x] = t
    <3>1. <<t.rule, t.n>> \in P /\ t = [rule |-> t.rule, n |-> t.n]
      BY DEF ThoughtIds
    <3>2. f[<<t.rule, t.n>>] = t
      BY <3>1
    <3> QED  BY <3>1, <3>2
  <2> QED  BY <2>1, <2>2 DEF Surjection
<1> HIDE DEF P, f
<1> QED  BY <1>4, <1>5, FS_Surjection

LEMMA ThoughtPlaces ==
  /\ \A t \in ThoughtIds : ThoughtRank(t) \in Nat
  /\ \A t, u \in ThoughtIds : ThoughtRank(t) = ThoughtRank(u) => t = u
<1>1. \A t \in ThoughtIds : t.rule \in RuleIds /\ t.n \in 1..MaxFirings
                            /\ t = ThoughtId(t.rule, t.n)
  BY DEF ThoughtIds, ThoughtId
<1> QED  BY <1>1, RanksAssumption

\* As many thoughts as there are: each place has one.
LEMMA PlacesTaken ==
  ASSUME NEW S \in SUBSET ThoughtIds, NEW i \in 1..Cardinality(S)
  PROVE  InIdOrder(S, i) \in S
<1> DEFINE n == Cardinality(S)
           upTo(t) == {u \in S : ThoughtRank(u) <= ThoughtRank(t)}
           place == [t \in S |-> Cardinality(upTo(t))]
<1>1. IsFiniteSet(S) /\ n \in Nat
  BY ThoughtIdsFinite, FS_Subset, FS_CardinalityType
<1>2. \A t \in S : ThoughtRank(t) \in Nat
  BY ThoughtPlaces
<1>3. ASSUME NEW t \in S PROVE IsFiniteSet(upTo(t)) /\ Cardinality(upTo(t)) \in 1..n
  <2>1. upTo(t) \in SUBSET S /\ t \in upTo(t)
    BY <1>2
  <2> HIDE DEF upTo
  <2>2. IsFiniteSet(upTo(t)) /\ Cardinality(upTo(t)) <= n
    BY <1>1, <2>1, FS_Subset
  <2>3. Cardinality(upTo(t)) \in Nat /\ Cardinality(upTo(t)) # 0
    BY <2>1, <2>2, FS_CardinalityType, FS_EmptySet
  <2> QED  BY <1>1, <2>2, <2>3
<1>4. ASSUME NEW t \in S, NEW u \in S, ThoughtRank(t) < ThoughtRank(u)
      PROVE  place[t] # place[u]
  <2>1. upTo(t) \in SUBSET upTo(u) /\ u \in upTo(u) /\ u \notin upTo(t)
    BY <1>2, <1>4
  <2> HIDE DEF upTo
  <2>2. Cardinality(upTo(t)) # Cardinality(upTo(u))
    BY <1>3, <2>1, FS_Subset
  <2> QED  BY <2>2
<1>5. place \in Injection(S, 1..n)
  <2>1. place \in [S -> 1..n]
    BY <1>3
  <2> HIDE DEF place
  <2>2. ASSUME NEW t \in S, NEW u \in S, place[t] = place[u] PROVE t = u
    <3>1. ~ (ThoughtRank(t) < ThoughtRank(u)) /\ ~ (ThoughtRank(u) < ThoughtRank(t))
      BY <1>4, <2>2
    <3> QED  BY <1>2, <3>1, ThoughtPlaces
  <2> QED  BY <2>1, <2>2 DEF Injection, IsInjective
<1>6. place \in Surjection(S, 1..n)
  <2> HIDE DEF place, n
  <2>1. IsFiniteSet(1..n) /\ Cardinality(1..n) = n
    BY <1>1, FS_Interval
  <2>2. Cardinality(S) = Cardinality(1..n)
    BY <2>1 DEF n
  <2> QED  BY <1>1, <1>5, <2>1, <2>2, FS_Injection
<1>7. \E t \in S : place[t] = i
  <2> HIDE DEF place
  <2> QED  BY <1>6 DEF Surjection
<1>8. \E t \in S : Cardinality({u \in S : ThoughtRank(u) <= ThoughtRank(t)}) = i
  BY <1>7
<1> QED  BY <1>8 DEF InIdOrder

\* a[k] is the average of conf and the first k of n confidences c.
Averages(a, n, conf, c) ==
  a = [i \in 0..n |-> IF i = 0 THEN conf ELSE (a[i - 1] + c[i]) \div 2]

\* The recursion has a solution over any number of values.
LEMMA AveragesExist ==
  ASSUME NEW n \in Nat, NEW conf, NEW c
  PROVE  \E a : Averages(a, n, conf, c)
<1> DEFINE Missing == {k \in Nat : ~ \E a : Averages(a, k, conf, c)}
<1>1. SUFFICES ASSUME Missing # {} PROVE FALSE
  OBVIOUS
<1>2. PICK k \in Missing : \A l \in Missing : k <= l
  <2>1. Missing \in SUBSET Nat
    OBVIOUS
  <2> HIDE DEF Missing
  <2> QED  BY <1>1, <2>1, NatHasLeast
<1>3. k \in Nat /\ ~ \E a : Averages(a, k, conf, c)
  OBVIOUS
<1>4. CASE k = 0
  <2> DEFINE a == [i \in 0..0 |-> conf]
  <2>1. Averages(a, 0, conf, c)
    BY DEF Averages
  <2> QED  BY <1>3, <1>4, <2>1
<1>5. CASE k # 0
  <2>1. k - 1 \in Nat /\ k - 1 \notin Missing
    <3> HIDE DEF Missing
    <3> QED  BY <1>2, <1>3, <1>5
  <2>2. PICK a : Averages(a, k - 1, conf, c)
    BY <2>1
  <2> DEFINE b == [i \in 0..k |-> IF i = k THEN (a[k - 1] + c[k]) \div 2 ELSE a[i]]
  <2>3. ASSUME NEW i \in 0..k
        PROVE  b[i] = IF i = 0 THEN conf ELSE (b[i - 1] + c[i]) \div 2
    <3>1. CASE i = k
      BY <1>3, <1>5, <3>1
    <3>2. CASE i # k
      <4>1. i \in 0..(k - 1) /\ b[i] = a[i]
        BY <1>3, <3>2
      <4>2. a[i] = IF i = 0 THEN conf ELSE (a[i - 1] + c[i]) \div 2
        BY <2>2, <4>1 DEF Averages
      <4>3. i # 0 => b[i - 1] = a[i - 1]
        BY <1>3, <4>1
      <4> QED  BY <4>1, <4>2, <4>3
    <3> QED  BY <3>1, <3>2
  <2>4. b = [i \in 0..k |-> b[i]]
    OBVIOUS
  <2> HIDE DEF b
  <2>5. Averages(b, k, conf, c)
    BY <2>3, <2>4 DEF Averages
  <2> QED  BY <1>3, <2>5
<1> QED  BY <1>4, <1>5

LEMMA MeanTyped ==
  ASSUME NEW x \in 0..One, NEW y \in 0..One
  PROVE  (x + y) \div 2 \in 0..One
BY DEF One

\* An average of confidences is a confidence.
LEMMA AveragesTyped ==
  ASSUME NEW n \in Nat, NEW conf \in 0..One, NEW c, \A i \in 1..n : c[i] \in 0..One,
         NEW a, Averages(a, n, conf, c)
  PROVE  a[n] \in 0..One
<1> DEFINE Outside == {i \in 0..n : a[i] \notin 0..One}
<1>0. /\ 0 \in 0..n => a[0] = conf
      /\ \A i \in 1..n : a[i] = (a[i - 1] + c[i]) \div 2
  BY DEF Averages
<1>1. SUFFICES ASSUME Outside # {} PROVE FALSE
  OBVIOUS
<1>2. PICK i \in Outside : \A j \in Outside : i <= j
  <2>1. Outside \in SUBSET Nat
    OBVIOUS
  <2> HIDE DEF Outside
  <2> QED  BY <1>1, <2>1, NatHasLeast
<1>3. i # 0
  BY <1>0
<1>4. i \in 1..n /\ i - 1 \in 0..n /\ ~ (i <= i - 1)
  BY <1>3
<1>5. a[i - 1] \in 0..One
  BY <1>2, <1>4
<1>6. c[i] \in 0..One /\ a[i] = (a[i - 1] + c[i]) \div 2
  BY <1>0, <1>4
<1>7. a[i] \in 0..One
  BY <1>5, <1>6, MeanTyped
<1> QED  BY <1>7

\* The score of a hypothesis is a confidence.
LEMMA ScoreTyped ==
  ASSUME NEW ts, ThoughtsOK(ts), NEW conf \in 0..One, NEW S \in SUBSET DOMAIN ts
  PROVE  Score(ts, conf, S) \in 0..One
<1> DEFINE n == Cardinality(S)
           c == [i \in 1..n |-> ts[InIdOrder(S, i)].conf]
           Solves(a) ==
             a = [i \in 0..n |-> IF i = 0 THEN conf
                                 ELSE (a[i - 1] + ts[InIdOrder(S, i)].conf) \div 2]
           averaged == CHOOSE a : Solves(a)
<1>1. S \in SUBSET ThoughtIds
  BY DEF ThoughtsOK
<1>2. n \in Nat
  BY <1>1, ThoughtIdsFinite, FS_Subset, FS_CardinalityType
<1>3. \A i \in 1..n : c[i] = ts[InIdOrder(S, i)].conf /\ c[i] \in 0..One
  <2>1. \A i \in 1..n : InIdOrder(S, i) \in DOMAIN ts
    BY <1>1, PlacesTaken
  <2> QED  BY <2>1 DEF ThoughtsOK
<1>4. ASSUME NEW a PROVE Solves(a) <=> Averages(a, n, conf, c)
  <2>1. \A i \in 0..n : i # 0 => c[i] = ts[InIdOrder(S, i)].conf
    BY <1>2, <1>3
  <2> HIDE DEF c, n
  <2>2. [i \in 0..n |-> IF i = 0 THEN conf ELSE (a[i - 1] + ts[InIdOrder(S, i)].conf) \div 2]
        = [i \in 0..n |-> IF i = 0 THEN conf ELSE (a[i - 1] + c[i]) \div 2]
    BY <2>1
  <2> QED  BY <2>2 DEF Averages
<1>5. \E a : Solves(a)
  <2> HIDE DEF c, n, Solves
  <2> QED  BY <1>2, <1>4, AveragesExist
<1>6. Solves(averaged)
  <2> HIDE DEF Solves
  <2> QED  BY <1>5
<1>7. averaged[n] \in 0..One
  <2> HIDE DEF c, n, Solves, averaged
  <2> QED  BY <1>2, <1>3, <1>4, <1>6, AveragesTyped
<1>8. Score(ts, conf, S) = averaged[n]
  BY DEF Score
<1> QED  BY <1>7, <1>8

-----------------------------------------------------------------------------
(* The decision.  From HYPOTHESIS to LEARNING the candidates are those of    *)
(* the working copy, which no stage changes any more, and from DECISION on   *)
(* the decision is the one made of them: the providers' answers change       *)
(* neither.                                                                  *)

\* Belief graphs are finite: the candidates can be numbered.
FiniteInv == IsFiniteSet(DOMAIN committed.beliefs) /\ IsFiniteSet(DOMAIN working.beliefs)

LEMMA PutFinite ==
  ASSUME NEW bs, IsFiniteSet(DOMAIN bs), NEW b, NEW x
  PROVE  IsFiniteSet(DOMAIN Put(bs, b, x))
BY FS_AddElement DEF Put

LEMMA SeedGraphFinite ==
  ASSUME NEW S \in SUBSET Seeds
  PROVE  IsFiniteSet(DOMAIN SeedGraph(S))
<1> DEFINE f == [s \in S |-> SeedId(s)]
<1>1. IsFiniteSet(S)
  BY SeedsAssumption, FS_Subset
<1>2. f \in Surjection(S, DOMAIN SeedGraph(S))
  BY DEF Surjection, SeedGraph
<1> HIDE DEF f
<1> QED  BY <1>1, <1>2, FS_Surjection

LEMMA FiniteInit == Init => FiniteInv
BY SeedGraphFinite, StateFields DEF Init, FiniteInv

LEMMA FiniteStep == FiniteInv /\ [Next]_vars => FiniteInv'
<1> SUFFICES ASSUME FiniteInv, [Next]_vars PROVE FiniteInv'
  OBVIOUS
<1> USE DEF FiniteInv
<1>r. ASSUME NEW kind, Raise(kind) PROVE FiniteInv'
  BY <1>r DEF Raise
<1>1. ASSUME NEW p \in Percepts, Perceive(p) PROVE FiniteInv'
  BY <1>1, PutFinite, StateFields DEF Perceive, WithPercept
<1>2. ASSUME NEW q \in todo, Reconcile(q) PROVE FiniteInv'
  BY <1>2, PutFinite, StateFields DEF Reconcile, Retire
<1>3. ASSUME NEW q \in todo, ReconcileMissing(q) \/ ReconcileAgain(q) PROVE FiniteInv'
  BY <1>3, <1>r DEF ReconcileMissing, ReconcileAgain
<1>4. ASSUME NEW m, FireRule(m) PROVE FiniteInv'
  BY <1>4, PutFinite, StateFields DEF FireRule
<1>5. ASSUME FireRuleAgain \/ ProviderFails PROVE FiniteInv'
  BY <1>5, <1>r DEF FireRuleAgain, ProviderFails
<1>6. CASE EndRevision \/ RankRules \/ SkipRule \/ EndRound
  BY <1>6 DEF EndRevision, RankRules, SkipRule, EndRound
<1>7. CASE Propose \/ ScoreHypotheses \/ Decide \/ Calibrate
  BY <1>7 DEF Propose, ScoreHypotheses, Decide, Calibrate
<1>8. CASE Realize
  BY <1>8, <1>r DEF Realize
<1>9. CASE Learn
  BY <1>9 DEF Learn
<1>10. CASE UNCHANGED vars
  BY <1>10 DEF vars
<1> QED
  BY <1>1, <1>2, <1>3, <1>4, <1>5, <1>6, <1>7, <1>8, <1>9, <1>10 DEF Next, Cycle

LEMMA AlwaysFinite == Spec => []FiniteInv
BY FiniteInit, FiniteStep, PTL DEF Spec

\* What generate_hypotheses returns for a well-formed graph.
CandidatesOK(hs, g) ==
  /\ hs # {}
  /\ IsFiniteSet(hs)
  /\ \A h \in hs : /\ h.score \in 0..One
                   /\ h.belief = NoBelief \/ h.belief \in Active(g.beliefs)
                   /\ h.thoughts \subseteq DOMAIN g.thoughts

LEMMA CandidatesTyped ==
  ASSUME NEW g, GraphsOK(g), IsFiniteSet(DOMAIN g.beliefs), NEW p
  PROVE  CandidatesOK(Candidates(g, p), g)
<1> DEFINE matching == {b \in Active(g.beliefs) : g.beliefs[b].prop \in Relevant[p]}
           Supporting(b) ==
             {t \in DOMAIN g.thoughts :
                \E i \in DOMAIN g.thoughts[t].consumed : g.thoughts[t].consumed[i] = b}
           default == {[belief |-> NoBelief, thoughts |-> {}, score |-> DefaultScore]}
           matched == {[belief |-> b, thoughts |-> Supporting(b),
                        score |-> Score(g.thoughts, g.beliefs[b].conf, Supporting(b))]
                       : b \in matching}
<1>1. Candidates(g, p) = IF matching = {} THEN default ELSE matched
  BY DEF Candidates
<1>2. CandidatesOK(default, g)
  <2>1. DefaultScore \in 0..One
    BY DEF DefaultScore, One
  <2>2. IsFiniteSet(default)
    BY FS_Singleton, Zenon
  <2> QED  BY <2>1, <2>2 DEF CandidatesOK
<1>3. ASSUME NEW b \in matching
      PROVE  /\ Score(g.thoughts, g.beliefs[b].conf, Supporting(b)) \in 0..One
             /\ b \in Active(g.beliefs)
             /\ Supporting(b) \subseteq DOMAIN g.thoughts
  <2>1. b \in Active(g.beliefs) /\ b \in DOMAIN g.beliefs
    BY DEF Active
  <2>2. Supporting(b) \in SUBSET DOMAIN g.thoughts
    OBVIOUS
  <2>3. g.beliefs[b].conf \in 0..One /\ ThoughtsOK(g.thoughts)
    BY <2>1 DEF GraphsOK, BeliefsOK
  <2> HIDE DEF Supporting
  <2> QED  BY <2>1, <2>2, <2>3, ScoreTyped
<1>4. matching # {} => CandidatesOK(matched, g)
  <2> SUFFICES ASSUME matching # {} PROVE CandidatesOK(matched, g)
    OBVIOUS
  <2>1. matched # {}
    <3> HIDE DEF matching, Supporting
    <3> QED  OBVIOUS
  <2>2. ASSUME NEW h \in matched
        PROVE  /\ h.score \in 0..One
               /\ h.belief \in Active(g.beliefs)
               /\ h.thoughts \subseteq DOMAIN g.thoughts
    <3> HIDE DEF matching, Supporting
    <3>1. PICK b \in matching :
            h = [belief |-> b, thoughts |-> Supporting(b),
                 score |-> Score(g.thoughts, g.beliefs[b].conf, Supporting(b))]
      OBVIOUS
    <3>2. /\ h.belief = b /\ h.thoughts = Supporting(b)
          /\ h.score = Score(g.thoughts, g.beliefs[b].conf, Supporting(b))
      BY <3>1
    <3> QED  BY <1>3, <3>2
  <2>3. IsFiniteSet(matched)
    <3> DEFINE f == [b \in matching |->
                       [belief |-> b, thoughts |-> Supporting(b),
                        score |-> Score(g.thoughts, g.beliefs[b].conf, Supporting(b))]]
    <3>1. IsFiniteSet(matching)
      <4>1. matching \in SUBSET DOMAIN g.beliefs
        BY DEF Active
      <4> QED  BY <4>1, FS_Subset
    <3>2. f \in Surjection(matching, matched)
      <4> HIDE DEF matching, Supporting
      <4> QED  BY DEF Surjection
    <3> HIDE DEF f, matching, matched
    <3> QED  BY <3>1, <3>2, FS_Surjection
  <2> HIDE DEF matched
  <2> QED  BY <2>1, <2>2, <2>3 DEF CandidatesOK
<1> HIDE DEF matching, default, matched
<1> QED  BY <1>1, <1>2, <1>4

\* Of finitely graded candidates, one is first in place among the best.
LEMMA BestExists ==
  ASSUME NEW S, S # {}, NEW top \in Nat, NEW score, NEW place,
         \A h \in S : score[h] \in 0..top /\ place[h] \in Nat
  PROVE  \E w \in S : \A k \in S :
           \/ score[k] < score[w]
           \/ score[k] = score[w] /\ place[w] <= place[k]
<1> DEFINE Deficits == {top - score[h] : h \in S}
<1>1. PICK best \in S : \A k \in S : score[k] <= score[best]
  <2>1. Deficits \in SUBSET Nat /\ Deficits # {}
    <3>1. \A h \in S : top - score[h] \in Nat
      OBVIOUS
    <3> QED  BY <3>1
  <2>2. \E d \in Deficits : \A e \in Deficits : d <= e
    <3> HIDE DEF Deficits
    <3> QED  BY <2>1, NatHasLeast
  <2>3. PICK b \in S : \A k \in S : top - score[b] <= top - score[k]
    BY <2>2
  <2>4. \A k \in S : score[k] <= score[b]
    BY <2>3
  <2> QED  BY <2>4
<1> DEFINE tied == {h \in S : score[h] = score[best]}
           Places == {place[h] : h \in tied}
<1>2. PICK w \in tied : \A k \in tied : place[w] <= place[k]
  <2>1. Places \in SUBSET Nat /\ Places # {}
    OBVIOUS
  <2>2. \E d \in Places : \A e \in Places : d <= e
    <3> HIDE DEF Places
    <3> QED  BY <2>1, NatHasLeast
  <2> QED  BY <2>2
<1>3. \A k \in S : score[k] < score[best] \/ k \in tied
  BY <1>1
<1> QED  BY <1>2, <1>3

\* Every candidate has a number, and its id a place.
LEMMA CandidatePlaced ==
  ASSUME NEW hs, IsFiniteSet(hs), NEW h
  PROVE  CandidateRank(Number(hs, h)) \in Nat
<1> DEFINE upTo == {k \in hs : BeliefRank(k.belief) <= BeliefRank(h.belief)}
<1>1. Cardinality(upTo) \in Nat
  BY FS_Subset, FS_CardinalityType
<1>2. Number(hs, h) \in Nat
  BY <1>1 DEF Number
<1>3. \A n \in Nat : CandidateRank(n) \in Nat
  BY DEF CandidateRank
<1> QED  BY <1>2, <1>3

\* The candidate the resolver accepts has the highest score: it is the first in
\* id order among those of that score.
LEMMA WinnerIsBest ==
  ASSUME NEW hs, hs # {}, IsFiniteSet(hs), \A h \in hs : h.score \in 0..One
  PROVE  /\ Winner(hs) \in hs
         /\ \A k \in hs : k.score < Winner(hs).score \/ k.score = Winner(hs).score
<1> DEFINE score == [h \in hs |-> h.score]
           place == [h \in hs |-> CandidateRank(Number(hs, h))]
           Beats(h, k) == \/ k.score < h.score
                          \/ /\ k.score = h.score
                             /\ CandidateRank(Number(hs, h)) <= CandidateRank(Number(hs, k))
<1>1. \A h \in hs : score[h] = h.score /\ place[h] = CandidateRank(Number(hs, h))
  OBVIOUS
<1>2. One \in Nat /\ \A h \in hs : score[h] \in 0..One /\ place[h] \in Nat
  <2>1. One \in Nat
    BY DEF One
  <2> QED  BY <1>1, <2>1, CandidatePlaced
<1> HIDE DEF score, place
<1>3. PICK w \in hs : \A k \in hs : \/ score[k] < score[w]
                                    \/ score[k] = score[w] /\ place[w] <= place[k]
  BY <1>2, BestExists
<1>4. \A k \in hs : Beats(w, k)
  BY <1>1, <1>3
<1>5. Winner(hs) = CHOOSE h \in hs : \A k \in hs : Beats(h, k)
  BY DEF Winner
<1>6. Winner(hs) \in hs /\ \A k \in hs : Beats(Winner(hs), k)
  <2> HIDE DEF Beats
  <2> QED  BY <1>4, <1>5
<1> QED  BY <1>6

\* A decision never refers to nothing: the thought in front of the others
\* exists as soon as there is one.
LEMMA FallbackTyped ==
  ASSUME NEW ts, ThoughtsOK(ts)
  PROVE  /\ FallbackThoughts(DOMAIN ts) # {}
         /\ DOMAIN ts # {} => FallbackThoughts(DOMAIN ts) \subseteq DOMAIN ts
<1> DEFINE Places == {ThoughtRank(t) : t \in DOMAIN ts}
<1>1. DOMAIN ts # {} => FirstThoughts(DOMAIN ts) # {}
  <2> SUFFICES ASSUME DOMAIN ts # {} PROVE FirstThoughts(DOMAIN ts) # {}
    OBVIOUS
  <2>1. Places \in SUBSET Nat /\ Places # {}
    BY ThoughtPlaces DEF ThoughtsOK
  <2>2. \E d \in Places : \A e \in Places : d <= e
    <3> HIDE DEF Places
    <3> QED  BY <2>1, NatHasLeast
  <2> QED  BY <2>2 DEF FirstThoughts
<1> QED  BY <1>1 DEF FallbackThoughts, FirstThoughts

\* What DecisionGrounded says of a decision d made of the candidates hs over g.
GroundedDecision(d, hs, g) ==
  /\ d.refs # {}
  /\ DOMAIN g.thoughts # {} => d.refs \subseteq DOMAIN g.thoughts
  /\ d.belief # NoBelief => d.belief \in Active(g.beliefs)
  /\ IF d.type = "response"
     THEN \E h \in hs : h.belief = d.belief /\ \A k \in hs : k.score <= h.score
     ELSE \A k \in hs : k.score < DecisionMin

LEMMA DecisionTyped ==
  ASSUME NEW hs, NEW g, CandidatesOK(hs, g), ThoughtsOK(g.thoughts), NEW goal
  PROVE  GroundedDecision(MakeDecision(hs, DOMAIN g.thoughts, goal), hs, g)
<1> DEFINE w == Winner(hs)
           d == MakeDecision(hs, DOMAIN g.thoughts, goal)
           fallback == FallbackThoughts(DOMAIN g.thoughts)
<1>1. w \in hs /\ \A k \in hs : k.score < w.score \/ k.score = w.score
  BY WinnerIsBest DEF CandidatesOK
<1>2. /\ \A k \in hs : k.score \in 0..One
      /\ w.belief = NoBelief \/ w.belief \in Active(g.beliefs)
      /\ w.thoughts \subseteq DOMAIN g.thoughts
  BY <1>1 DEF CandidatesOK
<1>3. fallback # {} /\ (DOMAIN g.thoughts # {} => fallback \subseteq DOMAIN g.thoughts)
  BY FallbackTyped
<1>4. ASSUME NEW k \in hs
      PROVE  /\ k.score <= w.score
             /\ ~ (w.score >= DecisionMin) => k.score < DecisionMin
  <2> DEFINE x == k.score
             y == w.score
  <2>1. x \in 0..One /\ y \in 0..One /\ (x < y \/ x = y)
    BY <1>1, <1>2
  <2> HIDE DEF w, x, y
  <2>2. x <= y /\ (~ (y >= DecisionMin) => x < DecisionMin)
    BY <2>1 DEF DecisionMin, One
  <2> QED  BY <2>2 DEF x, y
<1>5. CASE w.score >= DecisionMin
  <2>1. /\ d.type = "response" /\ d.belief = w.belief
        /\ d.refs = IF w.thoughts # {} THEN w.thoughts ELSE fallback
    BY <1>5 DEF MakeDecision
  <2> HIDE DEF w, d, fallback
  <2>2. d.refs # {} /\ (DOMAIN g.thoughts # {} => d.refs \subseteq DOMAIN g.thoughts)
    BY <1>2, <1>3, <2>1
  <2>3. d.belief # NoBelief => d.belief \in Active(g.beliefs)
    BY <1>2, <2>1
  <2>4. w \in hs /\ w.belief = d.belief /\ \A k \in hs : k.score <= w.score
    BY <1>1, <1>4, <2>1
  <2>5. GroundedDecision(d, hs, g)
    BY <2>1, <2>2, <2>3, <2>4, Zenon DEF GroundedDecision
  <2> QED  BY <2>5 DEF d
<1>6. CASE ~ (w.score >= DecisionMin)
  <2>1. d.type = "defer" /\ d.belief = NoBelief /\ d.refs = fallback
    BY <1>6 DEF MakeDecision
  <2>2. \A k \in hs : k.score < DecisionMin
    BY <1>4, <1>6
  <2> HIDE DEF w, d, fallback
  <2>3. GroundedDecision(d, hs, g)
    BY <1>3, <2>1, <2>2 DEF GroundedDecision
  <2> QED  BY <2>3 DEF d
<1> QED  BY <1>5, <1>6

DecisionInv ==
  /\ stage \in {"score", "decide"} =>
       hypotheses = Candidates(working, percept) /\ observed = hypotheses
  /\ stage \in {"calibrate", "realize", "learn"} =>
       /\ observed = Candidates(working, percept)
       /\ \E goal : decision = MakeDecision(observed, DOMAIN working.thoughts, goal)

LEMMA DecisionInit == Init => DecisionInv
BY DEF Init, DecisionInv

\* A stage before HYPOTHESIS runs next, or none.
LEMMA NoDecisionYet ==
  stage' \notin {"score", "decide", "calibrate", "realize", "learn"} => DecisionInv'
BY DEF DecisionInv

LEMMA DecisionStep == DecisionInv /\ [Next]_vars => DecisionInv'
<1> SUFFICES ASSUME DecisionInv, [Next]_vars,
                    stage' \in {"score", "decide", "calibrate", "realize", "learn"}
             PROVE  DecisionInv'
  BY NoDecisionYet
<1>r. \A kind : ~ Raise(kind)
  BY DEF Raise
<1>1. ASSUME NEW p \in Percepts, Perceive(p) PROVE FALSE
  BY <1>1 DEF Perceive
<1>2. ASSUME NEW q \in todo, Reconcile(q) \/ ReconcileMissing(q) \/ ReconcileAgain(q)
      PROVE  FALSE
  BY <1>2, <1>r DEF Reconcile, ReconcileMissing, ReconcileAgain
<1>3. ASSUME NEW m, FireRule(m) PROVE FALSE
  BY <1>3 DEF FireRule, AtRule
<1>4. ASSUME FireRuleAgain \/ SkipRule \/ EndRound \/ ProviderFails PROVE FALSE
  BY <1>4, <1>r DEF FireRuleAgain, SkipRule, AtRule, EndRound, OtherRound, ProviderFails
<1>5. ASSUME EndRevision \/ RankRules \/ Learn PROVE FALSE
  BY <1>5 DEF EndRevision, RankRules, Learn
<1>6. CASE Propose
  <2>1. /\ stage' = "score" /\ working' = working /\ percept' = percept
        /\ hypotheses' = Candidates(working, percept) /\ observed' = hypotheses'
    BY <1>6 DEF Propose
  <2> QED  BY <2>1 DEF DecisionInv
<1>7. CASE ScoreHypotheses
  <2>1. /\ stage = "score" /\ stage' = "decide" /\ working' = working /\ percept' = percept
        /\ hypotheses' = hypotheses /\ observed' = observed
    BY <1>7 DEF ScoreHypotheses, results
  <2> QED  BY <2>1 DEF DecisionInv
<1>8. CASE Decide
  <2>1. /\ stage = "decide" /\ stage' = "calibrate" /\ working' = working /\ percept' = percept
        /\ observed' = observed
        /\ decision' = MakeDecision(hypotheses, DOMAIN working.thoughts, goals'[1])
    BY <1>8 DEF Decide
  <2> QED  BY <2>1 DEF DecisionInv
<1>9. CASE Calibrate
  <2>1. /\ stage = "calibrate" /\ stage' = "realize" /\ working' = working
        /\ percept' = percept /\ observed' = observed /\ decision' = decision
    BY <1>9 DEF Calibrate, results
  <2> QED  BY <2>1 DEF DecisionInv
<1>10. CASE Realize
  <2>1. /\ stage = "realize" /\ stage' = "learn" /\ working' = working
        /\ percept' = percept /\ observed' = observed /\ decision' = decision
    BY <1>10, <1>r DEF Realize, locals, results
  <2> QED  BY <2>1 DEF DecisionInv
<1>11. CASE UNCHANGED vars
  <2>1. /\ stage' = stage /\ working' = working /\ percept' = percept
        /\ hypotheses' = hypotheses /\ observed' = observed /\ decision' = decision
    BY <1>11 DEF vars, locals, results
  <2> QED  BY <2>1 DEF DecisionInv
<1> QED
  BY <1>1, <1>2, <1>3, <1>4, <1>5, <1>6, <1>7, <1>8, <1>9, <1>10, <1>11 DEF Next, Cycle

\* A decision refers to thoughts of the state its cycle publishes, responds
\* with a candidate of the highest score resting on an active belief, and
\* defers only when none reaches the threshold, for all graphs, rules and
\* percepts and whatever the providers answer.
THEOREM AlwaysDecisionGrounded == Spec => []DecisionGrounded
<1>1. Spec => []DecisionInv
  BY DecisionInit, DecisionStep, PTL DEF Spec
<1>2. DecisionInv /\ GraphsInv /\ FiniteInv => DecisionGrounded
  <2> SUFFICES ASSUME DecisionInv, GraphsInv, FiniteInv,
                      stage \in {"calibrate", "realize", "learn"}
               PROVE  GroundedDecision(decision, observed, working)
    BY DEF DecisionGrounded, GroundedDecision
  <2>1. /\ observed = Candidates(working, percept)
        /\ \E goal : decision = MakeDecision(observed, DOMAIN working.thoughts, goal)
    BY DEF DecisionInv
  <2>2. CandidatesOK(observed, working)
    BY <2>1, CandidatesTyped DEF GraphsInv, FiniteInv
  <2> QED  BY <2>1, <2>2, DecisionTyped DEF GraphsInv, GraphsOK
<1> QED  BY <1>1, <1>2, AlwaysGraphs, AlwaysFinite, PTL
=============================================================================
