--------------------- MODULE SymbolicPipelineProperties ---------------------
(***************************************************************************)
(* What the cognitive cycle of SymbolicPipeline must satisfy.              *)
(***************************************************************************)
EXTENDS SymbolicPipeline

BeliefIds ==
  [kind : {"seed", "percept", "inf"}, name : Seeds \cup Percepts \cup RuleIds,
   n : 0..MaxFirings, rev : Nat]
ThoughtIds == [rule : RuleIds, n : 1..MaxFirings]

IsState(g) ==
  /\ DOMAIN g.beliefs \subseteq BeliefIds
  /\ \A b \in DOMAIN g.beliefs :
        /\ g.beliefs[b].conf \in 0..One
        /\ g.beliefs[b].support \subseteq DOMAIN g.beliefs
  /\ DOMAIN g.thoughts \subseteq ThoughtIds
  /\ \A t \in DOMAIN g.thoughts : g.thoughts[t].conf \in 0..One
  /\ g.edges \subseteq (DOMAIN g.thoughts) \X (DOMAIN g.thoughts)

\* Every id is well formed and no edge or evidence dangles: the endpoints of
\* thought edges and the supports of beliefs are nodes of their graphs.
TypeOK ==
  /\ IsState(committed)
  /\ IsState(working)
  /\ stage \in {"idle", "revise", "infer", "realize", "learn"} \cup DOMAIN HookOf
  /\ percept \in Percepts \cup {"none"}
  /\ chain.position \in 1..(Len(Rules) + 1) /\ chain.iteration \in 1..MaxIterations
  /\ chain.counter \in 0..MaxFirings
  /\ outcome \in {"none", "committed", "provider_failure", "duplicate_id", "key_error"}

\* The thought graph is a DAG at every step of every cycle, so add_edge never
\* takes an edge back and the FATAL constraint of the REALIZATION stage never
\* rejects a cycle.
ThoughtsAcyclic == Acyclic(committed) /\ Acyclic(working)

\* Canon invariants 4 and 5: an inferred belief and the thought of the same
\* firing exist together, the belief cites exactly the premises the thought
\* consumed, and is no more certain than any of them that was not superseded
\* since.
InferenceGrounded(g) ==
  /\ \A t \in DOMAIN g.thoughts :
        LET b == InferredId(t.rule, t.n) IN
        /\ b \in DOMAIN g.beliefs
        /\ g.beliefs[b].support = {g.thoughts[t].consumed[i] : i \in DOMAIN g.thoughts[t].consumed}
        /\ \A c \in g.beliefs[b].support :
              g.beliefs[c].conf = 0 \/ g.thoughts[t].conf <= g.beliefs[c].conf
  /\ \A b \in DOMAIN g.beliefs :
        b.kind = "inf" => ThoughtId(b.name, b.n) \in DOMAIN g.thoughts

Grounded == InferenceGrounded(committed) /\ InferenceGrounded(working)

\* Versioned superseding (revise_belief): a version has the belief it
\* replaces below it, both are at confidence 0, and a belief is never
\* replaced by two versions, whatever contradictions were reconciled.
VersionsRetire ==
  \A b \in DOMAIN working.beliefs :
    b.rev > 1 =>
      LET old == working.beliefs[b].prev IN
      /\ old \in DOMAIN working.beliefs
      /\ old.rev = b.rev - 1
      /\ working.beliefs[b].conf = 0 /\ working.beliefs[old].conf = 0
      /\ \A c \in DOMAIN working.beliefs : working.beliefs[c].prev = old => c = b

\* Once a cycle has published a state, no two active beliefs of it contradict
\* each other: REVISION reconciles every pair before LEARNING.
PublishedConsistent ==
  outcome = "committed" =>
    \A b, c \in Active(committed.beliefs) :
      c \notin Contradicting(committed.beliefs, b)

\* Canon law 2 and invariant 2, where thoughts exist: a decision refers to
\* thoughts of the state its cycle publishes; it responds with a candidate of
\* the highest score, resting on a belief active there, and defers only when
\* no candidate reaches the threshold.
DecisionGrounded ==
  stage \in {"calibrate", "realize", "learn"} =>
    /\ decision.refs # {}
    /\ DOMAIN working.thoughts # {} => decision.refs \subseteq DOMAIN working.thoughts
    /\ decision.belief # NoBelief => decision.belief \in Active(working.beliefs)
    /\ IF decision.type = "response"
       THEN \E h \in observed : /\ h.belief = decision.belief
                                /\ \A k \in observed : k.score <= h.score
       ELSE \A k \in observed : k.score < DecisionMin

\* forward_chain stops early only at a fixpoint: when its last round fired
\* nothing, no rule has premises it did not fire on.
ChainSaturated ==
  stage = "propose" /\ ~ chain.progressed =>
    \A r \in RuleIds : NewPremises(r) = {}

\* The committed state changes only when a cycle publishes, once per cycle,
\* and only grows; every other way out of a cycle leaves it alone.
CognitiveCycleOf ==
  INSTANCE CognitiveCycle WITH
    state <- committed,
    phase <- IF stage = "idle" THEN "idle" ELSE "thinking",
    published <- outcome = "committed"

ImplementsCognitiveCycle == CognitiveCycleOf!Spec

\* Every cycle ends, by publishing or by raising: the loops of REVISION and
\* INFERENCE are bounded whatever the rules derive from each other.
CycleEnds == stage # "idle" ~> stage = "idle"

-----------------------------------------------------------------------------
(* What the documentation says of a cycle and the code does not do. *)

\* CANON.md, invariant 8: every cycle produces a state S_{t+1}.  No cycle may
\* end in an exception the cognition itself raises.
CycleProducesState == outcome \notin {"duplicate_id", "key_error"}

=============================================================================
