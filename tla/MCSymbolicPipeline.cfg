\* The seeded contradiction graph, three rules that feed each other, every hook
\* answered by a provider that may fail at any call.
SPECIFICATION FairSpec
CONSTANTS
  Percepts = {"rain", "sun", "blank"}
  Seeds = {"blue", "green", "dry", "wet"}
  SeedBelief <- MCSeedBelief
  ContradictEdges <- MCContradictEdges
  Mentions <- MCMentions
  Rules <- MCRules
  Conditions <- MCConditions
  Conclusion <- MCConclusion
  Multiplier <- MCMultiplier
  Relevant <- MCRelevant
  BeliefRank <- MCBeliefRank
  ThoughtRank <- MCThoughtRank
  Configured = {"rank_rules", "propose_hypotheses", "score_hypotheses", "rank_goals", "score_confidence"}
  InitialGoals <- MCNoGoals
  MaxIterations = 3
INVARIANTS
  ThoughtsAcyclic
  Grounded
  VersionsRetire
  PublishedConsistent
  DecisionGrounded
  ChainSaturated
PROPERTIES
  ImplementsCognitiveCycle
  CycleEnds
