\* The contradiction benchmark graph, no rules and no providers.
SPECIFICATION Spec
CONSTANTS
  Percepts = {"rain", "sun", "blank"}
  Seeds = {"blue", "green"}
  SeedBelief <- MCSeedBelief
  ContradictEdges <- MCBlueGreen
  Mentions <- MCNoMentions
  Rules <- MCNoRules
  Conditions <- MCConditions
  Conclusion <- MCConclusion
  Multiplier <- MCMultiplier
  Relevant <- MCRelevant
  BeliefRank <- MCBeliefRank
  ThoughtRank <- MCThoughtRank
  Configured = {}
  InitialGoals <- MCNoGoals
  MaxIterations = 3
INVARIANT
  CycleProducesState
