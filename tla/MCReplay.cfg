\* The 51 cases of the corpus, without a coordinator and with one whose
\* providers answer, and may fail, on every hook: run by the harness, and by a
\* runtime that is given up to MaxTurns percepts and whose traces are replayed.
SPECIFICATION ReplaySpec
CONSTANT
  MaxTurns = 3
INVARIANTS
  CorpusPasses
  BaselineReproduced
  ReplayMatches
CHECK_DEADLOCK FALSE
