CONSTANTS
  Nodes = {"a", "b", "c", "d"}
  Unknown = "x"
  LinkOrder <- MCLinkOrder
  Weight <- MCWeight
  One = 1000000
  Threshold = 1000
  Depths <- MCDepths
  Seeds = {"a", "d", "x"}
  Beliefs <- MCBeliefs
  HypothesisLists <- MCHypothesisLists
  EntryLists <- MCEntryLists
  Capabilities = {"perceive", "generate", "rank"}
  RuleLists <- MCRuleLists
  Goals = {"p", "r", "s", "t"}
  MaxDepths = {1, 2, 6}

SPECIFICATION QuerySpec

INVARIANTS
  SearchesReachTheBall
  PathsAreShortest
  ActivationSumsWalks
  ChoicesIgnoreOrder
  ChainInOrderOfUse
