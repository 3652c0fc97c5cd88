-------------------------------- MODULE MCQueries --------------------------------
(***************************************************************************)
(* Small domains for Queries: all graphs over ten edges between four       *)
(* concepts, with a self loop, parallel edges of different relations and   *)
(* cycles of every length; candidates that tie in every way.               *)
(***************************************************************************)
EXTENDS Queries, SequencesExt

Key(s, r, t) == [source |-> s, relation |-> r, target |-> t]

MCLinkOrder ==
  <<Key("a", "is_a", "b"), Key("a", "is_a", "c"), Key("a", "related_to", "b"),
    Key("b", "is_a", "b"), Key("b", "is_a", "d"), Key("b", "related_to", "c"),
    Key("c", "is_a", "d"), Key("c", "related_to", "a"),
    Key("d", "is_a", "a"), Key("d", "related_to", "b")>>

\* A weak is_a edge: three hops of it fall under the threshold.
MCWeight ==
  [k \in EdgeKeys |-> IF k.relation = "is_a" /\ k.source \in {"a", "d"} THEN 1 ELSE 10]

MCDepths == {-1, 0, 1, 2, 5}

MCBeliefs ==
  [id : 1..2, confidence : {40, 80}, evidence_count : 0..1, last_verified : 1..2,
   source : {"KNOWLEDGE", "INFERENCE", "MEMORY"}]

Hypothesis(i, s, t, c, st) == [id |-> i, score |-> s, thoughts |-> t, created_at |-> c, state |-> st]

MCHypotheses ==
  {Hypothesis(1, 60, 1, 5, "EVALUATED"), Hypothesis(2, 60, 2, 5, "EVALUATED"),
   Hypothesis(3, 60, 1, 6, "REJECTED"), Hypothesis(4, 20, 2, 6, "EVALUATED"),
   Hypothesis(5, 90, 0, 4, "EVALUATED")}

MCHypothesisLists == SetToAllKPermutations(MCHypotheses) \ {<<>>}

Entry(p, n, as, ls) == [priority |-> p, name |-> n, advertised |-> as, lacks |-> ls]

MCEntryLists ==
  SetToAllKPermutations(
    {Entry(0, 1, {"perceive"}, {}), Entry(0, 2, {"perceive", "generate"}, {}),
     Entry(5, 3, {"generate"}, {}), Entry(0, 4, {"rank"}, {"rank"})})

Rule(i, ps, c) == [id |-> i, premises |-> ps, conclusion |-> c]

\* Two conclude r, which both p and s need; the last one makes r rest on itself.
MCRuleLists ==
  SetToAllKPermutations(
    {Rule(1, <<"p", "r">>, "s"), Rule(2, <<"r">>, "p"), Rule(3, <<"t">>, "r"),
     Rule(4, <<"t">>, "r"), Rule(5, <<"s">>, "r")})
=============================================================================
