------------------------- MODULE MCSymbolicPipeline -------------------------
(***************************************************************************)
(* Small instances of SymbolicPipelineProperties.  Every confidence, and   *)
(* every product and average the instances form, is a whole number of      *)
(* ten-thousandths, so integer division loses nothing.                     *)
(***************************************************************************)
EXTENDS SymbolicPipelineProperties

\* The seeded graph of the contradiction benchmark, a third belief that names
\* `green` in its contradictions field, and a fourth below 0.5.
MCSeedBelief ==
  [blue |-> [prop |-> "sky is blue", conf |-> 10000],
   green |-> [prop |-> "sky is green", conf |-> 6000],
   dry |-> [prop |-> "road is dry", conf |-> 8000],
   wet |-> [prop |-> "road is wet", conf |-> 4000]]

MCContradictEdges == {{"blue", "green"}, {"dry", "wet"}}
MCBlueGreen == {{"blue", "green"}}
MCMentions == {<<"dry", "green">>}
MCNoMentions == {}

\* By salience a rule precedes the rules its premises come from, so a chain of
\* conclusions takes a round of forward chaining per rule.
MCRules == <<"mud", "walk", "slick">>
MCConditions ==
  [slick |-> <<[pred |-> {"rain", "sun"}, min |-> 1000]>>,
   walk |-> <<[pred |-> {"slick"}, min |-> 1000],
              [pred |-> {"sky is blue", "sky is green"}, min |-> 5000]>>,
   mud |-> <<[pred |-> {"walk", "sun"}, min |-> 1000]>>]
MCConclusion == [slick |-> "slick", walk |-> "walk", mud |-> "mud"]
MCMultiplier == [slick |-> 4000, walk |-> 5000, mud |-> 1000]
MCNoRules == <<>>
MCNoGoals == <<>>

\* "blank" is a text of spaces only: it has no words.
MCRelevant ==
  [rain |-> {"rain", "slick", "sky is blue"},
   sun |-> {"sun", "road is wet"},
   blank |-> {}]

\* String order of the ids: belief://inf/... precedes belief://percept/...,
\* which precedes the seeds; a version id follows the id it extends.
MCNameRank ==
  [none |-> 0, mud |-> 1, slick |-> 2, walk |-> 3, blank |-> 4, rain |-> 5, sun |-> 6,
   dry |-> 7, wet |-> 8, blue |-> 9, green |-> 10]
MCBeliefRank(b) == 1000 * MCNameRank[b.name] + 10 * b.n + b.rev
MCThoughtRank(t) == IF t.rule = "sys" THEN 0 ELSE 1000 * MCNameRank[t.rule] + t.n
=============================================================================
