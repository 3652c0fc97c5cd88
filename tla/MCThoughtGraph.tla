----------------------------- MODULE MCThoughtGraph -----------------------------
(***************************************************************************)
(* A small instance of ThoughtGraphProperties: every edge over four        *)
(* thoughts, and a second relation between two of them.                    *)
(***************************************************************************)
EXTENDS ThoughtGraphProperties

MCLinks ==
  [source: Thoughts, target: Thoughts, relation: {"derived_from"}] \cup
  [source: {"t1"}, target: {"t2"}, relation: {"supports"}]
=============================================================================
