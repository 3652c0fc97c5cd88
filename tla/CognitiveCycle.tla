--------------------------- MODULE CognitiveCycle ---------------------------
(***************************************************************************)
(* What a cognitive cycle promises its callers, without its nine stages:   *)
(* the committed state S_t changes only when a cycle ends, only once per   *)
(* cycle, and only by growing.  A cycle that fails leaves S_t as it was.   *)
(*                                                                         *)
(* A state holds a belief graph, a thought graph and the edges of the      *)
(* thought graph; a belief graph maps belief ids to records with the       *)
(* fields prop and conf.                                                   *)
(***************************************************************************)
EXTENDS Naturals

VARIABLES
  state,      \* the committed state S_t
  phase,      \* "idle" between cycles, "thinking" during one
  published   \* whether the last cycle to end published a state

vars == <<state, phase, published>>

\* Append-only growth with versioned superseding: no id is dropped, a
\* proposition is never rewritten, a confidence stays or falls to zero (the
\* id was superseded), and thoughts and their edges are immutable.
GrowsTo(s, t) ==
  /\ \A b \in DOMAIN s.beliefs :
        /\ b \in DOMAIN t.beliefs
        /\ t.beliefs[b].prop = s.beliefs[b].prop
        /\ t.beliefs[b].conf \in {s.beliefs[b].conf, 0}
  /\ \A x \in DOMAIN s.thoughts :
        /\ x \in DOMAIN t.thoughts
        /\ t.thoughts[x] = s.thoughts[x]
  /\ s.edges \subseteq t.edges

Init == phase = "idle" /\ published = FALSE

Begin ==
  /\ phase = "idle"
  /\ phase' = "thinking"
  /\ UNCHANGED <<state, published>>

Publish ==
  /\ phase = "thinking"
  /\ phase' = "idle"
  /\ published' = TRUE
  /\ GrowsTo(state, state')

Abort ==
  /\ phase = "thinking"
  /\ phase' = "idle"
  /\ published' = FALSE
  /\ UNCHANGED state

Next == Begin \/ Publish \/ Abort

Spec == Init /\ [][Next]_vars
=============================================================================
