---------------------------------- MODULE Dag ----------------------------------
(***************************************************************************)
(* What a graph of thoughts promises: an edge is added when no cycle       *)
(* results and refused otherwise, at once, and sorting gives every thought *)
(* after those that lead to it.                                            *)
(***************************************************************************)
EXTENDS Naturals, Sequences

CONSTANTS Thoughts, Links

VARIABLES
  nodes, edges,
  outcome,   \* of the last call
  order      \* the thoughts as they were sorted last

vars == <<nodes, edges, outcome, order>>

\* Every nonempty set of nodes has one that no edge of the set leads to.
Acyclic(ns, es) ==
  \A S \in SUBSET ns :
    S # {} => \E n \in S : \A k \in es : k.target = n => k.source \notin S

\* s lists the nodes, once each, the source of an edge before its target.
Sorts(s, ns, es) ==
  /\ {s[i] : i \in DOMAIN s} = ns
  /\ \A i, j \in DOMAIN s : s[i] = s[j] => i = j
  /\ \A k \in es : \A i, j \in DOMAIN s : s[i] = k.source /\ s[j] = k.target => i < j

Returns(result) == outcome' = result /\ order' = <<>>

Init == nodes = {} /\ edges = {} /\ outcome = "none" /\ order = <<>>

\* A call begins.
Call == Returns("none") /\ UNCHANGED <<nodes, edges>>

Add(n) == nodes' = nodes \cup {n} /\ Returns("none") /\ UNCHANGED edges

Remove(n) ==
  /\ nodes' = nodes \ {n}
  /\ edges' = {k \in edges : n \notin {k.source, k.target}}
  /\ Returns("none")

Link(k) ==
  /\ Acyclic(nodes, edges \cup {k})
  /\ edges' = edges \cup {k}
  /\ Returns("added")
  /\ UNCHANGED nodes

Refuse(k) ==
  /\ ~ Acyclic(nodes, edges \cup {k})
  /\ Returns("refused")
  /\ UNCHANGED <<nodes, edges>>

Sort ==
  /\ Sorts(order', nodes, edges)
  /\ outcome' = "sorted"
  /\ UNCHANGED <<nodes, edges>>

Next ==
  \/ Call \/ Sort
  \/ \E n \in Thoughts : Add(n) \/ Remove(n)
  \/ \E k \in Links : Link(k) \/ Refuse(k)

Spec == Init /\ [][Next]_vars
=============================================================================
