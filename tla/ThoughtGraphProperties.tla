------------------------- MODULE ThoughtGraphProperties -------------------------
(***************************************************************************)
(* What ThoughtGraph must satisfy for every sequence of its calls.         *)
(***************************************************************************)
EXTENDS ThoughtGraph

\* The path of the search holds exactly the nodes being visited, and the
\* queue those that have no edge left to wait for and are not emitted.
TypeOK ==
  /\ nodes \subseteq Thoughts /\ edges \subseteq Links
  /\ \A k \in edges : {k.source, k.target} \subseteq nodes
  /\ call \in {"none", "add_edge", "sort"}
  /\ outcome \in {"none", "added", "refused", "sorted"}
  /\ call # "none" => outcome = "none"
  /\ call = "add_edge" =>
       /\ pending \in edges /\ edges = before \cup {pending}
       /\ state \in [nodes -> {Unvisited, Visiting, Visited}]
       /\ \A i \in DOMAIN stack : stack[i].left \subseteq OutOf(stack[i].node)
       /\ {stack[i].node : i \in DOMAIN stack} = {n \in nodes : state[n] = Visiting}
  /\ call = "sort" =>
       /\ in_degree \in [nodes -> 0..Cardinality(edges)]
       /\ queue = {n \in nodes : in_degree[n] = 0} \
                  {sorted_thoughts[i] : i \in DOMAIN sorted_thoughts}

\* add_edge adds an edge or refuses it as one step that sees all cycles and
\* only cycles, and leaves the graph as it was when it refuses; a sort lists
\* all thoughts, the source of each edge before its target.
DagOf ==
  INSTANCE Dag WITH
    edges <- IF call = "add_edge" THEN before ELSE edges,
    order <- IF call = "none" THEN sorted_thoughts ELSE <<>>

ImplementsDag == DagOf!Spec

\* Between calls the graph is acyclic, whatever was added and removed.
IdleIsDag == call # "add_edge" => DagOf!Acyclic(nodes, edges)

\* Every call returns.
CallsReturn == call # "none" ~> call = "none"
=============================================================================
