------------------------------ MODULE ThoughtGraph ------------------------------
(***************************************************************************)
(* ThoughtGraph over the generic Graph.  add_edge adds the edge, has       *)
(* CycleDetector.has_cycle look for a cycle by an iterative depth-first    *)
(* search, and takes the edge out again when there is one;                 *)
(* topological_sort is Kahn's algorithm.  One step per turn of a loop.     *)
(* The code visits nodes and edges in the order of their identifiers,      *)
(* which no result below depends on: any order is allowed here.            *)
(* Calls that raise before they change the graph (DuplicateIdError,        *)
(* DanglingEdgeError) are no steps.                                        *)
(***************************************************************************)
EXTENDS Naturals, Sequences, FiniteSets

CONSTANTS
  Thoughts,
  Links      \* the EdgeKeys that may be added: source, target and relation

ASSUME LinksAssumption ==
  \A k \in Links : k.source \in Thoughts /\ k.target \in Thoughts

VARIABLES
  nodes, edges,      \* the Graph
  call,              \* the call in progress: "none", "add_edge" or "sort"
  pending, before,   \* add_edge: the edge to add, the edges there were
  state, stack,      \* has_cycle: colour of each node, the path to the current one
  in_degree, queue,  \* topological_sort
  sorted_thoughts,
  outcome            \* "none", or how the last call that has a result returned

graph == <<nodes, edges>>
adding == <<pending, before, state, stack>>
sorting == <<in_degree, queue, sorted_thoughts>>
vars == <<graph, call, adding, sorting, outcome>>

NoLink == [source |-> "-", target |-> "-", relation |-> "-"]
NoEntry == <<>>   \* no node has an entry yet

Unvisited == 0
Visiting == 1
Visited == 2

Init ==
  /\ nodes = {} /\ edges = {}
  /\ call = "none" /\ outcome = "none"
  /\ pending = NoLink /\ before = {} /\ state = NoEntry /\ stack = <<>>
  /\ in_degree = NoEntry /\ queue = {} /\ sorted_thoughts = <<>>

OutOf(n) == {k \in edges : k.source = n}
Into(n) == {k \in edges : k.target = n}

Begin(c) == call = "none" /\ call' = c /\ outcome' = "none" /\ sorted_thoughts' = <<>>

\* Back to the caller: the locals are gone.
Return(result) ==
  /\ call' = "none" /\ outcome' = result
  /\ pending' = NoLink /\ before' = {} /\ state' = NoEntry /\ stack' = <<>>
  /\ in_degree' = NoEntry /\ queue' = {}

AddThought(n) ==
  /\ n \notin nodes /\ nodes' = nodes \cup {n}
  /\ Begin("none")
  /\ UNCHANGED <<edges, adding, in_degree, queue>>

\* remove_node takes the node's edges along.
RemoveThought(n) ==
  /\ n \in nodes /\ nodes' = nodes \ {n}
  /\ edges' = edges \ (OutOf(n) \cup Into(n))
  /\ Begin("none")
  /\ UNCHANGED <<adding, in_degree, queue>>

-----------------------------------------------------------------------------
(* add_edge. *)

AddEdge(k) ==
  /\ {k.source, k.target} \subseteq nodes
  /\ Begin("add_edge")
  /\ edges' = edges \cup {k}
  /\ pending' = k /\ before' = edges
  /\ state' = [n \in nodes |-> Unvisited] /\ stack' = <<>>
  /\ UNCHANGED <<nodes, in_degree, queue>>

\* A node on the path, with the edges still to look at.
Entry(n) == [node |-> n, left |-> OutOf(n)]

Top == stack[Len(stack)]
Below == SubSeq(stack, 1, Len(stack) - 1)

Start(n) ==
  /\ call = "add_edge" /\ stack = <<>> /\ state[n] = Unvisited
  /\ state' = [state EXCEPT ![n] = Visiting]
  /\ stack' = <<Entry(n)>>
  /\ UNCHANGED <<graph, call, pending, before, sorting, outcome>>

LooksAt(k) == call = "add_edge" /\ stack # <<>> /\ k \in Top.left

Advanced(k) == Append(Below, [Top EXCEPT !.left = @ \ {k}])

Descend(k) ==
  /\ LooksAt(k) /\ state[k.target] = Unvisited
  /\ state' = [state EXCEPT ![k.target] = Visiting]
  /\ stack' = Append(Advanced(k), Entry(k.target))
  /\ UNCHANGED <<graph, call, pending, before, sorting, outcome>>

\* Fault: the child index does not advance past a finished node.
SkipVisitedStays(k) == LooksAt(k) /\ state[k.target] = Visited /\ UNCHANGED vars

SkipVisited(k) ==
  /\ LooksAt(k) /\ state[k.target] = Visited
  /\ stack' = Advanced(k)
  /\ UNCHANGED <<graph, call, pending, before, state, sorting, outcome>>

Backtrack ==
  /\ call = "add_edge" /\ stack # <<>> /\ Top.left = {}
  /\ state' = [state EXCEPT ![Top.node] = Visited]
  /\ stack' = Below
  /\ UNCHANGED <<graph, call, pending, before, sorting, outcome>>

\* has_cycle is True: the edge is removed and CycleDetectedError raised.
CycleDetected(k) ==
  /\ LooksAt(k) /\ state[k.target] = Visiting
  /\ edges' = edges \ {pending}
  /\ Return("refused")
  /\ UNCHANGED <<nodes, sorted_thoughts>>

NoCycle ==
  /\ call = "add_edge" /\ stack = <<>>
  /\ \A n \in nodes : state[n] # Unvisited
  /\ Return("added")
  /\ UNCHANGED <<graph, sorted_thoughts>>

-----------------------------------------------------------------------------
(* topological_sort. *)

SortBegins ==
  /\ Begin("sort")
  /\ in_degree' = [n \in nodes |-> Cardinality(Into(n))]
  /\ queue' = {n \in nodes : Into(n) = {}}
  /\ UNCHANGED <<graph, adding>>

\* Fault: parallel edges count once.
LessEdgesOnce(n) ==
  [m \in nodes |-> in_degree[m] - (IF OutOf(n) \cap Into(m) = {} THEN 0 ELSE 1)]

LessEdges(n) == [m \in nodes |-> in_degree[m] - Cardinality(OutOf(n) \cap Into(m))]

\* A thought leaves the queue, and those that only waited for it enter.
Emit(n) ==
  /\ call = "sort" /\ n \in queue
  /\ sorted_thoughts' = Append(sorted_thoughts, n)
  /\ in_degree' = LessEdges(n)
  /\ queue' = (queue \ {n}) \cup {m \in nodes : in_degree[m] # 0 /\ in_degree'[m] = 0}
  /\ UNCHANGED <<graph, call, adding, outcome>>

SortReturns ==
  /\ call = "sort" /\ queue = {}
  /\ Return("sorted")
  /\ UNCHANGED <<graph, sorted_thoughts>>

-----------------------------------------------------------------------------

Search ==
  \/ \E n \in nodes : Start(n)
  \/ \E k \in edges : Descend(k) \/ SkipVisited(k) \/ CycleDetected(k)
  \/ Backtrack \/ NoCycle

Sorting == SortReturns \/ \E n \in nodes : Emit(n)

Next ==
  \/ \E n \in Thoughts : AddThought(n) \/ RemoveThought(n)
  \/ \E k \in Links : AddEdge(k)
  \/ SortBegins
  \/ Search \/ Sorting

Spec == Init /\ [][Next]_vars

\* The loops of a call go on; nobody need call.
FairSpec == Spec /\ WF_vars(Search) /\ WF_vars(Sorting)
=============================================================================
