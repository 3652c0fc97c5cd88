-------------------------------- MODULE Traversal --------------------------------
(***************************************************************************)
(* GraphTraversal, the searches of the generic graph, and the traversal of *)
(* the knowledge graph.  A step is one turn of their loops: an entry taken *)
(* from the queue or the stack, or one edge of it looked at.               *)
(*                                                                         *)
(* A graph is the set g of the EdgeKeys it holds; all graphs share the     *)
(* nodes.  An edge filter is the set of the relations it lets pass.  An    *)
(* entry is the walk along which its node was met: the code keeps as much  *)
(* of it as the search uses, the last node, the depth or the whole path.   *)
(***************************************************************************)
EXTENDS Integers, Sequences, FiniteSets

CONSTANTS
  Nodes,
  Unknown,     \* an id no graph has
  LinkOrder,   \* the EdgeKeys there may be, in the order of their texts
  Depths       \* the limits, radii and numbers of hops asked for

EdgeKeys == {LinkOrder[i] : i \in DOMAIN LinkOrder}

ASSUME TraversalAssumption ==
  /\ IsFiniteSet(Nodes) /\ Unknown \notin Nodes
  /\ LinkOrder \in Seq(EdgeKeys)
  /\ \A i, j \in DOMAIN LinkOrder : LinkOrder[i] = LinkOrder[j] => i = j
  /\ \A k \in EdgeKeys : k.source \in Nodes /\ k.target \in Nodes
  /\ Depths \subseteq Int

-----------------------------------------------------------------------------
(* A call: the question of the caller, its answer and, meanwhile, the      *)
(* locals of the loops.  Deliberation's calls are of the same form.        *)

VARIABLES
  question, answer,
  running,   \* whether the loop was entered
  visited,
  waiting,   \* the queue or the stack
  walk,      \* the entry whose edges are looked at
  left,      \* those of them still to be looked at
  order      \* what is listed

locals == <<running, visited, waiting, walk, left, order>>
searchVars == <<question, answer, locals>>

Unanswered == <<>>

Idle ==
  /\ answer = Unanswered /\ running = FALSE
  /\ visited = {} /\ waiting = <<>> /\ walk = <<>> /\ left = {} /\ order = <<>>

Reply(result) == answer' = <<result>> /\ UNCHANGED <<question, locals>>

Searching == answer = Unanswered /\ running

Result == answer[1]
Answered(kinds) == answer # Unanswered /\ question.of \in kinds

-----------------------------------------------------------------------------
(* The questions. *)

Graphs == SUBSET EdgeKeys
Ids == Nodes \cup {Unknown}
AllRelations == {k.relation : k \in EdgeKeys}
Filters == {AllRelations, {"is_a"}}

Limited == {"depth_limited_search", "expand_neighborhood", "traverse"}

\* ConceptGraph looks up along is_a edges: what it calls ancestors of a concept are
\* its descendants here, and the other way round.
SearchQuestions ==
       [of : {"bfs", "dfs", "ancestors", "descendants"}, g : Graphs, start : Ids, rels : Filters]
  \cup [of : Limited, g : Graphs, start : Ids, rels : {AllRelations}, limit : Depths]
  \cup [of : {"shortest_path"}, g : Graphs, start : Ids, rels : {AllRelations}, end : Ids]

SearchInit == question \in SearchQuestions /\ Idle

-----------------------------------------------------------------------------
(* The edges of a node, one way or the other. *)

Turns == [way : {"from", "to"}, place : DOMAIN LinkOrder]

KeyOf(a) == LinkOrder[a.place]
NodeOf(a) == IF a.way = "from" THEN KeyOf(a).source ELSE KeyOf(a).target
Neighbor(a) == IF a.way = "from" THEN KeyOf(a).target ELSE KeyOf(a).source

Ways(q) == CASE q.of = "ancestors" -> {"to"}
             [] q.of = "expand_neighborhood" -> {"from", "to"}
             [] OTHER -> {"from"}

EdgesOf(q, n) ==
  {a \in Turns : /\ a.way \in Ways(q) /\ NodeOf(a) = n
                 /\ KeyOf(a) \in q.g /\ KeyOf(a).relation \in q.rels}

\* Mutant of Sooner: dfs puts the edges on the stack in the order of their keys.
SoonerInKeyOrder(a, b) ==
  \/ a.way = "from" /\ b.way = "to"
  \/ a.way = b.way /\ a.place < b.place

\* dfs puts the last key on the stack first, so that the first is taken next.
Sooner(a, b) ==
  \/ a.way = "from" /\ b.way = "to"
  \/ a.way = b.way /\ IF question.of = "dfs" THEN a.place > b.place ELSE a.place < b.place

-----------------------------------------------------------------------------
(* The searches. *)

NoPath == <<>>

Refused ==
  CASE question.of = "traverse" -> FALSE
    [] question.of = "shortest_path" -> ~ {question.start, question.end} \subseteq Nodes
    [] question.of \in Limited \ {"traverse"} -> question.start \notin Nodes \/ question.limit < 0
    [] OTHER -> question.start \notin Nodes

\* Mutant of Trivial: without the early return of shortest_path.
TrivialNever == FALSE

Trivial == question.of = "shortest_path" /\ question.start = question.end

ReturnsSet == question.of \in {"ancestors", "descendants", "expand_neighborhood"}

Refuse ==
  /\ answer = Unanswered /\ ~ running /\ Refused
  /\ Reply(IF ReturnsSet THEN {} ELSE <<>>)

StayAtStart ==
  /\ answer = Unanswered /\ ~ running /\ ~ Refused /\ Trivial
  /\ Reply(<<question.start>>)

Enter ==
  /\ answer = Unanswered /\ ~ running /\ ~ Refused /\ ~ Trivial
  /\ running' = TRUE
  /\ visited' = IF question.of \in {"dfs", "ancestors"} THEN {} ELSE {question.start}
  /\ waiting' = <<<<question.start>>>>
  /\ UNCHANGED <<question, answer, walk, left, order>>

OnStack == question.of \in {"dfs", "ancestors"}

Taken == waiting[IF OnStack THEN Len(waiting) ELSE 1]
Others == IF OnStack THEN SubSeq(waiting, 1, Len(waiting) - 1) ELSE Tail(waiting)

End(w) == w[Len(w)]

GoesOn(w) == question.of \in Limited => Len(w) - 1 < question.limit

Lists == question.of \in {"bfs", "dfs", "descendants", "depth_limited_search"}

Skips == question.of = "dfs" /\ End(Taken) \in visited

\* dfs marks a node here, the others marked it when they met it.
Take ==
  /\ Searching /\ left = {} /\ waiting # <<>>
  /\ waiting' = Others
  /\ IF Skips THEN UNCHANGED <<visited, walk, left, order>>
     ELSE /\ visited' = IF question.of = "dfs" THEN visited \cup {End(Taken)} ELSE visited
          /\ walk' = Taken
          /\ left' = IF GoesOn(Taken) THEN EdgesOf(question, End(Taken)) ELSE {}
          /\ order' = IF Lists THEN Append(order, End(Taken)) ELSE order
  /\ UNCHANGED <<question, answer, running>>

IsNext(a) == \A b \in left \ {a} : Sooner(a, b)

Arrives(a) == question.of = "shortest_path" /\ Neighbor(a) = question.end

Arrive(a) == Searching /\ IsNext(a) /\ Arrives(a) /\ Reply(Append(walk, question.end))

InOrder(x) == \E i \in DOMAIN order : order[i] = x

\* traverse lists the triple before it looks at its object.
LookAt(a) ==
  /\ Searching /\ IsNext(a) /\ ~ Arrives(a)
  /\ left' = left \ {a}
  /\ order' = IF question.of = "traverse" /\ ~ InOrder(KeyOf(a)) THEN Append(order, KeyOf(a)) ELSE order
  /\ IF Neighbor(a) \in visited THEN UNCHANGED <<visited, waiting>>
     ELSE /\ visited' = IF question.of = "dfs" THEN visited ELSE visited \cup {Neighbor(a)}
          /\ waiting' = Append(waiting, Append(walk, Neighbor(a)))
  /\ UNCHANGED <<question, answer, running, walk>>

Listed == {order[i] : i \in DOMAIN order}

Found ==
  CASE question.of \in {"ancestors", "expand_neighborhood"} -> visited
    [] question.of = "descendants" -> Listed \ {question.start}
    [] question.of = "shortest_path" -> NoPath
    [] OTHER -> order

Finish == Searching /\ left = {} /\ waiting = <<>> /\ Reply(Found)

SearchNext ==
  \/ Refuse \/ StayAtStart \/ Enter \/ Take \/ Finish
  \/ \E a \in left : Arrive(a) \/ LookAt(a)

-----------------------------------------------------------------------------
(* What the answers are to be, defined without the loops. *)

\* What one edge leads to from S, with S itself.
Onward(g, rels, both, S) ==
       S
  \cup {k.target : k \in {l \in g : l.relation \in rels /\ l.source \in S}}
  \cup (IF both THEN {k.source : k \in {l \in g : l.relation \in rels /\ l.target \in S}} ELSE {})

\* Ball[d] holds what d edges or fewer lead to.
Ball(g, start, rels, both) ==
  LET ball[d \in Nat] ==
        IF d = 0 THEN {start} \cap Nodes ELSE Onward(g, rels, both, ball[d - 1])
  IN  ball

Farthest == Cardinality(Nodes)   \* bound: no node is further away

Around(q, d) == Ball(q.g, q.start, q.rels, q.of = "expand_neighborhood")[d]

Once(s) == \A i, j \in DOMAIN s : s[i] = s[j] => i = j

\* The nodes within d edges once each, the nearer ones first.
ListsBall(s, q, d) ==
  /\ {s[i] : i \in DOMAIN s} = Around(q, d) /\ Once(s)
  /\ \A i, j \in DOMAIN s : i < j =>
       \A e \in 0..Farthest : s[j] \in Around(q, e) => s[i] \in Around(q, e)

\* The first i of s hold whatever the edges of the m-th, of those up to `place`, lead to.
MetBefore(s, q, i, m, place) ==
  \A b \in 1..place - 1 :
    LinkOrder[b] \in q.g /\ LinkOrder[b].relation \in q.rels /\ LinkOrder[b].source = s[m]
      => \E j \in 1..i : s[j] = LinkOrder[b].target

\* Next comes the first unmet neighbour, in key order, of the latest node that has one.
Preorder(s, q) ==
  \A i \in 1..Len(s) - 1 :
    \E j \in 1..i, a \in DOMAIN LinkOrder :
      /\ LinkOrder[a] \in q.g /\ LinkOrder[a].relation \in q.rels
      /\ LinkOrder[a].source = s[j] /\ LinkOrder[a].target = s[i + 1]
      /\ MetBefore(s, q, i, j, a)
      /\ \A m \in j + 1..i : MetBefore(s, q, i, m, Len(LinkOrder) + 1)

LeadsTo(q, n, m) == m \in Ball(q.g, n, q.rels, FALSE)[Farthest]

\* A search meets every node a filtered walk leads to and nothing else, once each:
\* breadth first in the order of the distance, depth first always going on from the
\* latest node that has an unmet neighbour; a limited one stops exactly at its limit,
\* and the knowledge graph answers with the edges that leave the inner nodes.  A start
\* nobody knows gives nothing.  Of the two hierarchy searches, which go in opposite
\* directions with different loops, one finds what an edge and then a walk leads from,
\* the node itself when it lies on a cycle, the other what a walk leads to, never the
\* node itself.
SearchesReachTheBall ==
  LET q == question IN
  /\ Answered({"bfs"}) => ListsBall(Result, q, Farthest)
  /\ Answered({"dfs"}) =>
       {Result[i] : i \in DOMAIN Result} = Around(q, Farthest) /\ Once(Result) /\ Preorder(Result, q)
  /\ Answered({"descendants"}) => Result = Around(q, Farthest) \ {q.start}
  /\ Answered({"ancestors"}) =>
       Result = {n \in Nodes : \E k \in q.g :
                   k.relation \in q.rels /\ k.source = n /\ LeadsTo(q, k.target, q.start)}
  /\ Answered({"depth_limited_search"}) =>
       IF q.limit < 0 THEN Result = <<>> ELSE ListsBall(Result, q, q.limit)
  /\ Answered({"expand_neighborhood"}) =>
       Result = IF q.limit < 0 THEN {} ELSE Around(q, q.limit)
  /\ Answered({"traverse"}) =>
       /\ Once(Result)
       /\ {Result[i] : i \in DOMAIN Result} =
            IF q.limit < 1 THEN {} ELSE {k \in q.g : k.source \in Around(q, q.limit - 1)}

\* shortest_path returns a walk along edges from start to end that no other walk beats,
\* and None exactly when there is none.
PathsAreShortest ==
  LET q == question IN
  Answered({"shortest_path"}) =>
    IF Result = NoPath THEN q.end \notin Around(q, Farthest)
    ELSE /\ Result[1] = q.start /\ End(Result) = q.end
         /\ \A i \in 1..Len(Result) - 1 :
              \E k \in q.g : k.source = Result[i] /\ k.target = Result[i + 1]
         /\ \A d \in 0..Len(Result) - 2 : q.end \notin Around(q, d)
=============================================================================
