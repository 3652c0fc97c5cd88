------------------------------- MODULE AlgorithmProofs -----------------------------
(***************************************************************************)
(* Proofs about the graphs and the pure algorithms: ThoughtGraph, for any  *)
(* set of thoughts and of edges; the searches of Traversal, for any graph, *)
(* filter and limit; spreading activation, for any weights; the choices    *)
(* and backward chaining, for any candidates and any rules.                *)
(***************************************************************************)
EXTENDS ThoughtGraphProperties, Queries, FiniteSetTheorems, WellFoundedInduction, TLAPS

Acyclic(ns, es) == DagOf!Acyclic(ns, es)

-----------------------------------------------------------------------------
(* Acyclic graphs.                                                         *)

\* A part of an acyclic graph is acyclic.
LEMMA PartAcyclic ==
  ASSUME NEW ns, NEW es, Acyclic(ns, es), NEW ms \in SUBSET ns, NEW fs \in SUBSET es
  PROVE  Acyclic(ms, fs)
BY DEF Acyclic, DagOf!Acyclic

\* So is one with a further node that no edge leads to from it or the others.
LEMMA NewSource ==
  ASSUME NEW ns, NEW es, Acyclic(ns, es), NEW n,
         \A k \in es : k.target = n => k.source \notin ns \cup {n}
  PROVE  Acyclic(ns \cup {n}, es)
<1> SUFFICES ASSUME NEW S \in SUBSET (ns \cup {n}), S # {}
             PROVE  \E m \in S : \A k \in es : k.target = m => k.source \notin S
  BY DEF Acyclic, DagOf!Acyclic
<1>1. CASE n \in S
  BY <1>1
<1>2. CASE n \notin S
  BY <1>2 DEF Acyclic, DagOf!Acyclic
<1> QED  BY <1>1, <1>2

-----------------------------------------------------------------------------
(* The invariant.                                                          *)

Entries == [node : Thoughts, left : SUBSET Links]

\* The stack is a path of distinct nodes.
PathInv ==
  /\ stack \in Seq(Entries)
  /\ \A i, j \in DOMAIN stack : stack[i].node = stack[j].node => i = j
  /\ \A i \in DOMAIN stack : i # Len(stack) =>
       \E k \in edges : k.source = stack[i].node /\ k.target = stack[i + 1].node

\* Finished nodes lead to finished nodes only, and what was looked at from a
\* node of the path is finished or the next node of it.
ColourInv ==
  /\ \A k \in edges : state[k.source] = Visited => state[k.target] = Visited
  /\ \A i \in DOMAIN stack : \A k \in edges :
       k.source = stack[i].node /\ k \notin stack[i].left =>
         state[k.target] = Visited \/ (i # Len(stack) /\ k.target = stack[i + 1].node)
  /\ Acyclic({n \in nodes : state[n] = Visited}, edges)

SearchInv ==
  call = "add_edge" => Acyclic(nodes, before) /\ PathInv /\ ColourInv /\ sorted_thoughts = <<>>

Emitted == {sorted_thoughts[i] : i \in DOMAIN sorted_thoughts}

WaitsFor(n) == {k \in Into(n) : k.source \notin Emitted}

\* in_degree counts the edges from thoughts that are not emitted; what is
\* emitted waits for nothing and came after what leads to it.
SortInv ==
  call = "sort" =>
    /\ sorted_thoughts \in Seq(nodes)
    /\ \A i, j \in DOMAIN sorted_thoughts : sorted_thoughts[i] = sorted_thoughts[j] => i = j
    /\ \A n \in nodes : in_degree[n] = Cardinality(WaitsFor(n))
    /\ \A k \in edges : \A j \in DOMAIN sorted_thoughts :
         sorted_thoughts[j] = k.target =>
           \E i \in DOMAIN sorted_thoughts : i < j /\ sorted_thoughts[i] = k.source

IInv == TypeOK /\ IsFiniteSet(edges) /\ IdleIsDag /\ SearchInv /\ SortInv

LEMMA InitInv == Init => IInv
<1> SUFFICES ASSUME Init PROVE IInv
  OBVIOUS
<1>1. IsFiniteSet({})
  BY FS_EmptySet
<1> QED
  BY <1>1 DEF Init, IInv, TypeOK, IdleIsDag, SearchInv, SortInv, DagOf!Acyclic

-----------------------------------------------------------------------------
(* The calls.                                                              *)

LEMMA AddThoughtInv == ASSUME IInv, NEW n \in Thoughts, AddThought(n) PROVE IInv'
<1>1. /\ call = "none" /\ call' = "none" /\ outcome' = "none"
      /\ nodes' = nodes \cup {n} /\ n \notin nodes /\ UNCHANGED edges
  BY DEF AddThought, Begin
<1>2. \A k \in edges : k.source \in nodes /\ k.target \in nodes
  BY DEF IInv, TypeOK
<1>3. Acyclic(nodes \cup {n}, edges)
  BY <1>1, <1>2, NewSource DEF IInv, IdleIsDag, Acyclic
<1>4. IdleIsDag'
  BY <1>1, <1>3 DEF IdleIsDag, Acyclic
<1> QED  BY <1>1, <1>4 DEF IInv, TypeOK, SearchInv, SortInv

LEMMA RemoveThoughtInv == ASSUME IInv, NEW n \in Thoughts, RemoveThought(n) PROVE IInv'
<1>1. /\ call = "none" /\ call' = "none" /\ outcome' = "none"
      /\ nodes' = nodes \ {n} /\ edges' = edges \ (OutOf(n) \cup Into(n))
  BY DEF RemoveThought, Begin
<1>2. Acyclic(nodes', edges')
  BY <1>1, PartAcyclic DEF IInv, IdleIsDag, Acyclic
<1>3. IdleIsDag'
  BY <1>1, <1>2 DEF IdleIsDag, Acyclic
<1>4. IsFiniteSet(edges')
  BY <1>1, FS_Subset DEF IInv
<1>5. TypeOK'
  BY <1>1 DEF IInv, TypeOK, OutOf, Into
<1> QED  BY <1>1, <1>3, <1>4, <1>5 DEF IInv, SearchInv, SortInv

LEMMA AddEdgeInv == ASSUME IInv, NEW k \in Links, AddEdge(k) PROVE IInv'
<1>1. /\ call = "none" /\ call' = "add_edge" /\ outcome' = "none"
      /\ {k.source, k.target} \subseteq nodes
      /\ edges' = edges \cup {k} /\ pending' = k /\ before' = edges
      /\ state' = [n \in nodes |-> Unvisited] /\ stack' = <<>>
      /\ sorted_thoughts' = <<>> /\ UNCHANGED nodes
  BY DEF AddEdge, Begin
<1>2. IsFiniteSet(edges')
  BY <1>1, FS_AddElement DEF IInv
<1>3. \A n \in nodes : state'[n] # Visited /\ state'[n] # Visiting
  BY <1>1 DEF Unvisited, Visiting, Visited
<1>4. TypeOK'
  <2>1. state' \in [nodes' -> {Unvisited, Visiting, Visited}]
    BY <1>1
  <2>2. {stack'[i].node : i \in DOMAIN stack'} = {n \in nodes' : state'[n] = Visiting}
    BY <1>1, <1>3
  <2>3. nodes' \subseteq Thoughts /\ edges' \subseteq Links
    BY <1>1 DEF IInv, TypeOK
  <2>4. \A j \in edges' : {j.source, j.target} \subseteq nodes'
    BY <1>1 DEF IInv, TypeOK
  <2> QED  BY <1>1, <2>1, <2>2, <2>3, <2>4 DEF TypeOK
<1>5. PathInv'
  BY <1>1 DEF PathInv
<1>6. ColourInv'
  <2>1. \A j \in edges' : state'[j.source] # Visited
    BY <1>1, <1>3 DEF IInv, TypeOK
  <2>2. {n \in nodes' : state'[n] = Visited} = {}
    BY <1>1, <1>3
  <2>3. Acyclic({}, edges')
    BY DEF Acyclic, DagOf!Acyclic
  <2>4. Acyclic({n \in nodes : state[n] = Visited}, edges)'
    BY <2>2, <2>3 DEF Acyclic, DagOf!Acyclic
  <2> QED  BY <1>1, <2>1, <2>4 DEF ColourInv
<1>7. SearchInv'
  <2>1. Acyclic(nodes, before)'
    BY <1>1 DEF IInv, IdleIsDag, Acyclic, DagOf!Acyclic
  <2> QED  BY <1>1, <1>5, <1>6, <2>1 DEF SearchInv
<1> QED  BY <1>1, <1>2, <1>4, <1>7 DEF IInv, IdleIsDag, SortInv

-----------------------------------------------------------------------------
(* The search.                                                             *)

\* While a search runs, its top is the last entry of the path.
LEMMA StackTyped ==
  ASSUME stack \in Seq(Entries), stack # <<>>
  PROVE  /\ Len(stack) \in Nat \ {0} /\ Len(stack) \in DOMAIN stack
         /\ Top = stack[Len(stack)] /\ Top \in Entries
         /\ Below \in Seq(Entries) /\ Len(Below) = Len(stack) - 1
         /\ \A i \in 1..(Len(stack) - 1) : Below[i] = stack[i]
<1>1. Len(stack) \in Nat \ {0} /\ DOMAIN stack = 1..Len(stack)
  OBVIOUS
<1>2. \A i \in 1..Len(stack) : stack[i] \in Entries
  OBVIOUS
<1>3. Below \in Seq(Entries) /\ Len(Below) = Len(stack) - 1
  BY <1>1, <1>2 DEF Below
<1>4. \A i \in 1..(Len(stack) - 1) : Below[i] = stack[i]
  BY <1>1, <1>2 DEF Below
<1> QED  BY <1>1, <1>2, <1>3, <1>4 DEF Top

LEMMA AdvancedTyped ==
  ASSUME stack \in Seq(Entries), stack # <<>>, NEW k
  PROVE  /\ Advanced(k) \in Seq(Entries) /\ Len(Advanced(k)) = Len(stack)
         /\ \A i \in 1..(Len(stack) - 1) : Advanced(k)[i] = stack[i]
         /\ Advanced(k)[Len(stack)].node = Top.node
         /\ Advanced(k)[Len(stack)].left = Top.left \ {k}
<1> DEFINE e == [Top EXCEPT !.left = @ \ {k}]
<1>1. e \in Entries /\ e.node = Top.node /\ e.left = Top.left \ {k}
  BY StackTyped, ZenonT(20) DEF Entries
<1>2. Advanced(k) = Append(Below, e)
  BY DEF Advanced
<1> HIDE DEF e
<1> QED  BY <1>1, <1>2, StackTyped

\* What every step of the search leaves alone.
LEMMA SearchFrame ==
  ASSUME IInv, call = "add_edge", UNCHANGED <<graph, call, pending, before, sorting, outcome>>,
         TypeOK', PathInv', ColourInv'
  PROVE  IInv'
<1>1. UNCHANGED <<nodes, edges, call, before, outcome, sorted_thoughts>>
  BY DEF graph, sorting
<1>2. Acyclic(nodes, before)'
  BY <1>1 DEF IInv, SearchInv, Acyclic, DagOf!Acyclic
<1> QED  BY <1>1, <1>2 DEF IInv, IdleIsDag, SearchInv, SortInv

\* Of TypeOK such a step concerns these conjuncts.
LEMMA SearchTyped ==
  ASSUME TypeOK, call = "add_edge", UNCHANGED <<graph, call, pending, before, sorting, outcome>>,
         state' \in [nodes -> {Unvisited, Visiting, Visited}],
         \A i \in DOMAIN stack' : stack'[i].left \subseteq OutOf(stack'[i].node),
         {stack'[i].node : i \in DOMAIN stack'} = {n \in nodes : state'[n] = Visiting}
  PROVE  TypeOK'
BY DEF TypeOK, graph, OutOf

LEMMA StartInv == ASSUME IInv, NEW n \in nodes, Start(n) PROVE IInv'
<1>1. /\ call = "add_edge" /\ stack = <<>> /\ state[n] = Unvisited
      /\ state' = [state EXCEPT ![n] = Visiting]
      /\ stack' = <<Entry(n)>>
      /\ UNCHANGED <<graph, call, pending, before, sorting, outcome>>
  BY DEF Start
<1>2. TypeOK /\ PathInv /\ ColourInv /\ UNCHANGED <<nodes, edges>>
  BY <1>1 DEF IInv, SearchInv, graph
<1>3. /\ state \in [nodes -> {Unvisited, Visiting, Visited}]
      /\ {m \in nodes : state[m] = Visiting} = {}
      /\ n \in Thoughts /\ OutOf(n) \subseteq Links
  BY <1>1, <1>2 DEF TypeOK, OutOf
<1>4. Entry(n) \in Entries /\ Entry(n).node = n /\ Entry(n).left = OutOf(n)
  BY <1>3 DEF Entry, Entries
<1>5. stack' \in Seq(Entries) /\ DOMAIN stack' = {1} /\ stack'[1] = Entry(n) /\ Len(stack') = 1
  BY <1>1, <1>4
<1>6. /\ state' \in [nodes -> {Unvisited, Visiting, Visited}]
      /\ state'[n] = Visiting /\ \A m \in nodes \ {n} : state'[m] = state[m]
  BY <1>1, <1>3 DEF Visiting
<1>7. {m \in nodes : state'[m] = Visited} = {m \in nodes : state[m] = Visited}
  BY <1>1, <1>6 DEF Unvisited, Visiting, Visited
<1>8. TypeOK'
  <2>1. {stack'[i].node : i \in DOMAIN stack'} = {n}
    BY <1>4, <1>5
  <2>2. {m \in nodes : state'[m] = Visiting} = {n}
    BY <1>3, <1>6
  <2>3. \A i \in DOMAIN stack' : stack'[i].left \subseteq OutOf(stack'[i].node)
    BY <1>4, <1>5
  <2> QED  BY <1>1, <1>2, <1>6, <2>1, <2>2, <2>3, SearchTyped
<1>9. PathInv'
  BY <1>5 DEF PathInv
<1>10. ColourInv'
  <2>1. \A k \in edges : state'[k.source] = Visited => state'[k.target] = Visited
    BY <1>1, <1>2, <1>6 DEF ColourInv, TypeOK, Unvisited, Visiting, Visited
  <2>2. \A i \in DOMAIN stack' : \A k \in edges :
          k.source = stack'[i].node => k \in stack'[i].left
    BY <1>4, <1>5 DEF OutOf
  <2>3. Acyclic({m \in nodes : state[m] = Visited}, edges)'
    BY <1>2, <1>7 DEF ColourInv, Acyclic, DagOf!Acyclic
  <2> QED  BY <1>2, <2>1, <2>2, <2>3 DEF ColourInv
<1> QED  BY <1>1, <1>8, <1>9, <1>10, SearchFrame

LEMMA PathFacts ==
  ASSUME IInv, call = "add_edge"
  PROVE  /\ TypeOK /\ PathInv /\ ColourInv /\ stack \in Seq(Entries)
         /\ state \in [nodes -> {Unvisited, Visiting, Visited}]
         /\ \A i \in 1..Len(stack) :
              /\ stack[i].node \in nodes /\ state[stack[i].node] = Visiting
              /\ stack[i].left \subseteq OutOf(stack[i].node)
         /\ \A n \in nodes : state[n] = Visiting => \E i \in 1..Len(stack) : stack[i].node = n
<1>1. TypeOK /\ PathInv /\ ColourInv
  BY DEF IInv, SearchInv
<1>2. stack \in Seq(Entries) /\ DOMAIN stack = 1..Len(stack)
  BY <1>1 DEF PathInv
<1>3. {stack[i].node : i \in DOMAIN stack} = {n \in nodes : state[n] = Visiting}
  BY <1>1 DEF TypeOK
<1> QED  BY <1>1, <1>2, <1>3 DEF TypeOK

LEMMA LookFacts ==
  ASSUME IInv, NEW k \in edges, LooksAt(k)
  PROVE  /\ call = "add_edge" /\ stack # <<>> /\ Len(stack) \in Nat \ {0}
         /\ k \in Top.left /\ Top = stack[Len(stack)]
         /\ k.source = Top.node /\ k.source \in nodes /\ k.target \in nodes
<1>1. call = "add_edge" /\ stack # <<>> /\ k \in Top.left
  BY DEF LooksAt
<1>2. Len(stack) \in Nat \ {0} /\ Top = stack[Len(stack)]
  BY <1>1, PathFacts, StackTyped
<1>3. k \in OutOf(Top.node)
  BY <1>1, <1>2, PathFacts
<1> QED  BY <1>1, <1>2, <1>3 DEF IInv, TypeOK, OutOf

LEMMA DescendInv == ASSUME IInv, NEW k \in edges, Descend(k) PROVE IInv'
<1> DEFINE L == Len(stack)
           n == k.target
<1>1. /\ LooksAt(k) /\ state[n] = Unvisited
      /\ state' = [state EXCEPT ![n] = Visiting]
      /\ stack' = Append(Advanced(k), Entry(n))
      /\ UNCHANGED <<graph, call, pending, before, sorting, outcome>>
  BY DEF Descend
<1>2. /\ call = "add_edge" /\ L \in Nat \ {0} /\ n \in nodes /\ k.source = Top.node
      /\ stack # <<>> /\ Top = stack[L] /\ UNCHANGED <<nodes, edges>>
  BY <1>1, LookFacts DEF graph
<1>3. TypeOK /\ PathInv /\ ColourInv
  BY <1>2, PathFacts
<1>4. Entry(n) \in Entries /\ Entry(n).node = n /\ Entry(n).left = OutOf(n)
  BY <1>2, <1>3 DEF Entry, Entries, TypeOK, OutOf
<1>5. /\ stack' \in Seq(Entries) /\ Len(stack') = L + 1 /\ DOMAIN stack' = 1..(L + 1)
      /\ \A i \in 1..L : stack'[i] = Advanced(k)[i]
      /\ stack'[L + 1] = Entry(n)
  BY <1>1, <1>2, <1>4, PathFacts, AdvancedTyped
<1>6. /\ \A i \in 1..L : stack'[i].node = stack[i].node
      /\ \A i \in 1..(L - 1) : stack'[i].left = stack[i].left
      /\ stack'[L].left = stack[L].left \ {k}
      /\ stack'[L + 1].node = n /\ stack'[L + 1].left = OutOf(n)
  BY <1>2, <1>4, <1>5, PathFacts, AdvancedTyped, SMTT(30)
<1>7. /\ state' \in [nodes -> {Unvisited, Visiting, Visited}]
      /\ state'[n] = Visiting /\ \A m \in nodes \ {n} : state'[m] = state[m]
  BY <1>1, <1>2, PathFacts DEF Visiting
<1>8. \A i \in 1..L : stack[i].node \in nodes /\ stack[i].node # n
  BY <1>1, <1>2, PathFacts DEF Unvisited, Visiting
<1> HIDE DEF L, n
<1>9. TypeOK'
  <2>1. \A i \in DOMAIN stack' : stack'[i].left \subseteq OutOf(stack'[i].node)
    <3>1. \A i \in 1..L : stack[i].left \subseteq OutOf(stack[i].node)
      BY <1>2, PathFacts DEF L
    <3> QED  BY <1>2, <1>5, <1>6, <3>1
  <2>2. {stack'[i].node : i \in DOMAIN stack'} = {m \in nodes : state'[m] = Visiting}
    <3>1. \A m \in nodes : state[m] = Visiting <=> \E i \in 1..L : stack[i].node = m
      BY <1>2, PathFacts DEF L
    <3>2. \A m \in nodes : state'[m] = Visiting <=> \E i \in 1..(L + 1) : stack'[i].node = m
      BY <1>2, <1>6, <1>7, <1>8, <3>1
    <3>3. \A i \in 1..(L + 1) : stack'[i].node \in nodes
      BY <1>2, <1>6, <1>8, n \in nodes
    <3> QED  BY <1>5, <3>2, <3>3
  <2> QED  BY <1>1, <1>2, <1>3, <1>7, <2>1, <2>2, SearchTyped
<1>10. PathInv'
  <2>1. \A i, j \in DOMAIN stack' : stack'[i].node = stack'[j].node => i = j
    <3>1. \A i, j \in 1..L : stack[i].node = stack[j].node => i = j
      BY <1>2, <1>3, PathFacts DEF PathInv, L
    <3> QED  BY <1>2, <1>5, <1>6, <1>8, <3>1
  <2>2. \A i \in DOMAIN stack' : i # Len(stack') =>
          \E j \in edges : j.source = stack'[i].node /\ j.target = stack'[i + 1].node
    <3>1. ASSUME NEW i \in 1..(L - 1)
          PROVE  \E j \in edges : j.source = stack[i].node /\ j.target = stack[i + 1].node
      <4>1. DOMAIN stack = 1..L /\ i \in 1..L /\ i # L
        BY <1>2, PathFacts DEF L
      <4> QED  BY <1>3, <4>1 DEF PathInv, L
    <3>2. k.source = stack'[L].node /\ k.target = stack'[L + 1].node
      BY <1>2, <1>6 DEF n
    <3> QED  BY <1>2, <1>5, <1>6, <3>1, <3>2
  <2> QED  BY <1>2, <1>5, <2>1, <2>2 DEF PathInv
<1>11. ColourInv'
  <2>1. \A j \in edges : state'[j.source] = Visited => state'[j.target] = Visited
    BY <1>1, <1>3, <1>7 DEF ColourInv, TypeOK, Unvisited, Visiting, Visited, n
  <2>2. \A i \in DOMAIN stack' : \A j \in edges :
          j.source = stack'[i].node /\ j \notin stack'[i].left =>
            state'[j.target] = Visited \/ (i # Len(stack') /\ j.target = stack'[i + 1].node)
    <3>1. \A i \in 1..L : \A j \in edges : j.source = stack[i].node /\ j \notin stack[i].left =>
            state[j.target] = Visited \/ (i # L /\ j.target = stack[i + 1].node)
      BY <1>2, <1>3, PathFacts DEF ColourInv, L
    <3>2. \A m \in nodes : state[m] = Visited => state'[m] = Visited
      BY <1>1, <1>7 DEF Unvisited, Visited
    <3>3. \A j \in edges : j.source \in nodes /\ j.target \in nodes
      BY <1>3 DEF TypeOK
    <3>4. \A j \in edges : j.source = n => j \in OutOf(n)
      BY DEF OutOf
    <3> SUFFICES ASSUME NEW i \in 1..(L + 1), NEW j \in edges,
                        j.source = stack'[i].node, j \notin stack'[i].left
                 PROVE  state'[j.target] = Visited \/ (i # L + 1 /\ j.target = stack'[i + 1].node)
      BY <1>5
    <3>5. CASE i \in 1..(L - 1)
      BY <1>2, <1>6, <3>1, <3>2, <3>3, <3>5
    <3>6. CASE i = L
      BY <1>2, <1>6, <3>1, <3>2, <3>3, <3>6 DEF n
    <3>7. CASE i = L + 1
      BY <1>6, <3>4, <3>7
    <3> QED  BY <1>2, <3>5, <3>6, <3>7
  <2>3. {m \in nodes : state'[m] = Visited} = {m \in nodes : state[m] = Visited}
    BY <1>1, <1>7 DEF Unvisited, Visiting, Visited
  <2>4. Acyclic({m \in nodes : state[m] = Visited}, edges)'
    BY <1>2, <1>3, <2>3 DEF ColourInv, Acyclic, DagOf!Acyclic
  <2> QED  BY <1>2, <2>1, <2>2, <2>4 DEF ColourInv
<1> QED  BY <1>1, <1>2, <1>9, <1>10, <1>11, SearchFrame

LEMMA SkipVisitedInv == ASSUME IInv, NEW k \in edges, SkipVisited(k) PROVE IInv'
<1> DEFINE L == Len(stack)
<1>1. /\ LooksAt(k) /\ state[k.target] = Visited /\ stack' = Advanced(k)
      /\ UNCHANGED <<graph, call, pending, before, state, sorting, outcome>>
  BY DEF SkipVisited
<1>2. /\ call = "add_edge" /\ stack # <<>> /\ L \in Nat \ {0}
      /\ Top = stack[L] /\ UNCHANGED <<nodes, edges>>
  BY <1>1, LookFacts DEF graph
<1>3. TypeOK /\ PathInv /\ ColourInv
  BY <1>2, PathFacts
<1>4. /\ stack' \in Seq(Entries) /\ Len(stack') = L
      /\ DOMAIN stack' = 1..L /\ DOMAIN stack = 1..L
      /\ \A i \in 1..(L - 1) : stack'[i] = stack[i]
      /\ stack'[L].node = stack[L].node /\ stack'[L].left = stack[L].left \ {k}
  BY <1>1, <1>2, PathFacts, AdvancedTyped
<1> HIDE DEF L
<1>5. /\ \A i \in 1..L : stack'[i].node = stack[i].node
      /\ \A i \in 1..L : stack'[i].left \subseteq stack[i].left
      /\ \A i \in 1..L : \A j : j \in stack[i].left /\ j \notin stack'[i].left => j = k
  BY <1>2, <1>4
<1>6. TypeOK'
  <2>1. \A i \in DOMAIN stack' : stack'[i].left \subseteq OutOf(stack'[i].node)
    BY <1>2, <1>4, <1>5, PathFacts DEF L
  <2>2. {stack'[i].node : i \in DOMAIN stack'} = {n \in nodes : state'[n] = Visiting}
    <3>1. {stack[i].node : i \in 1..L} = {n \in nodes : state[n] = Visiting}
      BY <1>2, <1>3, <1>4 DEF TypeOK
    <3>2. {stack'[i].node : i \in 1..L} = {stack[i].node : i \in 1..L}
      BY <1>5
    <3> QED  BY <1>1, <1>4, <3>1, <3>2
  <2>3. state' \in [nodes -> {Unvisited, Visiting, Visited}]
    BY <1>1, <1>2, PathFacts
  <2> QED  BY <1>1, <1>2, <1>3, <2>1, <2>2, <2>3, SearchTyped
<1>7. PathInv'
  <2>1. \A i, j \in DOMAIN stack' : stack'[i].node = stack'[j].node => i = j
    BY <1>3, <1>4, <1>5 DEF PathInv
  <2>2. ASSUME NEW i \in DOMAIN stack', i # Len(stack')
        PROVE  \E j \in edges : j.source = stack'[i].node /\ j.target = stack'[i + 1].node
    <3>1. i \in 1..L /\ i # L /\ i + 1 \in 1..L
      BY <1>2, <1>4, <2>2
    <3>2. \E j \in edges : j.source = stack[i].node /\ j.target = stack[i + 1].node
      BY <1>3, <1>4, <3>1 DEF PathInv, L
    <3> QED  BY <1>5, <3>1, <3>2
  <2> QED  BY <1>2, <1>4, <2>1, <2>2 DEF PathInv
<1>8. ColourInv'
  <2>1. ASSUME NEW i \in DOMAIN stack', NEW j \in edges,
               j.source = stack'[i].node, j \notin stack'[i].left
        PROVE  state[j.target] = Visited \/ (i # L /\ j.target = stack'[i + 1].node)
    <3>1. CASE j \in stack[i].left
      BY <1>1, <1>4, <1>5, <2>1, <3>1
    <3>2. CASE j \notin stack[i].left
      <4>1. i \in DOMAIN stack /\ j.source = stack[i].node
        BY <1>4, <1>5, <2>1
      <4>2. state[j.target] = Visited \/ (i # L /\ j.target = stack[i + 1].node)
        BY <1>3, <3>2, <4>1 DEF ColourInv, L
      <4>3. i # L => i + 1 \in 1..L
        BY <1>2, <1>4
      <4> QED  BY <1>5, <4>2, <4>3
    <3> QED  BY <3>1, <3>2
  <2>2. Acyclic({n \in nodes : state[n] = Visited}, edges)'
    BY <1>1, <1>2, <1>3 DEF ColourInv, Acyclic, DagOf!Acyclic
  <2> QED  BY <1>1, <1>2, <1>3, <1>4, <2>1, <2>2 DEF ColourInv
<1> QED  BY <1>1, <1>2, <1>6, <1>7, <1>8, SearchFrame

LEMMA BacktrackInv == ASSUME IInv, Backtrack PROVE IInv'
<1> DEFINE L == Len(stack)
           n == Top.node
<1>1. /\ call = "add_edge" /\ stack # <<>> /\ Top.left = {}
      /\ state' = [state EXCEPT ![n] = Visited] /\ stack' = Below
      /\ UNCHANGED <<graph, call, pending, before, sorting, outcome>>
  BY DEF Backtrack
<1>2. TypeOK /\ PathInv /\ ColourInv /\ UNCHANGED <<nodes, edges>>
  BY <1>1, PathFacts DEF graph
<1>3. /\ L \in Nat \ {0} /\ Top = stack[L] /\ DOMAIN stack = 1..L
      /\ stack' \in Seq(Entries) /\ Len(stack') = L - 1 /\ DOMAIN stack' = 1..(L - 1)
      /\ \A i \in 1..(L - 1) : stack'[i] = stack[i]
  BY <1>1, PathFacts, StackTyped
<1>4. n \in nodes /\ state[n] = Visiting
  BY <1>1, <1>3, PathFacts
<1>5. /\ state' \in [nodes -> {Unvisited, Visiting, Visited}]
      /\ state'[n] = Visited /\ \A m \in nodes \ {n} : state'[m] = state[m]
  BY <1>1, <1>4, PathFacts DEF Visited
<1>6. \A k \in edges : k.source = n => state[k.target] = Visited
  BY <1>1, <1>2, <1>3 DEF ColourInv
<1>7. \A k \in edges : k.source \in nodes /\ k.target \in nodes
  BY <1>2 DEF TypeOK
<1>8. \A i \in 1..(L - 1) : stack[i].node # n
  BY <1>2, <1>3 DEF PathInv
<1>9. n = stack[L].node
  BY <1>3
<1> HIDE DEF L, n
<1>10. TypeOK'
  <2>1. \A i \in DOMAIN stack' : stack'[i].left \subseteq OutOf(stack'[i].node)
    BY <1>1, <1>3, PathFacts DEF L
  <2>2. \A m \in nodes : state'[m] = Visiting <=> \E i \in 1..(L - 1) : stack[i].node = m
    <3>1. \A m \in nodes : state[m] = Visiting <=> \E i \in 1..L : stack[i].node = m
      BY <1>1, PathFacts DEF L
    <3>2. Visiting # Visited
      BY DEF Visiting, Visited
    <3> QED  BY <1>3, <1>5, <1>8, <1>9, <3>1, <3>2
  <2>3. \A i \in 1..(L - 1) : stack[i].node \in nodes
    BY <1>1, <1>3, PathFacts DEF L
  <2>4. {stack'[i].node : i \in DOMAIN stack'} = {m \in nodes : state'[m] = Visiting}
    BY <1>3, <2>2, <2>3
  <2> QED  BY <1>1, <1>2, <1>5, <2>1, <2>4, SearchTyped
<1>11. PathInv'
  <2>1. \A i, j \in DOMAIN stack' : stack'[i].node = stack'[j].node => i = j
    BY <1>2, <1>3 DEF PathInv
  <2>2. ASSUME NEW i \in DOMAIN stack', i # Len(stack')
        PROVE  \E j \in edges : j.source = stack'[i].node /\ j.target = stack'[i + 1].node
    <3>1. i \in 1..(L - 1) /\ i \in 1..L /\ i # L /\ i + 1 \in 1..(L - 1)
      BY <1>3, <2>2
    <3>2. \E j \in edges : j.source = stack[i].node /\ j.target = stack[i + 1].node
      BY <1>2, <1>3, <3>1 DEF PathInv, L
    <3> QED  BY <1>3, <3>1, <3>2
  <2> QED  BY <1>2, <1>3, <2>1, <2>2 DEF PathInv
<1>12. ColourInv'
  <2>1. \A k \in edges : state'[k.source] = Visited => state'[k.target] = Visited
    BY <1>2, <1>5, <1>6, <1>7 DEF ColourInv
  <2>2. ASSUME NEW i \in DOMAIN stack', NEW j \in edges,
               j.source = stack'[i].node, j \notin stack'[i].left
        PROVE  state'[j.target] = Visited \/ (i # L - 1 /\ j.target = stack'[i + 1].node)
    <3>1. i \in 1..L /\ i \in 1..(L - 1) /\ i # L /\ (i # L - 1 => i + 1 \in 1..(L - 1))
      BY <1>3
    <3>2. state[j.target] = Visited \/ j.target = stack[i + 1].node
      BY <1>2, <1>3, <2>2, <3>1 DEF ColourInv
    <3>3. i = L - 1 => i + 1 = L
      BY <1>3
    <3> QED  BY <1>3, <1>5, <1>7, <1>9, <3>1, <3>2, <3>3
  <2>3. Acyclic({m \in nodes : state[m] = Visited}, edges)'
    <3> DEFINE V == {m \in nodes : state[m] = Visited}
    <3>1. {m \in nodes : state'[m] = Visited} = V \cup {n}
      BY <1>4, <1>5
    <3>2. \A k \in edges : k.target = n => k.source \notin V \cup {n}
      BY <1>2, <1>4, <1>6 DEF ColourInv, Visiting, Visited
    <3>3. Acyclic(V, edges)
      BY <1>2 DEF ColourInv
    <3> HIDE DEF V
    <3>4. Acyclic(V \cup {n}, edges)
      BY <3>2, <3>3, NewSource
    <3> QED  BY <1>2, <3>1, <3>4 DEF Acyclic, DagOf!Acyclic
  <2> QED  BY <1>2, <1>3, <2>1, <2>2, <2>3 DEF ColourInv
<1> QED  BY <1>1, <1>10, <1>11, <1>12, SearchFrame

\* An edge from the end of the path to a node of the path closes a cycle.
LEMMA CycleFound ==
  ASSUME IInv, NEW k \in edges, LooksAt(k), state[k.target] = Visiting
  PROVE  ~ Acyclic(nodes, edges) /\ edges \ {pending} = before
<1> DEFINE L == Len(stack)
<1>1. call = "add_edge" /\ L \in Nat \ {0} /\ k.source = stack[L].node /\ k.target \in nodes
  BY LookFacts
<1>2. PathInv /\ DOMAIN stack = 1..L
  BY <1>1, PathFacts
<1>3. PICK j \in 1..L : stack[j].node = k.target
  BY <1>1, PathFacts
<1>4. \A i \in 1..L : stack[i].node \in nodes
  BY <1>1, PathFacts
<1>5. ASSUME NEW i \in 1..L, i # L
      PROVE  \E e \in edges : e.source = stack[i].node /\ e.target = stack[i + 1].node
  BY <1>2, <1>5 DEF PathInv
<1> HIDE DEF L
<1> DEFINE S == {stack[i].node : i \in j..L}
<1>6. S \subseteq nodes /\ stack[L].node \in S /\ stack[j].node \in S
  BY <1>1, <1>3, <1>4
<1>7. ASSUME NEW n \in S
      PROVE  \E e \in edges : e.target = n /\ e.source \in S
  <2>1. PICK i \in j..L : n = stack[i].node
    OBVIOUS
  <2>2. CASE i = j
    BY <1>1, <1>3, <1>6, <2>1, <2>2
  <2>3. CASE i # j
    <3>1. i - 1 \in 1..L /\ i - 1 # L /\ (i - 1) + 1 = i /\ i - 1 \in j..L
      BY <1>1, <1>3, <2>3
    <3>2. stack[i - 1].node \in S
      BY <3>1
    <3>3. \E e \in edges : e.source = stack[i - 1].node /\ e.target = stack[i].node
      BY <1>5, <3>1
    <3> QED  BY <2>1, <3>2, <3>3
  <2> QED  BY <2>2, <2>3
<1>8. ~ Acyclic(nodes, edges)
  <2> HIDE DEF S
  <2> QED  BY <1>6, <1>7 DEF Acyclic, DagOf!Acyclic
<1>9. Acyclic(nodes, before) /\ edges = before \cup {pending}
  BY <1>1 DEF IInv, SearchInv, TypeOK
<1> QED  BY <1>8, <1>9

LEMMA CycleDetectedInv == ASSUME IInv, NEW k \in edges, CycleDetected(k) PROVE IInv'
<1>1. /\ LooksAt(k) /\ state[k.target] = Visiting
      /\ edges' = edges \ {pending} /\ UNCHANGED nodes
      /\ call' = "none" /\ outcome' = "refused"
  BY DEF CycleDetected, Return
<1>2. edges' = before /\ edges' \subseteq edges /\ Acyclic(nodes, before)
  BY <1>1, CycleFound DEF LooksAt, IInv, SearchInv
<1>3. IsFiniteSet(edges')
  BY <1>2, FS_Subset DEF IInv
<1>4. TypeOK'
  BY <1>1, <1>2 DEF IInv, TypeOK
<1>5. IdleIsDag'
  BY <1>1, <1>2 DEF IdleIsDag, Acyclic, DagOf!Acyclic
<1> QED  BY <1>1, <1>3, <1>4, <1>5 DEF IInv, SearchInv, SortInv

\* A search that ends without a cycle has finished every node.
LEMMA NothingFound == ASSUME IInv, NoCycle PROVE Acyclic(nodes, edges)
<1>1. /\ call = "add_edge" /\ stack = <<>> /\ \A n \in nodes : state[n] # Unvisited
  BY DEF NoCycle
<1>2. \A n \in nodes : state[n] = Visited
  BY <1>1, PathFacts
<1>3. {n \in nodes : state[n] = Visited} = nodes
  BY <1>2
<1> QED  BY <1>1, <1>3, PathFacts DEF ColourInv

LEMMA NoCycleInv == ASSUME IInv, NoCycle PROVE IInv'
<1>1. call = "add_edge" /\ call' = "none" /\ outcome' = "added" /\ UNCHANGED <<nodes, edges>>
  BY DEF NoCycle, Return, graph
<1>2. TypeOK'
  BY <1>1 DEF IInv, TypeOK
<1>3. IdleIsDag'
  BY <1>1, NothingFound DEF IdleIsDag, Acyclic, DagOf!Acyclic
<1> QED  BY <1>1, <1>2, <1>3 DEF IInv, SearchInv, SortInv

-----------------------------------------------------------------------------
(* Sorting.                                                                *)

LEMMA Waiting ==
  ASSUME IInv, NEW S \in SUBSET edges
  PROVE  /\ IsFiniteSet(S) /\ Cardinality(S) \in 0..Cardinality(edges)
         /\ Cardinality(S) = 0 <=> S = {}
<1>1. IsFiniteSet(edges)
  BY DEF IInv
<1>2. IsFiniteSet(S) /\ Cardinality(S) <= Cardinality(edges)
  BY <1>1, FS_Subset
<1>3. Cardinality(S) \in Nat /\ Cardinality(edges) \in Nat
  BY <1>1, <1>2, FS_CardinalityType
<1>4. Cardinality(S) = 0 <=> S = {}
  BY <1>2, FS_EmptySet
<1> QED  BY <1>2, <1>3, <1>4

LEMMA SortBeginsInv == ASSUME IInv, SortBegins PROVE IInv'
<1>1. /\ call = "none" /\ call' = "sort" /\ outcome' = "none" /\ sorted_thoughts' = <<>>
      /\ in_degree' = [n \in nodes |-> Cardinality(Into(n))]
      /\ queue' = {n \in nodes : Into(n) = {}}
      /\ UNCHANGED <<nodes, edges>>
  BY DEF SortBegins, Begin, graph
<1>2. ASSUME NEW n \in nodes
      PROVE  /\ Cardinality(Into(n)) \in 0..Cardinality(edges)
             /\ Cardinality(Into(n)) = 0 <=> Into(n) = {}
  <2>1. Into(n) \in SUBSET edges
    BY DEF Into
  <2> QED  BY <2>1, Waiting
<1>3. TypeOK'
  <2>1. in_degree' \in [nodes -> 0..Cardinality(edges)]
    BY <1>1, <1>2
  <2>2. queue' = {n \in nodes : in_degree'[n] = 0}
    BY <1>1, <1>2
  <2>3. {sorted_thoughts'[i] : i \in DOMAIN sorted_thoughts'} = {}
    BY <1>1
  <2> QED  BY <1>1, <2>1, <2>2, <2>3 DEF IInv, TypeOK
<1>4. SortInv'
  <2>1. Emitted' = {}
    BY <1>1 DEF Emitted
  <2>2. \A n \in nodes : in_degree'[n] = Cardinality({k \in edges' : k.target = n /\ k.source \notin Emitted'})
    <3>1. \A n \in nodes : Into(n) = {k \in edges' : k.target = n /\ k.source \notin Emitted'}
      BY <1>1, <2>1 DEF Into
    <3> QED  BY <1>1, <3>1
  <2>3. \A n \in nodes : WaitsFor(n)' = {k \in edges' : k.target = n /\ k.source \notin Emitted'}
    BY DEF WaitsFor, Into
  <2> QED  BY <1>1, <2>2, <2>3 DEF SortInv
<1>5. IdleIsDag'
  BY <1>1 DEF IInv, IdleIsDag, DagOf!Acyclic
<1> QED  BY <1>1, <1>3, <1>4, <1>5 DEF IInv, SearchInv

\* A thought in the queue waits for nothing, nor does one that is emitted.
LEMMA EmitFacts ==
  ASSUME IInv, call = "sort"
  PROVE  /\ TypeOK /\ SortInv /\ Emitted \subseteq nodes
         /\ \A n \in nodes : in_degree[n] = 0 <=> WaitsFor(n) = {}
         /\ \A n \in Emitted : in_degree[n] = 0
         /\ queue = {n \in nodes : in_degree[n] = 0} \ Emitted
<1>1. TypeOK /\ SortInv /\ call = "sort"
  BY DEF IInv
<1>2. Emitted \subseteq nodes
  BY <1>1 DEF SortInv, Emitted
<1>3. \A n \in nodes : in_degree[n] = 0 <=> WaitsFor(n) = {}
  <2> TAKE n \in nodes
  <2>1. WaitsFor(n) \in SUBSET edges
    BY DEF WaitsFor, Into
  <2>2. in_degree[n] = Cardinality(WaitsFor(n))
    BY <1>1 DEF SortInv
  <2> QED  BY <2>1, <2>2, Waiting
<1>4. \A n \in Emitted : WaitsFor(n) = {}
  BY <1>1 DEF SortInv, WaitsFor, Emitted, Into
<1>5. queue = {n \in nodes : in_degree[n] = 0} \ Emitted
  BY <1>1 DEF TypeOK, Emitted
<1> QED  BY <1>1, <1>2, <1>3, <1>4, <1>5

LEMMA EmitInv == ASSUME IInv, NEW n \in nodes, Emit(n) PROVE IInv'
<1> DEFINE s == sorted_thoughts
           N == Len(s)
           Left(m) == {k \in edges : k.target = m /\ k.source \notin Emitted \cup {n}}
<1>1. /\ call = "sort" /\ n \in queue /\ s' = Append(s, n) /\ in_degree' = LessEdges(n)
      /\ queue' = (queue \ {n}) \cup {m \in nodes : in_degree[m] # 0 /\ in_degree'[m] = 0}
      /\ UNCHANGED <<nodes, edges, call, outcome>>
  BY DEF Emit, graph
<1>2. /\ TypeOK /\ Emitted \subseteq nodes
      /\ \A m \in nodes : in_degree[m] = 0 <=> WaitsFor(m) = {}
      /\ \A m \in Emitted : in_degree[m] = 0
      /\ queue = {m \in nodes : in_degree[m] = 0} \ Emitted
  BY <1>1, EmitFacts
<1>3. /\ s \in Seq(nodes)
      /\ \A i, j \in DOMAIN s : s[i] = s[j] => i = j
      /\ \A m \in nodes : in_degree[m] = Cardinality(WaitsFor(m))
      /\ \A k \in edges : \A j \in DOMAIN s :
           s[j] = k.target => \E i \in DOMAIN s : i < j /\ s[i] = k.source
  BY <1>1, EmitFacts DEF SortInv
<1>4. n \notin Emitted /\ in_degree[n] = 0 /\ WaitsFor(n) = {}
  BY <1>1, <1>2
<1>5. /\ N \in Nat /\ DOMAIN s = 1..N /\ s' \in Seq(nodes) /\ DOMAIN s' = 1..(N + 1)
      /\ \A i \in 1..N : s'[i] = s[i]
      /\ s'[N + 1] = n
  BY <1>1, <1>3
<1>6. Emitted = {s[i] : i \in 1..N}
  BY <1>5 DEF Emitted
<1> HIDE DEF s, N
<1>7. {s'[i] : i \in DOMAIN s'} = Emitted \cup {n}
  <2>1. \A i \in 1..(N + 1) : s'[i] \in Emitted \cup {n}
    BY <1>5, <1>6
  <2>2. \A m \in Emitted \cup {n} : \E i \in 1..(N + 1) : s'[i] = m
    BY <1>5, <1>6
  <2> QED  BY <1>5, <2>1, <2>2
<1>8. Emitted' = Emitted \cup {n}
  BY <1>7 DEF Emitted, s
<1>9. ASSUME NEW m \in nodes
      PROVE  /\ in_degree'[m] = Cardinality(Left(m))
             /\ Cardinality(Left(m)) \in 0..Cardinality(edges)
             /\ in_degree[m] = 0 => in_degree'[m] = 0
  <2>1. Left(m) = WaitsFor(m) \ (OutOf(n) \cap Into(m))
    BY DEF WaitsFor, OutOf, Into
  <2>2. WaitsFor(m) \cap (OutOf(n) \cap Into(m)) = OutOf(n) \cap Into(m)
    BY <1>4 DEF WaitsFor, OutOf, Into
  <2>3. WaitsFor(m) \in SUBSET edges /\ Left(m) \in SUBSET edges
    BY DEF WaitsFor, Into
  <2>4. IsFiniteSet(WaitsFor(m))
    BY <2>3, Waiting
  <2>5. Cardinality(Left(m)) = Cardinality(WaitsFor(m)) - Cardinality(OutOf(n) \cap Into(m))
    <3> DEFINE D == OutOf(n) \cap Into(m)
    <3> HIDE DEF D, Left
    <3>1. Cardinality(WaitsFor(m) \ D) = Cardinality(WaitsFor(m)) - Cardinality(WaitsFor(m) \cap D)
      BY <2>4, FS_Difference
    <3> QED  BY <2>1, <2>2, <3>1 DEF D
  <2>6. in_degree'[m] = in_degree[m] - Cardinality(OutOf(n) \cap Into(m))
    BY <1>1 DEF LessEdges
  <2>7. in_degree'[m] = Cardinality(Left(m))
    BY <1>3, <2>5, <2>6
  <2>8. in_degree[m] = 0 => Left(m) = {}
    BY <1>2, <2>1
  <2> HIDE DEF Left
  <2> QED  BY <2>3, <2>7, <2>8, Waiting
<1>10. TypeOK'
  <2>1. in_degree' \in [nodes -> 0..Cardinality(edges)]
    <3>1. in_degree' = [m \in nodes |-> in_degree'[m]]
      BY <1>1 DEF LessEdges
    <3> HIDE DEF Left
    <3> QED  BY <1>9, <3>1
  <2>2. queue' = {m \in nodes : in_degree'[m] = 0} \ (Emitted \cup {n})
    <3> HIDE DEF Left
    <3>1. \A m \in nodes : in_degree[m] = 0 => in_degree'[m] = 0
      BY <1>9
    <3> QED  BY <1>1, <1>2, <1>4, <3>1
  <2> QED  BY <1>1, <1>2, <1>7, <2>1, <2>2 DEF TypeOK, s
<1>11. SortInv'
  <2>1. \A i, j \in DOMAIN s' : s'[i] = s'[j] => i = j
    BY <1>3, <1>4, <1>5, <1>6
  <2>2. \A m \in nodes : in_degree'[m] = Cardinality(WaitsFor(m))'
    <3>1. \A m : (WaitsFor(m))' = Left(m)
      BY <1>1, <1>8 DEF WaitsFor, Into
    <3> HIDE DEF Left
    <3> QED  BY <1>9, <3>1
  <2>3. ASSUME NEW k \in edges, NEW j \in DOMAIN s', s'[j] = k.target
        PROVE  \E i \in DOMAIN s' : i < j /\ s'[i] = k.source
    <3>1. CASE j \in 1..N
      <4>1. PICK i \in 1..N : i < j /\ s[i] = k.source
        BY <1>3, <1>5, <2>3, <3>1
      <4> QED  BY <1>5, <4>1
    <3>2. CASE j = N + 1
      <4>1. k.source \in Emitted
        BY <1>4, <1>5, <2>3, <3>2 DEF WaitsFor, Into
      <4>2. PICK i \in 1..N : s[i] = k.source
        BY <1>6, <4>1
      <4> QED  BY <1>5, <3>2, <4>2
    <3> QED  BY <1>5, <3>1, <3>2
  <2> QED  BY <1>1, <1>5, <2>1, <2>2, <2>3 DEF SortInv, s
<1>12. IdleIsDag'
  BY <1>1 DEF IInv, IdleIsDag, DagOf!Acyclic
<1> QED  BY <1>1, <1>10, <1>11, <1>12 DEF IInv, SearchInv

\* An empty queue leaves nobody out: among thoughts that are not emitted

\* there is one that waits for none of them.
LEMMA SortComplete == ASSUME IInv, SortReturns PROVE DagOf!Sorts(sorted_thoughts, nodes, edges)
<1>1. call = "sort" /\ queue = {}
  BY DEF SortReturns
<1>2. /\ TypeOK /\ SortInv /\ Emitted \subseteq nodes
      /\ \A n \in nodes : in_degree[n] = 0 <=> WaitsFor(n) = {}
      /\ queue = {n \in nodes : in_degree[n] = 0} \ Emitted
  BY <1>1, EmitFacts
<1>3. Emitted = nodes
  <2> DEFINE S == nodes \ Emitted
  <2> SUFFICES ASSUME S # {} PROVE FALSE
    BY <1>2
  <2>1. PICK n \in S : \A k \in edges : k.target = n => k.source \notin S
    BY <1>1 DEF IInv, IdleIsDag, DagOf!Acyclic
  <2>2. WaitsFor(n) = {}
    BY <1>2, <2>1 DEF WaitsFor, Into, TypeOK
  <2> QED  BY <1>1, <1>2, <2>2
<1>4. \A i, j \in DOMAIN sorted_thoughts : sorted_thoughts[i] = sorted_thoughts[j] => i = j
  BY <1>1, <1>2 DEF SortInv
<1>5. \A k \in edges : \A i, j \in DOMAIN sorted_thoughts :
        sorted_thoughts[i] = k.source /\ sorted_thoughts[j] = k.target => i < j
  BY <1>1, <1>2, <1>4 DEF SortInv
<1> QED  BY <1>3, <1>4, <1>5 DEF DagOf!Sorts, Emitted

LEMMA SortReturnsInv == ASSUME IInv, SortReturns PROVE IInv'
<1>1. call = "sort" /\ call' = "none" /\ outcome' = "sorted" /\ UNCHANGED <<nodes, edges>>
  BY DEF SortReturns, Return, graph
<1>2. TypeOK'
  BY <1>1 DEF IInv, TypeOK
<1>3. IdleIsDag'
  BY <1>1 DEF IInv, IdleIsDag, DagOf!Acyclic
<1> QED  BY <1>1, <1>2, <1>3 DEF IInv, SearchInv, SortInv

LEMMA StutterInv == ASSUME IInv, UNCHANGED vars PROVE IInv'
<1> USE DEF vars, graph, adding, sorting
<1>1. TypeOK' /\ IsFiniteSet(edges')
  BY DEF IInv, TypeOK, OutOf
<1>2. IdleIsDag'
  BY DEF IInv, IdleIsDag, DagOf!Acyclic
<1>3. SearchInv'
  <2>1. \A ns, es : Acyclic(ns, es)' <=> Acyclic(ns, es)  BY DEF Acyclic, DagOf!Acyclic
  <2>2. PathInv => PathInv'  BY DEF PathInv
  <2>3. ColourInv => ColourInv'
    <3>1. {n \in nodes : state[n] = Visited}' = {n \in nodes : state[n] = Visited}  OBVIOUS
    <3> QED  BY <2>1, <3>1 DEF ColourInv
  <2> QED  BY <2>1, <2>2, <2>3 DEF IInv, SearchInv
<1>4. SortInv'
  <2>1. Emitted' = Emitted
    BY DEF Emitted
  <2>2. \A n : (WaitsFor(n))' = WaitsFor(n)
    BY <2>1 DEF WaitsFor, Into
  <2>3. UNCHANGED <<nodes, edges, call, in_degree, sorted_thoughts>>
    OBVIOUS
  <2> QED  BY <2>2, <2>3 DEF IInv, SortInv
<1> QED  BY <1>1, <1>2, <1>3, <1>4 DEF IInv

-----------------------------------------------------------------------------
(* The theorems.                                                           *)

LEMMA StepInv == IInv /\ [Next]_vars => IInv'
<1> SUFFICES ASSUME IInv, [Next]_vars PROVE IInv'
  OBVIOUS
<1>1. ASSUME NEW n \in Thoughts, AddThought(n) \/ RemoveThought(n) PROVE IInv'
  BY <1>1, AddThoughtInv, RemoveThoughtInv
<1>2. ASSUME NEW k \in Links, AddEdge(k) PROVE IInv'
  BY <1>2, AddEdgeInv
<1>3. CASE Search
  <2>1. ASSUME NEW n \in nodes, Start(n) PROVE IInv'
    BY <2>1, StartInv
  <2>2. ASSUME NEW k \in edges, Descend(k) \/ SkipVisited(k) \/ CycleDetected(k) PROVE IInv'
    BY <2>2, DescendInv, SkipVisitedInv, CycleDetectedInv
  <2> QED  BY <1>3, <2>1, <2>2, BacktrackInv, NoCycleInv DEF Search
<1>4. CASE SortBegins \/ Sorting
  <2>1. ASSUME NEW n \in nodes, Emit(n) PROVE IInv'
    BY <2>1, EmitInv
  <2> QED  BY <1>4, <2>1, SortBeginsInv, SortReturnsInv DEF Sorting
<1> QED  BY <1>1, <1>2, <1>3, <1>4, StutterInv DEF Next

LEMMA AlwaysInv == Spec => []IInv
BY InitInv, StepInv, PTL DEF Spec

\* The colours of the search agree with its path, and in_degree with the queue.
THEOREM TypeCorrect == Spec => []TypeOK
<1>1. IInv => TypeOK
  BY DEF IInv
<1> QED  BY <1>1, AlwaysInv, PTL

\* No sequence of calls leaves a cycle behind.
THEOREM AlwaysAcyclic == Spec => []IdleIsDag
<1>1. IInv => IdleIsDag
  BY DEF IInv
<1> QED  BY <1>1, AlwaysInv, PTL

-----------------------------------------------------------------------------
(* The refinement.                                                         *)

LEMMA MapCalls ==
  ASSUME IInv, \/ SortBegins \/ \E k \in Links : AddEdge(k)
               \/ \E n \in Thoughts : AddThought(n) \/ RemoveThought(n)
  PROVE  DagOf!Next
<1>1. \A k \in edges : k \in Links
  BY DEF IInv, TypeOK
<1>2. CASE SortBegins \/ \E k \in Links : AddEdge(k)
  <2>1. DagOf!Call
    BY <1>2 DEF SortBegins, AddEdge, Begin, graph, DagOf!Call, DagOf!Returns
  <2> QED  BY <2>1 DEF DagOf!Next
<1>3. ASSUME NEW n \in Thoughts, AddThought(n) PROVE DagOf!Next
  <2>1. DagOf!Add(n)
    BY <1>3 DEF AddThought, Begin, DagOf!Add, DagOf!Returns
  <2> QED  BY <2>1 DEF DagOf!Next
<1>4. ASSUME NEW n \in Thoughts, RemoveThought(n) PROVE DagOf!Next
  <2>1. edges \ (OutOf(n) \cup Into(n)) = {k \in edges : n \notin {k.source, k.target}}
    BY DEF OutOf, Into
  <2>2. DagOf!Remove(n)
    BY <1>4, <2>1 DEF RemoveThought, Begin, DagOf!Remove, DagOf!Returns
  <2> QED  BY <2>2 DEF DagOf!Next
<1> QED  BY <1>2, <1>3, <1>4

LEMMA MapReturns ==
  ASSUME IInv, NoCycle \/ SortReturns \/ \E k \in edges : CycleDetected(k)
  PROVE  DagOf!Next
<1>1. call = "add_edge" =>
        /\ pending \in Links /\ before \cup {pending} = edges /\ sorted_thoughts = <<>>
  BY DEF IInv, TypeOK, SearchInv
<1>2. CASE NoCycle
  <2>1. Acyclic(nodes, edges)
    BY <1>2, NothingFound
  <2>2. DagOf!Link(pending)
    BY <1>1, <1>2, <2>1
    DEF NoCycle, Return, graph, Acyclic, DagOf!Acyclic, DagOf!Link, DagOf!Returns
  <2> QED  BY <1>1, <1>2, <2>2 DEF NoCycle, DagOf!Next
<1>3. CASE SortReturns
  <2>1. DagOf!Sort
    BY <1>3, SortComplete DEF SortReturns, Return, graph, DagOf!Sort, DagOf!Sorts
  <2> QED  BY <2>1 DEF DagOf!Next
<1>4. ASSUME NEW k \in edges, CycleDetected(k) PROVE DagOf!Next
  <2>1. call = "add_edge" /\ LooksAt(k) /\ state[k.target] = Visiting
    BY <1>4 DEF CycleDetected, LooksAt
  <2>2. ~ Acyclic(nodes, edges) /\ edges \ {pending} = before
    BY <2>1, CycleFound
  <2>3. DagOf!Refuse(pending)
    BY <1>1, <1>4, <2>1, <2>2
    DEF CycleDetected, Return, Acyclic, DagOf!Acyclic, DagOf!Refuse, DagOf!Returns
  <2> QED  BY <1>1, <2>1, <2>3 DEF DagOf!Next
<1> QED  BY <1>2, <1>3, <1>4

LEMMA MapQuiet ==
  ASSUME \/ UNCHANGED vars \/ Backtrack
         \/ \E n \in nodes : Start(n) \/ Emit(n)
         \/ \E k \in edges : Descend(k) \/ SkipVisited(k)
  PROVE  UNCHANGED DagOf!vars
BY DEF vars, graph, adding, sorting, Backtrack, Start, Emit, Descend, SkipVisited, DagOf!vars

\* add_edge and topological_sort are single steps that do what they promise.
THEOREM RefinesDag == Spec => ImplementsDag
<1>1. Init => DagOf!Init
  BY DEF Init, DagOf!Init
<1>2. IInv /\ [Next]_vars => [DagOf!Next]_(DagOf!vars)
  BY MapCalls, MapReturns, MapQuiet DEF Next, Search, Sorting
<1> QED  BY <1>1, <1>2, AlwaysInv, PTL DEF Spec, ImplementsDag, DagOf!Spec

-----------------------------------------------------------------------------
(* Induction over the natural numbers, for sets of them.                   *)

\* A set of naturals that is not empty has a least element.
LEMMA LeastNatural ==
  ASSUME NEW T \in SUBSET Nat, T # {}
  PROVE  \E x \in T : \A y \in T : x <= y
<1> DEFINE R == OpToRel(<, Nat)
<1>1. IsWellFoundedOn(R, Nat)  BY NatLessThanWellFounded DEF OpToRel
<1>2. PICK x \in T : \A y \in T : ~ (<<y, x>> \in R)
  <2> HIDE DEF R
  <2> QED  BY <1>1, WFMin
<1>3. ASSUME NEW y \in T PROVE x <= y
  <2>1. <<y, x>> \in Nat \X Nat /\ <<y, x>>[1] = y /\ <<y, x>>[2] = x  OBVIOUS
  <2>2. ~ (y < x)  BY <1>2, <2>1 DEF OpToRel
  <2> QED  BY <2>2
<1> QED  BY <1>3

\* One that holds 0 and with each number the next one holds them all.
LEMMA AllNaturals ==
  ASSUME NEW T \in SUBSET Nat, 0 \in T, \A n \in T : n + 1 \in T
  PROVE  T = Nat
<1> SUFFICES ASSUME Nat \ T # {} PROVE FALSE  OBVIOUS
<1>1. PICK x \in Nat \ T : \A y \in Nat \ T : x <= y
  BY LeastNatural
<1>2. x - 1 \in T
  BY <1>1
<1> QED  BY <1>1, <1>2

-----------------------------------------------------------------------------
(* Balls.                                                                  *)

BallStep(g, rels, both, base, f, n) ==
  /\ f[0] = base
  /\ \A d \in 1..n : f[d] = Onward(g, rels, both, f[d - 1])

\* The first n + 1 balls exist, whatever n.
LEMMA BallsUpTo ==
  ASSUME NEW g, NEW rels, NEW both, NEW base
  PROVE  \A n \in Nat : \E f : BallStep(g, rels, both, base, f, n)
<1> DEFINE T == {n \in Nat : \E f : BallStep(g, rels, both, base, f, n)}
<1>1. 0 \in T
  <2>1. BallStep(g, rels, both, base, [d \in 0..0 |-> base], 0)  BY DEF BallStep
  <2> QED  BY <2>1
<1>2. ASSUME NEW n \in T PROVE n + 1 \in T
  <2>1. PICK f : BallStep(g, rels, both, base, f, n)  OBVIOUS
  <2> DEFINE h == [d \in 0..n + 1 |-> IF d = n + 1 THEN Onward(g, rels, both, f[n]) ELSE f[d]]
  <2>2. h[0] = base  BY <2>1 DEF BallStep
  <2>3. ASSUME NEW d \in 1..n + 1 PROVE h[d] = Onward(g, rels, both, h[d - 1])
    <3>1. CASE d = n + 1  BY <3>1
    <3>2. CASE d # n + 1
      <4>1. h[d] = f[d] /\ h[d - 1] = f[d - 1] /\ d \in 1..n  BY <3>2
      <4> QED  BY <4>1, <2>1 DEF BallStep
    <3> QED  BY <3>1, <3>2
  <2>4. BallStep(g, rels, both, base, h, n + 1)  BY <2>2, <2>3 DEF BallStep
  <2> QED  BY <2>4
<1>3. T = Nat
  <2> HIDE DEF T
  <2> QED  BY <1>1, <1>2, AllNaturals DEF T
<1> QED  BY <1>3

\* They are the same however many more there are.
LEMMA BallsAgree ==
  ASSUME NEW g, NEW rels, NEW both, NEW base, NEW f, NEW h, NEW n \in Nat, NEW m \in Nat,
         BallStep(g, rels, both, base, f, n), BallStep(g, rels, both, base, h, m)
  PROVE  \A d \in Nat : d <= n /\ d <= m => f[d] = h[d]
<1> DEFINE T == {d \in Nat : d <= n /\ d <= m => f[d] = h[d]}
<1>1. 0 \in T  BY DEF BallStep
<1>2. ASSUME NEW d \in T PROVE d + 1 \in T
  <2> SUFFICES ASSUME d + 1 <= n, d + 1 <= m PROVE f[d + 1] = h[d + 1]  OBVIOUS
  <2>1. f[d] = h[d] /\ d + 1 \in 1..n /\ d + 1 \in 1..m /\ (d + 1) - 1 = d  OBVIOUS
  <2> QED  BY <2>1 DEF BallStep
<1>3. T = Nat
  <2> HIDE DEF T
  <2> QED  BY <1>1, <1>2, AllNaturals DEF T
<1> QED  BY <1>3

\* The recursive definition of Ball defines it.
LEMMA BallUnfolds ==
  ASSUME NEW g, NEW start, NEW rels, NEW both
  PROVE  /\ Ball(g, start, rels, both)[0] = {start} \cap Nodes
         /\ \A d \in Nat : Ball(g, start, rels, both)[d + 1]
                             = Onward(g, rels, both, Ball(g, start, rels, both)[d])
<1> DEFINE base == {start} \cap Nodes
           Is(f) == f = [d \in Nat |-> IF d = 0 THEN base ELSE Onward(g, rels, both, f[d - 1])]
           some == [n \in Nat |-> CHOOSE f : BallStep(g, rels, both, base, f, n)]
           diag == [n \in Nat |-> some[n][n]]
<1>1. \A n \in Nat : BallStep(g, rels, both, base, some[n], n)
  <2> TAKE n \in Nat
  <2>1. \E f : BallStep(g, rels, both, base, f, n)  BY BallsUpTo
  <2> QED  BY <2>1
<1> HIDE DEF some
<1>2. diag[0] = base  BY <1>1 DEF BallStep
<1>3. ASSUME NEW d \in Nat, d # 0 PROVE diag[d] = Onward(g, rels, both, diag[d - 1])
  <2>1. some[d][d] = Onward(g, rels, both, some[d][d - 1])  BY <1>1, <1>3 DEF BallStep
  <2>2. some[d][d - 1] = some[d - 1][d - 1]
    <3>1. d - 1 \in Nat  BY <1>3
    <3>2. BallStep(g, rels, both, base, some[d], d)
          /\ BallStep(g, rels, both, base, some[d - 1], d - 1)  BY <1>1, <3>1
    <3> QED  BY <3>1, <3>2, BallsAgree
  <2> QED  BY <2>1, <2>2, <1>3
<1>4. Is(diag)
  BY <1>2, <1>3
<1>5. Ball(g, start, rels, both) = CHOOSE f : Is(f)
  BY DEF Ball
<1>6. Is(Ball(g, start, rels, both))
  <2> HIDE DEF Is
  <2> QED  BY <1>4, <1>5
<1> DEFINE ball == Ball(g, start, rels, both)
<1> HIDE DEF ball
<1>7. \A d \in Nat : ball[d] = IF d = 0 THEN base ELSE Onward(g, rels, both, ball[d - 1])
  <2>1. ball = [d \in Nat |-> IF d = 0 THEN base ELSE Onward(g, rels, both, ball[d - 1])]
    BY <1>6 DEF ball
  <2> QED  BY <2>1
<1>8. \A d \in Nat : d + 1 # 0 /\ (d + 1) - 1 = d /\ d + 1 \in Nat  OBVIOUS
<1> QED  BY <1>7, <1>8 DEF ball

\* A set that holds the start and whatever an edge leads to from it holds all balls.
LEMMA BallLeast ==
  ASSUME NEW g, NEW start, NEW rels, NEW both, NEW S,
         {start} \cap Nodes \subseteq S, Onward(g, rels, both, S) \subseteq S
  PROVE  \A d \in Nat : Ball(g, start, rels, both)[d] \subseteq S
<1> DEFINE ball == Ball(g, start, rels, both)
           T == {d \in Nat : ball[d] \subseteq S}
<1> HIDE DEF ball
<1>1. ball[0] = {start} \cap Nodes /\ \A d \in Nat : ball[d + 1] = Onward(g, rels, both, ball[d])
  BY BallUnfolds DEF ball
<1>2. 0 \in T  BY <1>1
<1>3. ASSUME NEW d \in T PROVE d + 1 \in T
  <2>1. Onward(g, rels, both, ball[d]) \subseteq Onward(g, rels, both, S)  BY DEF Onward
  <2> QED  BY <2>1, <1>1
<1>4. T = Nat
  <2> HIDE DEF T
  <2> QED  BY <1>2, <1>3, AllNaturals DEF T
<1> QED  BY <1>4 DEF ball

\* Balls hold nodes.
LEMMA BallType ==
  ASSUME NEW g \in Graphs, NEW start, NEW rels, NEW both
  PROVE  \A d \in Nat : Ball(g, start, rels, both)[d] \subseteq Nodes
<1>1. Onward(g, rels, both, Nodes) \subseteq Nodes
  BY TraversalAssumption DEF Onward, Graphs
<1> QED  BY <1>1, BallLeast

\* They grow with the distance.
LEMMA BallGrows ==
  ASSUME NEW g, NEW start, NEW rels, NEW both, NEW d \in Nat, NEW e \in Nat, d <= e
  PROVE  Ball(g, start, rels, both)[d] \subseteq Ball(g, start, rels, both)[e]
<1> DEFINE ball == Ball(g, start, rels, both)
           T == {n \in Nat : ball[d] \subseteq ball[d + n]}
<1> HIDE DEF ball
<1>1. \A n \in Nat : ball[n + 1] = Onward(g, rels, both, ball[n])
  BY BallUnfolds DEF ball
<1>2. 0 \in T  OBVIOUS
<1>3. ASSUME NEW n \in T PROVE n + 1 \in T
  <2>1. ball[(d + n) + 1] = Onward(g, rels, both, ball[d + n])  BY <1>1
  <2>2. d + (n + 1) = (d + n) + 1  OBVIOUS
  <2> QED  BY <2>1, <2>2 DEF Onward
<1>4. T = Nat
  <2> HIDE DEF T
  <2> QED  BY <1>2, <1>3, AllNaturals DEF T
<1>5. e - d \in Nat /\ d + (e - d) = e  OBVIOUS
<1>6. ball[d] \subseteq ball[d + (e - d)]  BY <1>4, <1>5
<1> QED  BY <1>5, <1>6 DEF ball

\* One that does not grow in a step never grows again.
LEMMA BallStays ==
  ASSUME NEW g, NEW start, NEW rels, NEW both, NEW d \in Nat,
         Ball(g, start, rels, both)[d + 1] = Ball(g, start, rels, both)[d]
  PROVE  \A e \in Nat : d <= e => Ball(g, start, rels, both)[e] = Ball(g, start, rels, both)[d]
<1> DEFINE ball == Ball(g, start, rels, both)
<1> HIDE DEF ball
<1>1. ball[0] = {start} \cap Nodes /\ \A n \in Nat : ball[n + 1] = Onward(g, rels, both, ball[n])
  BY BallUnfolds DEF ball
<1>2. \A n, m \in Nat : n <= m => ball[n] \subseteq ball[m]
  BY BallGrows DEF ball
<1>3. {start} \cap Nodes \subseteq ball[d]  BY <1>1, <1>2
<1>4. Onward(g, rels, both, ball[d]) \subseteq ball[d]  BY <1>1 DEF ball
<1>5. \A e \in Nat : ball[e] \subseteq ball[d]  BY <1>3, <1>4, BallLeast DEF ball
<1> QED  BY <1>5, <1>2 DEF ball

\* While it grows it has a node for each step.
LEMMA BallSize ==
  ASSUME NEW g \in Graphs, NEW start \in Nodes, NEW rels, NEW both, NEW n \in Nat,
         \A d \in Nat : d < n => Ball(g, start, rels, both)[d + 1] # Ball(g, start, rels, both)[d]
  PROVE  Cardinality(Ball(g, start, rels, both)[n]) > n
<1> DEFINE ball == Ball(g, start, rels, both)
           T == {d \in Nat : d <= n => Cardinality(ball[d]) > d}
<1> HIDE DEF ball
<1>1. \A d \in Nat : ball[d] \subseteq Nodes /\ IsFiniteSet(ball[d]) /\ Cardinality(ball[d]) \in Nat
  BY BallType, FS_Subset, FS_CardinalityType, TraversalAssumption DEF ball
<1>2. 0 \in T
  <2>1. ball[0] = {start} \cap Nodes  BY BallUnfolds DEF ball
  <2>2. ball[0] = {start}  BY <2>1
  <2>3. Cardinality({start}) = 1  BY FS_Singleton
  <2> QED  BY <2>2, <2>3
<1>3. ASSUME NEW d \in T PROVE d + 1 \in T
  <2> SUFFICES ASSUME d + 1 <= n PROVE Cardinality(ball[d + 1]) > d + 1  OBVIOUS
  <2>1. ball[d] \subseteq ball[d + 1]  BY BallGrows DEF ball
  <2>2. ball[d] # ball[d + 1]  BY DEF ball
  <2>3. Cardinality(ball[d]) <= Cardinality(ball[d + 1])
        /\ (Cardinality(ball[d]) = Cardinality(ball[d + 1]) => ball[d + 1] = ball[d])
    BY <1>1, <2>1, FS_Subset
  <2> QED  BY <2>2, <2>3, <1>1
<1>4. T = Nat
  <2> HIDE DEF T
  <2> QED  BY <1>2, <1>3, AllNaturals DEF T
<1> QED  BY <1>4 DEF ball

\* No ball holds more than that of the distance Farthest.
LEMMA BallWhole ==
  ASSUME NEW g \in Graphs, NEW start, NEW rels, NEW both
  PROVE  /\ Farthest \in Nat
         /\ \A d \in Nat : Ball(g, start, rels, both)[d] \subseteq Ball(g, start, rels, both)[Farthest]
         /\ Onward(g, rels, both, Ball(g, start, rels, both)[Farthest])
              \subseteq Ball(g, start, rels, both)[Farthest]
<1> DEFINE ball == Ball(g, start, rels, both)
<1> HIDE DEF ball
<1>1. Farthest \in Nat /\ IsFiniteSet(Nodes)  BY FS_CardinalityType, TraversalAssumption DEF Farthest
<1>2. \A n \in Nat : ball[n + 1] = Onward(g, rels, both, ball[n])  BY BallUnfolds DEF ball
<1>3. \A n, m \in Nat : n <= m => ball[n] \subseteq ball[m]  BY BallGrows DEF ball
<1>4. \E d \in 0..Farthest : ball[d + 1] = ball[d]
  <2>1. CASE start \in Nodes
    <3> SUFFICES ASSUME \A d \in 0..Farthest : ball[d + 1] # ball[d] PROVE FALSE  OBVIOUS
    <3>1. Cardinality(ball[Farthest]) > Farthest  BY <1>1, <2>1, BallSize DEF ball
    <3>2. ball[Farthest] \subseteq Nodes  BY <1>1, BallType DEF ball
    <3>3. Cardinality(ball[Farthest]) <= Cardinality(Nodes)  BY <1>1, <3>2, FS_Subset
    <3>4. Cardinality(ball[Farthest]) \in Nat  BY <1>1, <3>2, FS_Subset, FS_CardinalityType
    <3> QED  BY <1>1, <3>1, <3>3, <3>4 DEF Farthest
  <2>2. CASE start \notin Nodes
    <3>1. \A d \in Nat : ball[d] \subseteq {}
      <4>1. {start} \cap Nodes \subseteq {}  BY <2>2
      <4>2. Onward(g, rels, both, {}) \subseteq {}  BY DEF Onward
      <4> QED  BY <4>1, <4>2, BallLeast DEF ball
    <3>2. ball[0] = {} /\ ball[0 + 1] = {}  BY <3>1
    <3> QED  BY <3>2, <1>1
  <2> QED  BY <2>1, <2>2
<1>5. PICK d \in 0..Farthest : ball[d + 1] = ball[d]  BY <1>4
<1>6. \A e \in Nat : d <= e => ball[e] = ball[d]  BY <1>5, <1>1, BallStays DEF ball
<1>7. ball[Farthest] = ball[d] /\ ball[Farthest + 1] = ball[d]  BY <1>6, <1>1
<1>8. \A e \in Nat : ball[e] \subseteq ball[Farthest]
  <2> TAKE e \in Nat
  <2>1. CASE d <= e  BY <2>1, <1>6, <1>7
  <2>2. CASE e < d  BY <2>2, <1>3, <1>7, <1>1
  <2> QED  BY <2>1, <2>2, <1>1
<1> QED  BY <1>1, <1>2, <1>7, <1>8 DEF ball

-----------------------------------------------------------------------------
(* The invariant of the searches.                                          *)

StackSearches == {"dfs", "ancestors"}

SearchTypeOK ==
  /\ question \in SearchQuestions /\ running \in BOOLEAN
  /\ visited \subseteq Ids
  /\ waiting \in Seq(Seq(Ids)) /\ walk \in Seq(Ids)
  /\ \A i \in DOMAIN waiting : waiting[i] # <<>>
  /\ left \subseteq Turns
  /\ left # {} => walk # <<>> /\ left \subseteq EdgesOf(question, End(walk))
  /\ order \in Seq(Ids \cup EdgeKeys)
  /\ ~ running => Idle \/ answer # Unanswered
  /\ running => ~ Refused /\ ~ Trivial

Waits(n) == \E i \in DOMAIN waiting : End(waiting[i]) = n
Current(n) == walk # <<>> /\ n = End(walk)

\* w is as long as the way to its end is far, and the search may go as far.
Shortest(q, w) ==
  /\ End(w) \in Around(q, Len(w) - 1)
  /\ \A d \in Nat : End(w) \in Around(q, d) => Len(w) - 1 <= d
  /\ q.of \in Limited => Len(w) = 1 \/ Len(w) - 1 <= q.limit

\* The queue holds the entries of the depth at hand, then those of the next.
QueueInv ==
  /\ \A i \in DOMAIN waiting : Shortest(question, waiting[i])
  /\ walk # <<>> => Shortest(question, walk) /\ Around(question, Len(walk) - 1) \subseteq visited
  /\ \A i, j \in DOMAIN waiting : i < j => Len(waiting[i]) <= Len(waiting[j])
  /\ \A i \in DOMAIN waiting : Len(waiting[i]) \in {Len(walk), Len(walk) + 1}
  /\ left # {} => GoesOn(walk)

Handled(a) ==
  Neighbor(a) \in visited /\ (question.of = "traverse" => InOrder(KeyOf(a)))

\* No shorter than the limit is any walk to n.
Beyond(q, n) ==
  q.of \in Limited /\ \A d \in Nat : n \in Around(q, d) => d >= q.limit

\* What is visited waits, is looked at, or was: its edges are handled.
VisitedInv ==
  /\ \A n \in visited : n \in Around(question, Farthest)
  /\ question.start \in visited
  /\ question.of \in {"depth_limited_search", "expand_neighborhood"} =>
       visited \subseteq Around(question, question.limit)
  /\ \A n \in visited :
       Waits(n) \/ Beyond(question, n) \/ \A a \in EdgesOf(question, n) : Handled(a) \/ (Current(n) /\ a \in left)

ListsInv ==
  Lists =>
    /\ Once(order)
    /\ \A i, j \in DOMAIN waiting : End(waiting[i]) = End(waiting[j]) => i = j
    /\ \A n \in Ids : n \in visited <=> Waits(n) \/ InOrder(n)
    /\ \A n \in Ids : ~ (Waits(n) /\ InOrder(n))
    /\ \A i \in DOMAIN order : order[i] \in Ids /\ (order[i] \in Around(question, Len(walk) - 1) /\ walk # <<>>)
    /\ \A i, j \in DOMAIN order : i < j =>
         \A d \in Nat : order[j] \in Around(question, d) => order[i] \in Around(question, d)

TriplesInv ==
  question.of = "traverse" =>
    /\ Once(order)
    /\ \A i \in DOMAIN order :
         /\ order[i] \in question.g
         /\ \E d \in Nat : d < question.limit /\ order[i].source \in Around(question, d)

IsPath(q, w) ==
  /\ w[1] = q.start
  /\ \A i \in 1..Len(w) - 1 : \E k \in q.g : k.source = w[i] /\ k.target = w[i + 1]

PathInvariant ==
  question.of = "shortest_path" =>
    /\ question.end \notin visited
    /\ \A i \in DOMAIN waiting : IsPath(question, waiting[i])
    /\ walk # <<>> => IsPath(question, walk)

\* A node nobody knows is visited, and has no edges.
StrayInv ==
  question.start \notin Nodes =>
    /\ order = <<>> /\ left = {} /\ question.of = "traverse"
    /\ \A i \in DOMAIN waiting : End(waiting[i]) \notin Nodes

BreadthInv ==
  Searching /\ ~ OnStack =>
    /\ StrayInv
    /\ question.start \in Nodes =>
         QueueInv /\ VisitedInv /\ ListsInv /\ TriplesInv /\ PathInvariant

\* The edge of m at `place` leads to a visited node, or is still to be looked at, or its
\* target is above the i-th entry of the stack.
MetAbove(i, m, b) ==
  \/ Neighbor(b) \in visited
  \/ Current(m) /\ b \in left
  \/ \E j \in DOMAIN waiting : j > i /\ End(waiting[j]) = Neighbor(b)

\* The i-th entry of the stack was put there for an edge of a listed node; what smaller
\* keys of that node and all keys of later nodes lead to is met or above it.
OwedFor(i, p, a) ==
  /\ Neighbor(a) = End(waiting[i])
  /\ \A b \in EdgesOf(question, order[p]) : b.place < a.place => MetAbove(i, order[p], b)
  /\ \A m \in DOMAIN order : m > p => \A b \in EdgesOf(question, order[m]) : MetAbove(i, order[m], b)

Owed(i) == \E p \in DOMAIN order : \E a \in EdgesOf(question, order[p]) : OwedFor(i, p, a)

\* Of the node at hand, the latest of the list, the edges of the smallest keys are left.
StackInv ==
  /\ visited = Listed /\ Once(order)
  /\ question.start \in Nodes
  /\ visited \subseteq Around(question, Farthest)
  /\ walk # <<>> => order # <<>> /\ End(walk) = order[Len(order)]
  /\ order = <<>> => waiting = <<<<question.start>>>> /\ left = {}
  /\ \A a \in left : \A b \in EdgesOf(question, End(walk)) : b.place < a.place => b \in left
  /\ order # <<>> => question.start \in visited
  /\ \A n \in visited : \A b \in EdgesOf(question, n) : MetAbove(0, n, b)
  /\ order # <<>> => \A i \in DOMAIN waiting : Owed(i)
  /\ Preorder(order, question)

DepthInv == Searching /\ question.of = "dfs" => StackInv

KinOf(n) == n = question.start \/ n \in visited

AncestorsInv ==
  Searching /\ question.of = "ancestors" =>
    /\ question.start \in Nodes /\ visited \subseteq Nodes
    /\ \A n \in visited : \E k \in question.g :
         k.relation \in question.rels /\ k.source = n /\ LeadsTo(question, k.target, question.start)
    /\ \A i \in DOMAIN waiting : KinOf(End(waiting[i]))
    /\ walk # <<>> => KinOf(End(walk))
    /\ \A n \in visited \cup {question.start} :
         Waits(n) \/ \A a \in EdgesOf(question, n) : Neighbor(a) \in visited \/ (Current(n) /\ a \in left)

SearchInvariant ==
  /\ SearchTypeOK /\ BreadthInv /\ DepthInv /\ AncestorsInv
  /\ SearchesReachTheBall /\ PathsAreShortest

-----------------------------------------------------------------------------
(* Questions and edges.                                                    *)

\* The fields of a question.
LEMMA QuestionType ==
  ASSUME NEW q \in SearchQuestions
  PROVE  /\ q.g \in Graphs /\ q.start \in Ids
         /\ q.of \in {"bfs", "dfs", "ancestors", "descendants", "shortest_path"} \cup Limited
         /\ q.of \in Limited => q.limit \in Int
         /\ q.of = "shortest_path" => q.end \in Ids /\ q.rels = AllRelations
         /\ q.of \in Limited => q.rels = AllRelations
<1>1. CASE q \in [of : {"bfs", "dfs", "ancestors", "descendants"}, g : Graphs, start : Ids,
                  rels : Filters]
  BY <1>1 DEF Limited
<1>2. CASE q \in [of : Limited, g : Graphs, start : Ids, rels : {AllRelations}, limit : Depths]
  BY <1>2, TraversalAssumption DEF Limited
<1>3. CASE q \in [of : {"shortest_path"}, g : Graphs, start : Ids, rels : {AllRelations}, end : Ids]
  BY <1>3 DEF Limited
<1> QED  BY <1>1, <1>2, <1>3 DEF SearchQuestions

\* An edge is one of the graph's and leads to a node.
LEMMA EdgeType ==
  ASSUME question \in SearchQuestions, NEW n, NEW a \in EdgesOf(question, n)
  PROVE  /\ a \in Turns /\ NodeOf(a) = n /\ n \in Nodes /\ Neighbor(a) \in Nodes
         /\ KeyOf(a) \in question.g /\ KeyOf(a) \in EdgeKeys /\ KeyOf(a).relation \in question.rels
         /\ a.way \in Ways(question) /\ a.place \in DOMAIN LinkOrder
<1>1. a \in Turns /\ NodeOf(a) = n /\ KeyOf(a) \in question.g /\ KeyOf(a).relation \in question.rels
      /\ a.way \in Ways(question)
  BY DEF EdgesOf
<1>2. a.place \in DOMAIN LinkOrder  BY <1>1 DEF Turns
<1>3. KeyOf(a) \in EdgeKeys  BY <1>2 DEF KeyOf, EdgeKeys
<1> QED  BY <1>1, <1>2, <1>3, TraversalAssumption DEF NodeOf, Neighbor

\* An edge of the graph leaves a node in one direction and, backwards, its target.
LEMMA EdgeExists ==
  ASSUME question \in SearchQuestions, NEW k \in question.g, k.relation \in question.rels,
         NEW w \in Ways(question)
  PROVE  \E a \in EdgesOf(question, IF w = "from" THEN k.source ELSE k.target) :
           KeyOf(a) = k /\ a.way = w
<1>1. k \in EdgeKeys  BY QuestionType DEF Graphs
<1>2. PICK i \in DOMAIN LinkOrder : LinkOrder[i] = k  BY <1>1 DEF EdgeKeys
<1>3. w \in {"from", "to"}  BY DEF Ways
<1> DEFINE a == [way |-> w, place |-> i]
<1>4. a \in Turns /\ KeyOf(a) = k /\ a.way = w  BY <1>2, <1>3 DEF Turns, KeyOf
<1>5. NodeOf(a) = IF w = "from" THEN k.source ELSE k.target  BY <1>4 DEF NodeOf
<1>6. a \in EdgesOf(question, IF w = "from" THEN k.source ELSE k.target)  BY <1>4, <1>5 DEF EdgesOf
<1> QED  BY <1>4, <1>6

Both(q) == q.of = "expand_neighborhood"

\* What an edge leads to from S is what the searches meet from S.
LEMMA OnwardIsMet ==
  ASSUME question \in SearchQuestions, question.of # "ancestors", NEW S
  PROVE  /\ \A n \in S : \A a \in EdgesOf(question, n) :
              Neighbor(a) \in Onward(question.g, question.rels, Both(question), S)
         /\ \A x \in Onward(question.g, question.rels, Both(question), S) :
              x \in S \/ \E n \in S : \E a \in EdgesOf(question, n) : Neighbor(a) = x
<1> DEFINE g == question.g
           rels == question.rels
           both == Both(question)
<1>0. Ways(question) = IF both THEN {"from", "to"} ELSE {"from"}  BY DEF Ways, Both
<1>1. ASSUME NEW n \in S, NEW a \in EdgesOf(question, n)
      PROVE  Neighbor(a) \in Onward(g, rels, both, S)
  <2>1. KeyOf(a) \in g /\ KeyOf(a).relation \in rels /\ NodeOf(a) = n /\ a.way \in Ways(question)
    BY <1>1, EdgeType
  <2>2. CASE a.way = "from"
    BY <2>1, <2>2 DEF NodeOf, Neighbor, Onward
  <2>3. CASE a.way # "from"
    <3>1. both  BY <2>1, <2>3, <1>0
    <3> QED  BY <2>1, <2>3, <3>1 DEF NodeOf, Neighbor, Onward
  <2> QED  BY <2>2, <2>3
<1>2. ASSUME NEW x \in Onward(g, rels, both, S), x \notin S
      PROVE  \E n \in S : \E a \in EdgesOf(question, n) : Neighbor(a) = x
  <2>1. CASE \E k \in g : k.relation \in rels /\ k.source \in S /\ k.target = x
    <3>1. PICK k \in g : k.relation \in rels /\ k.source \in S /\ k.target = x  BY <2>1
    <3>2. PICK a \in EdgesOf(question, k.source) : KeyOf(a) = k /\ a.way = "from"
      BY <3>1, <1>0, EdgeExists
    <3> QED  BY <3>1, <3>2 DEF Neighbor
  <2>2. CASE both /\ \E k \in g : k.relation \in rels /\ k.target \in S /\ k.source = x
    <3>1. PICK k \in g : k.relation \in rels /\ k.target \in S /\ k.source = x  BY <2>2
    <3>2. PICK a \in EdgesOf(question, k.target) : KeyOf(a) = k /\ a.way = "to"
      BY <3>1, <2>2, <1>0, EdgeExists
    <3> QED  BY <3>1, <3>2 DEF Neighbor
  <2> QED  BY <1>2, <2>1, <2>2 DEF Onward
<1> QED  BY <1>1, <1>2

\* The ball of the search in progress, in terms of the edges it looks at.
LEMMA NearFacts ==
  ASSUME question \in SearchQuestions, question.of # "ancestors"
  PROVE  /\ Farthest \in Nat
         /\ Around(question, 0) = {question.start} \cap Nodes
         /\ \A d \in Nat : Around(question, d) \subseteq Nodes /\ Around(question, d) \subseteq Around(question, Farthest)
         /\ \A d, e \in Nat : d <= e => Around(question, d) \subseteq Around(question, e)
         /\ \A d \in Nat : \A n \in Around(question, d) : \A a \in EdgesOf(question, n) : Neighbor(a) \in Around(question, d + 1)
         /\ \A d \in Nat : \A x \in Around(question, d + 1) :
              x \in Around(question, d) \/ \E n \in Around(question, d) : \E a \in EdgesOf(question, n) : Neighbor(a) = x
         /\ \A n \in Around(question, Farthest) : \A a \in EdgesOf(question, n) : Neighbor(a) \in Around(question, Farthest)
<1> DEFINE ball == Ball(question.g, question.start, question.rels, Both(question))
<1>0. \A d : Around(question, d) = ball[d]  BY DEF Around, Both
<1>1. question.g \in Graphs  BY QuestionType
<1>2. ball[0] = {question.start} \cap Nodes
      /\ \A d \in Nat : ball[d + 1] = Onward(question.g, question.rels, Both(question), ball[d])
  BY BallUnfolds
<1>3. \A d \in Nat : ball[d] \subseteq Nodes  BY <1>1, BallType
<1>4. \A d, e \in Nat : d <= e => ball[d] \subseteq ball[e]  BY BallGrows
<1>5. /\ Farthest \in Nat
      /\ \A d \in Nat : ball[d] \subseteq ball[Farthest]
      /\ Onward(question.g, question.rels, Both(question), ball[Farthest]) \subseteq ball[Farthest]
  BY <1>1, BallWhole
<1> HIDE DEF ball
<1>6. \A d \in Nat :
        /\ \A n \in ball[d] : \A a \in EdgesOf(question, n) : Neighbor(a) \in ball[d + 1]
        /\ \A x \in ball[d + 1] :
             x \in ball[d] \/ \E n \in ball[d] : \E a \in EdgesOf(question, n) : Neighbor(a) = x
  BY <1>2, OnwardIsMet
<1>7. \A n \in ball[Farthest] : \A a \in EdgesOf(question, n) : Neighbor(a) \in ball[Farthest]
  BY <1>5, OnwardIsMet
<1> QED  BY <1>0, <1>2, <1>3, <1>4, <1>5, <1>6, <1>7

-----------------------------------------------------------------------------
(* Types.                                                                  *)

\* What the entry taken and the others are.
LEMMA TakenType ==
  ASSUME SearchTypeOK, waiting # <<>>
  PROVE  /\ Taken \in Seq(Ids) /\ Taken # <<>> /\ End(Taken) \in Ids /\ Len(Taken) \in Nat \ {0}
         /\ Others \in Seq(Seq(Ids))
         /\ Len(waiting) \in Nat \ {0} /\ Len(Others) = Len(waiting) - 1
         /\ \A i \in DOMAIN Others : Others[i] = waiting[IF OnStack THEN i ELSE i + 1]
         /\ Taken = waiting[IF OnStack THEN Len(waiting) ELSE 1]
<1> USE DEF SearchTypeOK
<1>1. Len(waiting) \in Nat \ {0} /\ DOMAIN waiting = 1..Len(waiting)  OBVIOUS
<1>2. Taken = waiting[IF OnStack THEN Len(waiting) ELSE 1]  BY DEF Taken
<1>3. Taken \in Seq(Ids) /\ Taken # <<>>
  <2>1. (IF OnStack THEN Len(waiting) ELSE 1) \in DOMAIN waiting  BY <1>1
  <2>2. \A i \in DOMAIN waiting : waiting[i] \in Seq(Ids)  BY <1>1
  <2> QED  BY <1>2, <2>1, <2>2
<1>4. Len(Taken) \in Nat \ {0} /\ End(Taken) \in Ids  BY <1>3 DEF End
<1>5. CASE OnStack
  <2>1. Others = SubSeq(waiting, 1, Len(waiting) - 1)  BY <1>5 DEF Others
  <2>2. /\ Others \in Seq(Seq(Ids)) /\ Len(Others) = Len(waiting) - 1
        /\ \A i \in DOMAIN Others : Others[i] = waiting[i]
    BY <2>1, <1>1
  <2> QED  BY <2>2, <1>1, <1>2, <1>3, <1>4, <1>5
<1>6. CASE ~ OnStack
  <2>1. Others = Tail(waiting)  BY <1>6 DEF Others
  <2>2. /\ Others \in Seq(Seq(Ids)) /\ Len(Others) = Len(waiting) - 1
        /\ \A i \in DOMAIN Others : Others[i] = waiting[i + 1]
    BY <2>1, <1>1
  <2> QED  BY <2>2, <1>1, <1>2, <1>3, <1>4, <1>6
<1> QED  BY <1>5, <1>6

\* An entry put on the queue or the stack comes last.
LEMMA PutType ==
  ASSUME SearchTypeOK, walk # <<>>, NEW n \in Ids
  PROVE  LET w == Append(walk, n)
             s == Append(waiting, w)
         IN  /\ w \in Seq(Ids) /\ w # <<>> /\ End(w) = n /\ Len(w) = Len(walk) + 1
             /\ \A i \in 1..Len(walk) : w[i] = walk[i]
             /\ s \in Seq(Seq(Ids)) /\ Len(s) = Len(waiting) + 1 /\ s[Len(s)] = w
             /\ DOMAIN s = DOMAIN waiting \cup {Len(s)} /\ Len(s) \notin DOMAIN waiting
             /\ \A i \in DOMAIN waiting : s[i] = waiting[i] /\ i < Len(s)
<1> USE DEF SearchTypeOK
<1> DEFINE w == Append(walk, n)
           s == Append(waiting, w)
<1>1. w \in Seq(Ids) /\ w # <<>> /\ Len(w) = Len(walk) + 1 /\ w[Len(w)] = n
      /\ \A i \in 1..Len(walk) : w[i] = walk[i]
  OBVIOUS
<1> HIDE DEF w
<1>2. s \in Seq(Seq(Ids)) /\ Len(s) = Len(waiting) + 1 /\ s[Len(s)] = w
      /\ DOMAIN s = 1..Len(s) /\ DOMAIN waiting = 1..Len(waiting) /\ Len(waiting) \in Nat
      /\ \A i \in 1..Len(waiting) : s[i] = waiting[i]
  BY <1>1
<1> QED  BY <1>1, <1>2 DEF w, End

\* Each step keeps the types.
LEMMA SearchTypeStep ==
  ASSUME SearchTypeOK, [SearchNext]_searchVars
  PROVE  SearchTypeOK'
<1> USE DEF SearchTypeOK
<1>1. CASE UNCHANGED searchVars
  BY <1>1 DEF searchVars, locals, Idle, Refused, Trivial, EdgesOf, End, Ways
<1>2. ASSUME UNCHANGED <<question, locals>>, answer' # Unanswered PROVE SearchTypeOK'
  BY <1>2 DEF locals, Idle, Refused, Trivial, EdgesOf, End, Ways
<1>3. ASSUME NEW r, Reply(r) PROVE SearchTypeOK'
  <2>1. answer' # Unanswered  BY <1>3 DEF Reply, Unanswered
  <2> QED  BY <1>3, <2>1, <1>2 DEF Reply
<1>4. CASE Refuse \/ StayAtStart \/ Finish
  BY <1>4, <1>3 DEF Refuse, StayAtStart, Finish
<1>5. CASE \E a \in left : Arrive(a)
  BY <1>5, <1>3 DEF Arrive
<1>6. CASE Enter
  <2>1. question.start \in Ids  BY QuestionType
  <2>2. left = {} /\ walk = <<>> /\ order = <<>>  BY <1>6 DEF Enter, Idle
  <2>3. <<<<question.start>>>> \in Seq(Seq(Ids)) /\ <<question.start>> # <<>>
        /\ DOMAIN <<<<question.start>>>> = {1} /\ <<<<question.start>>>>[1] = <<question.start>>
    BY <2>1
  <2>4. ~ Refused' /\ ~ Trivial'  BY <1>6 DEF Enter, Refused, Trivial
  <2> QED  BY <1>6, <2>1, <2>2, <2>3, <2>4 DEF Enter
<1>7. CASE Take
  <2>1. /\ Taken \in Seq(Ids) /\ Taken # <<>> /\ End(Taken) \in Ids
        /\ Others \in Seq(Seq(Ids)) /\ Len(waiting) \in Nat \ {0}
        /\ \A i \in DOMAIN Others : Others[i] = waiting[IF OnStack THEN i ELSE i + 1]
        /\ Len(Others) = Len(waiting) - 1
    BY <1>7, TakenType DEF Take
  <2>2. \A i \in DOMAIN Others : Others[i] # <<>>
    <3> TAKE i \in DOMAIN Others
    <3>1. (IF OnStack THEN i ELSE i + 1) \in DOMAIN waiting  BY <2>1
    <3> QED  BY <2>1, <3>1
  <2>3. visited' \subseteq Ids  BY <1>7, <2>1 DEF Take
  <2>4. left' = {} \/ (walk' = Taken /\ left' = EdgesOf(question, End(Taken)))  BY <1>7 DEF Take
  <2>5. left' \subseteq Turns /\ (left' # {} => walk' # <<>> /\ left' \subseteq EdgesOf(question, End(walk))')
    <3>1. UNCHANGED question  BY <1>7 DEF Take
    <3>3. EdgesOf(question, End(Taken)) \subseteq Turns  BY DEF EdgesOf
    <3>4. CASE left' = {}  BY <3>4
    <3>5. CASE walk' = Taken /\ left' = EdgesOf(question, End(Taken))
      <4>1. EdgesOf(question, End(walk))' = EdgesOf(question, End(Taken))  BY <3>1, <3>5 DEF EdgesOf, Ways, End
      <4> QED  BY <2>1, <3>3, <3>5, <4>1
    <3> QED  BY <2>4, <3>4, <3>5
  <2>6. order' \in Seq(Ids \cup EdgeKeys)
    <3>1. order' = order \/ order' = Append(order, End(Taken))  BY <1>7 DEF Take
    <3>2. End(Taken) \in Ids \cup EdgeKeys  BY <2>1
    <3> HIDE DEF SearchTypeOK
    <3>3. order \in Seq(Ids \cup EdgeKeys)  BY DEF SearchTypeOK
    <3> QED  BY <3>1, <3>2, <3>3
  <2>7. walk' \in Seq(Ids)  BY <1>7, <2>1 DEF Take
  <2>8. running' /\ running /\ UNCHANGED question  BY <1>7 DEF Take, Searching
  <2>9. ~ Refused' /\ ~ Trivial'  BY <2>8 DEF Refused, Trivial
  <2> QED  BY <1>7, <2>1, <2>2, <2>3, <2>5, <2>6, <2>7, <2>8, <2>9 DEF Take
<1>8. ASSUME NEW a \in left, LookAt(a) PROVE SearchTypeOK'
  <2>1. a \in EdgesOf(question, End(walk)) /\ walk # <<>>  OBVIOUS
  <2>2. Neighbor(a) \in Nodes /\ KeyOf(a) \in EdgeKeys  BY <2>1, EdgeType
  <2>3. Neighbor(a) \in Ids  BY <2>2 DEF Ids
  <2>4. visited' \subseteq Ids  BY <1>8, <2>3 DEF LookAt
  <2>5. waiting' \in Seq(Seq(Ids)) /\ \A i \in DOMAIN waiting' : waiting'[i] # <<>>
    <3>1. CASE Neighbor(a) \in visited  BY <1>8, <3>1 DEF LookAt
    <3>2. CASE Neighbor(a) \notin visited
      <4>1. waiting' = Append(waiting, Append(walk, Neighbor(a)))  BY <1>8, <3>2 DEF LookAt
      <4> QED  BY <2>1, <2>3, <4>1, PutType
    <3> QED  BY <3>1, <3>2
  <2>6. order' \in Seq(Ids \cup EdgeKeys)  BY <1>8, <2>2 DEF LookAt
  <2>7. left' \subseteq Turns /\ (left' # {} => walk' # <<>> /\ left' \subseteq EdgesOf(question, End(walk))')
    BY <1>8, <2>1 DEF LookAt, EdgesOf, End, Ways
  <2>8. running' /\ running /\ UNCHANGED question  BY <1>8 DEF LookAt, Searching
  <2>9. ~ Refused' /\ ~ Trivial'  BY <2>8 DEF Refused, Trivial
  <2> QED  BY <1>8, <2>4, <2>5, <2>6, <2>7, <2>8, <2>9 DEF LookAt
<1> QED  BY <1>1, <1>4, <1>5, <1>6, <1>7, <1>8 DEF SearchNext

-----------------------------------------------------------------------------
(* The searches with a queue.                                              *)

\* The first entry is the start alone.
LEMMA BreadthEnter ==
  ASSUME SearchTypeOK, Enter
  PROVE  BreadthInv'
<1> SUFFICES ASSUME ~ OnStack' PROVE BreadthInv'  BY DEF BreadthInv
<1> DEFINE s == question.start
<1>1. /\ UNCHANGED <<question, answer, walk, left, order>> /\ waiting' = <<<<s>>>>
      /\ visited' = {s}
  BY DEF Enter, OnStack
<1>2. walk = <<>> /\ left = {} /\ order = <<>>  BY DEF Enter, SearchTypeOK, Idle
<1>3. /\ DOMAIN waiting' = {1} /\ Len(waiting') = 1 /\ waiting'[1] = <<s>>
      /\ Len(<<s>>) = 1 /\ End(<<s>>) = s /\ <<s>>[1] = s
  BY <1>1 DEF End
<1>4. question \in SearchQuestions /\ question.of # "ancestors"
  BY <1>1 DEF SearchTypeOK, OnStack
<1>5. StrayInv'
  <2>1. s \notin Nodes => question.of = "traverse"
    BY <1>4, QuestionType DEF Enter, Refused, Limited
  <2> QED  BY <2>1, <1>1, <1>2, <1>3 DEF StrayInv
<1>6. ASSUME s \in Nodes
      PROVE (QueueInv /\ VisitedInv /\ ListsInv /\ TriplesInv /\ PathInvariant)'
  <2>1. s \in Around(question, 0) /\ s \in Around(question, Farthest)
    BY <1>4, <1>6, NearFacts
  <2>2. Shortest(question, <<s>>)
    BY <2>1, <1>3 DEF Shortest
  <2>3. QueueInv'
    BY <2>2, <1>1, <1>2, <1>3 DEF QueueInv
  <2>4. Waits(s)'
    BY <1>3, <1>1 DEF Waits
  <2>5. VisitedInv'
    <3>1. question.of \in {"depth_limited_search", "expand_neighborhood"} =>
            s \in Around(question, question.limit)
      <4> SUFFICES ASSUME question.of \in {"depth_limited_search", "expand_neighborhood"}
                   PROVE s \in Around(question, question.limit)
        OBVIOUS
      <4>1. question.limit \in Int /\ ~ question.limit < 0
        BY <1>4, QuestionType DEF Enter, Refused, Limited
      <4> QED  BY <4>1, <2>1, <1>4, NearFacts
    <3>2. \A n \in visited' : Waits(n)'  BY <1>1, <2>4
    <3>3. \A n \in visited' : n \in Around(question', Farthest)  BY <1>1, <2>1
    <3>4. question'.of \in {"depth_limited_search", "expand_neighborhood"} =>
            visited' \subseteq Around(question', question'.limit)
      BY <3>1, <1>1
    <3> QED  BY <1>1, <3>2, <3>3, <3>4 DEF VisitedInv
  <2>6. ListsInv'
    <3>1. \A n : n \in visited' <=> Waits(n)'  BY <1>1, <1>3 DEF Waits
    <3>2. \A n : ~ InOrder(n)'  BY <1>1, <1>2 DEF InOrder
    <3> QED  BY <3>1, <3>2, <1>1, <1>2, <1>3 DEF ListsInv, Once
  <2>7. TriplesInv'
    BY <1>1, <1>2 DEF TriplesInv, Once
  <2>8. PathInvariant'
    BY <1>1, <1>2, <1>3 DEF PathInvariant, IsPath, Enter, Trivial
  <2> QED  BY <2>3, <2>5, <2>6, <2>7, <2>8
<1> QED  BY <1>1, <1>5, <1>6 DEF BreadthInv

\* When an entry is taken, all nodes as near as its end have been met.
LEMMA NearerAreMet ==
  ASSUME SearchTypeOK, question.of # "ancestors", QueueInv, VisitedInv, left = {},
         waiting # <<>>, ~ OnStack, question.start \in Nodes
  PROVE  /\ Shortest(question, Taken)
         /\ Around(question, Len(Taken) - 1) \subseteq visited
         /\ Len(Taken) \in {Len(walk), Len(walk) + 1}
<1>0. /\ Taken = waiting[1] /\ 1 \in DOMAIN waiting /\ Len(waiting) \in Nat \ {0}
      /\ Len(Taken) \in Nat \ {0} /\ DOMAIN waiting = 1..Len(waiting)
      /\ Len(walk) \in Nat /\ (walk = <<>> <=> Len(walk) = 0)
  BY TakenType DEF SearchTypeOK
<1>1. Shortest(question, Taken) /\ Len(Taken) \in {Len(walk), Len(walk) + 1}
  BY <1>0 DEF QueueInv
<1>2. question \in SearchQuestions  BY DEF SearchTypeOK
<1>3. CASE Len(Taken) = Len(walk)
  BY <1>3, <1>0, <1>1 DEF QueueInv
<1>4. CASE Len(Taken) = Len(walk) + 1 /\ walk = <<>>
  <2>1. Len(Taken) - 1 = 0  BY <1>4, <1>0
  <2>2. Around(question, 0) \subseteq {question.start}  BY <1>2, NearFacts
  <2>3. Around(question, Len(Taken) - 1) \subseteq {question.start}  BY <2>1, <2>2
  <2>4. question.start \in visited  BY DEF VisitedInv
  <2> QED  BY <2>3, <2>4, <1>1
<1>5. CASE Len(Taken) = Len(walk) + 1 /\ walk # <<>>
  <2> DEFINE c == Len(walk) - 1
  <2>1. c \in Nat /\ Len(Taken) - 1 = c + 1 /\ Len(Taken) = c + 2  BY <1>0, <1>5
  <2>2. Around(question, c) \subseteq visited  BY <1>5 DEF QueueInv
  <2>3. ASSUME NEW n \in Around(question, c), NEW a \in EdgesOf(question, n)
        PROVE  Neighbor(a) \in visited
    <3>1. ~ Waits(n)
      <4> SUFFICES ASSUME NEW i \in DOMAIN waiting, End(waiting[i]) = n PROVE FALSE
        BY DEF Waits
      <4>1. Len(waiting[i]) - 1 <= c  BY <2>1, <2>3 DEF QueueInv, Shortest
      <4>2. Len(Taken) <= Len(waiting[i])
        <5>1. i = 1 \/ 1 < i  BY <1>0
        <5>2. waiting[i] \in Seq(Ids) /\ Len(waiting[i]) \in Nat  BY DEF SearchTypeOK
        <5> QED  BY <5>1, <5>2, <1>0 DEF QueueInv
      <4>3. Len(waiting[i]) \in Nat  BY DEF SearchTypeOK
      <4> QED  BY <4>1, <4>2, <4>3, <2>1, <1>5, <1>0
    <3>2. ~ Beyond(question, n)
      <4> SUFFICES ASSUME Beyond(question, n) PROVE FALSE  OBVIOUS
      <4>1. question.of \in Limited /\ c >= question.limit  BY <2>1, <2>3 DEF Beyond
      <4>2. question.limit \in Int  BY <4>1, <1>2, QuestionType
      <4>3. Len(Taken) = 1 \/ Len(Taken) - 1 <= question.limit  BY <1>1, <4>1 DEF Shortest
      <4> HIDE DEF c
      <4> QED  BY <4>1, <4>2, <4>3, <2>1
    <3> QED  BY <2>2, <2>3, <3>1, <3>2 DEF VisitedInv, Handled
  <2>4. ASSUME NEW x \in Around(question, c + 1) PROVE x \in visited
    <3>1. x \in Around(question, c) \/ \E n \in Around(question, c) :
            \E a \in EdgesOf(question, n) : Neighbor(a) = x
      BY <1>2, <2>1, <2>4, NearFacts
    <3> QED  BY <3>1, <2>2, <2>3
  <2> QED  BY <1>1, <2>1, <2>4
<1> QED  BY <1>1, <1>3, <1>4, <1>5

\* What Take does to the queue.
LEMMA TakeFromQueue ==
  ASSUME SearchTypeOK, Take, ~ OnStack
  PROVE  /\ Taken = waiting[1] /\ 1 \in DOMAIN waiting
         /\ UNCHANGED <<question, answer, running, visited>>
         /\ walk' = Taken /\ Taken # <<>> /\ End(Taken) \in Ids /\ Len(Taken) \in Nat \ {0}
         /\ DOMAIN waiting = 1..Len(waiting) /\ Len(waiting) \in Nat
         /\ \A i \in DOMAIN waiting' : i \in Nat /\ i + 1 \in DOMAIN waiting
                                       /\ waiting'[i] = waiting[i + 1]
         /\ \A i \in DOMAIN waiting : i # 1 => i - 1 \in DOMAIN waiting' /\ waiting'[i - 1] = waiting[i]
         /\ left' = IF GoesOn(Taken) THEN EdgesOf(question, End(Taken)) ELSE {}
         /\ order' = IF Lists THEN Append(order, End(Taken)) ELSE order
         /\ left = {} /\ waiting # <<>>
<1>1. waiting # <<>> /\ left = {} /\ waiting' = Others  BY DEF Take
<1>2. /\ Taken = waiting[1] /\ Taken # <<>> /\ End(Taken) \in Ids /\ Len(Taken) \in Nat \ {0}
      /\ Others \in Seq(Seq(Ids)) /\ Len(waiting) \in Nat \ {0} /\ Len(Others) = Len(waiting) - 1
      /\ \A i \in DOMAIN Others : Others[i] = waiting[i + 1]
  BY <1>1, TakenType
<1>3. DOMAIN waiting = 1..Len(waiting) /\ DOMAIN Others = 1..(Len(waiting) - 1)
  BY <1>2 DEF SearchTypeOK
<1>4. question.of # "dfs" /\ ~ Skips  BY DEF OnStack, Skips
<1>5. \A i \in DOMAIN Others : i \in Nat /\ i + 1 \in DOMAIN waiting /\ Others[i] = waiting[i + 1]
  BY <1>2, <1>3
<1>6. \A i \in DOMAIN waiting : i # 1 => i - 1 \in DOMAIN Others /\ Others[i - 1] = waiting[i]
  <2> TAKE i \in DOMAIN waiting
  <2> HAVE i # 1
  <2>1. i - 1 \in 1..(Len(waiting) - 1) /\ (i - 1) + 1 = i  BY <1>2, <1>3
  <2> QED  BY <2>1, <1>2, <1>3
<1> QED  BY <1>1, <1>2, <1>3, <1>4, <1>5, <1>6 DEF Take

\* The nodes that wait after Take are those that did before but one.
LEMMA TakeWaits ==
  ASSUME SearchTypeOK, Take, ~ OnStack, NEW n, Waits(n), n # End(Taken)
  PROVE  Waits(n)'
<1>1. PICK i \in DOMAIN waiting : End(waiting[i]) = n  BY DEF Waits
<1>2. Taken = waiting[1] /\ (i # 1 => i - 1 \in DOMAIN waiting' /\ waiting'[i - 1] = waiting[i])
  BY TakeFromQueue
<1>3. i # 1  BY <1>1, <1>2
<1> QED  BY <1>1, <1>2, <1>3 DEF Waits

\* What waits after Take waited before, behind the first entry.
LEMMA TakeWaitsOnly ==
  ASSUME SearchTypeOK, Take, ~ OnStack, NEW n, Waits(n)'
  PROVE  \E i \in DOMAIN waiting : i # 1 /\ End(waiting[i]) = n
<1>1. PICK i \in DOMAIN waiting' : End(waiting'[i]) = n  BY DEF Waits
<1>2. i \in Nat /\ i + 1 \in DOMAIN waiting /\ waiting'[i] = waiting[i + 1]
      /\ \A j \in DOMAIN waiting' : j \in Nat /\ j + 1 \in DOMAIN waiting
      /\ 1 \in DOMAIN waiting /\ DOMAIN waiting' \subseteq Nat
  BY TakeFromQueue
<1>3. i # 0
  <2>1. waiting' = Others /\ Others \in Seq(Seq(Ids))  BY TakenType DEF Take
  <2> QED  BY <2>1
<1> QED  BY <1>1, <1>2, <1>3

\* The order stays one of the distance, as the entry taken is as far as any taken before.
LEMMA TakeLists ==
  ASSUME SearchTypeOK, Take, ~ OnStack, question.of # "ancestors", question.start \in Nodes,
         QueueInv, VisitedInv, ListsInv
  PROVE  ListsInv'
<1> SUFFICES ASSUME Lists PROVE ListsInv'
  BY TakeFromQueue DEF ListsInv, Lists
<1> DEFINE x == End(Taken)
           c == Len(Taken) - 1
<1>1. /\ Taken = waiting[1] /\ 1 \in DOMAIN waiting /\ left = {} /\ waiting # <<>>
      /\ UNCHANGED <<question, answer, running, visited>>
      /\ walk' = Taken /\ Taken # <<>> /\ x \in Ids /\ c \in Nat
      /\ order' = Append(order, x)
      /\ \A i \in DOMAIN waiting' : i \in Nat /\ i + 1 \in DOMAIN waiting
                                    /\ waiting'[i] = waiting[i + 1]
  BY TakeFromQueue
<1>2. Shortest(question, Taken) /\ Len(Taken) \in {Len(walk), Len(walk) + 1}
  BY <1>1, NearerAreMet
<1>3. Waits(x) /\ ~ InOrder(x)
  <2>1. Waits(x)  BY <1>1 DEF Waits
  <2> QED  BY <2>1, <1>1 DEF ListsInv
<1>4. /\ order \in Seq(Ids \cup EdgeKeys) /\ Len(order) \in Nat /\ DOMAIN order = 1..Len(order)
      /\ Len(order') = Len(order) + 1 /\ DOMAIN order' = 1..Len(order')
      /\ order'[Len(order')] = x /\ \A i \in DOMAIN order : order'[i] = order[i]
  BY <1>1 DEF SearchTypeOK
<1>5. \A n : InOrder(n)' <=> InOrder(n) \/ n = x
  BY <1>4 DEF InOrder
<1>6. Once(order')
  <2>1. \A i \in DOMAIN order : order[i] # x  BY <1>3 DEF InOrder
  <2> QED  BY <2>1, <1>4 DEF ListsInv, Once
<1>7. \A i, j \in DOMAIN waiting' : End(waiting'[i]) = End(waiting'[j]) => i = j
  BY <1>1 DEF ListsInv
<1>8. \A n : Waits(n)' <=> Waits(n) /\ n # x
  <2>1. ASSUME NEW n, Waits(n)' PROVE Waits(n) /\ n # x
    <3>1. PICK i \in DOMAIN waiting : i # 1 /\ End(waiting[i]) = n  BY <2>1, TakeWaitsOnly
    <3> QED  BY <3>1, <1>1 DEF Waits, ListsInv
  <2> QED  BY <2>1, TakeWaits
<1>9. \A i \in DOMAIN order : order[i] \in Ids /\ order[i] \in Around(question, c)
  <2> TAKE i \in DOMAIN order
  <2>1. order[i] \in Ids /\ order[i] \in Around(question, Len(walk) - 1) /\ walk # <<>>
    BY DEF ListsInv
  <2>2. Len(walk) - 1 \in Nat /\ Len(walk) - 1 <= c  BY <2>1, <1>2, <1>1 DEF SearchTypeOK
  <2>3. Around(question, Len(walk) - 1) \subseteq Around(question, c)
    BY <2>2, <1>1, NearFacts DEF SearchTypeOK
  <2> QED  BY <2>1, <2>3
<1>10. x \in Around(question, c) /\ \A d \in Nat : x \in Around(question, d) => c <= d
  BY <1>2 DEF Shortest
<1>11. ASSUME NEW i \in DOMAIN order', NEW j \in DOMAIN order', i < j, NEW d \in Nat,
              order'[j] \in Around(question, d)
       PROVE  order'[i] \in Around(question, d)
  <2>1. i \in DOMAIN order /\ order'[i] = order[i]  BY <1>4, <1>11
  <2>2. CASE j \in DOMAIN order
    BY <2>1, <2>2, <1>4, <1>11 DEF ListsInv
  <2>3. CASE j \notin DOMAIN order
    <3>1. j = Len(order')  BY <2>3, <1>4
    <3>2. order'[j] = x  BY <3>1, <1>4
    <3>3. c <= d  BY <3>2, <1>10, <1>11
    <3>4. Around(question, c) \subseteq Around(question, d)
      BY <3>3, <1>1, NearFacts DEF SearchTypeOK
    <3> QED  BY <2>1, <3>4, <1>9
  <2> QED  BY <2>2, <2>3
<1>12. \A n \in Ids : n \in visited' <=> Waits(n)' \/ InOrder(n)'
  BY <1>1, <1>3, <1>5, <1>8 DEF ListsInv
<1>13. \A n \in Ids : ~ (Waits(n)' /\ InOrder(n)')
  BY <1>5, <1>8 DEF ListsInv
<1>14. \A i \in DOMAIN order' :
         order'[i] \in Ids /\ order'[i] \in Around(question', Len(walk') - 1) /\ walk' # <<>>
  BY <1>1, <1>4, <1>9, <1>10
<1> HIDE DEF x, c
<1> QED  BY <1>1, <1>6, <1>7, <1>11, <1>12, <1>13, <1>14 DEF ListsInv

\* Taking an entry keeps the invariant: all as near as its end were met.
LEMMA BreadthTake ==
  ASSUME SearchTypeOK, Take, BreadthInv
  PROVE  BreadthInv'
<1> SUFFICES ASSUME ~ OnStack' PROVE BreadthInv'  BY DEF BreadthInv
<1>0. ~ OnStack /\ Searching  BY DEF OnStack, Take
<1>1. /\ Taken = waiting[1] /\ 1 \in DOMAIN waiting /\ left = {} /\ waiting # <<>>
      /\ UNCHANGED <<question, answer, running, visited>>
      /\ walk' = Taken /\ Taken # <<>> /\ End(Taken) \in Ids /\ Len(Taken) \in Nat \ {0}
      /\ DOMAIN waiting = 1..Len(waiting) /\ Len(waiting) \in Nat
      /\ \A i \in DOMAIN waiting' : i \in Nat /\ i + 1 \in DOMAIN waiting
                                    /\ waiting'[i] = waiting[i + 1]
      /\ left' = (IF GoesOn(Taken) THEN EdgesOf(question, End(Taken)) ELSE {})
      /\ order' = (IF Lists THEN Append(order, End(Taken)) ELSE order)
  BY <1>0, TakeFromQueue
<1>2. question \in SearchQuestions /\ question.of # "ancestors"  BY <1>0 DEF SearchTypeOK, OnStack
<1>3. StrayInv'
  <2> SUFFICES ASSUME question.start \notin Nodes
               PROVE  /\ order' = <<>> /\ left' = {} /\ question'.of = "traverse"
                      /\ \A i \in DOMAIN waiting' : End(waiting'[i]) \notin Nodes
    BY <1>1 DEF StrayInv
  <2>1. order = <<>> /\ question.of = "traverse" /\ \A i \in DOMAIN waiting : End(waiting[i]) \notin Nodes
    BY <1>0 DEF BreadthInv, StrayInv
  <2>2. EdgesOf(question, End(Taken)) = {}  BY <1>1, <1>2, <2>1, EdgeType
  <2> QED  BY <1>1, <2>1, <2>2 DEF Lists
<1>4. ASSUME question.start \in Nodes
      PROVE  (QueueInv /\ VisitedInv /\ ListsInv /\ TriplesInv /\ PathInvariant)'
  <2>0. QueueInv /\ VisitedInv /\ ListsInv /\ TriplesInv /\ PathInvariant
    BY <1>0, <1>4 DEF BreadthInv
  <2>1. /\ Shortest(question, Taken)
        /\ Around(question, Len(Taken) - 1) \subseteq visited
        /\ Len(Taken) \in {Len(walk), Len(walk) + 1}
    BY <1>0, <1>1, <1>2, <1>4, <2>0, NearerAreMet
  <2>2. QueueInv'
    <3>1. \A i \in DOMAIN waiting' : Shortest(question', waiting'[i])
      BY <1>1, <2>0 DEF QueueInv
    <3>2. \A i, j \in DOMAIN waiting' : i < j => Len(waiting'[i]) <= Len(waiting'[j])
      BY <1>1, <2>0 DEF QueueInv
    <3>3. \A i \in DOMAIN waiting' : Len(waiting'[i]) \in {Len(walk'), Len(walk') + 1}
      <4> TAKE i \in DOMAIN waiting'
      <4>1. i + 1 \in DOMAIN waiting /\ waiting'[i] = waiting[i + 1] /\ i \in Nat  BY <1>1
      <4>2. Len(waiting[i + 1]) \in {Len(walk), Len(walk) + 1}  BY <4>1, <2>0 DEF QueueInv
      <4>3. Len(waiting[1]) <= Len(waiting[i + 1])
        <5>1. i + 1 = 1 \/ 1 < i + 1  BY <4>1
        <5>2. Len(waiting[1]) \in Nat  BY <1>1
        <5> QED  BY <5>1, <5>2, <4>1, <1>1, <2>0 DEF QueueInv
      <4>4. Len(walk) \in Nat  BY DEF SearchTypeOK
      <4> QED  BY <4>1, <4>2, <4>3, <4>4, <2>1, <1>1
    <3>4. left' # {} => GoesOn(walk)'
      BY <1>1 DEF GoesOn
    <3> QED  BY <3>1, <3>2, <3>3, <3>4, <2>1, <1>1 DEF QueueInv
  <2>3. VisitedInv'
    <3>1. ASSUME NEW n \in visited, ~ Waits(n)', ~ Beyond(question, n), NEW a \in EdgesOf(question, n)
          PROVE  Handled(a)' \/ (Current(n)' /\ a \in left')
      <4>1. CASE Waits(n)
        <5>1. n = End(Taken)  BY <1>0, <3>1, <4>1, TakeWaits
        <5>2. GoesOn(Taken)
          <6> SUFFICES ASSUME ~ GoesOn(Taken) PROVE FALSE  OBVIOUS
          <6>1. question.of \in Limited /\ ~ (Len(Taken) - 1 < question.limit)  BY DEF GoesOn
          <6>2. question.limit \in Int  BY <6>1, <1>2, QuestionType
          <6>3. \A d \in Nat : n \in Around(question, d) => d >= question.limit
            BY <6>1, <6>2, <5>1, <2>1, <1>1 DEF Shortest
          <6> QED  BY <6>1, <6>3, <3>1 DEF Beyond
        <5> QED  BY <5>1, <5>2, <3>1, <1>1 DEF Current
      <4>2. CASE ~ Waits(n)
        <5>1. Handled(a)  BY <3>1, <4>2, <1>1, <2>0 DEF VisitedInv
        <5>2. question.of = "traverse" => order' = order  BY <1>1 DEF Lists
        <5> QED  BY <5>1, <5>2, <1>1 DEF Handled, InOrder, Neighbor, KeyOf
      <4> QED  BY <4>1, <4>2
    <3> QED  BY <3>1, <1>1, <2>0 DEF VisitedInv
  <2>4. ListsInv'  BY <1>0, <1>2, <1>4, <2>0, TakeLists
  <2>5. TriplesInv'
    <3>1. question.of = "traverse" => order' = order  BY <1>1 DEF Lists
    <3> QED  BY <3>1, <1>1, <2>0 DEF TriplesInv
  <2>6. PathInvariant'
    BY <1>1, <2>0 DEF PathInvariant
  <2> QED  BY <2>2, <2>3, <2>4, <2>5, <2>6
<1> QED  BY <1>1, <1>3, <1>4 DEF BreadthInv

\* What LookAt does to the queue or the stack: nothing, or one more entry.
LEMMA LookStep ==
  ASSUME SearchTypeOK, NEW a \in left, LookAt(a)
  PROVE  /\ UNCHANGED <<question, answer, running, walk>> /\ left' = left \ {a}
         /\ walk # <<>> /\ a \in EdgesOf(question, End(walk))
         /\ question \in SearchQuestions /\ Neighbor(a) \in Nodes /\ Neighbor(a) \in Ids
         /\ DOMAIN waiting \subseteq DOMAIN waiting'
         /\ DOMAIN waiting = 1..Len(waiting) /\ Len(waiting) \in Nat /\ Len(walk) \in Nat \ {0}
         /\ \A i \in DOMAIN waiting : waiting'[i] = waiting[i]
         /\ Neighbor(a) \in visited => waiting' = waiting /\ visited' = visited
         /\ Neighbor(a) \notin visited =>
              LET w == Append(walk, Neighbor(a))
              IN  /\ w \in Seq(Ids) /\ End(w) = Neighbor(a) /\ Len(w) = Len(walk) + 1
                  /\ \A i \in 1..Len(walk) : w[i] = walk[i]
                  /\ waiting'[Len(waiting')] = w /\ Len(waiting') = Len(waiting) + 1
                  /\ Len(waiting') \notin DOMAIN waiting
                  /\ DOMAIN waiting' = DOMAIN waiting \cup {Len(waiting')}
                  /\ visited' = IF question.of = "dfs" THEN visited
                                ELSE visited \cup {Neighbor(a)}
<1>1. walk # <<>> /\ a \in EdgesOf(question, End(walk)) /\ question \in SearchQuestions
  BY DEF SearchTypeOK
<1>2. Neighbor(a) \in Nodes /\ Neighbor(a) \in Ids  BY <1>1, EdgeType DEF Ids
<1>3. DOMAIN waiting = 1..Len(waiting) /\ Len(waiting) \in Nat /\ Len(walk) \in Nat \ {0}
  BY <1>1 DEF SearchTypeOK
<1>4. CASE Neighbor(a) \in visited
  BY <1>1, <1>2, <1>3, <1>4 DEF LookAt
<1>5. CASE Neighbor(a) \notin visited
  <2>1. waiting' = Append(waiting, Append(walk, Neighbor(a)))  BY <1>5 DEF LookAt
  <2>2. visited' = IF question.of = "dfs" THEN visited ELSE visited \cup {Neighbor(a)}
    BY <1>5 DEF LookAt
  <2> QED  BY <1>1, <1>2, <1>3, <1>5, <2>1, <2>2, PutType DEF LookAt
<1> QED  BY <1>4, <1>5

\* A node met from the entry at hand is one edge further than it.
LEMMA MetOneFurther ==
  ASSUME SearchTypeOK, NEW a \in left, LookAt(a), question.of # "ancestors", QueueInv,
         Neighbor(a) \notin visited
  PROVE  Shortest(question, Append(walk, Neighbor(a)))
<1> DEFINE w == Append(walk, Neighbor(a))
           c == Len(walk) - 1
<1>1. /\ walk # <<>> /\ a \in EdgesOf(question, End(walk)) /\ question \in SearchQuestions
      /\ c \in Nat /\ End(w) = Neighbor(a) /\ Len(w) - 1 = c + 1
  BY LookStep
<1>2. End(walk) \in Around(question, c) /\ Around(question, c) \subseteq visited
  BY <1>1 DEF QueueInv, Shortest
<1>3. Neighbor(a) \in Around(question, c + 1)  BY <1>1, <1>2, NearFacts
<1>4. \A d \in Nat : Neighbor(a) \in Around(question, d) => c + 1 <= d
  <2> SUFFICES ASSUME NEW d \in Nat, Neighbor(a) \in Around(question, d), d <= c PROVE FALSE
    BY <1>1
  <2>1. Around(question, d) \subseteq Around(question, c)  BY <1>1, NearFacts
  <2> QED  BY <2>1, <1>2
<1>5. question.of \in Limited => c + 1 <= question.limit
  <2> SUFFICES ASSUME question.of \in Limited PROVE c + 1 <= question.limit  OBVIOUS
  <2>1. question.limit \in Int  BY <1>1, QuestionType
  <2>2. c < question.limit  BY DEF QueueInv, GoesOn
  <2> QED  BY <2>1, <2>2, <1>1
<1> HIDE DEF w, c
<1> QED  BY <1>1, <1>3, <1>4, <1>5 DEF Shortest, w

\* What waits after LookAt.
LEMMA LookWaits ==
  ASSUME SearchTypeOK, NEW a \in left, LookAt(a), NEW n
  PROVE  /\ Waits(n) => Waits(n)'
         /\ Neighbor(a) \notin visited => (Waits(n)' <=> Waits(n) \/ n = Neighbor(a))
         /\ Neighbor(a) \in visited => (Waits(n)' <=> Waits(n))
<1>1. Waits(n) => Waits(n)'  BY LookStep DEF Waits
<1>2. ASSUME Neighbor(a) \notin visited PROVE Waits(n)' <=> Waits(n) \/ n = Neighbor(a)
  <2>1. /\ DOMAIN waiting' = DOMAIN waiting \cup {Len(waiting')}
        /\ End(waiting'[Len(waiting')]) = Neighbor(a)
        /\ \A i \in DOMAIN waiting : waiting'[i] = waiting[i]
    BY <1>2, LookStep
  <2> QED  BY <2>1 DEF Waits
<1>3. ASSUME Neighbor(a) \in visited PROVE Waits(n)' <=> Waits(n)
  BY <1>3, LookStep DEF Waits
<1> QED  BY <1>1, <1>2, <1>3

\* The triple of an edge is listed once it was looked at; nothing else is.
LEMMA LookTriples ==
  ASSUME SearchTypeOK, NEW a \in left, LookAt(a), question.of = "traverse", Once(order)
  PROVE  /\ Once(order')
         /\ \A k : InOrder(k)' <=> InOrder(k) \/ k = KeyOf(a)
<1>0. order \in Seq(Ids \cup EdgeKeys)  BY DEF SearchTypeOK
<1>1. CASE InOrder(KeyOf(a))
  BY <1>1 DEF LookAt, InOrder
<1>2. CASE ~ InOrder(KeyOf(a))
  <2>1. order' = Append(order, KeyOf(a))  BY <1>2 DEF LookAt
  <2>2. /\ Len(order) \in Nat /\ DOMAIN order = 1..Len(order)
        /\ Len(order') = Len(order) + 1 /\ DOMAIN order' = 1..Len(order')
        /\ order'[Len(order')] = KeyOf(a) /\ \A i \in DOMAIN order : order'[i] = order[i]
    BY <1>0, <2>1
  <2>3. \A i \in DOMAIN order : order[i] # KeyOf(a)  BY <1>2 DEF InOrder
  <2> QED  BY <2>2, <2>3 DEF Once, InOrder
<1> QED  BY <1>1, <1>2

\* So does looking at an edge: what it leads to comes last in the queue.
LEMMA BreadthLook ==
  ASSUME SearchTypeOK, NEW a \in left, LookAt(a), BreadthInv
  PROVE  BreadthInv'
<1> SUFFICES ASSUME ~ OnStack' PROVE BreadthInv'  BY DEF BreadthInv
<1> DEFINE x == Neighbor(a)
           w == Append(walk, x)
           c == Len(walk) - 1
<1>1. /\ UNCHANGED <<question, answer, running, walk>> /\ left' = left \ {a}
      /\ walk # <<>> /\ a \in EdgesOf(question, End(walk))
      /\ question \in SearchQuestions /\ x \in Nodes /\ x \in Ids
      /\ DOMAIN waiting \subseteq DOMAIN waiting'
      /\ DOMAIN waiting = 1..Len(waiting) /\ Len(waiting) \in Nat /\ c \in Nat
      /\ \A i \in DOMAIN waiting : waiting'[i] = waiting[i]
      /\ x \in visited => waiting' = waiting /\ visited' = visited
  BY LookStep
<1>2. question.of # "ancestors" /\ question.of # "dfs" /\ ~ OnStack /\ Searching
  BY <1>1 DEF OnStack, LookAt
<1>3. x \notin visited =>
        /\ waiting'[Len(waiting')] = w /\ Len(waiting') \notin DOMAIN waiting
        /\ Len(waiting') = Len(waiting) + 1
        /\ DOMAIN waiting' = DOMAIN waiting \cup {Len(waiting')}
        /\ visited' = visited \cup {x} /\ End(w) = x /\ Len(w) = Len(walk) + 1
        /\ \A i \in 1..Len(walk) : w[i] = walk[i]
  BY <1>2, LookStep
<1>4. question.start \in Nodes /\ QueueInv /\ VisitedInv /\ ListsInv /\ TriplesInv /\ PathInvariant
  BY <1>2 DEF BreadthInv, StrayInv
<1>5. visited \subseteq visited' /\ x \in visited'  BY <1>1, <1>3
<1>6. x \notin visited => Shortest(question, w)  BY <1>2, <1>4, MetOneFurther
<1>7. \A n : /\ Waits(n) => Waits(n)'
             /\ x \notin visited => (Waits(n)' <=> Waits(n) \/ n = x)
             /\ x \in visited => (Waits(n)' <=> Waits(n))
  BY LookWaits
<1>8. question.of = "traverse" \/ order' = order  BY DEF LookAt
<1>9. question.of = "traverse" =>
        Once(order') /\ \A k : InOrder(k)' <=> InOrder(k) \/ k = KeyOf(a)
  BY <1>4, LookTriples DEF TriplesInv
<1> HIDE DEF x, w, c
<1>10. QueueInv'
  <2>1. CASE x \in visited
    BY <1>1, <1>4, <2>1 DEF QueueInv, GoesOn
  <2>2. CASE x \notin visited
    <3>1. \A i \in DOMAIN waiting' : Shortest(question', waiting'[i])
      BY <1>1, <1>3, <1>4, <1>6, <2>2 DEF QueueInv
    <3>2. Len(walk) \in Nat /\ \A i \in DOMAIN waiting : Len(waiting[i]) \in Nat
      BY DEF SearchTypeOK
    <3>3. \A i \in DOMAIN waiting' : Len(waiting'[i]) \in {Len(walk'), Len(walk') + 1}
      BY <1>1, <1>3, <1>4, <2>2 DEF QueueInv
    <3>4. \A i, j \in DOMAIN waiting' : i < j => Len(waiting'[i]) <= Len(waiting'[j])
      <4> SUFFICES ASSUME NEW i \in DOMAIN waiting', NEW j \in DOMAIN waiting', i < j
                   PROVE  Len(waiting'[i]) <= Len(waiting'[j])
        OBVIOUS
      <4>1. i \in DOMAIN waiting /\ waiting'[i] = waiting[i]  BY <1>1, <1>3, <2>2
      <4>2. CASE j \in DOMAIN waiting
        BY <4>1, <4>2, <1>1, <1>4 DEF QueueInv
      <4>3. CASE j \notin DOMAIN waiting
        <5>1. Len(waiting'[j]) = Len(walk) + 1  BY <4>3, <1>3, <2>2
        <5>2. Len(waiting[i]) \in {Len(walk), Len(walk) + 1}  BY <4>1, <1>4 DEF QueueInv
        <5> QED  BY <4>1, <5>1, <5>2, <3>2
      <4> QED  BY <4>2, <4>3
    <3>5. walk' # <<>> => Shortest(question', walk') /\ Around(question', Len(walk') - 1) \subseteq visited'
      BY <1>1, <1>4, <1>5 DEF QueueInv
    <3>6. left' # {} => GoesOn(walk)'
      BY <1>1, <1>4 DEF QueueInv, GoesOn
    <3> QED  BY <3>1, <3>3, <3>4, <3>5, <3>6 DEF QueueInv
  <2> QED  BY <2>1, <2>2
<1>11. VisitedInv'
  <2>1. ASSUME x \notin visited
        PROVE  /\ x \in Around(question, Farthest)
               /\ question.of \in {"depth_limited_search", "expand_neighborhood"} =>
                    x \in Around(question, question.limit)
    <3>1. x \in Around(question, c + 1) /\ Len(w) - 1 = c + 1
      BY <1>1, <1>3, <1>6, <2>1 DEF Shortest, c
    <3>2. Farthest \in Nat /\ c + 1 \in Nat  BY <1>1, <1>2, NearFacts
    <3>3. x \in Around(question, Farthest)  BY <3>1, <3>2, <1>1, <1>2, NearFacts
    <3>4. ASSUME question.of \in {"depth_limited_search", "expand_neighborhood"}
          PROVE  x \in Around(question, question.limit)
      <4>1. question.of \in Limited /\ question.limit \in Int
        BY <3>4, <1>1, QuestionType DEF Limited
      <4>2. c + 1 <= question.limit
        BY <4>1, <1>3, <1>6, <2>1, <3>1, <3>2, <1>1 DEF Shortest, c
      <4> QED  BY <4>1, <4>2, <3>1, <3>2, <1>1, <1>2, NearFacts
    <3> QED  BY <3>3, <3>4
  <2>2. \A n \in visited' : n \in Around(question', Farthest)
    BY <1>1, <1>3, <1>4, <2>1 DEF VisitedInv
  <2>3. question'.of \in {"depth_limited_search", "expand_neighborhood"} =>
          visited' \subseteq Around(question', question'.limit)
    BY <1>1, <1>3, <1>4, <2>1 DEF VisitedInv
  <2>4. ASSUME NEW b, Handled(b) PROVE Handled(b)'
    BY <2>4, <1>1, <1>5, <1>8, <1>9 DEF Handled, Neighbor, KeyOf, InOrder
  <2>5. Handled(a)'
    BY <1>1, <1>5, <1>9 DEF Handled, x, Neighbor, KeyOf
  <2>6. ASSUME NEW n \in visited', ~ Waits(n)', ~ Beyond(question, n),
               NEW b \in EdgesOf(question, n)
        PROVE  Handled(b)' \/ (Current(n)' /\ b \in left')
    <3>1. n \in visited /\ ~ Waits(n)  BY <2>6, <1>1, <1>3, <1>7
    <3>2. Handled(b) \/ (Current(n) /\ b \in left)  BY <2>6, <3>1, <1>4 DEF VisitedInv
    <3> QED  BY <3>2, <2>4, <2>5, <1>1 DEF Current
  <2> QED  BY <2>2, <2>3, <2>6, <1>1, <1>4, <1>5 DEF VisitedInv
<1>12. ListsInv'
  <2> SUFFICES ASSUME Lists PROVE ListsInv'  BY <1>1 DEF ListsInv, Lists
  <2>1. order' = order /\ \A n : InOrder(n)' <=> InOrder(n)  BY <1>8 DEF Lists, InOrder
  <2>2. CASE x \in visited
    BY <1>1, <1>4, <1>7, <2>1, <2>2 DEF ListsInv
  <2>3. CASE x \notin visited
    <3>1. ~ Waits(x) /\ ~ InOrder(x)  BY <1>1, <1>4, <2>3 DEF ListsInv
    <3>2. \A i, j \in DOMAIN waiting' : End(waiting'[i]) = End(waiting'[j]) => i = j
      <4>1. \A i \in DOMAIN waiting : End(waiting[i]) # x  BY <3>1 DEF Waits
      <4> QED  BY <4>1, <1>1, <1>3, <1>4, <2>3 DEF ListsInv
    <3>3. \A n \in Ids : n \in visited' <=> Waits(n)' \/ InOrder(n)'
      BY <1>3, <1>4, <1>7, <2>1, <2>3 DEF ListsInv
    <3>4. \A n \in Ids : ~ (Waits(n)' /\ InOrder(n)')
      BY <1>4, <1>7, <2>1, <2>3, <3>1 DEF ListsInv
    <3>5. \A i \in DOMAIN order' :
            order'[i] \in Ids /\ order'[i] \in Around(question', Len(walk') - 1) /\ walk' # <<>>
      BY <1>1, <1>4, <2>1 DEF ListsInv
    <3>6. \A i, j \in DOMAIN order' : i < j =>
            \A d \in Nat : order'[j] \in Around(question', d) => order'[i] \in Around(question', d)
      BY <1>1, <1>4, <2>1 DEF ListsInv
    <3>7. Once(order')  BY <1>4, <2>1 DEF ListsInv
    <3> QED  BY <3>2, <3>3, <3>4, <3>5, <3>6, <3>7 DEF ListsInv
  <2> QED  BY <2>2, <2>3
<1>13. TriplesInv'
  <2> SUFFICES ASSUME question.of = "traverse" PROVE TriplesInv'  BY <1>1 DEF TriplesInv
  <2>1. KeyOf(a) \in question.g /\ KeyOf(a).source = End(walk)
    <3>1. a.way = "from" /\ KeyOf(a) \in question.g /\ NodeOf(a) = End(walk)
      BY <1>1, EdgeType DEF Ways
    <3> QED  BY <3>1 DEF NodeOf
  <2>2. End(walk) \in Around(question, c)  BY <1>1, <1>4 DEF QueueInv, Shortest, c
  <2>3. c < question.limit
    BY <1>4 DEF QueueInv, GoesOn, Limited, c
  <2>4. ASSUME NEW k, InOrder(k)'
        PROVE  k \in question.g /\ \E d \in Nat : d < question.limit /\ k.source \in Around(question, d)
    <3>1. InOrder(k) \/ k = KeyOf(a)  BY <2>4, <1>9
    <3>2. CASE k = KeyOf(a)  BY <3>2, <2>1, <2>2, <2>3, <1>1
    <3>3. CASE InOrder(k)
      <4>1. PICK i \in DOMAIN order : order[i] = k  BY <3>3 DEF InOrder
      <4> QED  BY <4>1, <1>4 DEF TriplesInv
    <3> QED  BY <3>1, <3>2, <3>3
  <2>5. \A k : (\E i \in DOMAIN order' : order'[i] = k) => InOrder(k)'  BY DEF InOrder
  <2>6. \A i \in DOMAIN order' :
          /\ order'[i] \in question.g
          /\ \E d \in Nat : d < question.limit /\ order'[i].source \in Around(question, d)
    BY <2>4, <2>5
  <2> QED  BY <2>6, <1>1, <1>9 DEF TriplesInv
<1>14. PathInvariant'
  <2> SUFFICES ASSUME question.of = "shortest_path" PROVE PathInvariant'  BY <1>1 DEF PathInvariant
  <2>1. /\ question.end \notin visited /\ IsPath(question, walk)
        /\ \A i \in DOMAIN waiting : IsPath(question, waiting[i])
    BY <1>1, <1>4 DEF PathInvariant
  <2>2. x # question.end  BY DEF LookAt, Arrives, x
  <2>3. CASE x \in visited
    BY <1>1, <2>1, <2>3 DEF PathInvariant
  <2>4. CASE x \notin visited
    <3>1. IsPath(question, w)
      <4>1. KeyOf(a) \in question.g /\ KeyOf(a).source = End(walk) /\ KeyOf(a).target = x
        <5>1. a.way = "from" /\ KeyOf(a) \in question.g /\ NodeOf(a) = End(walk)
          BY <1>1, EdgeType DEF Ways
        <5> QED  BY <5>1 DEF NodeOf, Neighbor, x
      <4>2. /\ Len(walk) \in Nat \ {0} /\ Len(w) = Len(walk) + 1 /\ w[Len(w)] = x
            /\ \A i \in 1..Len(walk) : w[i] = walk[i]
        BY <1>1, <1>3, <2>4 DEF End, SearchTypeOK
      <4>3. w[1] = question.start  BY <4>2, <2>1 DEF IsPath
      <4>4. ASSUME NEW i \in 1..Len(w) - 1
            PROVE  \E k \in question.g : k.source = w[i] /\ k.target = w[i + 1]
        <5>1. CASE i = Len(walk)
          BY <5>1, <4>1, <4>2 DEF End
        <5>2. CASE i # Len(walk)
          <6>1. i \in 1..Len(walk) - 1 /\ i \in 1..Len(walk) /\ i + 1 \in 1..Len(walk)
            BY <5>2, <4>2
          <6> QED  BY <6>1, <4>2, <2>1 DEF IsPath
        <5> QED  BY <5>1, <5>2
      <4> QED  BY <4>3, <4>4 DEF IsPath
    <3> QED  BY <3>1, <1>1, <1>3, <2>1, <2>2, <2>4 DEF PathInvariant
  <2> QED  BY <2>3, <2>4
<1> QED  BY <1>4, <1>1, <1>10, <1>11, <1>12, <1>13, <1>14 DEF BreadthInv, StrayInv

-----------------------------------------------------------------------------
(* The answers of the searches with a queue.                               *)

\* When nothing waits, all within the limit were met, and what leaves those before it

\* was looked at.
LEMMA AllMet ==
  ASSUME SearchTypeOK, question.of # "ancestors", VisitedInv, left = {}, waiting = <<>>
  PROVE  /\ \A d \in Nat : (question.of \in Limited => d <= question.limit)
              => Around(question, d) \subseteq visited
         /\ \A d \in Nat : (question.of \in Limited => d < question.limit)
              => \A n \in Around(question, d) : \A a \in EdgesOf(question, n) : Handled(a)
<1> DEFINE Within(d) == question.of \in Limited => d <= question.limit
           T == {d \in Nat : Within(d) => Around(question, d) \subseteq visited}
<1>0. question \in SearchQuestions /\ (question.of \in Limited => question.limit \in Int)
  BY QuestionType DEF SearchTypeOK
<1>1. ASSUME NEW d \in Nat, Around(question, d) \subseteq visited,
             question.of \in Limited => d < question.limit,
             NEW n \in Around(question, d), NEW a \in EdgesOf(question, n)
      PROVE  Handled(a)
  <2>1. ~ Waits(n)  BY DEF Waits
  <2>2. ~ Beyond(question, n)  BY <1>0, <1>1 DEF Beyond
  <2> QED  BY <1>1, <2>1, <2>2 DEF VisitedInv
<1>2. 0 \in T
  <2>1. Around(question, 0) \subseteq {question.start}  BY <1>0, NearFacts
  <2> QED  BY <2>1 DEF VisitedInv
<1>3. ASSUME NEW d \in T PROVE d + 1 \in T
  <2> SUFFICES ASSUME Within(d + 1), NEW x \in Around(question, d + 1) PROVE x \in visited
    OBVIOUS
  <2>1. question.of \in Limited => d < question.limit  BY <1>0
  <2>2. Around(question, d) \subseteq visited  BY <1>0, <2>1
  <2>3. x \in Around(question, d)
        \/ \E n \in Around(question, d) : \E a \in EdgesOf(question, n) : Neighbor(a) = x
    BY <1>0, NearFacts
  <2> QED  BY <1>1, <2>1, <2>2, <2>3 DEF Handled
<1>4. T = Nat
  <2> HIDE DEF T
  <2> QED  BY <1>2, <1>3, AllNaturals DEF T
<1>5. \A d \in Nat : Within(d) => Around(question, d) \subseteq visited  BY <1>4
<1>6. \A d \in Nat : (question.of \in Limited => d < question.limit) => Within(d)  BY <1>0
<1> QED  BY <1>1, <1>5, <1>6

\* Around an unknown start there is nothing.
LEMMA NothingAroundStray ==
  ASSUME question \in SearchQuestions, question.start \notin Nodes
  PROVE  \A d \in Nat : Around(question, d) = {}
<1>1. {question.start} \cap Nodes \subseteq {}  OBVIOUS
<1>2. Onward(question.g, question.rels, Both(question), {}) \subseteq {}  BY DEF Onward
<1>3. \A d \in Nat : Ball(question.g, question.start, question.rels, Both(question))[d] \subseteq {}
  BY <1>1, <1>2, BallLeast
<1> QED  BY <1>3 DEF Around, Both

\* A list of what was met.
LEMMA ListIsMet ==
  ASSUME SearchTypeOK, ListsInv, Lists, waiting = <<>>
  PROVE  /\ Listed = visited /\ Once(order)
         /\ \A i, j \in DOMAIN order : i < j =>
              \A d \in Nat : order[j] \in Around(question, d) => order[i] \in Around(question, d)
<1>1. \A n : ~ Waits(n)  BY DEF Waits
<1>2. \A n \in Ids : n \in visited <=> InOrder(n)  BY <1>1 DEF ListsInv
<1>3. Listed \subseteq Ids  BY DEF ListsInv, Listed
<1>4. \A n : n \in Listed <=> InOrder(n)  BY DEF Listed, InOrder
<1>5. Listed = visited  BY <1>2, <1>3, <1>4 DEF SearchTypeOK
<1> QED  BY <1>5 DEF ListsInv

\* The answer of each search is what the properties ask of it.
LEMMA BreadthFinish ==
  ASSUME SearchTypeOK, BreadthInv, ~ OnStack, Finish
  PROVE  SearchesReachTheBall' /\ PathsAreShortest'
<1>0. /\ question \in SearchQuestions /\ question.of # "ancestors" /\ question.of # "dfs"
      /\ left = {} /\ waiting = <<>> /\ Searching /\ ~ Refused
  BY DEF SearchTypeOK, OnStack, Finish, Searching
<1>1. answer' = <<Found>> /\ question' = question  BY DEF Finish, Reply
<1>2. Result' = Found  BY <1>1 DEF Result
<1>3. Farthest \in Nat /\ (question.of \in Limited => question.limit \in Int)
  BY <1>0, NearFacts, QuestionType
<1>4. StrayInv /\ (question.start \in Nodes =>
         QueueInv /\ VisitedInv /\ ListsInv /\ TriplesInv /\ PathInvariant)
  BY <1>0 DEF BreadthInv
<1>5. ASSUME question.start \in Nodes
      PROVE  /\ \A d \in Nat : (question.of \in Limited => d <= question.limit)
                  => Around(question, d) \subseteq visited
             /\ \A d \in Nat : (question.of \in Limited => d < question.limit)
                  => \A n \in Around(question, d) : \A a \in EdgesOf(question, n) : Handled(a)
             /\ visited \subseteq Around(question, Farthest)
             /\ question.of \notin Limited => Around(question, Farthest) = visited
  <2>1. VisitedInv  BY <1>4, <1>5
  <2> QED  BY <2>1, <1>0, <1>3, AllMet DEF VisitedInv
<1>6. ASSUME question.start \in Nodes, question.of \in {"depth_limited_search", "expand_neighborhood"}
      PROVE  visited = Around(question, question.limit) /\ ~ question.limit < 0
  <2>1. question.of \in Limited  BY <1>6 DEF Limited
  <2>2. ~ question.limit < 0  BY <1>0, <1>6 DEF Refused, Limited
  <2>3. question.limit \in Nat  BY <2>1, <2>2, <1>3
  <2>4. Around(question, question.limit) \subseteq visited  BY <1>5, <1>6, <2>3
  <2> QED  BY <2>2, <2>4, <1>4, <1>6 DEF VisitedInv
<1>7. question.of # "traverse" => question.start \in Nodes  BY <1>4 DEF StrayInv
<1>8. ASSUME NEW d \in Nat, question.of \in {"bfs", "depth_limited_search"},
             visited = Around(question, d)
      PROVE  ListsBall(order, question, d)
  <2>1. Lists /\ ListsInv  BY <1>4, <1>7, <1>8 DEF Lists
  <2>2. /\ Listed = visited /\ Once(order)
        /\ \A i, j \in DOMAIN order : i < j =>
             \A e \in Nat : order[j] \in Around(question, e) => order[i] \in Around(question, e)
    BY <2>1, <1>0, ListIsMet
  <2>3. \A e \in 0..Farthest : e \in Nat  BY <1>3
  <2> QED  BY <2>2, <2>3, <1>8 DEF ListsBall, Listed
<1>9. ASSUME question.of = "bfs" PROVE ListsBall(Found, question, Farthest)
  <2>1. visited = Around(question, Farthest)  BY <1>5, <1>7, <1>9 DEF Limited
  <2> QED  BY <2>1, <1>3, <1>8, <1>9 DEF Found
<1>10. ASSUME question.of = "depth_limited_search"
       PROVE  ~ question.limit < 0 /\ ListsBall(Found, question, question.limit)
  <2>1. question.limit \in Nat  BY <1>3, <1>6, <1>7, <1>10 DEF Limited
  <2> QED  BY <2>1, <1>6, <1>7, <1>8, <1>10 DEF Found
<1>11. ASSUME question.of = "descendants"
       PROVE  Found = Around(question, Farthest) \ {question.start}
  <2>1. Lists /\ ListsInv  BY <1>4, <1>7, <1>11 DEF Lists
  <2>2. Listed = visited  BY <2>1, <1>0, ListIsMet
  <2> QED  BY <2>2, <1>5, <1>7, <1>11 DEF Found, Limited
<1>12. ASSUME question.of = "expand_neighborhood"
       PROVE  ~ question.limit < 0 /\ Found = Around(question, question.limit)
  BY <1>6, <1>7, <1>12 DEF Found
<1>13. ASSUME question.of = "traverse"
       PROVE  /\ Once(Found)
              /\ {Found[i] : i \in DOMAIN Found} =
                   IF question.limit < 1 THEN {}
                   ELSE {k \in question.g : k.source \in Around(question, question.limit - 1)}
  <2>0. Found = order /\ question.limit \in Int  BY <1>3, <1>13 DEF Found, Limited
  <2>1. CASE question.start \notin Nodes
    <3>1. order = <<>>  BY <1>4, <2>1 DEF StrayInv
    <3>2. question.limit >= 1 => question.limit - 1 \in Nat  BY <2>0
    <3>3. question.limit >= 1 => Around(question, question.limit - 1) = {}
      BY <3>2, <2>1, <1>0, NothingAroundStray
    <3> QED  BY <3>1, <3>3, <2>0 DEF Once
  <2>2. CASE question.start \in Nodes
    <3>1. Once(order) /\ \A i \in DOMAIN order :
             order[i] \in question.g
             /\ \E d \in Nat : d < question.limit /\ order[i].source \in Around(question, d)
      BY <1>4, <1>13, <2>2 DEF TriplesInv
    <3>2. CASE question.limit < 1
      <4>1. \A d \in Nat : ~ d < question.limit  BY <3>2, <2>0
      <4>2. \A i \in DOMAIN order : FALSE  BY <3>1, <4>1
      <4>3. {order[i] : i \in DOMAIN order} = {}  BY <4>2
      <4> QED  BY <4>3, <3>1, <3>2, <2>0
    <3>3. CASE ~ question.limit < 1
      <4> DEFINE l == question.limit - 1
      <4>1. l \in Nat /\ l < question.limit /\ \A d \in Nat : d < question.limit => d <= l
        BY <3>3, <2>0
      <4> HIDE DEF l
      <4>2. \A i \in DOMAIN order : order[i] \in question.g /\ order[i].source \in Around(question, l)
        BY <3>1, <4>1, <1>0, NearFacts
      <4>3. ASSUME NEW k \in question.g, k.source \in Around(question, l)
            PROVE  \E i \in DOMAIN order : order[i] = k
        <5>1. question.rels = AllRelations  BY <1>0, <1>13, QuestionType DEF Limited
        <5>2. k.relation \in question.rels
          BY <5>1, <1>0, QuestionType DEF AllRelations, Graphs
        <5>3. "from" \in Ways(question)  BY <1>13 DEF Ways
        <5>4. PICK a \in EdgesOf(question, k.source) : KeyOf(a) = k
          BY <5>2, <5>3, <1>0, EdgeExists
        <5>5. Handled(a)  BY <1>5, <2>2, <4>1, <4>3
        <5> QED  BY <5>4, <5>5, <1>13 DEF Handled, InOrder
      <4>4. {order[i] : i \in DOMAIN order} = {k \in question.g : k.source \in Around(question, l)}
        BY <4>2, <4>3
      <4> QED  BY <4>4, <3>1, <3>3, <2>0 DEF l
    <3> QED  BY <3>2, <3>3
  <2> QED  BY <2>1, <2>2
<1>14. ASSUME question.of = "shortest_path"
       PROVE  Found = NoPath /\ question.end \notin Around(question, Farthest)
  <2>1. question.end \notin visited  BY <1>4, <1>7, <1>14 DEF PathInvariant
  <2> QED  BY <2>1, <1>5, <1>7, <1>14 DEF Found, Limited
<1>15. SearchesReachTheBall'
  BY <1>0, <1>1, <1>2, <1>9, <1>10, <1>11, <1>12, <1>13 DEF SearchesReachTheBall, Answered
<1>16. PathsAreShortest'
  BY <1>1, <1>2, <1>14 DEF PathsAreShortest, Answered
<1> QED  BY <1>15, <1>16

\* The way to the end is a shortest one: what is nearer was visited, and the end was not.
LEMMA ArriveAnswers ==
  ASSUME SearchTypeOK, BreadthInv, NEW a \in left, Arrive(a)
  PROVE  SearchesReachTheBall' /\ PathsAreShortest'
<1> DEFINE w == Append(walk, question.end)
           c == Len(walk) - 1
<1>0. /\ question \in SearchQuestions /\ question.of = "shortest_path" /\ Neighbor(a) = question.end
      /\ Searching /\ ~ OnStack
  BY DEF SearchTypeOK, OnStack, Arrive, Arrives
<1>1. answer' = <<w>> /\ question' = question  BY DEF Arrive, Reply
<1>2. Result' = w  BY <1>1 DEF Result
<1>3. /\ walk # <<>> /\ walk \in Seq(Ids) /\ a \in EdgesOf(question, End(walk)) /\ question.end \in Ids
  BY <1>0, QuestionType DEF SearchTypeOK
<1>4. /\ Len(walk) \in Nat \ {0} /\ c \in Nat /\ Len(w) = Len(walk) + 1 /\ w[Len(w)] = question.end
      /\ w # <<>> /\ \A i \in 1..Len(walk) : w[i] = walk[i]
  BY <1>3
<1> HIDE DEF w, c
<1>5. question.start \in Nodes /\ QueueInv /\ PathInvariant
  BY <1>0 DEF BreadthInv, StrayInv
<1>6. /\ question.end \notin visited /\ IsPath(question, walk)
      /\ Around(question, c) \subseteq visited
  BY <1>0, <1>3, <1>5 DEF PathInvariant, QueueInv, c
<1>7. KeyOf(a) \in question.g /\ KeyOf(a).source = End(walk) /\ KeyOf(a).target = question.end
  <2>1. a.way = "from" /\ KeyOf(a) \in question.g /\ NodeOf(a) = End(walk)
    BY <1>0, <1>3, EdgeType DEF Ways
  <2> QED  BY <1>0, <2>1 DEF NodeOf, Neighbor
<1>8. w[1] = question.start /\ End(w) = question.end  BY <1>4, <1>6 DEF IsPath, End
<1>9. ASSUME NEW i \in 1..Len(w) - 1
      PROVE  \E k \in question.g : k.source = w[i] /\ k.target = w[i + 1]
  <2>1. CASE i = Len(walk)
    BY <2>1, <1>4, <1>7 DEF End
  <2>2. CASE i # Len(walk)
    <3>1. i \in 1..Len(walk) - 1 /\ i \in 1..Len(walk) /\ i + 1 \in 1..Len(walk)
      BY <2>2, <1>4
    <3> QED  BY <3>1, <1>4, <1>6 DEF IsPath
  <2> QED  BY <2>1, <2>2
<1>10. ASSUME NEW d \in 0..Len(w) - 2 PROVE question.end \notin Around(question, d)
  <2>1. d \in Nat /\ d <= c  BY <1>4 DEF c
  <2>2. Around(question, d) \subseteq Around(question, c)  BY <2>1, <1>0, <1>4, NearFacts
  <2> QED  BY <2>2, <1>6
<1>11. PathsAreShortest'
  BY <1>1, <1>2, <1>4, <1>8, <1>9, <1>10 DEF PathsAreShortest, NoPath
<1>12. SearchesReachTheBall'
  BY <1>0, <1>1 DEF SearchesReachTheBall, Answered
<1> QED  BY <1>11, <1>12

\* The answers given before the loop.
LEMMA EarlyAnswers ==
  ASSUME SearchTypeOK, Refuse \/ StayAtStart
  PROVE  SearchesReachTheBall' /\ PathsAreShortest'
<1>0. question \in SearchQuestions  BY DEF SearchTypeOK
<1>1. Farthest \in Nat /\ (question.of \in Limited => question.limit \in Int)
      /\ question.g \in Graphs
  BY <1>0, QuestionType, FS_CardinalityType, TraversalAssumption DEF Farthest
<1>2. CASE StayAtStart
  <2>1. /\ question.of = "shortest_path" /\ question.start = question.end
        /\ answer' = <<<<question.start>>>> /\ question' = question
    BY <1>2 DEF StayAtStart, Trivial, Reply
  <2>2. Result' = <<question.start>>  BY <2>1 DEF Result
  <2>3. <<question.start>> # NoPath /\ <<question.start>>[1] = question.start
        /\ End(<<question.start>>) = question.end /\ Len(<<question.start>>) = 1
    BY <2>1 DEF NoPath, End
  <2>4. PathsAreShortest'  BY <2>1, <2>2, <2>3 DEF PathsAreShortest
  <2>5. SearchesReachTheBall'  BY <2>1 DEF SearchesReachTheBall, Answered
  <2> QED  BY <2>4, <2>5
<1>3. CASE Refuse
  <2>1. /\ Refused /\ question' = question
        /\ answer' = <<IF ReturnsSet THEN {} ELSE <<>>>>
    BY <1>3 DEF Refuse, Reply
  <2>2. Result' = IF ReturnsSet THEN {} ELSE <<>>  BY <2>1 DEF Result
  <2>3. question.start \notin Nodes => \A d \in Nat : Around(question, d) = {}
    BY <1>0, NothingAroundStray
  <2>4. Once(<<>>) /\ Preorder(<<>>, question)  BY DEF Once, Preorder
  <2>5. ASSUME NEW d \in Nat, Around(question, d) = {} PROVE ListsBall(<<>>, question, d)
    BY <2>4, <2>5 DEF ListsBall
  <2>6. question.of \in {"bfs", "dfs", "descendants", "ancestors"} => question.start \notin Nodes
    BY <2>1 DEF Refused, Limited
  <2>7. ASSUME question.of \in {"bfs", "dfs", "descendants"}
        PROVE  Around(question, Farthest) = {}
    BY <1>1, <2>3, <2>6, <2>7
  <2>8. ASSUME question.of = "ancestors", NEW k \in question.g
        PROVE  ~ LeadsTo(question, k.target, question.start)
    <3>1. Ball(question.g, k.target, question.rels, FALSE)[Farthest] \subseteq Nodes
      BY <1>1, BallType
    <3> QED  BY <2>6, <2>8, <3>1 DEF LeadsTo
  <2>9. ASSUME question.of \in {"depth_limited_search", "expand_neighborhood"}, ~ question.limit < 0
        PROVE  question.limit \in Nat /\ Around(question, question.limit) = {}
    <3>1. question.limit \in Nat /\ question.start \notin Nodes
      BY <1>1, <2>1, <2>9 DEF Refused, Limited
    <3> QED  BY <3>1, <2>3
  <2>10. question.of # "traverse"  BY <2>1 DEF Refused
  <2>11. ASSUME question.of = "shortest_path" PROVE question.end \notin Around(question, Farthest)
    <3>1. question.start \notin Nodes \/ question.end \notin Nodes
      BY <2>1, <2>11 DEF Refused, Limited
    <3>2. Around(question, Farthest) \subseteq Nodes  BY <1>1, BallType DEF Around
    <3> QED  BY <3>1, <3>2, <2>3, <1>1
  <2>12. question.of = "bfs" => ListsBall(Result, question, Farthest)'
    BY <1>1, <2>1, <2>2, <2>5, <2>7 DEF ReturnsSet
  <2>13. question.of = "dfs" =>
           ({Result[i] : i \in DOMAIN Result} = Around(question, Farthest) /\ Once(Result)
            /\ Preorder(Result, question))'
    BY <1>1, <2>1, <2>2, <2>4, <2>7 DEF ReturnsSet
  <2>14. question.of = "depth_limited_search" =>
           (IF question.limit < 0 THEN Result = <<>> ELSE ListsBall(Result, question, question.limit))'
    BY <1>1, <2>1, <2>2, <2>5, <2>9 DEF ReturnsSet
  <2>15. question.of \in {"descendants", "ancestors", "expand_neighborhood"} => Result' = {}
    BY <2>2 DEF ReturnsSet
  <2>16. SearchesReachTheBall'
    BY <2>1, <2>7, <2>8, <2>9, <2>10, <2>12, <2>13, <2>14, <2>15 DEF SearchesReachTheBall, Answered
  <2>17. PathsAreShortest'
    BY <2>1, <2>2, <2>11 DEF PathsAreShortest, Answered, ReturnsSet, NoPath
  <2> QED  BY <2>16, <2>17
<1> QED  BY <1>2, <1>3

-----------------------------------------------------------------------------
(* The ancestors.                                                          *)

\* What a walk leads to is led to by an edge in front of the walk, too.
LEMMA LeadsFurther ==
  ASSUME question \in SearchQuestions, NEW k \in question.g, k.relation \in question.rels,
         NEW m, LeadsTo(question, k.target, m)
  PROVE  LeadsTo(question, k.source, m)
<1> DEFINE both == FALSE
           B == Ball(question.g, k.source, question.rels, both)[Farthest]
<1>0. LeadsTo(question, k.source, m) <=> m \in B  BY DEF LeadsTo
<1>1. m \in Ball(question.g, k.target, question.rels, both)[Farthest]  BY DEF LeadsTo
<1> HIDE DEF both
<1>2. question.g \in Graphs /\ k.source \in Nodes
  BY QuestionType, TraversalAssumption DEF Graphs
<1>3. /\ Farthest \in Nat
      /\ Ball(question.g, k.source, question.rels, both)[0] \subseteq B
      /\ Onward(question.g, question.rels, both, B) \subseteq B
  BY <1>2, BallWhole
<1>4. k.source \in B
  <2>1. Ball(question.g, k.source, question.rels, both)[0] = {k.source} \cap Nodes  BY BallUnfolds
  <2> QED  BY <1>2, <1>3, <2>1
<1> HIDE DEF B
<1>5. k.target \in B  BY <1>3, <1>4 DEF Onward
<1>6. Ball(question.g, k.target, question.rels, both)[Farthest] \subseteq B
  BY <1>3, <1>5, BallLeast
<1> QED  BY <1>0, <1>1, <1>6

\* A node leads to itself.
LEMMA LeadsToItself ==
  ASSUME question \in SearchQuestions, NEW n \in Nodes
  PROVE  LeadsTo(question, n, n)
<1> DEFINE both == FALSE
           B == Ball(question.g, n, question.rels, both)
<1>1. LeadsTo(question, n, n) <=> n \in B[Farthest]  BY DEF LeadsTo
<1> HIDE DEF both
<1>2. B[0] = {n} \cap Nodes  BY BallUnfolds
<1>3. B[0] \subseteq B[Farthest]
  <2>1. question.g \in Graphs  BY QuestionType
  <2> QED  BY <2>1, BallWhole
<1> QED  BY <1>1, <1>2, <1>3

\* What the entry taken from the stack leaves.
LEMMA TakeFromStack ==
  ASSUME SearchTypeOK, Take, OnStack
  PROVE  /\ Taken = waiting[Len(waiting)] /\ Len(waiting) \in DOMAIN waiting
         /\ Len(waiting) \in Nat \ {0} /\ DOMAIN waiting = 1..Len(waiting)
         /\ DOMAIN waiting' = 1..(Len(waiting) - 1)
         /\ \A i \in DOMAIN waiting' : i \in DOMAIN waiting /\ i < Len(waiting)
                                       /\ waiting'[i] = waiting[i]
         /\ \A i \in DOMAIN waiting : i = Len(waiting) \/ i \in DOMAIN waiting'
         /\ Taken \in Seq(Ids) /\ Taken # <<>> /\ End(Taken) \in Ids
         /\ UNCHANGED <<question, answer, running>> /\ left = {} /\ waiting # <<>>
<1>1. waiting # <<>> /\ left = {} /\ waiting' = Others  BY DEF Take
<1>2. /\ Taken = waiting[Len(waiting)] /\ Taken \in Seq(Ids) /\ Taken # <<>> /\ End(Taken) \in Ids
      /\ Others \in Seq(Seq(Ids)) /\ Len(waiting) \in Nat \ {0} /\ Len(Others) = Len(waiting) - 1
      /\ \A i \in DOMAIN Others : Others[i] = waiting[i]
  BY <1>1, TakenType
<1>3. DOMAIN waiting = 1..Len(waiting) /\ DOMAIN Others = 1..(Len(waiting) - 1)
  BY <1>2 DEF SearchTypeOK
<1> QED  BY <1>1, <1>2, <1>3 DEF Take

\* A node met from a relative leads to the start over an edge.
LEMMA KinIsMet ==
  ASSUME SearchTypeOK, AncestorsInv, Searching, question.of = "ancestors",
         NEW n, KinOf(n), NEW a \in EdgesOf(question, n)
  PROVE  \E k \in question.g : /\ k.relation \in question.rels /\ k.source = Neighbor(a)
                               /\ LeadsTo(question, k.target, question.start)
<1>1. question \in SearchQuestions  BY DEF SearchTypeOK
<1>2. /\ KeyOf(a) \in question.g /\ KeyOf(a).relation \in question.rels
      /\ a.way = "to" /\ NodeOf(a) = n
  BY <1>1, EdgeType DEF Ways
<1>3. KeyOf(a).source = Neighbor(a) /\ KeyOf(a).target = n  BY <1>2 DEF NodeOf, Neighbor
<1>4. CASE n = question.start
  BY <1>1, <1>2, <1>3, <1>4, LeadsToItself DEF AncestorsInv
<1>5. CASE n \in visited
  <2>1. PICK k \in question.g : /\ k.relation \in question.rels /\ k.source = n
                                /\ LeadsTo(question, k.target, question.start)
    BY <1>5 DEF AncestorsInv
  <2>2. LeadsTo(question, n, question.start)  BY <1>1, <2>1, LeadsFurther
  <2> QED  BY <1>2, <1>3, <2>2
<1> QED  BY <1>4, <1>5 DEF KinOf

\* Only the start waits.
LEMMA AncestorsEnter ==
  ASSUME SearchTypeOK, Enter
  PROVE  AncestorsInv'
<1> SUFFICES ASSUME question.of = "ancestors" PROVE AncestorsInv'
  BY DEF AncestorsInv, Enter
<1>1. /\ UNCHANGED <<question, answer, walk, left, order>>
      /\ waiting' = <<<<question.start>>>> /\ visited' = {}
  BY DEF Enter
<1>2. walk = <<>> /\ left = {}  BY DEF Enter, SearchTypeOK, Idle
<1>3. /\ DOMAIN waiting' = {1} /\ waiting'[1] = <<question.start>>
      /\ End(<<question.start>>) = question.start
  BY <1>1 DEF End
<1>4. question.start \in Nodes  BY DEF Enter, Refused, Limited
<1>5. Waits(question.start)'  BY <1>1, <1>3 DEF Waits
<1> QED  BY <1>1, <1>2, <1>3, <1>4, <1>5 DEF AncestorsInv, KinOf

\* The entry taken becomes the one at hand, and all its edges are left.
LEMMA AncestorsTake ==
  ASSUME SearchTypeOK, Take, AncestorsInv
  PROVE  AncestorsInv'
<1> SUFFICES ASSUME question.of = "ancestors" PROVE AncestorsInv'
  BY DEF AncestorsInv, Take
<1>1. OnStack /\ ~ Skips /\ GoesOn(Taken) /\ Searching  BY DEF OnStack, Skips, GoesOn, Limited, Take
<1>2. /\ Taken = waiting[Len(waiting)] /\ Len(waiting) \in DOMAIN waiting /\ Taken # <<>>
      /\ \A i \in DOMAIN waiting' : i \in DOMAIN waiting /\ waiting'[i] = waiting[i]
      /\ \A i \in DOMAIN waiting : i = Len(waiting) \/ i \in DOMAIN waiting'
      /\ UNCHANGED <<question, answer, running>> /\ left = {}
  BY <1>1, TakeFromStack
<1>3. visited' = visited /\ walk' = Taken /\ left' = EdgesOf(question, End(Taken))
  BY <1>1 DEF Take
<1>4. /\ question.start \in Nodes /\ visited \subseteq Nodes
      /\ \A n \in visited : \E k \in question.g :
           k.relation \in question.rels /\ k.source = n /\ LeadsTo(question, k.target, question.start)
      /\ \A i \in DOMAIN waiting : KinOf(End(waiting[i]))
      /\ \A n \in visited \cup {question.start} :
           Waits(n) \/ \A a \in EdgesOf(question, n) : Neighbor(a) \in visited \/ (Current(n) /\ a \in left)
  BY <1>1 DEF AncestorsInv
<1>5. \A n : KinOf(n)' <=> KinOf(n)  BY <1>2, <1>3 DEF KinOf
<1>6. KinOf(End(Taken))  BY <1>2, <1>4
<1>7. \A i \in DOMAIN waiting' : KinOf(End(waiting'[i]))  BY <1>2, <1>4
<1>8. ASSUME NEW n \in visited \cup {question.start}, ~ Waits(n)', NEW a \in EdgesOf(question, n)
      PROVE  Neighbor(a) \in visited \/ (Current(n)' /\ a \in left')
  <2>1. CASE Waits(n)
    <3>1. PICK i \in DOMAIN waiting : End(waiting[i]) = n  BY <2>1 DEF Waits
    <3>2. i = Len(waiting)  BY <3>1, <1>2, <1>8 DEF Waits
    <3> QED  BY <3>1, <3>2, <1>2, <1>3, <1>8 DEF Current
  <2>2. CASE ~ Waits(n)
    BY <2>2, <1>2, <1>4
  <2> QED  BY <2>1, <2>2
<1> QED  BY <1>2, <1>3, <1>4, <1>5, <1>6, <1>7, <1>8 DEF AncestorsInv

\* A relative met over an edge is visited and waits.
LEMMA AncestorsLook ==
  ASSUME SearchTypeOK, NEW a \in left, LookAt(a), AncestorsInv
  PROVE  AncestorsInv'
<1> SUFFICES ASSUME question.of = "ancestors" PROVE AncestorsInv'
  BY DEF AncestorsInv, LookAt
<1> DEFINE x == Neighbor(a)
<1>1. /\ UNCHANGED <<question, answer, running, walk>> /\ left' = left \ {a}
      /\ walk # <<>> /\ a \in EdgesOf(question, End(walk))
      /\ x \in Nodes
      /\ DOMAIN waiting \subseteq DOMAIN waiting'
      /\ \A i \in DOMAIN waiting : waiting'[i] = waiting[i]
      /\ x \in visited => waiting' = waiting /\ visited' = visited
  BY LookStep
<1>2. x \notin visited =>
        /\ DOMAIN waiting' = DOMAIN waiting \cup {Len(waiting')}
        /\ End(waiting'[Len(waiting')]) = x /\ visited' = visited \cup {x}
  BY LookStep
<1>3. Searching  BY DEF LookAt
<1>4. /\ question.start \in Nodes /\ visited \subseteq Nodes
      /\ \A n \in visited : \E k \in question.g :
           k.relation \in question.rels /\ k.source = n /\ LeadsTo(question, k.target, question.start)
      /\ \A i \in DOMAIN waiting : KinOf(End(waiting[i]))
      /\ KinOf(End(walk))
      /\ \A n \in visited \cup {question.start} :
           Waits(n) \/ \A b \in EdgesOf(question, n) : Neighbor(b) \in visited \/ (Current(n) /\ b \in left)
  BY <1>1, <1>3 DEF AncestorsInv
<1>5. \E k \in question.g : /\ k.relation \in question.rels /\ k.source = x
                            /\ LeadsTo(question, k.target, question.start)
  BY <1>1, <1>3, <1>4, KinIsMet
<1>6. \A n : /\ Waits(n) => Waits(n)'
             /\ x \notin visited => (Waits(n)' <=> Waits(n) \/ n = x)
  BY LookWaits
<1>7. visited \subseteq visited' /\ x \in visited' /\ visited' \subseteq visited \cup {x}
  BY <1>1, <1>2
<1>8. \A n \in visited' : \E k \in question.g :
        k.relation \in question.rels /\ k.source = n /\ LeadsTo(question, k.target, question.start)
  BY <1>4, <1>5, <1>7
<1> HIDE DEF x
<1>9. (\A i \in DOMAIN waiting : KinOf(End(waiting[i])))'
  <2> SUFFICES ASSUME NEW i \in DOMAIN waiting' PROVE KinOf(End(waiting[i]))'  OBVIOUS
  <2>1. (i \in DOMAIN waiting /\ End(waiting'[i]) = End(waiting[i])) \/ End(waiting'[i]) = x
    BY <1>1, <1>2
  <2> QED  BY <2>1, <1>1, <1>4, <1>7 DEF KinOf
<1>10. KinOf(End(walk))'  BY <1>1, <1>4, <1>7 DEF KinOf
<1>11. ASSUME NEW n \in visited' \cup {question.start}, ~ Waits(n)', NEW b \in EdgesOf(question, n)
       PROVE  Neighbor(b) \in visited' \/ (Current(n)' /\ b \in left')
  <2>1. n \in visited \cup {question.start} /\ ~ Waits(n)  BY <1>1, <1>2, <1>6, <1>11
  <2>2. Neighbor(b) \in visited \/ (Current(n) /\ b \in left)  BY <2>1, <1>4, <1>11
  <2>3. CASE b = a  BY <2>3, <1>7 DEF x
  <2>4. CASE b # a  BY <2>2, <2>4, <1>1, <1>7 DEF Current
  <2> QED  BY <2>3, <2>4
<1> QED  BY <1>1, <1>4, <1>7, <1>8, <1>9, <1>10, <1>11 DEF AncestorsInv

\* What leads to the start over an edge was visited: else what it leads to never enters

\* the visited nodes or the start.
LEMMA AncestorsFinish ==
  ASSUME SearchTypeOK, AncestorsInv, question.of = "ancestors", Finish
  PROVE  SearchesReachTheBall' /\ PathsAreShortest'
<1>0. question \in SearchQuestions /\ left = {} /\ waiting = <<>> /\ Searching
  BY DEF SearchTypeOK, Finish
<1>1. answer' = <<visited>> /\ question' = question  BY DEF Finish, Reply, Found
<1>2. Result' = visited  BY <1>1 DEF Result
<1>3. /\ question.start \in Nodes /\ visited \subseteq Nodes
      /\ \A n \in visited : \E k \in question.g :
           k.relation \in question.rels /\ k.source = n /\ LeadsTo(question, k.target, question.start)
      /\ \A n \in visited \cup {question.start} : \A a \in EdgesOf(question, n) : Neighbor(a) \in visited
  BY <1>0 DEF AncestorsInv, Waits
<1> DEFINE S == Nodes \ (visited \cup {question.start})
<1>4. question.g \in Graphs /\ \A k \in question.g : k.source \in Nodes /\ k.target \in Nodes
  BY <1>0, QuestionType, TraversalAssumption DEF Graphs
<1>5. ASSUME NEW k \in question.g, k.relation \in question.rels, k.source \notin visited
      PROVE  k.target \in S
  <2> SUFFICES ASSUME k.target \in visited \cup {question.start} PROVE FALSE  BY <1>4
  <2>1. "to" \in Ways(question)  BY DEF Ways
  <2>2. PICK a \in EdgesOf(question, k.target) : KeyOf(a) = k /\ a.way = "to"
    BY <1>0, <1>5, <2>1, EdgeExists
  <2>3. Neighbor(a) = k.source  BY <2>2 DEF Neighbor
  <2> QED  BY <1>3, <1>5, <2>2, <2>3
<1>6. ASSUME NEW n \in Nodes, NEW k \in question.g, k.relation \in question.rels, k.source = n,
             LeadsTo(question, k.target, question.start), n \notin visited
      PROVE  FALSE
  <2>1. k.target \in S  BY <1>5, <1>6
  <2>2. Onward(question.g, question.rels, FALSE, S) \subseteq S  BY <1>5 DEF Onward
  <2>3. Farthest \in Nat  BY <1>4, BallWhole
  <2>4. Ball(question.g, k.target, question.rels, FALSE)[Farthest] \subseteq S
    <3> DEFINE both == FALSE
    <3>1. Onward(question.g, question.rels, both, S) \subseteq S  BY <2>2
    <3> HIDE DEF S, both
    <3>2. Ball(question.g, k.target, question.rels, both)[Farthest] \subseteq S
      BY <2>1, <2>3, <3>1, BallLeast
    <3> QED  BY <3>2 DEF both
  <2> QED  BY <1>6, <2>4 DEF LeadsTo
<1>7. visited = {n \in Nodes : \E k \in question.g :
                   k.relation \in question.rels /\ k.source = n /\ LeadsTo(question, k.target, question.start)}
  BY <1>3, <1>6
<1>8. SearchesReachTheBall'
  BY <1>1, <1>2, <1>7 DEF SearchesReachTheBall, Answered
<1>9. PathsAreShortest'  BY <1>1 DEF PathsAreShortest, Answered
<1> QED  BY <1>8, <1>9

-----------------------------------------------------------------------------
(* Depth first.                                                            *)

\* Edges of a search depth first are the keys in their order.
LEMMA DepthEdges ==
  ASSUME question \in SearchQuestions, question.of = "dfs", NEW n
  PROVE  /\ \A a \in EdgesOf(question, n) :
              /\ a.place \in 1..Len(LinkOrder) /\ a.way = "from"
              /\ LinkOrder[a.place] \in question.g /\ LinkOrder[a.place].relation \in question.rels
              /\ LinkOrder[a.place].source = n /\ LinkOrder[a.place].target = Neighbor(a)
         /\ \A p \in 1..Len(LinkOrder) :
              LinkOrder[p] \in question.g /\ LinkOrder[p].relation \in question.rels
              /\ LinkOrder[p].source = n
                => \E a \in EdgesOf(question, n) : a.place = p /\ Neighbor(a) = LinkOrder[p].target
<1>0. DOMAIN LinkOrder = 1..Len(LinkOrder)  BY TraversalAssumption
<1>1. ASSUME NEW a \in EdgesOf(question, n)
      PROVE  /\ a.place \in 1..Len(LinkOrder) /\ a.way = "from"
             /\ LinkOrder[a.place] \in question.g /\ LinkOrder[a.place].relation \in question.rels
             /\ LinkOrder[a.place].source = n /\ LinkOrder[a.place].target = Neighbor(a)
  <2>1. /\ KeyOf(a) \in question.g /\ KeyOf(a).relation \in question.rels /\ NodeOf(a) = n
        /\ a.way = "from" /\ a.place \in DOMAIN LinkOrder
    BY EdgeType DEF Ways
  <2> QED  BY <1>0, <2>1 DEF KeyOf, NodeOf, Neighbor
<1>2. ASSUME NEW p \in 1..Len(LinkOrder), LinkOrder[p] \in question.g,
             LinkOrder[p].relation \in question.rels, LinkOrder[p].source = n
      PROVE  \E a \in EdgesOf(question, n) : a.place = p /\ Neighbor(a) = LinkOrder[p].target
  <2> DEFINE a == [way |-> "from", place |-> p]
  <2>1. a \in Turns /\ a.way = "from" /\ a.place = p  BY <1>0 DEF Turns
  <2>2. KeyOf(a) = LinkOrder[p] /\ NodeOf(a) = n /\ Neighbor(a) = LinkOrder[p].target
    BY <1>2, <2>1 DEF KeyOf, NodeOf, Neighbor
  <2>3. a.way \in Ways(question)  BY <2>1 DEF Ways
  <2> HIDE DEF a
  <2>4. a \in EdgesOf(question, n)  BY <1>2, <2>1, <2>2, <2>3 DEF EdgesOf
  <2> QED  BY <2>1, <2>2, <2>4
<1> QED  BY <1>1, <1>2

\* A list that holds what the edges of one of its nodes lead to.
LEMMA MetBeforeHolds ==
  ASSUME question \in SearchQuestions, question.of = "dfs", NEW s, NEW i \in Nat, NEW m,
         NEW place \in 1..Len(LinkOrder) + 1,
         \A b \in EdgesOf(question, s[m]) : b.place < place => \E j \in 1..i : s[j] = Neighbor(b)
  PROVE  MetBefore(s, question, i, m, place)
<1>0. Len(LinkOrder) \in Nat  BY TraversalAssumption
<1>1. ASSUME NEW p \in 1..place - 1, LinkOrder[p] \in question.g,
             LinkOrder[p].relation \in question.rels, LinkOrder[p].source = s[m]
      PROVE  \E j \in 1..i : s[j] = LinkOrder[p].target
  <2>1. p \in 1..Len(LinkOrder) /\ p < place  BY <1>0
  <2>2. PICK b \in EdgesOf(question, s[m]) : b.place = p /\ Neighbor(b) = LinkOrder[p].target
    BY <1>1, <2>1, DepthEdges
  <2> QED  BY <2>1, <2>2
<1> QED  BY <1>1 DEF MetBefore

\* A node put at the end keeps the list in preorder if the latest node with unmet

\* neighbours has it as the first of them.
LEMMA PreorderAppend ==
  ASSUME question \in SearchQuestions, question.of = "dfs",
         NEW s \in Seq(Ids \cup EdgeKeys), NEW x \in Ids, Preorder(s, question),
         s # <<>> =>
           \E p \in DOMAIN s : \E a \in EdgesOf(question, s[p]) :
             /\ Neighbor(a) = x
             /\ \A b \in EdgesOf(question, s[p]) : b.place < a.place => \E j \in DOMAIN s : s[j] = Neighbor(b)
             /\ \A m \in DOMAIN s : m > p => \A b \in EdgesOf(question, s[m]) : \E j \in DOMAIN s : s[j] = Neighbor(b)
  PROVE  Preorder(Append(s, x), question)
<1> DEFINE t == Append(s, x)
<1>1. /\ Len(s) \in Nat /\ DOMAIN s = 1..Len(s) /\ Len(t) = Len(s) + 1 /\ t[Len(s) + 1] = x
      /\ \A i \in 1..Len(s) : t[i] = s[i]
  OBVIOUS
<1>2. Len(LinkOrder) \in Nat /\ DOMAIN LinkOrder = 1..Len(LinkOrder)  BY TraversalAssumption
<1> HIDE DEF t
<1>3. ASSUME NEW i \in 1..Len(t) - 1
      PROVE  \E j \in 1..i, a \in DOMAIN LinkOrder :
               /\ LinkOrder[a] \in question.g /\ LinkOrder[a].relation \in question.rels
               /\ LinkOrder[a].source = t[j] /\ LinkOrder[a].target = t[i + 1]
               /\ MetBefore(t, question, i, j, a)
               /\ \A m \in j + 1..i : MetBefore(t, question, i, m, Len(LinkOrder) + 1)
  <2>1. CASE i < Len(s)
    <3>1. i \in 1..Len(s) - 1 /\ i \in Nat /\ i + 1 \in 1..Len(s)  BY <2>1, <1>1
    <3>2. PICK j \in 1..i, a \in DOMAIN LinkOrder :
               /\ LinkOrder[a] \in question.g /\ LinkOrder[a].relation \in question.rels
               /\ LinkOrder[a].source = s[j] /\ LinkOrder[a].target = s[i + 1]
               /\ MetBefore(s, question, i, j, a)
               /\ \A m \in j + 1..i : MetBefore(s, question, i, m, Len(LinkOrder) + 1)
      BY <3>1 DEF Preorder
    <3>3. \A k \in 1..i : t[k] = s[k]  BY <3>1, <1>1
    <3>4. \A m \in 1..i : \A p : MetBefore(s, question, i, m, p) => MetBefore(t, question, i, m, p)
      BY <3>3 DEF MetBefore
    <3>5. MetBefore(t, question, i, j, a)  BY <3>2, <3>4
    <3>6. \A m \in j + 1..i : MetBefore(t, question, i, m, Len(LinkOrder) + 1)
      <4>1. \A m \in j + 1..i : m \in 1..i  BY <3>1
      <4> QED  BY <4>1, <3>2, <3>4
    <3>7. t[j] = s[j] /\ t[i + 1] = s[i + 1]  BY <3>1, <3>3, <1>1
    <3> QED  BY <3>2, <3>5, <3>6, <3>7
  <2>2. CASE i = Len(s)
    <3>1. s # <<>> /\ i \in Nat  BY <2>2, <1>1
    <3>2. PICK p \in DOMAIN s : \E a \in EdgesOf(question, s[p]) :
             /\ Neighbor(a) = x
             /\ \A b \in EdgesOf(question, s[p]) : b.place < a.place => \E j \in DOMAIN s : s[j] = Neighbor(b)
             /\ \A m \in DOMAIN s : m > p => \A b \in EdgesOf(question, s[m]) : \E j \in DOMAIN s : s[j] = Neighbor(b)
      BY <3>1
    <3>3. PICK a \in EdgesOf(question, s[p]) :
             /\ Neighbor(a) = x
             /\ \A b \in EdgesOf(question, s[p]) : b.place < a.place => \E j \in DOMAIN s : s[j] = Neighbor(b)
             /\ \A m \in DOMAIN s : m > p => \A b \in EdgesOf(question, s[m]) : \E j \in DOMAIN s : s[j] = Neighbor(b)
      BY <3>2
    <3>4. /\ a.place \in 1..Len(LinkOrder)
          /\ LinkOrder[a.place] \in question.g /\ LinkOrder[a.place].relation \in question.rels
          /\ LinkOrder[a.place].source = s[p] /\ LinkOrder[a.place].target = x
      BY <3>3, DepthEdges
    <3>5. p \in 1..i /\ t[p] = s[p] /\ t[i + 1] = x  BY <2>2, <1>1
    <3>6. MetBefore(t, question, i, p, a.place)
      <4>1. a.place \in 1..Len(LinkOrder) + 1  BY <3>4, <1>2
      <4>2. \A b \in EdgesOf(question, t[p]) : b.place < a.place => \E j \in 1..i : t[j] = Neighbor(b)
        BY <3>3, <3>5, <2>2, <1>1
      <4> QED  BY <4>1, <4>2, <3>1, MetBeforeHolds
    <3>7. ASSUME NEW m \in p + 1..i PROVE MetBefore(t, question, i, m, Len(LinkOrder) + 1)
      <4>1. m \in DOMAIN s /\ m > p /\ t[m] = s[m]  BY <2>2, <3>5, <1>1
      <4>2. \A b \in EdgesOf(question, t[m]) : \E j \in 1..i : t[j] = Neighbor(b)
        BY <4>1, <3>3, <2>2, <1>1
      <4>3. Len(LinkOrder) + 1 \in 1..Len(LinkOrder) + 1  BY <1>2
      <4> QED  BY <4>2, <4>3, <3>1, MetBeforeHolds
    <3> QED  BY <3>4, <3>5, <3>6, <3>7, <1>2
  <2>3. Len(s) \in Int /\ i \in 1..Len(s)  BY <1>1
  <2>4. i < Len(s) \/ i = Len(s)  BY <2>3
  <2> QED  BY <2>1, <2>2, <2>4
<1> QED  BY <1>3 DEF Preorder, t

\* The stack begins with the start, and the list is empty.
LEMMA DepthEnter ==
  ASSUME SearchTypeOK, Enter
  PROVE  DepthInv'
<1> SUFFICES ASSUME question.of = "dfs" PROVE StackInv'
  BY DEF DepthInv, Enter
<1>1. /\ UNCHANGED <<question, walk, left, order>>
      /\ waiting' = <<<<question.start>>>> /\ visited' = {}
  BY DEF Enter
<1>2. walk = <<>> /\ left = {} /\ order = <<>>  BY DEF Enter, SearchTypeOK, Idle
<1>3. question.start \in Nodes  BY DEF Enter, Refused, Limited
<1>4. Listed' = {} /\ Once(order') /\ Preorder(order', question')
  BY <1>1, <1>2 DEF Listed, Once, Preorder
<1> QED  BY <1>1, <1>2, <1>3, <1>4 DEF StackInv

\* What leaves the stack has been visited, and the edges of a new node are all left.
LEMMA TakeKeepsMet ==
  ASSUME SearchTypeOK, Take, question.of = "dfs", NEW i \in Nat, NEW n, NEW b, MetAbove(i, n, b)
  PROVE  MetAbove(i, n, b)'
<1>1. /\ Taken = waiting[Len(waiting)] /\ left = {}
      /\ \A j \in DOMAIN waiting' : waiting'[j] = waiting[j]
      /\ \A j \in DOMAIN waiting : j = Len(waiting) \/ j \in DOMAIN waiting'
  BY TakeFromStack DEF OnStack
<1>2. visited \subseteq visited' /\ End(Taken) \in visited'
  BY DEF Take, Skips
<1>3. CASE Neighbor(b) \in visited  BY <1>2, <1>3 DEF MetAbove, Neighbor, KeyOf
<1>4. CASE \E j \in DOMAIN waiting : j > i /\ End(waiting[j]) = Neighbor(b)
  <2>1. PICK j \in DOMAIN waiting : j > i /\ End(waiting[j]) = Neighbor(b)  BY <1>4
  <2>2. CASE j = Len(waiting)
    BY <2>1, <2>2, <1>1, <1>2 DEF MetAbove, Neighbor, KeyOf
  <2>3. CASE j # Len(waiting)
    <3>1. j \in DOMAIN waiting' /\ waiting'[j] = waiting[j]  BY <2>1, <2>3, <1>1
    <3> QED  BY <2>1, <3>1 DEF MetAbove, Neighbor, KeyOf, End
  <2> QED  BY <2>2, <2>3
<1> QED  BY <1>1, <1>3, <1>4 DEF MetAbove

\* A node that was not visited is listed as the preorder wants it.
LEMMA TakenIsNext ==
  ASSUME SearchTypeOK, Take, question.of = "dfs", StackInv
  PROVE  /\ End(Taken) \in Around(question, Farthest)
         /\ ~ Skips => Preorder(Append(order, End(Taken)), question)
         /\ order = <<>> => End(Taken) = question.start /\ waiting' = <<>>
<1> DEFINE x == End(Taken)
           l == Len(waiting)
<1>0. /\ Taken = waiting[l] /\ left = {} /\ x \in Ids /\ l \in DOMAIN waiting /\ l \in Nat \ {0}
      /\ DOMAIN waiting = 1..l
  BY TakeFromStack DEF OnStack
<1>1. question \in SearchQuestions /\ order \in Seq(Ids \cup EdgeKeys)  BY DEF SearchTypeOK
<1>2. /\ visited = Listed /\ question.start \in Nodes /\ visited \subseteq Around(question, Farthest)
      /\ Preorder(order, question)
  BY DEF StackInv
<1>3. CASE order = <<>>
  <2>1. waiting = <<<<question.start>>>>  BY <1>3 DEF StackInv
  <2>2. x = question.start  BY <2>1, <1>0 DEF End
  <2>3. waiting' = <<>>
    <3>1. waiting' = Others /\ OnStack  BY DEF Take, OnStack
    <3> QED  BY <2>1, <3>1 DEF Others
  <2>4. x \in Around(question, Farthest)
    <3>1. Farthest \in Nat /\ Around(question, 0) = {question.start} \cap Nodes
          /\ Around(question, 0) \subseteq Around(question, Farthest)
      BY <1>1, NearFacts
    <3> QED  BY <3>1, <2>2, <1>2
  <2>5. Preorder(Append(order, x), question)  BY <1>1, <1>0, <1>2, <1>3, PreorderAppend
  <2> QED  BY <2>2, <2>3, <2>4, <2>5
<1>4. CASE order # <<>>
  <2>1. Owed(l)  BY <1>0, <1>4 DEF StackInv
  <2>2. PICK p \in DOMAIN order : \E a \in EdgesOf(question, order[p]) : OwedFor(l, p, a)
    BY <2>1 DEF Owed
  <2>3. \A n, b : MetAbove(l, n, b) => \E j \in DOMAIN order : order[j] = Neighbor(b)
    <3>1. \A j \in DOMAIN waiting : ~ j > l  BY <1>0
    <3> QED  BY <3>1, <1>0, <1>2 DEF MetAbove, Listed
  <2>4. order[p] \in Around(question, Farthest)  BY <1>2 DEF Listed
  <2>5. PICK a \in EdgesOf(question, order[p]) : OwedFor(l, p, a)  BY <2>2
  <2>6. Neighbor(a) = x /\ x \in Around(question, Farthest)
    BY <2>4, <2>5, <1>0, <1>1, NearFacts DEF OwedFor
  <2>7. /\ \A b \in EdgesOf(question, order[p]) : b.place < a.place => \E j \in DOMAIN order : order[j] = Neighbor(b)
        /\ \A m \in DOMAIN order : m > p => \A b \in EdgesOf(question, order[m]) : \E j \in DOMAIN order : order[j] = Neighbor(b)
    BY <2>3, <2>5 DEF OwedFor
  <2> HIDE DEF x
  <2>8. Preorder(Append(order, x), question)
    BY <1>0, <1>1, <1>2, <2>6, <2>7, PreorderAppend
  <2> QED  BY <1>4, <2>6, <2>8 DEF x
<1> QED  BY <1>3, <1>4

\* What an entry left on the stack was put there for stays so.
LEMMA OwedStays ==
  ASSUME NEW i, NEW p \in DOMAIN order, NEW a, OwedFor(i, p, a),
         question' = question, waiting'[i] = waiting[i], DOMAIN order \subseteq DOMAIN order',
         \A m \in DOMAIN order : order'[m] = order[m],
         \A n, b : MetAbove(i, n, b) => MetAbove(i, n, b)',
         \A m \in DOMAIN order' \ DOMAIN order :
           \E n : n = order'[m] /\ \A b \in EdgesOf(question, n) : MetAbove(i, n, b)'
  PROVE  OwedFor(i, p, a)'
<1>1. /\ Neighbor(a) = End(waiting[i])
      /\ \A b \in EdgesOf(question, order[p]) : b.place < a.place => MetAbove(i, order[p], b)
      /\ \A m \in DOMAIN order : m > p => \A b \in EdgesOf(question, order[m]) : MetAbove(i, order[m], b)
  BY DEF OwedFor
<1>2. (\A b \in EdgesOf(question, order[p]) : b.place < a.place => MetAbove(i, order[p], b))'
  <2> SUFFICES ASSUME NEW b \in EdgesOf(question', order'[p]), b.place < a.place
               PROVE  MetAbove(i, order[p], b)'
    OBVIOUS
  <2>1. order'[p] = order[p] /\ MetAbove(i, order[p], b)  BY <1>1
  <2>2. \E n : n = order'[p] /\ MetAbove(i, n, b)'  BY <2>1
  <2> QED  BY <2>2 DEF MetAbove, Current
<1>3. (\A m \in DOMAIN order : m > p => \A b \in EdgesOf(question, order[m]) : MetAbove(i, order[m], b))'
  <2> SUFFICES ASSUME NEW m \in DOMAIN order', m > p, NEW b \in EdgesOf(question', order'[m])
               PROVE  MetAbove(i, order[m], b)'
    OBVIOUS
  <2>1. \E n : n = order'[m] /\ MetAbove(i, n, b)'
    <3>1. CASE m \in DOMAIN order
      <4>1. order'[m] = order[m] /\ MetAbove(i, order[m], b)  BY <1>1, <3>1
      <4> QED  BY <4>1
    <3>2. CASE m \notin DOMAIN order  BY <3>2
    <3> QED  BY <3>1, <3>2
  <2> QED  BY <2>1 DEF MetAbove, Current
<1>4. (Neighbor(a) = End(waiting[i]))'  BY <1>1 DEF End, Neighbor, KeyOf
<1> QED  BY <1>2, <1>3, <1>4 DEF OwedFor

\* Taking an entry keeps the invariant of the stack.
LEMMA DepthTake ==
  ASSUME SearchTypeOK, Take, DepthInv
  PROVE  DepthInv'
<1> SUFFICES ASSUME question.of = "dfs" PROVE StackInv'
  BY DEF DepthInv, Take
<1> DEFINE x == End(Taken)
<1>0. StackInv /\ OnStack /\ GoesOn(Taken)  BY DEF DepthInv, Take, OnStack, GoesOn, Limited
<1>1. /\ left = {} /\ x \in Ids /\ Taken # <<>> /\ UNCHANGED question
      /\ \A i \in DOMAIN waiting' : i \in DOMAIN waiting /\ i \in Nat /\ waiting'[i] = waiting[i]
  BY <1>0, TakeFromStack
<1>2. /\ x \in Around(question, Farthest)
      /\ ~ Skips => Preorder(Append(order, x), question)
      /\ order = <<>> => x = question.start /\ waiting' = <<>>
  BY <1>0, TakenIsNext
<1>3. /\ visited = Listed /\ Once(order) /\ question.start \in Nodes
      /\ visited \subseteq Around(question, Farthest)
      /\ walk # <<>> => order # <<>> /\ End(walk) = order[Len(order)]
      /\ order # <<>> => question.start \in visited
      /\ \A n \in visited : \A b \in EdgesOf(question, n) : MetAbove(0, n, b)
      /\ order # <<>> => \A i \in DOMAIN waiting : Owed(i)
      /\ Preorder(order, question)
  BY <1>0 DEF StackInv
<1>4. order \in Seq(Ids \cup EdgeKeys)  BY DEF SearchTypeOK
<1>5. \A i \in Nat : \A n, b : MetAbove(i, n, b) => MetAbove(i, n, b)'
  BY TakeKeepsMet
<1>6. CASE Skips
  <2>1. UNCHANGED <<visited, walk, left, order>> /\ x \in visited  BY <1>6 DEF Take, Skips
  <2>2. order # <<>>  BY <2>1, <1>3 DEF Listed
  <2>3. \A n \in visited : \A b \in EdgesOf(question, n) : MetAbove(0, n, b)'
    BY <1>3, <1>5
  <2>4. ASSUME NEW i \in DOMAIN waiting' PROVE Owed(i)'
    <3>1. Owed(i) /\ i \in Nat  BY <1>1, <1>3, <2>2
    <3>2. PICK p \in DOMAIN order : \E a \in EdgesOf(question, order[p]) : OwedFor(i, p, a)
      BY <3>1 DEF Owed
    <3>3. PICK a \in EdgesOf(question, order[p]) : OwedFor(i, p, a)  BY <3>2
    <3>4. OwedFor(i, p, a)'
      BY <3>1, <3>3, <2>1, <1>1, <1>5, OwedStays
    <3> QED  BY <3>3, <3>4, <2>1, <1>1 DEF Owed
  <2>5. Listed' = Listed  BY <2>1 DEF Listed
  <2>6. (\A n \in visited : \A b \in EdgesOf(question, n) : MetAbove(0, n, b))'
    BY <2>1, <2>3, <1>1
  <2> QED  BY <2>1, <2>2, <2>4, <2>5, <2>6, <1>1, <1>3 DEF StackInv
<1>7. CASE ~ Skips
  <2>1. /\ visited' = visited \cup {x} /\ walk' = Taken /\ left' = EdgesOf(question, x)
        /\ order' = Append(order, x) /\ x \notin visited
    BY <1>0, <1>7 DEF Take, Skips, Lists
  <2>2. /\ Len(order) \in Nat /\ DOMAIN order = 1..Len(order)
        /\ Len(order') = Len(order) + 1 /\ DOMAIN order' = 1..Len(order')
        /\ order'[Len(order')] = x /\ \A i \in DOMAIN order : order'[i] = order[i]
        /\ order' # <<>>
    BY <2>1, <1>1, <1>4
  <2>3. Listed' = visited' /\ Once(order')
    <3>1. \A i \in DOMAIN order : order[i] # x  BY <2>1, <1>3 DEF Listed
    <3>2. Once(order')  BY <3>1, <2>2, <1>3 DEF Once
    <3>3. Listed' = Listed \cup {x}  BY <2>2 DEF Listed
    <3> QED  BY <3>2, <3>3, <2>1, <1>3
  <2>4. \A n : n = x => \A b \in EdgesOf(question, n) : \A i : MetAbove(i, n, b)'
    BY <2>1, <1>1 DEF MetAbove, Current
  <2>5. (\A n \in visited : \A b \in EdgesOf(question, n) : MetAbove(0, n, b))'
    <3>1. \A n \in visited' : \A b \in EdgesOf(question, n) : MetAbove(0, n, b)'
      BY <2>1, <2>4, <1>3, <1>5
    <3> QED  BY <3>1, <1>1
  <2>6. ASSUME NEW i \in DOMAIN waiting' PROVE Owed(i)'
    <3>0. order # <<>>  BY <2>6, <1>2
    <3>1. Owed(i) /\ i \in Nat  BY <1>1, <1>3, <3>0
    <3>2. PICK p \in DOMAIN order : \E a \in EdgesOf(question, order[p]) : OwedFor(i, p, a)
      BY <3>1 DEF Owed
    <3>3. PICK a \in EdgesOf(question, order[p]) : OwedFor(i, p, a)  BY <3>2
    <3>4. p \in DOMAIN order' /\ order'[p] = order[p]  BY <2>2
    <3>5. \A m \in DOMAIN order' \ DOMAIN order :
            \E n : n = order'[m] /\ \A b \in EdgesOf(question, n) : MetAbove(i, n, b)'
      <4>1. \A m \in DOMAIN order' \ DOMAIN order : order'[m] = x  BY <2>2
      <4> QED  BY <4>1, <2>4
    <3>6. DOMAIN order \subseteq DOMAIN order' /\ \A m \in DOMAIN order : order'[m] = order[m]
      BY <2>2
    <3>7. OwedFor(i, p, a)'
      BY <3>1, <3>3, <3>5, <3>6, <1>1, <1>5, OwedStays
    <3> QED  BY <3>3, <3>4, <3>7, <1>1 DEF Owed
  <2>7. question.start \in visited'
    BY <2>1, <1>2, <1>3
  <2>8. Preorder(order', question')  BY <2>1, <1>1, <1>2, <1>7
  <2>9. walk' # <<>> /\ End(walk') = order'[Len(order')]  BY <2>1, <2>2, <1>1
  <2>10. \A a \in left' : \A b \in EdgesOf(question', End(walk')) : b.place < a.place => b \in left'
    BY <2>1, <1>1
  <2>11. visited' \subseteq Around(question', Farthest)  BY <2>1, <1>1, <1>2, <1>3
  <2> HIDE DEF x
  <2> QED
    BY <2>2, <2>3, <2>5, <2>6, <2>7, <2>8, <2>9, <2>10, <2>11, <1>1, <1>3 DEF StackInv
<1> QED  BY <1>6, <1>7

\* A looked-at edge leads to a visited node or its target is now on top of the stack.
LEMMA LookKeepsMet ==
  ASSUME SearchTypeOK, NEW a \in left, LookAt(a), question.of = "dfs",
         NEW i \in Nat, i <= Len(waiting), NEW n, NEW b, MetAbove(i, n, b)
  PROVE  MetAbove(i, n, b)'
<1>1. /\ UNCHANGED walk /\ left' = left \ {a} /\ visited \subseteq visited'
      /\ DOMAIN waiting \subseteq DOMAIN waiting' /\ \A j \in DOMAIN waiting : waiting'[j] = waiting[j]
  BY LookStep
<1>2. Neighbor(a) \notin visited =>
        /\ Len(waiting') \in DOMAIN waiting' /\ Len(waiting') > i
        /\ End(waiting'[Len(waiting')]) = Neighbor(a)
  <2> SUFFICES ASSUME Neighbor(a) \notin visited
               PROVE  /\ Len(waiting') \in DOMAIN waiting' /\ Len(waiting') > i
                      /\ End(waiting'[Len(waiting')]) = Neighbor(a)
    OBVIOUS
  <2>1. /\ Len(waiting') = Len(waiting) + 1 /\ DOMAIN waiting' = DOMAIN waiting \cup {Len(waiting')}
        /\ End(waiting'[Len(waiting')]) = Neighbor(a) /\ Len(waiting) \in Nat
    BY LookStep
  <2> QED  BY <2>1
<1>3. CASE b = a
  BY <1>1, <1>2, <1>3 DEF MetAbove
<1>4. CASE b # a
  <2>1. CASE Neighbor(b) \in visited  BY <2>1, <1>1 DEF MetAbove
  <2>2. CASE Current(n) /\ b \in left  BY <2>2, <1>1, <1>4 DEF MetAbove, Current
  <2>3. CASE \E j \in DOMAIN waiting : j > i /\ End(waiting[j]) = Neighbor(b)
    BY <2>3, <1>1 DEF MetAbove
  <2> QED  BY <2>1, <2>2, <2>3 DEF MetAbove
<1> QED  BY <1>3, <1>4

\* So does looking at the last edge that is left: what smaller keys lead to comes above it.
LEMMA DepthLook ==
  ASSUME SearchTypeOK, NEW a \in left, LookAt(a), DepthInv
  PROVE  DepthInv'
<1> SUFFICES ASSUME question.of = "dfs" PROVE StackInv'
  BY DEF DepthInv, LookAt
<1> DEFINE x == Neighbor(a)
           l == Len(waiting)
<1>0. StackInv  BY DEF DepthInv, LookAt
<1>1. /\ UNCHANGED <<question, answer, running, walk>> /\ left' = left \ {a}
      /\ walk # <<>> /\ a \in EdgesOf(question, End(walk)) /\ question \in SearchQuestions
      /\ DOMAIN waiting = 1..l /\ l \in Nat
      /\ \A i \in DOMAIN waiting : waiting'[i] = waiting[i]
      /\ x \in visited => waiting' = waiting
      /\ visited' = visited
  BY LookStep
<1>2. x \notin visited =>
        /\ DOMAIN waiting' = DOMAIN waiting \cup {Len(waiting')}
        /\ End(waiting'[Len(waiting')]) = x /\ Len(waiting') = l + 1
  BY LookStep
<1>3. order' = order  BY DEF LookAt
<1>4. /\ visited = Listed /\ Once(order) /\ question.start \in Nodes
      /\ visited \subseteq Around(question, Farthest)
      /\ order # <<>> /\ End(walk) = order[Len(order)]
      /\ \A c \in left : \A b \in EdgesOf(question, End(walk)) : b.place < c.place => b \in left
      /\ order # <<>> => question.start \in visited
      /\ \A n \in visited : \A b \in EdgesOf(question, n) : MetAbove(0, n, b)
      /\ \A i \in DOMAIN waiting : Owed(i)
      /\ Preorder(order, question)
  BY <1>0, <1>1 DEF StackInv
<1>5. \A i \in Nat : \A n, b : i <= l /\ MetAbove(i, n, b) => MetAbove(i, n, b)'
  BY LookKeepsMet
<1>6. order \in Seq(Ids \cup EdgeKeys) /\ left \subseteq EdgesOf(question, End(walk))
  BY DEF SearchTypeOK
<1>7. /\ Len(order) \in DOMAIN order /\ \A m \in DOMAIN order : ~ m > Len(order)
  BY <1>4, <1>6
<1> HIDE DEF x, l
<1>8. \A b \in left \ {a} : a.place > b.place /\ b.place \in Int /\ a.place \in Int
  <2> SUFFICES ASSUME NEW b \in left \ {a} PROVE a.place > b.place /\ b.place \in Int /\ a.place \in Int
    OBVIOUS
  <2>1. Sooner(a, b)  BY DEF LookAt, IsNext
  <2>2. a.way = "from" /\ b.way = "from" /\ a.place \in 1..Len(LinkOrder) /\ b.place \in 1..Len(LinkOrder)
    BY <1>1, <1>6, DepthEdges
  <2>3. Len(LinkOrder) \in Nat  BY TraversalAssumption
  <2> QED  BY <2>1, <2>2, <2>3 DEF Sooner
<1>9. ASSUME NEW c \in left', NEW b \in EdgesOf(question, End(walk)), b.place < c.place
      PROVE  b \in left'
  <2>1. c \in left \ {a} /\ b \in left  BY <1>1, <1>4, <1>9
  <2>2. a.place > c.place /\ c.place \in Int /\ a.place \in Int  BY <2>1, <1>8
  <2>3. b.place \in 1..Len(LinkOrder) /\ Len(LinkOrder) \in Nat
    BY <1>1, DepthEdges, TraversalAssumption
  <2>4. b # a  BY <2>2, <2>3, <1>9
  <2> QED  BY <2>1, <2>4, <1>1
<1>10. (\A n \in visited : \A b \in EdgesOf(question, n) : MetAbove(0, n, b))'
  <2>1. \A n \in visited : \A b \in EdgesOf(question, n) : MetAbove(0, n, b)'
    BY <1>1, <1>4, <1>5
  <2> QED  BY <2>1, <1>1
<1>11. ASSUME NEW i \in DOMAIN waiting, i \in DOMAIN waiting' PROVE Owed(i)'
  <2>1. PICK p \in DOMAIN order : \E b \in EdgesOf(question, order[p]) : OwedFor(i, p, b)
    BY <1>4 DEF Owed
  <2>2. PICK b \in EdgesOf(question, order[p]) : OwedFor(i, p, b)  BY <2>1
  <2>3. i \in Nat /\ i <= l  BY <1>1
  <2>4. \A n, c : MetAbove(i, n, c) => MetAbove(i, n, c)'  BY <2>3, <1>5
  <2>5. waiting'[i] = waiting[i]  BY <1>1
  <2>6. OwedFor(i, p, b)'
    BY <2>2, <2>4, <2>5, <1>1, <1>3, OwedStays
  <2> QED  BY <2>2, <2>6, <1>1, <1>3 DEF Owed
<1>12. ASSUME x \notin visited, NEW i, i = Len(waiting') PROVE Owed(i)'
  <2>1. order[Len(order)] = End(walk)  BY <1>4
  <2>2. ASSUME NEW b \in EdgesOf(question, End(walk)), b.place < a.place
        PROVE  \E n : n = End(walk) /\ MetAbove(i, n, b)'
    <3>1. b \in left  BY <2>2, <1>4
    <3>2. b # a
      <4>1. a.place \in 1..Len(LinkOrder) /\ Len(LinkOrder) \in Nat
        BY <1>1, DepthEdges, TraversalAssumption
      <4> QED  BY <4>1, <2>2
    <3>3. b \in left' /\ walk' = walk /\ walk # <<>>  BY <3>1, <3>2, <1>1
    <3> QED  BY <3>3 DEF MetAbove, Current
  <2>3. (\A b \in EdgesOf(question, order[Len(order)]) : b.place < a.place => MetAbove(i, order[Len(order)], b))'
    BY <2>1, <2>2, <1>1, <1>3 DEF MetAbove, Current
  <2>4. (\A m \in DOMAIN order : m > Len(order) =>
           \A b \in EdgesOf(question, order[m]) : MetAbove(i, order[m], b))'
    BY <1>3, <1>7
  <2>5. (Neighbor(a) = End(waiting[i]))'
    BY <1>2, <1>12 DEF x
  <2>6. OwedFor(i, Len(order), a)'  BY <2>3, <2>4, <2>5 DEF OwedFor
  <2>7. (Len(order) \in DOMAIN order /\ a \in EdgesOf(question, order[Len(order)]))'
    BY <2>1, <1>1, <1>3, <1>7
  <2> QED  BY <2>6, <2>7 DEF Owed
<1>13. (\A i \in DOMAIN waiting : Owed(i))'
  <2> SUFFICES ASSUME NEW i \in DOMAIN waiting' PROVE Owed(i)'  OBVIOUS
  <2>1. i \in DOMAIN waiting \/ (x \notin visited /\ i = Len(waiting'))  BY <1>1, <1>2
  <2> QED  BY <2>1, <1>11, <1>12
<1>14. Listed' = Listed  BY <1>3 DEF Listed
<1> QED
  BY <1>1, <1>3, <1>4, <1>9, <1>10, <1>13, <1>14 DEF StackInv

\* With an empty stack all that is visited leads to nothing else.
LEMMA DepthFinish ==
  ASSUME SearchTypeOK, DepthInv, question.of = "dfs", Finish
  PROVE  SearchesReachTheBall' /\ PathsAreShortest'
<1>0. question \in SearchQuestions /\ left = {} /\ waiting = <<>> /\ StackInv
  BY DEF SearchTypeOK, Finish, DepthInv
<1>1. answer' = <<order>> /\ question' = question  BY DEF Finish, Reply, Found
<1>2. Result' = order  BY <1>1 DEF Result
<1>3. waiting # <<<<question.start>>>>
  <2>1. Len(<<<<question.start>>>>) = 1 /\ Len(<<>>) = 0  OBVIOUS
  <2> QED  BY <2>1, <1>0
<1>4. /\ visited = Listed /\ Once(order) /\ visited \subseteq Around(question, Farthest)
      /\ order # <<>> /\ question.start \in visited /\ Preorder(order, question)
      /\ \A n \in visited : \A b \in EdgesOf(question, n) : Neighbor(b) \in visited
  BY <1>0, <1>3 DEF StackInv, MetAbove
<1>5. Around(question, Farthest) \subseteq visited
  <2>1. Onward(question.g, question.rels, Both(question), visited) \subseteq visited
    BY <1>0, <1>4, OnwardIsMet
  <2>2. {question.start} \cap Nodes \subseteq visited  BY <1>4
  <2>3. \A d \in Nat : Ball(question.g, question.start, question.rels, Both(question))[d] \subseteq visited
    BY <2>1, <2>2, BallLeast
  <2>4. Farthest \in Nat  BY <1>0, NearFacts
  <2> QED  BY <2>3, <2>4 DEF Around, Both
<1>6. {order[i] : i \in DOMAIN order} = Around(question, Farthest)  BY <1>4, <1>5 DEF Listed
<1>7. SearchesReachTheBall'
  BY <1>1, <1>2, <1>4, <1>6 DEF SearchesReachTheBall, Answered
<1>8. PathsAreShortest'  BY <1>1 DEF PathsAreShortest, Answered
<1> QED  BY <1>7, <1>8

-----------------------------------------------------------------------------
(* The specification of the searches.                                      *)

\* A step that changes nothing.
LEMMA SearchStutter ==
  ASSUME SearchInvariant, UNCHANGED searchVars
  PROVE  SearchInvariant'
<1> USE DEF searchVars, locals
<1>1. /\ Searching' = Searching /\ OnStack' = OnStack /\ Lists' = Lists /\ Listed' = Listed
      /\ \A n : (Waits(n)' <=> Waits(n)) /\ (Current(n)' <=> Current(n)) /\ (InOrder(n)' <=> InOrder(n))
      /\ \A n : KinOf(n)' <=> KinOf(n)
      /\ \A w : GoesOn(w)' <=> GoesOn(w)
  BY DEF Searching, OnStack, Lists, Listed, Waits, Current, InOrder, KinOf, GoesOn
<1>2. /\ \A a : Handled(a)' <=> Handled(a)
      /\ \A i, n, b : MetAbove(i, n, b)' <=> MetAbove(i, n, b)
  BY <1>1 DEF Handled, MetAbove
<1>3. BreadthInv'
  <2> SUFFICES ASSUME Searching, ~ OnStack PROVE BreadthInv'  BY <1>1 DEF BreadthInv
  <2>1. StrayInv => StrayInv'  BY DEF StrayInv
  <2>2. QueueInv => QueueInv'  BY <1>1 DEF QueueInv
  <2>3. VisitedInv => VisitedInv'  BY <1>1, <1>2 DEF VisitedInv
  <2>4. ListsInv => ListsInv'  BY <1>1 DEF ListsInv
  <2>5. TriplesInv => TriplesInv'  BY DEF TriplesInv
  <2>6. PathInvariant => PathInvariant'  BY DEF PathInvariant
  <2> QED  BY <2>1, <2>2, <2>3, <2>4, <2>5, <2>6 DEF BreadthInv, SearchInvariant
<1>4. DepthInv'
  <2> SUFFICES ASSUME Searching, question.of = "dfs" PROVE StackInv'  BY <1>1 DEF DepthInv
  <2>1. \A i : Owed(i) => Owed(i)'  BY <1>2 DEF Owed, OwedFor
  <2> QED  BY <2>1, <1>1, <1>2 DEF DepthInv, StackInv, SearchInvariant
<1>5. AncestorsInv'
  BY <1>1 DEF AncestorsInv, SearchInvariant
<1>6. SearchesReachTheBall' /\ PathsAreShortest'
  BY DEF SearchesReachTheBall, PathsAreShortest, Answered, Result, SearchInvariant
<1>7. SearchTypeOK'
  BY SearchTypeStep DEF SearchInvariant
<1> QED  BY <1>3, <1>4, <1>5, <1>6, <1>7 DEF SearchInvariant

\* Nothing is under way at first.
LEMMA SearchInvariantInit ==
  ASSUME SearchInit
  PROVE  SearchInvariant
<1>1. ~ Searching /\ answer = Unanswered  BY DEF SearchInit, Idle, Searching
<1>2. SearchTypeOK
  <2>1. visited = {} /\ waiting = <<>> /\ walk = <<>> /\ left = {} /\ order = <<>> /\ running = FALSE
    BY DEF SearchInit, Idle
  <2>2. /\ <<>> \in Seq(Seq(Ids)) /\ <<>> \in Seq(Ids) /\ <<>> \in Seq(Ids \cup EdgeKeys)
        /\ DOMAIN <<>> = {}
    OBVIOUS
  <2> QED  BY <2>1, <2>2 DEF SearchTypeOK, SearchInit
<1>3. SearchesReachTheBall /\ PathsAreShortest
  BY <1>1 DEF SearchesReachTheBall, PathsAreShortest, Answered
<1> QED  BY <1>1, <1>2, <1>3 DEF SearchInvariant, BreadthInv, DepthInv, AncestorsInv

\* No turn of a loop breaks its invariant, and each answer follows from it.
LEMMA SearchInvariantStep ==
  ASSUME SearchInvariant, [SearchNext]_searchVars
  PROVE  SearchInvariant'
<1>0. SearchTypeOK' /\ SearchTypeOK /\ BreadthInv /\ DepthInv /\ AncestorsInv
  BY SearchTypeStep DEF SearchInvariant
<1>1. ASSUME NEW r, Reply(r), SearchesReachTheBall', PathsAreShortest' PROVE SearchInvariant'
  <2>1. answer' # Unanswered  BY <1>1 DEF Reply, Unanswered
  <2> QED  BY <2>1, <1>0, <1>1 DEF SearchInvariant, BreadthInv, DepthInv, AncestorsInv, Searching
<1>2. ASSUME answer' = Unanswered PROVE SearchesReachTheBall' /\ PathsAreShortest'
  BY <1>2 DEF SearchesReachTheBall, PathsAreShortest, Answered
<1>3. CASE Refuse \/ StayAtStart
  BY <1>1, <1>0, <1>3, EarlyAnswers DEF Refuse, StayAtStart
<1>4. CASE Enter
  <2>1. answer' = Unanswered  BY <1>4 DEF Enter
  <2> QED
    BY <1>0, <1>2, <1>4, <2>1, BreadthEnter, DepthEnter, AncestorsEnter DEF SearchInvariant
<1>5. CASE Take
  <2>1. answer' = Unanswered  BY <1>5 DEF Take, Searching
  <2> QED
    BY <1>0, <1>2, <1>5, <2>1, BreadthTake, DepthTake, AncestorsTake DEF SearchInvariant
<1>6. CASE Finish
  <2>1. Reply(Found)  BY <1>6 DEF Finish
  <2>2. CASE ~ OnStack  BY <1>0, <1>1, <1>6, <2>1, <2>2, BreadthFinish
  <2>3. CASE question.of = "dfs"  BY <1>0, <1>1, <1>6, <2>1, <2>3, DepthFinish
  <2>4. CASE question.of = "ancestors"  BY <1>0, <1>1, <1>6, <2>1, <2>4, AncestorsFinish
  <2> QED  BY <2>2, <2>3, <2>4 DEF OnStack
<1>7. ASSUME NEW a \in left, Arrive(a) PROVE SearchInvariant'
  BY <1>0, <1>1, <1>7, ArriveAnswers DEF Arrive
<1>8. ASSUME NEW a \in left, LookAt(a) PROVE SearchInvariant'
  <2>1. answer' = Unanswered  BY <1>8 DEF LookAt, Searching
  <2> QED
    BY <1>0, <1>2, <1>8, <2>1, BreadthLook, DepthLook, AncestorsLook DEF SearchInvariant
<1>9. CASE UNCHANGED searchVars  BY <1>9, SearchStutter
<1> QED
  BY <1>3, <1>4, <1>5, <1>6, <1>7, <1>8, <1>9 DEF SearchNext

-----------------------------------------------------------------------------
(* All the questions.                                                      *)

\* The kind of a question tells which of the sets it is from.
LEMMA KindsApart ==
  ASSUME question \in Questions
  PROVE  /\ \/ question \in SearchQuestions
            \/ question \in ActivationQuestions
            \/ question \in ChoiceQuestions
            \/ question \in ChainQuestions
         /\ question \in SearchQuestions =>
              question.of \in Limited \cup {"bfs", "dfs", "ancestors", "descendants", "shortest_path"}
         /\ question \in ActivationQuestions <=> question.of = "activate"
         /\ question \in ChoiceQuestions <=>
              question.of \in {"resolve_belief_contradiction", "resolve_hypotheses_conflict",
                               "prune_candidates", "resolve"}
         /\ question \in ChainQuestions <=> question.of = "backward_chain"
<1>1. question \in SearchQuestions =>
        question.of \in Limited \cup {"bfs", "dfs", "ancestors", "descendants", "shortest_path"}
  BY DEF SearchQuestions
<1>2. question \in ActivationQuestions => question.of = "activate"
  BY DEF ActivationQuestions
<1>3. question \in ChoiceQuestions =>
        question.of \in {"resolve_belief_contradiction", "resolve_hypotheses_conflict",
                         "prune_candidates", "resolve"}
  BY DEF ChoiceQuestions
<1>4. question \in ChainQuestions => question.of = "backward_chain"
  BY DEF ChainQuestions
<1> QED  BY <1>1, <1>2, <1>3, <1>4 DEF Questions, Limited

\* A question stays as it was asked, and only its algorithm takes steps.
LEMMA OneAlgorithm ==
  ASSUME question \in Questions, [QueryNext]_queryVars
  PROVE  /\ question' = question
         /\ question \in SearchQuestions => [SearchNext]_searchVars
         /\ question \in ActivationQuestions => [Activate]_queryVars
         /\ question \in ChoiceQuestions => [Choose]_searchVars
         /\ question \in ChainQuestions => [BackwardChain]_searchVars
<1>1. UNCHANGED queryVars => UNCHANGED searchVars  BY DEF queryVars
<1>2. UNCHANGED searchVars => question' = question  BY DEF searchVars
<1>3. CASE AskSearch
  <2>1. question' = question
    BY <1>3 DEF AskSearch, SearchNext, Refuse, StayAtStart, Enter, Take, Finish, Arrive, LookAt, Reply
  <2> QED  BY <1>3, <2>1, KindsApart DEF AskSearch, Limited
<1>4. CASE AskActivate
  <2>1. question' = question
    BY <1>4 DEF AskActivate, Activate, Seed, TakeEntry, Spread, Settle, Reply
  <2> QED  BY <1>4, <2>1, KindsApart DEF AskActivate, Limited
<1>5. CASE AskChoice
  <2>1. Choose => question' = question /\
          question.of \in {"resolve_belief_contradiction", "resolve_hypotheses_conflict",
                           "prune_candidates", "resolve"}
    BY DEF Choose, AskBeliefs, AskHypotheses, AskPrune, AskProvider, Answers, Reply
  <2> QED  BY <1>5, <2>1, KindsApart DEF AskChoice, Limited
<1>6. CASE AskBackwardChain
  <2>1. question' = question
    BY <1>6 DEF AskBackwardChain, BackwardChain, ProveGoal, ProveCondition, ListRule, ReturnChain, Reply
  <2> QED  BY <1>6, <2>1, KindsApart DEF AskBackwardChain, Limited
<1> QED  BY <1>1, <1>2, <1>3, <1>4, <1>5, <1>6 DEF QueryNext, Rest

SearchesInv == question \in Questions /\ (question \in SearchQuestions => SearchInvariant)

\* The invariant of the searches: the queue in the order of the distance, the stack in

\* preorder, the ancestors closed but for what waits.
THEOREM SearchesKeepTheirInvariant == QuerySpec => []SearchesInv
<1>1. QueryInit => SearchesInv
  BY SearchInvariantInit DEF QueryInit, SearchInit, SearchesInv
<1>2. SearchesInv /\ [QueryNext]_queryVars => SearchesInv'
  BY SearchInvariantStep, OneAlgorithm DEF SearchesInv
<1> QED  BY <1>1, <1>2, PTL DEF QuerySpec

\* Every search of GraphTraversal, and traverse of the knowledge graph, answers with the

\* nodes within its reach, once each and in its order, whatever the graph.
THEOREM SearchesAreExact == QuerySpec => []SearchesReachTheBall
<1>1. SearchesInv => SearchesReachTheBall
  <2> SUFFICES ASSUME SearchesInv, question \notin SearchQuestions PROVE SearchesReachTheBall
    BY DEF SearchesInv, SearchInvariant
  <2>1. question.of \notin Limited \cup {"bfs", "dfs", "ancestors", "descendants", "shortest_path"}
    BY KindsApart DEF SearchesInv, Limited
  <2> QED  BY <2>1 DEF SearchesReachTheBall, Answered, Limited
<1> QED  BY <1>1, SearchesKeepTheirInvariant, PTL

\* shortest_path answers with a walk no other beats, or None when there is none.
THEOREM ShortestPathIsShortest == QuerySpec => []PathsAreShortest
<1>1. SearchesInv => PathsAreShortest
  <2> SUFFICES ASSUME SearchesInv, question \notin SearchQuestions PROVE PathsAreShortest
    BY DEF SearchesInv, SearchInvariant
  <2>1. question.of # "shortest_path"
    BY KindsApart DEF SearchesInv, Limited
  <2> QED  BY <2>1 DEF PathsAreShortest, Answered
<1> QED  BY <1>1, SearchesKeepTheirInvariant, PTL

-----------------------------------------------------------------------------
(* Recursive functions of a natural number, and sums.                      *)

\* A function constructor is typed by its values.
LEMMA FunctionTyped ==
  ASSUME NEW S, NEW V, NEW f, f = [x \in S |-> f[x]], \A x \in S : f[x] \in V
  PROVE  f \in [S -> V]
OBVIOUS

RecursionTo(base, H, f, n) == f[0] = base /\ \A i \in 1..n : f[i] = H[<<i, f[i - 1]>>]

Recursion(V, base, H) ==
  \E f \in [Nat -> V] : f[0] = base /\ \A n \in Nat : f[n + 1] = H[<<n + 1, f[n]>>]

\* A step that stays in a set defines a function on the naturals.
LEMMA RecursionExists ==
  ASSUME NEW V, NEW base \in V, NEW H \in [Nat \X V -> V]
  PROVE  Recursion(V, base, H)
<1> DEFINE T == {n \in Nat : \E f \in [0..n -> V] : RecursionTo(base, H, f, n)}
<1>1. 0 \in T
  <2>1. [i \in 0..0 |-> base] \in [0..0 -> V] /\ RecursionTo(base, H, [i \in 0..0 |-> base], 0)
    BY DEF RecursionTo
  <2> QED  BY <2>1
<1>2. ASSUME NEW n \in T PROVE n + 1 \in T
  <2>1. PICK f \in [0..n -> V] : RecursionTo(base, H, f, n)  OBVIOUS
  <2> DEFINE h == [i \in 0..n + 1 |-> IF i = n + 1 THEN H[<<n + 1, f[n]>>] ELSE f[i]]
  <2>2. f[n] \in V /\ n + 1 \in Nat  BY <2>1
  <2>3. h \in [0..n + 1 -> V]
    <3>1. H[<<n + 1, f[n]>>] \in V  BY <2>2
    <3>2. \A i \in 0..n + 1 : i # n + 1 => i \in 0..n  OBVIOUS
    <3>3. \A i \in 0..n + 1 : h[i] \in V
      <4> TAKE i \in 0..n + 1
      <4>1. CASE i = n + 1  BY <4>1, <3>1
      <4>2. CASE i # n + 1
        <5>1. i \in 0..n  BY <4>2, <3>2
        <5>2. f[i] \in V  BY <5>1, <2>1
        <5>3. h[i] = f[i]  BY <4>2
        <5> QED  BY <5>2, <5>3
      <4> QED  BY <4>1, <4>2
    <3>4. h = [i \in 0..n + 1 |-> h[i]]  OBVIOUS
    <3> HIDE DEF h, T
    <3> QED  BY ONLY <3>3, <3>4, FunctionTyped
  <2>4. h[0] = base  BY <2>1 DEF RecursionTo
  <2>5. ASSUME NEW i \in 1..n + 1 PROVE h[i] = H[<<i, h[i - 1]>>]
    <3>1. CASE i = n + 1
      <4>1. i - 1 = n /\ n \in 0..n + 1 /\ n # n + 1  BY <3>1
      <4>2. h[n] = f[n]  BY <4>1
      <4>3. h[n + 1] = H[<<n + 1, f[n]>>]  BY <4>1
      <4> QED  BY <3>1, <4>1, <4>2, <4>3
    <3>2. CASE i # n + 1
      <4>1. h[i] = f[i] /\ h[i - 1] = f[i - 1] /\ i \in 1..n  BY <3>2
      <4> QED  BY <4>1, <2>1 DEF RecursionTo
    <3> QED  BY <3>1, <3>2
  <2>6. RecursionTo(base, H, h, n + 1)  BY <2>4, <2>5 DEF RecursionTo
  <2> QED  BY <2>3, <2>6
<1>3. T = Nat
  <2> HIDE DEF T
  <2> QED  BY <1>1, <1>2, AllNaturals DEF T
<1> DEFINE some == [n \in Nat |-> CHOOSE f \in [0..n -> V] : RecursionTo(base, H, f, n)]
           diag == [n \in Nat |-> some[n][n]]
<1>4. \A n \in Nat : some[n] \in [0..n -> V] /\ RecursionTo(base, H, some[n], n)
  <2> TAKE n \in Nat
  <2>1. \E f \in [0..n -> V] : RecursionTo(base, H, f, n)  BY <1>3
  <2> QED  BY <2>1
<1> HIDE DEF some
<1>5. diag \in [Nat -> V]
  <2>1. \A n \in Nat : some[n][n] \in V  BY <1>4
  <2> QED  BY <2>1
<1>6. diag[0] = base  BY <1>4 DEF RecursionTo
<1>7. ASSUME NEW n \in Nat PROVE diag[n + 1] = H[<<n + 1, diag[n]>>]
  <2>1. some[n + 1][n + 1] = H[<<n + 1, some[n + 1][n]>>]
    <3>1. n + 1 \in Nat /\ n + 1 \in 1..n + 1 /\ (n + 1) - 1 = n  OBVIOUS
    <3> QED  BY <3>1, <1>4 DEF RecursionTo
  <2> DEFINE U == {i \in Nat : i <= n => some[n + 1][i] = some[n][i]}
  <2>2. 0 \in U  BY <1>4 DEF RecursionTo
  <2>3. ASSUME NEW i \in U PROVE i + 1 \in U
    <3> SUFFICES ASSUME i + 1 <= n PROVE some[n + 1][i + 1] = some[n][i + 1]  OBVIOUS
    <3>1. /\ some[n + 1][i] = some[n][i] /\ n + 1 \in Nat
          /\ i + 1 \in 1..n /\ i + 1 \in 1..n + 1 /\ (i + 1) - 1 = i  OBVIOUS
    <3>2. some[n][i + 1] = H[<<i + 1, some[n][i]>>]
      <4>1. RecursionTo(base, H, some[n], n)  BY <1>4
      <4> QED  BY <4>1, <3>1 DEF RecursionTo
    <3>3. some[n + 1][i + 1] = H[<<i + 1, some[n + 1][i]>>]
      <4>1. RecursionTo(base, H, some[n + 1], n + 1)  BY <1>4, <3>1
      <4> QED  BY <4>1, <3>1 DEF RecursionTo
    <3> QED  BY <3>1, <3>2, <3>3
  <2>4. U = Nat
    <3> HIDE DEF U
    <3> QED  BY <2>2, <2>3, AllNaturals DEF U
  <2>5. some[n + 1][n] = some[n][n]  BY <2>4
  <2> QED  BY <2>1, <2>5
<1> QED  BY <1>5, <1>6, <1>7 DEF Recursion

SumsOf(s, f) == f[0] = 0 /\ \A i \in 1..Len(s) : f[i] = f[i - 1] + s[i]

\* Sums of natural numbers are natural numbers.
LEMMA SumsTyped ==
  ASSUME NEW s \in Seq(Nat), NEW c, SumsOf(s, c)
  PROVE  \A i \in 0..Len(s) : c[i] \in Nat
<1> DEFINE T == {i \in Nat : i <= Len(s) => c[i] \in Nat}
<1>1. 0 \in T  BY DEF SumsOf
<1>2. ASSUME NEW i \in T PROVE i + 1 \in T
  <2>1. ASSUME i + 1 <= Len(s) PROVE c[i + 1] \in Nat
    <3>1. i \in Nat /\ i + 1 \in 1..Len(s) /\ (i + 1) - 1 = i /\ i <= Len(s)  BY <2>1
    <3>2. c[i] \in Nat  BY <3>1
    <3>3. s[i + 1] \in Nat  BY <3>1
    <3>4. c[i + 1] = c[i] + s[i + 1]  BY <3>1 DEF SumsOf
    <3> QED  BY <3>2, <3>3, <3>4
  <2>2. i + 1 \in Nat  OBVIOUS
  <2> QED  BY <2>1, <2>2
<1>3. T = Nat
  <2> HIDE DEF T
  <2> QED  BY <1>1, <1>2, AllNaturals DEF T
<1> QED  BY <1>3

\* The recursive definition of Total defines it.
LEMMA TotalUnfolds ==
  ASSUME NEW s \in Seq(Nat)
  PROVE  \E f \in [0..Len(s) -> Nat] : SumsOf(s, f) /\ Total(s) = f[Len(s)]
<1> DEFINE H == [p \in Nat \X Nat |-> IF p[1] \in 1..Len(s) THEN p[2] + s[p[1]] ELSE p[2]]
           Is(f) == f = [i \in 0..Len(s) |-> IF i = 0 THEN 0 ELSE f[i - 1] + s[i]]
<1>1. H \in [Nat \X Nat -> Nat]  OBVIOUS
<1>2. PICK f \in [Nat -> Nat] : f[0] = 0 /\ \A n \in Nat : f[n + 1] = H[<<n + 1, f[n]>>]
  <2> HIDE DEF H
  <2>1. 0 \in Nat  OBVIOUS
  <2>2. Recursion(Nat, 0, H)  BY <1>1, <2>1, RecursionExists
  <2> QED  BY <2>2 DEF Recursion
<1> DEFINE h == [i \in 0..Len(s) |-> f[i]]
<1>3. \A i \in 1..Len(s) : f[i] = f[i - 1] + s[i]
  <2> TAKE i \in 1..Len(s)
  <2>1. i - 1 \in Nat /\ (i - 1) + 1 = i  OBVIOUS
  <2>2. f[i] = H[<<i, f[i - 1]>>] /\ f[i - 1] \in Nat /\ i \in Nat
    <3> HIDE DEF H
    <3> QED  BY <1>2, <2>1
  <2>3. H[<<i, f[i - 1]>>] = f[i - 1] + s[i]  BY <2>2
  <2> QED  BY <2>2, <2>3
<1>4. Is(h)
  <2>1. \A i \in 0..Len(s) : i # 0 => i - 1 \in 0..Len(s) /\ i \in 1..Len(s)  OBVIOUS
  <2> QED  BY <1>2, <1>3, <2>1
<1>5. Total(s) = (CHOOSE g : Is(g))[Len(s)]  BY DEF Total
<1> DEFINE c == CHOOSE g : Is(g)
<1>6. Is(c)
  <2> HIDE DEF Is
  <2> QED  BY <1>4
<1> HIDE DEF c
<1>7. c[0] = 0 /\ \A i \in 1..Len(s) : c[i] = c[i - 1] + s[i]
  <2>1. c = [i \in 0..Len(s) |-> IF i = 0 THEN 0 ELSE c[i - 1] + s[i]]  BY <1>6
  <2> HIDE DEF Is
  <2>2. \A i \in 1..Len(s) : i \in 0..Len(s) /\ i # 0  OBVIOUS
  <2>3. 0 \in 0..Len(s)  OBVIOUS
  <2> QED  BY <2>1, <2>2, <2>3
<1>8. SumsOf(s, c)  BY <1>7 DEF SumsOf
<1>11. c \in [0..Len(s) -> Nat]
  <2>1. c = [i \in 0..Len(s) |-> IF i = 0 THEN 0 ELSE c[i - 1] + s[i]]  BY <1>6
  <2>2. c = [i \in 0..Len(s) |-> c[i]]  BY <2>1
  <2> HIDE DEF Is
  <2>3. \A i \in 0..Len(s) : c[i] \in Nat  BY <1>8, SumsTyped
  <2> QED  BY <2>2, <2>3, FunctionTyped
<1> QED  BY <1>5, <1>8, <1>11 DEF c

\* Whatever has the sums of s at each place has its total at the last.
LEMMA TotalOf ==
  ASSUME NEW s \in Seq(Nat), NEW f, SumsOf(s, f)
  PROVE  f[Len(s)] = Total(s)
<1>1. PICK g \in [0..Len(s) -> Nat] : SumsOf(s, g) /\ Total(s) = g[Len(s)]  BY TotalUnfolds
<1> DEFINE T == {i \in Nat : i <= Len(s) => f[i] = g[i]}
<1>2. 0 \in T  BY <1>1 DEF SumsOf
<1>3. ASSUME NEW i \in T PROVE i + 1 \in T
  <2> SUFFICES ASSUME i + 1 <= Len(s) PROVE f[i + 1] = g[i + 1]  OBVIOUS
  <2>1. f[i] = g[i] /\ i + 1 \in 1..Len(s) /\ (i + 1) - 1 = i  OBVIOUS
  <2> QED  BY <2>1, <1>1 DEF SumsOf
<1>4. T = Nat
  <2> HIDE DEF T
  <2> QED  BY <1>2, <1>3, AllNaturals DEF T
<1> QED  BY <1>1, <1>4

\* A total is a natural number; an element more adds to it.
LEMMA TotalAppend ==
  ASSUME NEW s \in Seq(Nat), NEW x \in Nat
  PROVE  Total(s) \in Nat /\ Total(Append(s, x)) = Total(s) + x
<1>1. PICK f \in [0..Len(s) -> Nat] : SumsOf(s, f) /\ Total(s) = f[Len(s)]  BY TotalUnfolds
<1> DEFINE t == Append(s, x)
           h == [i \in 0..Len(s) + 1 |-> IF i = Len(s) + 1 THEN Total(s) + x ELSE f[i]]
<1>2. t \in Seq(Nat) /\ Len(t) = Len(s) + 1 /\ t[Len(s) + 1] = x /\ \A i \in 1..Len(s) : t[i] = s[i]
  OBVIOUS
<1>3. SumsOf(t, h)
  <2>1. h[0] = 0  BY <1>1 DEF SumsOf
  <2>2. ASSUME NEW i \in 1..Len(s) + 1 PROVE h[i] = h[i - 1] + t[i]
    <3>1. CASE i = Len(s) + 1  BY <3>1, <1>1, <1>2
    <3>2. CASE i # Len(s) + 1
      <4>1. h[i] = f[i] /\ h[i - 1] = f[i - 1] /\ i \in 1..Len(s)  BY <3>2
      <4> QED  BY <4>1, <1>1, <1>2 DEF SumsOf
    <3> QED  BY <3>1, <3>2
  <2> QED  BY <1>2, <2>1, <2>2 DEF SumsOf
<1>4. h[Len(t)] = Total(t)  BY <1>2, <1>3, TotalOf
<1> QED  BY <1>1, <1>2, <1>4

\* One less takes from it.
LEMMA TotalTail ==
  ASSUME NEW s \in Seq(Nat), s # <<>>
  PROVE  Total(s) = s[1] + Total(Tail(s))
<1>1. PICK f \in [0..Len(s) -> Nat] : SumsOf(s, f) /\ Total(s) = f[Len(s)]  BY TotalUnfolds
<1> DEFINE t == Tail(s)
           h == [i \in 0..Len(s) - 1 |-> f[i + 1] - s[1]]
<1>2. t \in Seq(Nat) /\ Len(t) = Len(s) - 1 /\ Len(s) \in Nat \ {0} /\ s[1] \in Nat
      /\ \A i \in 1..Len(t) : t[i] = s[i + 1]
  OBVIOUS
<1>3. SumsOf(t, h)
  <2>1. f[1] = f[0] + s[1]
    <3>1. 1 \in 1..Len(s) /\ 1 - 1 = 0  BY <1>2
    <3> QED  BY <3>1, <1>1 DEF SumsOf
  <2>2. h[0] = 0
    <3>1. 0 \in 0..Len(s) - 1 /\ f[0] = 0  BY <1>1, <1>2 DEF SumsOf
    <3> QED  BY <3>1, <2>1, <1>2
  <2>3. ASSUME NEW i \in 1..Len(t) PROVE h[i] = h[i - 1] + t[i]
    <3>1. i + 1 \in 1..Len(s) /\ (i + 1) - 1 = i /\ i \in 0..Len(s) /\ (i - 1) + 1 = i  BY <1>2
    <3>2. h[i] = f[i + 1] - s[1] /\ h[i - 1] = f[i] - s[1]  BY <1>2, <3>1
    <3>3. f[i + 1] = f[i] + s[i + 1]  BY <3>1, <1>1 DEF SumsOf
    <3>4. f[i] \in Nat /\ s[i + 1] \in Nat  BY <3>1
    <3> QED  BY <3>2, <3>3, <3>4, <1>2
  <2> QED  BY <2>2, <2>3 DEF SumsOf
<1>4. h[Len(t)] = Total(t)  BY <1>2, <1>3, TotalOf
<1>5. h[Len(t)] = f[Len(s)] - s[1]  BY <1>2
<1>6. f[Len(s)] \in Nat  OBVIOUS
<1> QED  BY <1>1, <1>2, <1>4, <1>5, <1>6

\* Another element in one place changes it by the difference.
LEMMA TotalReplace ==
  ASSUME NEW s \in Seq(Nat), NEW i \in 1..Len(s), NEW t \in Seq(Nat), Len(t) = Len(s),
         \A j \in 1..Len(s) : j # i => t[j] = s[j]
  PROVE  Total(t) + s[i] = Total(s) + t[i]
<1>1. PICK f \in [0..Len(s) -> Nat] : SumsOf(s, f) /\ Total(s) = f[Len(s)]  BY TotalUnfolds
<1> DEFINE h == [j \in 0..Len(s) |-> IF j < i THEN f[j] ELSE f[j] - s[i] + t[i]]
<1>2. SumsOf(t, h)
  <2>1. h[0] = 0  BY <1>1 DEF SumsOf
  <2>2. ASSUME NEW j \in 1..Len(t) PROVE h[j] = h[j - 1] + t[j]
    <3>1. /\ j \in 1..Len(s) /\ j \in 0..Len(s) /\ j - 1 \in 0..Len(s)
      OBVIOUS
    <3>a. f[j] \in Nat /\ f[j - 1] \in Nat  BY <3>1
    <3>b. i \in 1..Len(s) /\ i \in 1..Len(t)  OBVIOUS
    <3>c. s[i] \in Nat /\ s[j] \in Nat  BY <3>1, <3>b
    <3>d. t[i] \in Nat  BY <3>b
    <3> USE <3>a, <3>c, <3>d
    <3>2. f[j] = f[j - 1] + s[j]  BY <1>1, <3>1 DEF SumsOf
    <3>3. CASE j < i
      <4>1. h[j] = f[j] /\ h[j - 1] = f[j - 1] /\ t[j] = s[j]  BY <3>1, <3>3
      <4> QED  BY <4>1, <3>2
    <3>4. CASE j = i
      <4>1. h[j] = f[j] - s[i] + t[i] /\ h[j - 1] = f[j - 1]  BY <3>1, <3>4
      <4> QED  BY <4>1, <3>1, <3>2, <3>4
    <3>5. CASE j > i
      <4>1. h[j] = f[j] - s[i] + t[i] /\ h[j - 1] = f[j - 1] - s[i] + t[i] /\ t[j] = s[j]
        <5>1. ~(j < i) /\ ~(j - 1 < i) /\ j # i  BY <3>1, <3>5
        <5>2. h[j] = f[j] - s[i] + t[i] /\ h[j - 1] = f[j - 1] - s[i] + t[i]  BY <5>1, <3>1
        <5>3. t[j] = s[j]
          <6> HIDE DEF h
          <6> QED  BY <5>1, <3>1
        <5> QED  BY <5>2, <5>3
      <4> DEFINE a == f[j]  b == f[j - 1]  c == s[i]  d == t[i]  e == s[j]
      <4>2. a \in Nat /\ b \in Nat /\ c \in Nat /\ d \in Nat /\ e \in Nat /\ a = b + e  BY <3>2
      <4>3. a - c + d = b - c + d + e
        <5> HIDE DEF a, b, c, d, e
        <5> QED  BY ONLY <4>2
      <4> HIDE DEF h
      <4> QED  BY ONLY <4>1, <4>3
    <3> QED  BY <3>3, <3>4, <3>5
  <2> QED  BY <2>1, <2>2 DEF SumsOf
<1>3. h[Len(t)] = Total(t)  BY <1>2, TotalOf
<1>4. h[Len(t)] = f[Len(s)] - s[i] + t[i] /\ f[Len(s)] \in Nat /\ s[i] \in Nat /\ t[i] \in Nat
  OBVIOUS
<1> QED  BY <1>1, <1>3, <1>4

\* Nothing adds up to nothing.
LEMMA TotalZero ==
  ASSUME NEW s \in Seq(Nat), \A i \in 1..Len(s) : s[i] = 0
  PROVE  Total(s) = 0
<1> DEFINE h == [i \in 0..Len(s) |-> 0]
<1>1. SumsOf(s, h)  BY DEF SumsOf
<1>2. h[Len(s)] = Total(s)
  <2> HIDE DEF h
  <2> QED  BY <1>1, TotalOf
<1> QED  BY <1>2

\* Nothing, and one number, add up to themselves.
LEMMA TotalShort ==
  ASSUME NEW x \in Nat
  PROVE  Total(<<>>) = 0 /\ Total(<<x>>) = x
<1> DEFINE s == <<>>
<1>1. s \in Seq(Nat) /\ \A i \in 1..Len(s) : s[i] = 0  OBVIOUS
<1>2. Append(s, x) = <<x>>  OBVIOUS
<1> HIDE DEF s
<1>3. Total(s) = 0  BY <1>1, TotalZero
<1>4. Total(Append(s, x)) = Total(s) + x  BY <1>1, TotalAppend
<1> QED  BY <1>2, <1>3, <1>4 DEF s

\* The rest of a sequence, place by place.
LEMMA TailPlaces ==
  ASSUME NEW s \in Seq(Nat), s # <<>>
  PROVE  Tail(s) = [i \in 1..Len(s) - 1 |-> s[i + 1]]
<1> DEFINE t == Tail(s)
<1>1. t \in Seq(Nat) /\ Len(t) = Len(s) - 1 /\ \A i \in 1..Len(s) - 1 : t[i] = s[i + 1]  OBVIOUS
<1> HIDE DEF t
<1>2. t = [i \in 1..Len(t) |-> t[i]]  BY <1>1
<1>3. t = [i \in 1..Len(s) - 1 |-> s[i + 1]]  BY <1>1, <1>2
<1> QED  BY <1>3 DEF t

-----------------------------------------------------------------------------
(* Spreading activation. *)

\* A gain is a natural number.
LEMMA DecayedType ==
  ASSUME NEW v \in Nat, NEW k \in EdgeKeys
  PROVE  Decayed(v, k) \in Nat
<1>1. Weight[k] \in Nat  BY ActivationAssumption
<1>2. v * Weight[k] \in Nat  BY <1>1
<1> QED  BY <1>2 DEF Decayed

\* Edges lie between nodes.
LEMMA LinkFacts ==
  ASSUME NEW i \in DOMAIN LinkOrder
  PROVE  LinkOrder[i] \in EdgeKeys /\ LinkOrder[i].source \in Nodes /\ LinkOrder[i].target \in Nodes
<1>1. LinkOrder[i] \in EdgeKeys  BY DEF EdgeKeys
<1> QED  BY <1>1, TraversalAssumption

\* One number for each edge is a sequence that adds up.
LEMMA PerLink ==
  ASSUME NEW s, s = [i \in DOMAIN LinkOrder |-> s[i]], \A i \in DOMAIN LinkOrder : s[i] \in Nat
  PROVE  s \in Seq(Nat) /\ Len(s) = Len(LinkOrder) /\ Total(s) \in Nat
<1>1. Len(LinkOrder) \in Nat /\ DOMAIN LinkOrder = 1..Len(LinkOrder)  BY TraversalAssumption
<1>2. s \in [1..Len(LinkOrder) -> Nat]  BY <1>1, FunctionTyped
<1>3. s \in Seq(Nat) /\ Len(s) = Len(LinkOrder)  BY <1>1, <1>2
<1> QED  BY <1>3, TotalAppend

\* What goes on over each edge, when `reach` says what arrives behind it.
PassedOn(g, n, v, d, reach) ==
  [i \in DOMAIN LinkOrder |->
     IF d > 0 /\ Passes(g, n, v, LinkOrder[i])
     THEN reach[LinkOrder[i].target][Decayed(v, LinkOrder[i])] ELSE 0]

\* It adds up.
LEMMA PassedOnType ==
  ASSUME NEW g, NEW n \in Nodes, NEW v \in Nat, NEW d, NEW reach \in [Nodes -> [Nat -> Nat]]
  PROVE  /\ PassedOn(g, n, v, d, reach) \in Seq(Nat)
         /\ Len(PassedOn(g, n, v, d, reach)) = Len(LinkOrder)
         /\ Total(PassedOn(g, n, v, d, reach)) \in Nat
<1> DEFINE s == PassedOn(g, n, v, d, reach)
<1>1. ASSUME NEW i \in DOMAIN LinkOrder PROVE s[i] \in Nat
  <2>1. LinkOrder[i].target \in Nodes /\ Decayed(v, LinkOrder[i]) \in Nat  BY LinkFacts, DecayedType
  <2>2. reach[LinkOrder[i].target][Decayed(v, LinkOrder[i])] \in Nat  BY <2>1
  <2> QED  BY <2>2 DEF PassedOn
<1>2. s = [i \in DOMAIN LinkOrder |-> s[i]]  BY DEF PassedOn
<1> HIDE DEF s
<1>3. s \in Seq(Nat) /\ Len(s) = Len(LinkOrder) /\ Total(s) \in Nat  BY <1>1, <1>2, PerLink
<1> QED  BY <1>3 DEF s

Layer(g, t, d, reach) ==
  [n \in Nodes |-> [v \in Nat |-> (IF n = t THEN v ELSE 0) + Total(PassedOn(g, n, v, d, reach))]]

\* A layer is typed when the one below is.
LEMMA LayerType ==
  ASSUME NEW g, NEW t, NEW d, NEW reach \in [Nodes -> [Nat -> Nat]]
  PROVE  Layer(g, t, d, reach) \in [Nodes -> [Nat -> Nat]]
<1>1. ASSUME NEW n \in Nodes, NEW v \in Nat
      PROVE  (IF n = t THEN v ELSE 0) + Total(PassedOn(g, n, v, d, reach)) \in Nat
  <2>1. Total(PassedOn(g, n, v, d, reach)) \in Nat  BY PassedOnType
  <2> QED  BY <2>1
<1> QED  BY <1>1 DEF Layer

\* The recursive definition of Reaching defines it.
LEMMA ReachingUnfolds ==
  ASSUME NEW g, NEW t
  PROVE  /\ Reaching(g, t) \in [Nat -> [Nodes -> [Nat -> Nat]]]
         /\ \A d \in Nat : Reaching(g, t)[d] = Layer(g, t, d, Reaching(g, t)[d - 1])
<1> DEFINE V == [Nodes -> [Nat -> Nat]]
           none == [n \in Nodes |-> [v \in Nat |-> 0]]
           H == [p \in Nat \X V |-> Layer(g, t, p[1], p[2])]
           Is(f) == f = [d \in Nat |-> Layer(g, t, d, f[d - 1])]
<1>1. none \in V  OBVIOUS
<1>2. Layer(g, t, 0, none) \in V  BY <1>1, LayerType
<1>3. H \in [Nat \X V -> V]
  <2>1. \A p \in Nat \X V : Layer(g, t, p[1], p[2]) \in V  BY LayerType
  <2> HIDE DEF V
  <2> QED  BY <2>1
<1>4. PICK f \in [Nat -> V] : f[0] = Layer(g, t, 0, none) /\ \A n \in Nat : f[n + 1] = H[<<n + 1, f[n]>>]
  <2>1. Recursion(V, Layer(g, t, 0, none), H)
    <3> HIDE DEF V, H
    <3> QED  BY <1>2, <1>3, RecursionExists
  <2> QED  BY <2>1 DEF Recursion
<1>5. \A r1, r2 : Layer(g, t, 0, r1) = Layer(g, t, 0, r2)
  <2> TAKE r1, r2
  <2>1. \A n, v : PassedOn(g, n, v, 0, r1) = PassedOn(g, n, v, 0, r2)  BY DEF PassedOn
  <2> QED  BY <2>1 DEF Layer
<1>6. \A d \in Nat : f[d] = Layer(g, t, d, f[d - 1])
  <2> TAKE d \in Nat
  <2>1. CASE d = 0
    <3>1. f[0] = Layer(g, t, 0, none)  BY <1>4
    <3>2. Layer(g, t, 0, none) = Layer(g, t, 0, f[0 - 1])  BY <1>5
    <3> QED  BY <3>1, <3>2, <2>1
  <2>2. CASE d # 0
    <3>1. d - 1 \in Nat /\ (d - 1) + 1 = d  BY <2>2
    <3>2. f[d] = H[<<d, f[d - 1]>>]
      <4> HIDE DEF H
      <4> QED  BY <3>1, <1>4
    <3>3. f[d - 1] \in V  BY <3>1
    <3>4. H[<<d, f[d - 1]>>] = Layer(g, t, d, f[d - 1])
      <4> HIDE DEF V
      <4> QED  BY <3>3
    <3> QED  BY <3>2, <3>4
  <2> QED  BY <2>1, <2>2
<1>7. Is(f)
  <2>1. f = [d \in Nat |-> f[d]]  OBVIOUS
  <2> HIDE DEF V, H
  <2> QED  BY <1>6, <2>1
<1>8. Reaching(g, t) = CHOOSE r : Is(r)  BY DEF Reaching, Layer, PassedOn
<1> DEFINE c == CHOOSE r : Is(r)
<1>9. Is(c)
  <2> HIDE DEF Is
  <2> QED  BY <1>7
<1> HIDE DEF c
<1>10. \A d \in Nat : c[d] = Layer(g, t, d, c[d - 1])  BY <1>9
<1> DEFINE T == {d \in Nat : c[d] \in V}
<1>11. 0 \in T
  <2>1. c[0] = Layer(g, t, 0, c[0 - 1])  BY <1>10
  <2>2. Layer(g, t, 0, c[0 - 1]) = Layer(g, t, 0, none)  BY <1>5
  <2> HIDE DEF V
  <2> QED  BY <2>1, <2>2, <1>2
<1>12. ASSUME NEW d \in T PROVE d + 1 \in T
  <2>1. d + 1 \in Nat /\ (d + 1) - 1 = d  OBVIOUS
  <2>2. c[d + 1] = Layer(g, t, d + 1, c[d])  BY <2>1, <1>10
  <2>3. Layer(g, t, d + 1, c[d]) \in V  BY LayerType
  <2> HIDE DEF V
  <2> QED  BY <2>1, <2>2, <2>3
<1>13. T = Nat
  <2> HIDE DEF T
  <2> QED  BY <1>11, <1>12, AllNaturals DEF T
<1>14. c \in [Nat -> V]
  <2>1. c = [d \in Nat |-> Layer(g, t, d, c[d - 1])]  BY <1>9
  <2>2. c = [d \in Nat |-> c[d]]
    <3> HIDE DEF T, V
    <3> QED  BY <2>1
  <2>3. \A d \in Nat : c[d] \in V  BY <1>13
  <2> HIDE DEF V, T, Is
  <2> QED  BY <2>2, <2>3, FunctionTyped
<1> QED  BY <1>8, <1>10, <1>14 DEF c
-----------------------------------------------------------------------------
(* The invariant of spreading activation: what is still waiting to pass on makes up the rest. *)

Pulses == [node : Nodes, value : Nat, depth : 0..MaxHops]

\* What entry e passes on over each edge, on the way to t.
PassedFrom(t, e) == PassedOn(question.g, e.node, e.value, MaxHops - e.depth,
                             Reaching(question.g, t)[MaxHops - e.depth - 1])

\* The part of it that goes over the edges still to be looked at.
StillPassed(t) ==
  [i \in DOMAIN LinkOrder |-> IF [way |-> "from", place |-> i] \in left THEN PassedFrom(t, walk)[i] ELSE 0]

StillQueued(t) == [j \in DOMAIN waiting |-> Total(PassedFrom(t, waiting[j]))]

Reached(t) ==
  IF question.start \in Nodes THEN Reaching(question.g, t)[MaxHops][question.start][One] ELSE 0

PulsesTyped ==
  /\ question \in ActivationQuestions
  /\ activations \in [Nodes -> Nat] /\ waiting \in Seq(Pulses)
  /\ left # {} => /\ walk \in Pulses /\ walk.depth < MaxHops
                  /\ left \subseteq EdgesOf(question, walk.node)
  /\ ~ running => activations = NoActivations /\ waiting = <<>> /\ left = {}

NothingLost ==
  Searching => \A t \in Nodes : activations[t] + Total(StillQueued(t)) + Total(StillPassed(t)) = Reached(t)

PulsesAnswer == answer # Unanswered => Result = [t \in Nodes |-> Reached(t)]

ActivationInv == question.of = "activate" => PulsesTyped /\ NothingLost /\ PulsesAnswer

\* What an entry passes on is a sequence of numbers, and a hop from it is a shorter way.
LEMMA PassedFromType ==
  ASSUME NEW t \in Nodes, NEW e \in Pulses
  PROVE  /\ PassedFrom(t, e) \in Seq(Nat) /\ Len(PassedFrom(t, e)) = Len(LinkOrder)
         /\ Total(PassedFrom(t, e)) \in Nat
         /\ \A n \in Nodes, v \in Nat, d \in 0..MaxHops :
              Reaching(question.g, t)[MaxHops - d][n][v]
                = (IF n = t THEN v ELSE 0) + Total(PassedFrom(t, Pulse(n, v, d)))
<1> DEFINE R == Reaching(question.g, t)
<1>1. /\ R \in [Nat -> [Nodes -> [Nat -> Nat]]]
      /\ \A d \in Nat : R[d] = Layer(question.g, t, d, R[d - 1])
  BY ReachingUnfolds
<1> HIDE DEF R
<1>2. \A d \in 0..MaxHops : MaxHops - d \in Nat /\ (d # MaxHops => MaxHops - d - 1 \in Nat)  BY DEF MaxHops
<1>3. ASSUME NEW d \in 0..MaxHops, NEW n \in Nodes, NEW v \in Nat
      PROVE  \E r \in [Nodes -> [Nat -> Nat]] :
               PassedOn(question.g, n, v, MaxHops - d, R[MaxHops - d - 1])
                 = PassedOn(question.g, n, v, MaxHops - d, r)
  <2>1. CASE d # MaxHops
    <3>1. R[MaxHops - d - 1] \in [Nodes -> [Nat -> Nat]]  BY <1>1, <1>2, <2>1
    <3> QED  BY <3>1
  <2>2. CASE d = MaxHops
    <3>1. MaxHops - d = 0  BY <2>2 DEF MaxHops
    <3>2. R[0] \in [Nodes -> [Nat -> Nat]]  BY <1>1
    <3>3. PassedOn(question.g, n, v, 0, R[MaxHops - d - 1]) = PassedOn(question.g, n, v, 0, R[0])
      BY DEF PassedOn
    <3> QED  BY <3>1, <3>2, <3>3
  <2> QED  BY <2>1, <2>2
<1>4. /\ PassedFrom(t, e) \in Seq(Nat) /\ Len(PassedFrom(t, e)) = Len(LinkOrder)
      /\ Total(PassedFrom(t, e)) \in Nat
  <2>1. e.depth \in 0..MaxHops /\ e.node \in Nodes /\ e.value \in Nat  BY DEF Pulses
  <2>2. PICK r \in [Nodes -> [Nat -> Nat]] :
          PassedOn(question.g, e.node, e.value, MaxHops - e.depth, R[MaxHops - e.depth - 1])
            = PassedOn(question.g, e.node, e.value, MaxHops - e.depth, r)
    BY <1>3, <2>1
  <2>3. PassedFrom(t, e) = PassedOn(question.g, e.node, e.value, MaxHops - e.depth, r)
    BY <2>2 DEF PassedFrom, R
  <2> DEFINE g == question.g  n == e.node  v == e.value  d == MaxHops - e.depth
  <2>4. n \in Nodes /\ v \in Nat  BY <2>1
  <2> HIDE DEF g, n, v, d
  <2>5. /\ PassedOn(g, n, v, d, r) \in Seq(Nat) /\ Len(PassedOn(g, n, v, d, r)) = Len(LinkOrder)
        /\ Total(PassedOn(g, n, v, d, r)) \in Nat
    BY <2>4, PassedOnType
  <2> QED  BY <2>3, <2>5 DEF g, n, v, d
<1>5. ASSUME NEW n \in Nodes, NEW v \in Nat, NEW d \in 0..MaxHops
      PROVE  R[MaxHops - d][n][v] = (IF n = t THEN v ELSE 0) + Total(PassedFrom(t, Pulse(n, v, d)))
  <2>1. R[MaxHops - d] = Layer(question.g, t, MaxHops - d, R[MaxHops - d - 1])  BY <1>1, <1>2
  <2>2. Layer(question.g, t, MaxHops - d, R[MaxHops - d - 1])[n][v]
          = (IF n = t THEN v ELSE 0) + Total(PassedOn(question.g, n, v, MaxHops - d, R[MaxHops - d - 1]))
    BY DEF Layer
  <2>3. PassedFrom(t, Pulse(n, v, d)) = PassedOn(question.g, n, v, MaxHops - d, R[MaxHops - d - 1])
    BY DEF PassedFrom, Pulse, R
  <2> QED  BY <2>1, <2>2, <2>3
<1> QED  BY <1>4, <1>5 DEF R

\* So are what still goes over the edges at hand and what is still queued.
LEMMA StillTyped ==
  ASSUME PulsesTyped, NEW t \in Nodes
  PROVE  /\ StillPassed(t) \in Seq(Nat) /\ Len(StillPassed(t)) = Len(LinkOrder)
         /\ Total(StillPassed(t)) \in Nat
         /\ StillQueued(t) \in Seq(Nat) /\ Len(StillQueued(t)) = Len(waiting)
         /\ Total(StillQueued(t)) \in Nat
<1> DEFINE s == StillPassed(t)
<1>1. DOMAIN LinkOrder = 1..Len(LinkOrder)  BY TraversalAssumption
<1>2. ASSUME NEW i \in DOMAIN LinkOrder PROVE s[i] \in Nat
  <2>1. CASE [way |-> "from", place |-> i] \in left
    <3>1. walk \in Pulses  BY <2>1 DEF PulsesTyped
    <3>2. PassedFrom(t, walk) \in Seq(Nat) /\ Len(PassedFrom(t, walk)) = Len(LinkOrder)
      BY <3>1, PassedFromType
    <3>3. PassedFrom(t, walk)[i] \in Nat  BY <3>2, <1>1
    <3>4. s[i] = PassedFrom(t, walk)[i]  BY <2>1 DEF StillPassed
    <3> QED  BY <3>3, <3>4
  <2>2. CASE [way |-> "from", place |-> i] \notin left  BY <2>2 DEF StillPassed
  <2> QED  BY <2>1, <2>2
<1>3. s = [i \in DOMAIN LinkOrder |-> s[i]]  BY DEF StillPassed
<1> HIDE DEF s
<1>4. s \in Seq(Nat) /\ Len(s) = Len(LinkOrder) /\ Total(s) \in Nat  BY <1>2, <1>3, PerLink
<1> DEFINE w == StillQueued(t)
<1>5. ASSUME NEW j \in 1..Len(waiting) PROVE w[j] \in Nat
  <2>1. waiting[j] \in Pulses /\ j \in DOMAIN waiting  BY DEF PulsesTyped
  <2> QED  BY <2>1, PassedFromType DEF StillQueued
<1>6. w = [j \in 1..Len(waiting) |-> w[j]] /\ Len(waiting) \in Nat  BY DEF StillQueued, PulsesTyped
<1> HIDE DEF w
<1>7. w \in [1..Len(waiting) -> Nat]  BY <1>5, <1>6, FunctionTyped
<1>8. w \in Seq(Nat) /\ Len(w) = Len(waiting)  BY <1>6, <1>7
<1>9. Total(w) \in Nat  BY <1>8, TotalAppend
<1> QED  BY <1>4, <1>8, <1>9 DEF s, w

\* Nothing at hand, nothing goes on.
LEMMA NothingPassed ==
  ASSUME PulsesTyped, NEW t \in Nodes, left = {}
  PROVE  Total(StillPassed(t)) = 0
<1>1. StillPassed(t) \in Seq(Nat) /\ Len(StillPassed(t)) = Len(LinkOrder)  BY StillTyped
<1>2. \A i \in 1..Len(LinkOrder) : StillPassed(t)[i] = 0  BY TraversalAssumption DEF StillPassed
<1> QED  BY <1>1, <1>2, TotalZero

\* The first entry has everything still to pass on.
LEMMA SeedLosesNothing ==
  ASSUME PulsesTyped, Seed
  PROVE  PulsesTyped' /\ NothingLost'
<1>1. question' = question /\ left' = {} /\ answer' = answer  BY DEF Seed, PulsesTyped
<1>2. One \in Nat /\ 0 \in 0..MaxHops  BY ActivationAssumption DEF MaxHops
<1>3. CASE question.start \in Nodes
  <2> DEFINE e == Pulse(question.start, One, 0)
  <2>1. e \in Pulses  BY <1>2, <1>3 DEF Pulses, Pulse
  <2>2. waiting' = <<e>> /\ activations' = [activations EXCEPT ![question.start] = One]
    BY <1>3 DEF Seed
  <2>3. activations = [n \in Nodes |-> 0]  BY DEF Seed, PulsesTyped, NoActivations
  <2> HIDE DEF e
  <2>4. activations' \in [Nodes -> Nat]  BY <2>2, <2>3, <1>2
  <2>5. PulsesTyped'  BY <1>1, <2>1, <2>2, <2>4 DEF PulsesTyped, Seed
  <2>6. ASSUME NEW t \in Nodes
        PROVE  activations'[t] + Total(StillQueued(t)') + Total(StillPassed(t)') = Reached(t)'
    <3>1. Total(StillPassed(t)') = 0
      <4>1. StillPassed(t)' \in Seq(Nat) /\ Len(StillPassed(t)') = Len(LinkOrder)
        <5>1. [i \in DOMAIN LinkOrder |-> 0] \in Seq(Nat) /\ Len([i \in DOMAIN LinkOrder |-> 0]) = Len(LinkOrder)
          BY TraversalAssumption
        <5>2. StillPassed(t)' = [i \in DOMAIN LinkOrder |-> 0]  BY <1>1 DEF StillPassed
        <5> QED  BY <5>1, <5>2
      <4>2. \A i \in 1..Len(LinkOrder) : StillPassed(t)'[i] = 0  BY <1>1, TraversalAssumption DEF StillPassed
      <4> QED  BY <4>1, <4>2, TotalZero
    <3>2. Total(StillQueued(t)') = Total(PassedFrom(t, e))
      <4>1. Total(PassedFrom(t, e)) \in Nat  BY <2>1, PassedFromType
      <4>2. StillQueued(t)' = <<Total(PassedFrom(t, e))>>  BY <1>1, <2>2 DEF StillQueued, PassedFrom
      <4> QED  BY <4>1, <4>2, TotalShort
    <3>3. Reached(t)' = (IF question.start = t THEN One ELSE 0) + Total(PassedFrom(t, e))
      <4>1. Reached(t)' = Reaching(question.g, t)[MaxHops - 0][question.start][One]
        BY <1>1, <1>3 DEF Reached, MaxHops
      <4>2. e \in Pulses  BY <2>1
      <4>3. Reaching(question.g, t)[MaxHops - 0][question.start][One]
              = (IF question.start = t THEN One ELSE 0) + Total(PassedFrom(t, Pulse(question.start, One, 0)))
        BY <1>2, <1>3, <4>2, PassedFromType
      <4> QED  BY <4>1, <4>3 DEF e
    <3>4. activations'[t] = IF question.start = t THEN One ELSE 0  BY <2>2, <2>3, <1>3
    <3>5. Total(PassedFrom(t, e)) \in Nat  BY <2>1, PassedFromType
    <3> QED  BY <3>1, <3>2, <3>3, <3>4, <3>5, <1>2
  <2> QED  BY <2>5, <2>6 DEF NothingLost
<1>4. CASE question.start \notin Nodes
  <2>1. waiting' = <<>> /\ activations' = [n \in Nodes |-> 0] /\ activations' = activations
    BY <1>4 DEF Seed, PulsesTyped, NoActivations
  <2>2. PulsesTyped'  BY <1>1, <2>1 DEF PulsesTyped, Seed
  <2>3. ASSUME NEW t \in Nodes
        PROVE  activations'[t] + Total(StillQueued(t)') + Total(StillPassed(t)') = Reached(t)'
    <3>1. Total(StillPassed(t)') = 0
      <4>1. StillPassed(t)' = [i \in DOMAIN LinkOrder |-> 0]  BY <1>1 DEF StillPassed
      <4>2. [i \in DOMAIN LinkOrder |-> 0] \in Seq(Nat) /\ Len([i \in DOMAIN LinkOrder |-> 0]) = Len(LinkOrder)
        BY TraversalAssumption
      <4>3. \A i \in 1..Len(LinkOrder) : [j \in DOMAIN LinkOrder |-> 0][i] = 0  BY TraversalAssumption
      <4> QED  BY <4>1, <4>2, <4>3, TotalZero
    <3>2. StillQueued(t)' = <<>>  BY <2>1 DEF StillQueued
    <3>3. Total(<<>>) = 0  BY <1>2, TotalShort
    <3>4. Reached(t)' = 0  BY <1>1, <1>4 DEF Reached
    <3>5. activations'[t] = 0  BY <2>1
    <3> QED  BY <3>1, <3>2, <3>3, <3>4, <3>5
  <2> QED  BY <2>2, <2>3 DEF NothingLost
<1> QED  BY <1>3, <1>4

\* Taking an entry lays out what it passes on over its edges.
LEMMA TakeEntryLosesNothing ==
  ASSUME PulsesTyped, NothingLost, TakeEntry
  PROVE  PulsesTyped' /\ NothingLost'
<1> DEFINE e == Head(waiting)
<1>1. /\ question' = question /\ answer' = answer /\ running' = running /\ running
      /\ activations' = activations /\ waiting # <<>> /\ waiting' = Tail(waiting) /\ walk' = e
      /\ left = {} /\ left' = IF SpreadsOn(e) THEN EdgesOf(question, e.node) ELSE {}
  BY DEF TakeEntry, Searching
<1>2. e \in Pulses /\ waiting' \in Seq(Pulses) /\ e = waiting[1]
  BY <1>1 DEF PulsesTyped
<1> HIDE DEF e
<1>3. PulsesTyped'
  <2>1. left' # {} => e.depth < MaxHops /\ left' = EdgesOf(question, e.node)  BY <1>1 DEF SpreadsOn
  <2>2. question \in ActivationQuestions /\ activations \in [Nodes -> Nat]  BY DEF PulsesTyped
  <2> QED  BY <1>1, <1>2, <2>1, <2>2 DEF PulsesTyped, EdgesOf
<1>4. ASSUME NEW t \in Nodes
      PROVE  Total(StillQueued(t)') + Total(StillPassed(t)') = Total(StillQueued(t)) + Total(StillPassed(t))
  <2>1. Total(StillPassed(t)) = 0  BY <1>1, NothingPassed
  <2>2. /\ PassedFrom(t, e) \in Seq(Nat) /\ Len(PassedFrom(t, e)) = Len(LinkOrder)
        /\ Total(PassedFrom(t, e)) \in Nat
    BY <1>2, PassedFromType
  <2>3. StillPassed(t)' = PassedFrom(t, e)
    <3>1. ASSUME NEW i \in DOMAIN LinkOrder, [way |-> "from", place |-> i] \notin left'
          PROVE  PassedFrom(t, e)[i] = 0
      <4>1. MaxHops - e.depth > 0 => SpreadsOn(e)  BY <1>2 DEF Pulses, SpreadsOn, MaxHops
      <4>2. SpreadsOn(e) => ~ Passes(question.g, e.node, e.value, LinkOrder[i])
        <5> SUFFICES ASSUME SpreadsOn(e), LinkOrder[i] \in question.g, LinkOrder[i].source = e.node
                     PROVE  FALSE
          BY DEF Passes
        <5> DEFINE a == [way |-> "from", place |-> i]
        <5>1. a \in Turns /\ KeyOf(a) = LinkOrder[i] /\ NodeOf(a) = e.node  BY DEF Turns, KeyOf, NodeOf
        <5>2. question.rels = AllRelations /\ question.of = "activate"
          BY DEF PulsesTyped, ActivationQuestions
        <5>3. "from" \in Ways(question)  BY <5>2 DEF Ways
        <5>4. LinkOrder[i].relation \in AllRelations  BY DEF AllRelations, EdgeKeys
        <5>5. a \in EdgesOf(question, e.node)  BY <5>1, <5>2, <5>3, <5>4 DEF EdgesOf
        <5> QED  BY <5>5, <1>1, <3>1
      <4> QED  BY <4>1, <4>2 DEF PassedFrom, PassedOn
    <3>2. StillPassed(t)' = [i \in DOMAIN LinkOrder |->
                               IF [way |-> "from", place |-> i] \in left' THEN PassedFrom(t, e)[i] ELSE 0]
      BY <1>1 DEF StillPassed, PassedFrom
    <3>3. PassedFrom(t, e) = [i \in DOMAIN LinkOrder |-> PassedFrom(t, e)[i]]  BY DEF PassedFrom, PassedOn
    <3> DEFINE p == PassedFrom(t, e)  q == StillPassed(t)'
    <3>4. \A i \in DOMAIN LinkOrder : q[i] = p[i]  BY <3>1, <3>2
    <3>5. q = [i \in DOMAIN LinkOrder |-> q[i]]  BY <3>2
    <3> HIDE DEF p, q
    <3>6. q = p  BY <3>3, <3>4, <3>5 DEF p
    <3> QED  BY <3>6 DEF p, q
  <2>4. StillQueued(t) \in Seq(Nat) /\ Len(StillQueued(t)) = Len(waiting)  BY StillTyped
  <2>5. StillQueued(t) # <<>> /\ StillQueued(t)[1] = Total(PassedFrom(t, e))
    BY <1>1, <1>2, <2>4 DEF StillQueued, PulsesTyped
  <2>6. StillQueued(t)' = Tail(StillQueued(t))
    <3>1. waiting \in Seq(Pulses) /\ Len(waiting) \in Nat \ {0}  BY <1>1 DEF PulsesTyped
    <3>2. StillQueued(t)' = [j \in 1..Len(waiting) - 1 |-> Total(PassedFrom(t, Tail(waiting)[j]))]
      BY <3>1, <1>1 DEF StillQueued, PassedFrom
    <3>3. \A j \in 1..Len(waiting) - 1 : Tail(waiting)[j] = waiting[j + 1] /\ j + 1 \in DOMAIN waiting
      BY <3>1
    <3>4. Tail(StillQueued(t)) = [j \in 1..Len(waiting) - 1 |-> StillQueued(t)[j + 1]]
      BY <2>4, <2>5, TailPlaces
    <3>5. \A j \in 1..Len(waiting) - 1 : StillQueued(t)[j + 1] = Total(PassedFrom(t, Tail(waiting)[j]))
      BY <3>3 DEF StillQueued
    <3> QED  BY <3>2, <3>4, <3>5
  <2>7. Total(StillQueued(t)) = Total(PassedFrom(t, e)) + Total(Tail(StillQueued(t)))
    BY <2>4, <2>5, TotalTail
  <2>8. Total(Tail(StillQueued(t))) \in Nat
    <3>1. Tail(StillQueued(t)) \in Seq(Nat)  BY <2>4, <2>5
    <3> QED  BY <3>1, TotalAppend
  <2> QED  BY <2>1, <2>2, <2>3, <2>6, <2>7, <2>8
<1>5. Searching  BY DEF TakeEntry
<1>6. ASSUME NEW t \in Nodes
      PROVE  activations'[t] + Total(StillQueued(t)') + Total(StillPassed(t)') = Reached(t)'
  <2>1. Reached(t)' = Reached(t)  BY <1>1 DEF Reached
  <2>2. activations[t] + Total(StillQueued(t)) + Total(StillPassed(t)) = Reached(t)  BY <1>5 DEF NothingLost
  <2>3. /\ activations[t] \in Nat /\ Total(StillQueued(t)) \in Nat /\ Total(StillPassed(t)) \in Nat
    BY StillTyped DEF PulsesTyped
  <2>4. PulsesTyped' => Total(StillQueued(t)') \in Nat /\ Total(StillPassed(t)') \in Nat
    <3>1. (PulsesTyped => Total(StillQueued(t)) \in Nat /\ Total(StillPassed(t)) \in Nat)'
      BY StillTyped, PTL
    <3> QED  BY <3>1
  <2> DEFINE a == activations[t]  b == Total(StillQueued(t))  c == Total(StillPassed(t))  d == Reached(t)
             q == Total(StillQueued(t)')  p == Total(StillPassed(t)')
  <2>5. q + p = b + c /\ a + b + c = d  BY <1>4, <2>2
  <2>6. a \in Nat /\ b \in Nat /\ c \in Nat /\ p \in Nat /\ q \in Nat  BY <1>3, <2>3, <2>4
  <2>7. a + q + p = d
    <3> HIDE DEF a, b, c, d, p, q
    <3> QED  BY ONLY <2>5, <2>6
  <2> QED  BY <1>1, <2>1, <2>7
<1> QED  BY <1>3, <1>6 DEF NothingLost

\* What an edge passes on is in the activation of its target and in the entry queued for it.
LEMMA SpreadLosesNothing ==
  ASSUME PulsesTyped, NothingLost, NEW a \in left, Spread(a)
  PROVE  PulsesTyped' /\ NothingLost'
<1>1. /\ question' = question /\ answer' = answer /\ running' = running /\ running /\ walk' = walk
      /\ left' = left \ {a}
  BY DEF Spread, Searching
<1>2. /\ walk \in Pulses /\ walk.depth < MaxHops /\ left \subseteq EdgesOf(question, walk.node)
      /\ question.of = "activate"
  BY DEF PulsesTyped, ActivationQuestions
<1> DEFINE i == a.place  k == LinkOrder[i]  v == Gain(a)  e == Pulse(k.target, v, walk.depth + 1)
<1>3. /\ i \in DOMAIN LinkOrder /\ i \in 1..Len(LinkOrder) /\ a = [way |-> "from", place |-> i]
      /\ k \in question.g /\ k.source = walk.node
      /\ Neighbor(a) = k.target /\ KeyOf(a) = k
  <2>1. a \in Turns /\ a.way \in Ways(question) /\ NodeOf(a) = walk.node /\ KeyOf(a) \in question.g
    BY <1>2 DEF EdgesOf
  <2>2. a.way = "from"  BY <1>2, <2>1 DEF Ways
  <2>3. a = [way |-> "from", place |-> i] /\ i \in DOMAIN LinkOrder  BY <2>1, <2>2 DEF Turns
  <2> QED  BY <2>1, <2>2, <2>3, TraversalAssumption DEF KeyOf, NodeOf, Neighbor
<1>4. v \in Nat /\ k.target \in Nodes /\ v = Decayed(walk.value, k) /\ walk.depth + 1 \in 0..MaxHops
  <2>1. walk.value \in Nat /\ walk.depth \in 0..MaxHops  BY <1>2 DEF Pulses
  <2>2. v = Decayed(walk.value, k)  BY <1>3 DEF Gain
  <2>3. k \in EdgeKeys /\ k.target \in Nodes  BY <1>3, LinkFacts
  <2> QED  BY <1>2, <2>1, <2>2, <2>3, DecayedType DEF MaxHops
<1>5. e \in Pulses  BY <1>4 DEF Pulses, Pulse
<1>6. /\ IF v <= Threshold THEN activations' = activations /\ waiting' = waiting
         ELSE /\ activations' = [activations EXCEPT ![k.target] = @ + v]
              /\ waiting' = Append(waiting, e)
  BY <1>3 DEF Spread
<1> HIDE DEF i, k, v, e
<1>7. PulsesTyped'
  <2>1. activations' \in [Nodes -> Nat]
    <3>1. activations \in [Nodes -> Nat] /\ activations[k.target] + v \in Nat  BY <1>4 DEF PulsesTyped
    <3> QED  BY <1>6, <3>1
  <2>2. waiting' \in Seq(Pulses)  BY <1>5, <1>6 DEF PulsesTyped
  <2> QED  BY <1>1, <2>1, <2>2 DEF PulsesTyped
<1>8. ASSUME NEW t \in Nodes
      PROVE  activations'[t] + Total(StillQueued(t)') + Total(StillPassed(t)')
               = activations[t] + Total(StillQueued(t)) + Total(StillPassed(t))
  <2>1. /\ StillPassed(t) \in Seq(Nat) /\ Len(StillPassed(t)) = Len(LinkOrder)
        /\ StillQueued(t) \in Seq(Nat) /\ Len(StillQueued(t)) = Len(waiting)
        /\ Total(StillPassed(t)) \in Nat /\ Total(StillQueued(t)) \in Nat
    BY StillTyped
  <2>2. /\ StillPassed(t)' \in Seq(Nat) /\ Len(StillPassed(t)') = Len(LinkOrder)
        /\ Total(StillPassed(t)') \in Nat
    <3>1. (PulsesTyped => /\ StillPassed(t) \in Seq(Nat) /\ Len(StillPassed(t)) = Len(LinkOrder)
                          /\ Total(StillPassed(t)) \in Nat)'
      BY StillTyped, PTL
    <3> QED  BY <1>7, <3>1
  <2>3. \A j \in DOMAIN LinkOrder :
          StillPassed(t)'[j] = IF [way |-> "from", place |-> j] \in left \ {a}
                               THEN PassedFrom(t, walk)[j] ELSE 0
    BY <1>1 DEF StillPassed, PassedFrom
  <2>4. \A j \in DOMAIN LinkOrder :
          StillPassed(t)[j] = IF [way |-> "from", place |-> j] \in left THEN PassedFrom(t, walk)[j] ELSE 0
    BY DEF StillPassed
  <2>5. \A j \in 1..Len(StillPassed(t)) : j # i => StillPassed(t)'[j] = StillPassed(t)[j]
    <3> TAKE j \in 1..Len(StillPassed(t))
    <3>1. j \in DOMAIN LinkOrder  BY <2>1, TraversalAssumption
    <3>2. j # i => [way |-> "from", place |-> j] # a
      <4>1. a.place = i  BY <1>3
      <4> QED  BY <4>1
    <3> QED  BY <2>3, <2>4, <3>1, <3>2
  <2>6. StillPassed(t)'[i] = 0 /\ StillPassed(t)[i] = PassedFrom(t, walk)[i]  BY <1>3, <2>3, <2>4
  <2>7. Total(StillPassed(t)') + PassedFrom(t, walk)[i] = Total(StillPassed(t))
    <3> DEFINE s == StillPassed(t)  z == StillPassed(t)'
    <3>1. s \in Seq(Nat) /\ z \in Seq(Nat) /\ Len(z) = Len(s) /\ i \in 1..Len(s)
          /\ \A j \in 1..Len(s) : j # i => z[j] = s[j]
      BY <1>3, <2>1, <2>2, <2>5
    <3>2. z[i] = 0 /\ s[i] = PassedFrom(t, walk)[i] /\ Total(z) \in Nat /\ Total(s) \in Nat
      BY <2>1, <2>2, <2>6
    <3> HIDE DEF s, z
    <3>3. Total(z) + s[i] = Total(s) + z[i]  BY <3>1, TotalReplace
    <3>4. Total(z) + PassedFrom(t, walk)[i] = Total(s)  BY <3>2, <3>3
    <3> QED  BY <3>4 DEF s, z
  <2>8. CASE v <= Threshold
    <3>1. PassedFrom(t, walk)[i] = 0
      <4>1. ~ Passes(question.g, walk.node, walk.value, k)
        BY <1>4, <2>8, ActivationAssumption DEF Passes
      <4> QED  BY <1>3, <4>1 DEF PassedFrom, PassedOn, k
    <3>2. StillQueued(t)' = StillQueued(t) /\ activations' = activations
      BY <1>1, <1>6, <2>8 DEF StillQueued, PassedFrom
    <3>3. Total(StillPassed(t)') = Total(StillPassed(t))  BY <2>2, <2>7, <3>1
    <3> QED  BY <3>2, <3>3
  <2>9. CASE ~ v <= Threshold
    <3>1. PassedFrom(t, walk)[i] = (IF k.target = t THEN v ELSE 0) + Total(PassedFrom(t, e))
      <4> DEFINE d == walk.depth + 1
      <4>1. Passes(question.g, walk.node, walk.value, k)
        BY <1>3, <1>4, <2>9, ActivationAssumption DEF Passes
      <4>2. MaxHops - walk.depth > 0 /\ MaxHops - walk.depth - 1 = MaxHops - d /\ d \in 0..MaxHops
        BY <1>2, <1>4 DEF Pulses, MaxHops
      <4>3. PassedFrom(t, walk)[i] = Reaching(question.g, t)[MaxHops - walk.depth - 1][k.target][v]
        BY <1>3, <1>4, <4>1, <4>2 DEF PassedFrom, PassedOn, k
      <4> HIDE DEF d
      <4>4. Reaching(question.g, t)[MaxHops - d][k.target][v]
              = (IF k.target = t THEN v ELSE 0) + Total(PassedFrom(t, Pulse(k.target, v, d)))
        BY <1>4, <1>5, <4>2, PassedFromType
      <4> QED  BY <4>2, <4>3, <4>4 DEF e, d
    <3>2. StillQueued(t)' = Append(StillQueued(t), Total(PassedFrom(t, e)))
      <4>1. StillQueued(t)' = [j \in 1..Len(waiting) + 1 |-> Total(PassedFrom(t, Append(waiting, e)[j]))]
        <5>1. waiting' = Append(waiting, e) /\ waiting \in Seq(Pulses)  BY <1>6, <2>9 DEF PulsesTyped
        <5>2. DOMAIN waiting' = 1..Len(waiting) + 1  BY <1>5, <5>1
        <5> QED  BY <1>1, <5>1, <5>2 DEF StillQueued, PassedFrom
      <4> DEFINE s == StillQueued(t)  x == Total(PassedFrom(t, e))
      <4>2. s \in Seq(Nat) /\ x \in Nat /\ Len(s) = Len(waiting)  BY <1>5, <2>1, PassedFromType
      <4>3. \A j \in 1..Len(waiting) : s[j] = Total(PassedFrom(t, Append(waiting, e)[j]))
        BY <1>5 DEF StillQueued, PulsesTyped
      <4>4. Append(waiting, e)[Len(waiting) + 1] = e  BY <1>5 DEF PulsesTyped
      <4> HIDE DEF s
      <4>5. Append(s, x) = [j \in 1..Len(waiting) + 1 |-> IF j = Len(waiting) + 1 THEN x ELSE s[j]]
        <5> HIDE DEF x
        <5>1. Append(s, x) = [j \in 1..Len(Append(s, x)) |-> Append(s, x)[j]]
          <6> DEFINE z == Append(s, x)
          <6>1. z \in Seq(Nat)  BY <4>2
          <6> HIDE DEF z
          <6>2. z = [j \in 1..Len(z) |-> z[j]]  BY <6>1
          <6> QED  BY <6>2 DEF z
        <5>2. Len(Append(s, x)) = Len(waiting) + 1  BY <4>2
        <5>3. \A j \in 1..Len(waiting) + 1 :
                Append(s, x)[j] = IF j = Len(waiting) + 1 THEN x ELSE s[j]
          BY <4>2
        <5> QED  BY <5>1, <5>2, <5>3
      <4>6. \A j \in 1..Len(waiting) + 1 :
              (IF j = Len(waiting) + 1 THEN x ELSE s[j]) = Total(PassedFrom(t, Append(waiting, e)[j]))
        <5> TAKE j \in 1..Len(waiting) + 1
        <5>1. CASE j = Len(waiting) + 1  BY <4>4, <5>1
        <5>2. CASE j # Len(waiting) + 1
          <6>1. j \in 1..Len(waiting)  BY <5>2 DEF PulsesTyped
          <6> QED  BY <4>3, <5>2, <6>1
        <5> QED  BY <5>1, <5>2
      <4>7. StillQueued(t)' = Append(s, x)
        <5> HIDE DEF x
        <5>1. \A j \in 1..Len(waiting) + 1 :
                Total(PassedFrom(t, Append(waiting, e)[j])) = IF j = Len(waiting) + 1 THEN x ELSE s[j]
          BY <4>6
        <5> QED  BY <4>1, <4>5, <5>1
      <4> QED  BY <4>7 DEF s
    <3>3. Total(PassedFrom(t, e)) \in Nat  BY <1>5, PassedFromType
    <3>4. Total(StillQueued(t)') = Total(StillQueued(t)) + Total(PassedFrom(t, e))
      BY <2>1, <3>2, <3>3, TotalAppend
    <3>5. activations'[t] = activations[t] + (IF k.target = t THEN v ELSE 0) /\ activations[t] \in Nat
      BY <1>4, <1>6, <2>9 DEF PulsesTyped
    <3> DEFINE act == activations[t]  q == Total(StillQueued(t))  p == Total(StillPassed(t))
               w == Total(PassedFrom(t, e))  o == IF k.target = t THEN v ELSE 0
               p2 == Total(StillPassed(t)')
    <3>6. act \in Nat /\ q \in Nat /\ p \in Nat /\ w \in Nat /\ o \in Nat /\ p2 \in Nat /\ p2 + (o + w) = p
      BY <1>4, <2>1, <2>2, <2>7, <3>1, <3>3, <3>5
    <3>7. (act + o) + (q + w) + p2 = act + q + p
      <4> HIDE DEF act, q, p, w, o, p2
      <4> QED  BY ONLY <3>6
    <3> QED  BY <3>4, <3>5, <3>7
  <2> QED  BY <2>8, <2>9
<1>9. ASSUME NEW t \in Nodes
      PROVE  activations'[t] + Total(StillQueued(t)') + Total(StillPassed(t)') = Reached(t)'
  <2>1. Reached(t)' = Reached(t)  BY <1>1 DEF Reached
  <2>2. activations[t] + Total(StillQueued(t)) + Total(StillPassed(t)) = Reached(t)
    BY DEF NothingLost, Spread
  <2> QED  BY <1>8, <2>1, <2>2
<1> QED  BY <1>7, <1>9 DEF NothingLost

\* When nothing waits, every activation is all there is to be.
LEMMA SettleAnswers ==
  ASSUME PulsesTyped, NothingLost, Settle
  PROVE  PulsesTyped' /\ NothingLost' /\ PulsesAnswer'
<1>1. /\ UNCHANGED <<question, running, visited, waiting, walk, left, order, activations>>
      /\ answer' = <<activations>> /\ left = {} /\ waiting = <<>> /\ Searching
  BY DEF Settle, Reply, locals
<1>2. PulsesTyped'  BY <1>1 DEF PulsesTyped
<1>3. <<activations>> # <<>>  OBVIOUS
<1>4. ASSUME NEW t \in Nodes PROVE activations[t] = Reached(t)
  <2>1. Total(StillPassed(t)) = 0  BY <1>1, NothingPassed
  <2>2. StillQueued(t) = <<>>  BY <1>1 DEF StillQueued
  <2>3. Total(StillQueued(t)) = 0  BY <2>2, TotalShort, ActivationAssumption
  <2>4. activations[t] \in Nat  BY DEF PulsesTyped
  <2> QED  BY <1>1, <2>1, <2>3, <2>4 DEF NothingLost
<1>5. activations = [t \in Nodes |-> Reached(t)]  BY <1>4 DEF PulsesTyped
<1>6. \A t : Reached(t)' = Reached(t)  BY <1>1 DEF Reached
<1>7. PulsesAnswer'
  <2>1. Result' = activations  BY <1>1 DEF Result
  <2>2. [t \in Nodes |-> Reached(t)]' = [t \in Nodes |-> Reached(t)]  BY <1>6
  <2> QED  BY <1>5, <2>1, <2>2 DEF PulsesAnswer
<1> QED  BY <1>1, <1>2, <1>3, <1>7 DEF NothingLost, Searching, Unanswered

\* The answer stands for ever.
LEMMA ActivationStep ==
  ASSUME question \in Questions, ActivationInv, [QueryNext]_queryVars
  PROVE  ActivationInv'
<1> SUFFICES ASSUME question'.of = "activate" PROVE PulsesTyped' /\ NothingLost' /\ PulsesAnswer'
  BY DEF ActivationInv
<1>1. question' = question /\ [Activate]_queryVars  BY KindsApart, OneAlgorithm
<1>2. PulsesTyped /\ NothingLost /\ PulsesAnswer  BY <1>1 DEF ActivationInv
<1>3. CASE UNCHANGED queryVars
  <2>1. UNCHANGED <<question, answer, running, visited, waiting, walk, left, order, activations>>
    BY <1>3 DEF queryVars, searchVars, locals
  <2>2. /\ \A t : Reached(t)' = Reached(t) /\ StillQueued(t)' = StillQueued(t)
        /\ \A t : StillPassed(t)' = StillPassed(t)
    BY <2>1 DEF Reached, StillQueued, StillPassed, PassedFrom
  <2>3. PulsesTyped'  BY <1>2, <2>1 DEF PulsesTyped
  <2>4. NothingLost'  BY <1>2, <2>1, <2>2 DEF NothingLost, Searching
  <2>5. PulsesAnswer'  BY <1>2, <2>1, <2>2 DEF PulsesAnswer, Result
  <2> QED  BY <2>3, <2>4, <2>5
<1>4. CASE Seed
  <2>1. answer' = Unanswered  BY <1>4 DEF Seed
  <2> QED  BY <1>2, <1>4, <2>1, SeedLosesNothing DEF PulsesAnswer
<1>5. CASE TakeEntry
  <2>1. answer' = Unanswered  BY <1>5 DEF TakeEntry, Searching
  <2> QED  BY <1>2, <1>5, <2>1, TakeEntryLosesNothing DEF PulsesAnswer
<1>6. ASSUME NEW a \in left, Spread(a) PROVE PulsesTyped' /\ NothingLost' /\ PulsesAnswer'
  <2>1. answer' = Unanswered  BY <1>6 DEF Spread, Searching
  <2> QED  BY <1>2, <1>6, <2>1, SpreadLosesNothing DEF PulsesAnswer
<1>7. CASE Settle  BY <1>2, <1>7, SettleAnswers
<1> QED  BY <1>1, <1>3, <1>4, <1>5, <1>6, <1>7 DEF Activate

\* Activation adds up over every walk of up to three edges whose gains stay over the

\* threshold, whatever the graph and its weights: the queue loses nothing and counts
\* nothing twice.
THEOREM ActivationAddsUp == QuerySpec => []ActivationSumsWalks
<1> DEFINE I == question \in Questions /\ ActivationInv
<1>1. QueryInit => I
  <2> SUFFICES ASSUME QueryInit, question.of = "activate" PROVE PulsesTyped /\ NothingLost /\ PulsesAnswer
    BY DEF QueryInit, ActivationInv
  <2>1. question \in ActivationQuestions  BY KindsApart DEF QueryInit
  <2>2. NoActivations \in [Nodes -> Nat] /\ <<>> \in Seq(Pulses)  BY DEF NoActivations
  <2> QED  BY <2>1, <2>2 DEF QueryInit, Idle, PulsesTyped, NothingLost, PulsesAnswer, Searching
<1>2. I /\ [QueryNext]_queryVars => I'
  BY OneAlgorithm, ActivationStep
<1>3. I => ActivationSumsWalks
  BY DEF ActivationInv, PulsesAnswer, ActivationSumsWalks, Answered, Reached
<1> QED  BY <1>1, <1>2, <1>3, PTL DEF QuerySpec

-----------------------------------------------------------------------------
(* Choices: places by the number of those that come before. *)

StrictOrder(S, R) ==
  /\ \A x \in S : <<x, x>> \notin R
  /\ \A x, y, z \in S : <<x, y>> \in R /\ <<y, z>> \in R => <<x, z>> \in R
  /\ \A x, y \in S : x # y => <<x, y>> \in R \/ <<y, x>> \in R

Better(S, R, x) == {y \in S : <<y, x>> \in R}

\* How many come before x says where x stands.
LEMMA PlacesGrow ==
  ASSUME NEW S, IsFiniteSet(S), NEW R, StrictOrder(S, R), NEW x \in S, NEW y \in S
  PROVE  /\ Cardinality(Better(S, R, x)) \in 0..Cardinality(S) - 1
         /\ <<x, y>> \in R => Cardinality(Better(S, R, x)) < Cardinality(Better(S, R, y))
<1>1. Better(S, R, x) \subseteq S \ {x}  BY DEF Better, StrictOrder
<1>2. IsFiniteSet(S \ {x}) /\ Cardinality(S \ {x}) = Cardinality(S) - 1 /\ Cardinality(S) \in Nat
  BY FS_RemoveElement, FS_CardinalityType
<1>3. /\ IsFiniteSet(Better(S, R, x)) /\ Cardinality(Better(S, R, x)) <= Cardinality(S) - 1
  BY <1>1, <1>2, FS_Subset
<1>4. Cardinality(Better(S, R, x)) \in Nat  BY <1>3, FS_CardinalityType
<1>5. ASSUME <<x, y>> \in R PROVE Cardinality(Better(S, R, x)) < Cardinality(Better(S, R, y))
  <2>1. Better(S, R, x) \subseteq Better(S, R, y)  BY <1>5 DEF Better, StrictOrder
  <2>2. x \in Better(S, R, y) /\ x \notin Better(S, R, x)  BY <1>5 DEF Better, StrictOrder
  <2>3. IsFiniteSet(Better(S, R, y))
    <3>1. Better(S, R, y) \subseteq S  BY DEF Better
    <3> QED  BY <3>1, FS_Subset
  <2>4. /\ Cardinality(Better(S, R, x)) <= Cardinality(Better(S, R, y))
        /\ Cardinality(Better(S, R, x)) # Cardinality(Better(S, R, y))
    BY <2>1, <2>2, <2>3, FS_Subset
  <2>5. Cardinality(Better(S, R, y)) \in Nat  BY <2>3, FS_CardinalityType
  <2> QED  BY <1>4, <2>4, <2>5
<1> QED  BY <1>2, <1>3, <1>4, <1>5

\* Every place is taken, by one only.
LEMMA EveryPlaceTaken ==
  ASSUME NEW S, IsFiniteSet(S), NEW R, StrictOrder(S, R), NEW r \in 0..Cardinality(S) - 1
  PROVE  \E x \in S : /\ Cardinality(Better(S, R, x)) = r
                      /\ \A y \in S : Cardinality(Better(S, R, y)) = r => y = x
<1> DEFINE P == 0..Cardinality(S) - 1
           f == [x \in S |-> Cardinality(Better(S, R, x))]
<1>1. Cardinality(S) \in Nat  BY FS_CardinalityType
<1>2. IsFiniteSet(P) /\ Cardinality(P) = Cardinality(S)
  <2>1. 0 \in Int /\ Cardinality(S) - 1 \in Int  BY <1>1
  <2>2. IsFiniteSet(P) /\ Cardinality(P) = IF 0 > Cardinality(S) - 1 THEN 0 ELSE Cardinality(S) - 1 - 0 + 1
    BY <2>1, FS_Interval
  <2>3. Cardinality(P) = Cardinality(S)
    <3> HIDE DEF P
    <3> QED  BY <1>1, <2>2
  <2> QED  BY <2>2, <2>3
<1>3. \A x, y \in S : f[x] = f[y] => x = y
  <2> TAKE x, y \in S
  <2>1. <<x, y>> \in R => f[x] < f[y]  BY PlacesGrow
  <2>2. <<y, x>> \in R => f[y] < f[x]  BY PlacesGrow
  <2>3. f[x] \in P /\ f[y] \in P  BY PlacesGrow
  <2> HIDE DEF f
  <2> QED  BY <1>1, <2>1, <2>2, <2>3 DEF StrictOrder
<1>4. f \in [S -> P]  BY PlacesGrow
<1>5. f \in Injection(S, P)
  <2> HIDE DEF f, P
  <2> QED  BY <1>3, <1>4 DEF Injection, IsInjective
<1>6. f \in Surjection(S, P)
  <2> HIDE DEF f, P
  <2> QED  BY <1>2, <1>5, FS_Injection
<1>7. \E x \in S : f[x] = r
  <2> HIDE DEF f
  <2> QED  BY <1>6 DEF Surjection
<1> QED  BY <1>3, <1>7

\* A sequence without repetitions has as many elements as places, and so has another with

\* the same elements and length.
LEMMA OnceIsOneToOne ==
  ASSUME NEW s, NEW n \in Nat, s \in Seq(Range(s)), Len(s) = n
  PROVE  /\ IsFiniteSet(Range(s))
         /\ (\A i, j \in DOMAIN s : s[i] = s[j] => i = j) <=> Cardinality(Range(s)) = n
<1> DEFINE S == Range(s)
<1>1. s \in [1..n -> S] /\ DOMAIN s = 1..n  OBVIOUS
<1>2. s \in Surjection(1..n, S)  BY <1>1 DEF Surjection, Range
<1>3. IsFiniteSet(1..n) /\ Cardinality(1..n) = n
  <2>1. 1 \in Int /\ n \in Int  OBVIOUS
  <2>2. IsFiniteSet(1..n) /\ Cardinality(1..n) = IF 1 > n THEN 0 ELSE n - 1 + 1  BY <2>1, FS_Interval
  <2> QED  BY <2>2
<1> HIDE DEF S
<1>4. IsFiniteSet(S) /\ (Cardinality(S) = n <=> s \in Injection(1..n, S))
  BY <1>2, <1>3, FS_Surjection
<1>5. s \in Injection(1..n, S) <=> \A i, j \in 1..n : s[i] = s[j] => i = j
  BY <1>1 DEF Injection, IsInjective
<1> QED  BY <1>1, <1>4, <1>5 DEF S
-----------------------------------------------------------------------------
(* Hypotheses. *)

Precedence(S, policy) == {p \in S \X S : Before(p[1], p[2], policy)}

HypothesisTyped(h) == h.id \in Int /\ h.score \in Int /\ h.thoughts \in Int /\ h.created_at \in Int

\* The hypotheses of a list have different ids.
LEMMA ListFacts ==
  ASSUME NEW hs \in HypothesisLists
  PROVE  /\ hs \in Seq(Range(hs)) /\ Len(hs) \in Nat /\ DOMAIN hs = 1..Len(hs)
         /\ \A i \in DOMAIN hs : hs[i] \in Range(hs) /\ HypothesisTyped(hs[i])
         /\ \A x \in Range(hs) : HypothesisTyped(x) /\ \E i \in DOMAIN hs : x = hs[i]
         /\ \A i, j \in DOMAIN hs : hs[i].id = hs[j].id => i = j
         /\ IsFiniteSet(Range(hs)) /\ Cardinality(Range(hs)) = Len(hs)
<1>1. hs \in Seq(Range(hs)) /\ Identified(hs)
      /\ \A h \in Range(hs) : {h.id, h.score, h.thoughts, h.created_at} \subseteq Int
  BY DeliberationAssumption
<1>2. \A i, j \in DOMAIN hs : hs[i].id = hs[j].id => i = j  BY <1>1 DEF Identified
<1>3. \A i, j \in DOMAIN hs : hs[i] = hs[j] => i = j  BY <1>2
<1>4. Len(hs) \in Nat /\ DOMAIN hs = 1..Len(hs)  BY <1>1
<1>5. IsFiniteSet(Range(hs)) /\ Cardinality(Range(hs)) = Len(hs)
  BY <1>1, <1>3, <1>4, OnceIsOneToOne
<1>6. \A x \in Range(hs) : HypothesisTyped(x)  BY <1>1 DEF HypothesisTyped
<1>7. \A x : x \in Range(hs) <=> \E i \in DOMAIN hs : x = hs[i]  BY DEF Range
<1> QED  BY <1>1, <1>2, <1>4, <1>5, <1>6, <1>7

\* Under each policy one of two hypotheses comes before the other.
LEMMA BeforeOrders ==
  ASSUME NEW hs \in HypothesisLists, NEW policy
  PROVE  StrictOrder(Range(hs), Precedence(Range(hs), policy))
<1> DEFINE S == Range(hs)
<1>1. \A x, y \in S : HypothesisTyped(x) /\ (x # y => x.id # y.id)
  <2> TAKE x, y \in S
  <2>1. PICK i \in DOMAIN hs : x = hs[i]  BY ListFacts
  <2>2. PICK j \in DOMAIN hs : y = hs[j]  BY ListFacts
  <2> QED  BY <2>1, <2>2, ListFacts
<1>2. \A x, y \in S : <<x, y>> \in Precedence(S, policy) <=> Before(x, y, policy)
  BY DEF Precedence
<1> HIDE DEF S
<1>3. ASSUME NEW x \in S PROVE ~ Before(x, x, policy)
  BY <1>1 DEF Before, ByScore, HypothesisTyped
<1>4. ASSUME NEW x \in S, NEW y \in S, x # y PROVE Before(x, y, policy) \/ Before(y, x, policy)
  BY <1>1, <1>4 DEF Before, ByScore, HypothesisTyped
<1>5. ASSUME NEW x \in S, NEW y \in S, NEW z \in S, Before(x, y, policy), Before(y, z, policy)
      PROVE  Before(x, z, policy)
  <2>1. HypothesisTyped(x) /\ HypothesisTyped(y) /\ HypothesisTyped(z)  BY <1>1
  <2>2. CASE policy = "EVIDENCE_COUNT"  BY <1>5, <2>1, <2>2 DEF Before, ByScore, HypothesisTyped
  <2>3. CASE policy = "RECENT_SOURCE"  BY <1>5, <2>1, <2>3 DEF Before, ByScore, HypothesisTyped
  <2>4. CASE policy \notin {"EVIDENCE_COUNT", "RECENT_SOURCE"}
    BY <1>5, <2>1, <2>4 DEF Before, ByScore, HypothesisTyped
  <2> QED  BY <2>2, <2>3, <2>4
<1> QED  BY <1>2, <1>3, <1>4, <1>5 DEF StrictOrder, S

\* Ranking puts each hypothesis where the number of better ones says.
LEMMA RankedPlaces ==
  ASSUME NEW hs \in HypothesisLists, NEW policy
  PROVE  /\ Ranked(hs, policy) = [r \in 1..Len(hs) |-> Ranked(hs, policy)[r]]
         /\ \A r \in 1..Len(hs) :
              /\ Ranked(hs, policy)[r] \in Range(hs)
              /\ Cardinality(Better(Range(hs), Precedence(Range(hs), policy), Ranked(hs, policy)[r])) = r - 1
<1> DEFINE S == Range(hs)
           R == Precedence(Range(hs), policy)
           Ahead(i) == {j \in DOMAIN hs :
                          \/ Before(hs[j], hs[i], policy)
                          \/ j < i /\ ~ Before(hs[i], hs[j], policy)}
<1>1. StrictOrder(S, R)  BY BeforeOrders
<1>2. /\ IsFiniteSet(S) /\ Cardinality(S) = Len(hs) /\ Len(hs) \in Nat /\ DOMAIN hs = 1..Len(hs)
      /\ \A i \in DOMAIN hs : hs[i] \in S
      /\ \A x \in S : \E i \in DOMAIN hs : x = hs[i]
      /\ \A i, j \in DOMAIN hs : hs[i] = hs[j] => i = j
  BY ListFacts
<1>3. \A x, y \in S : <<x, y>> \in R <=> Before(x, y, policy)  BY DEF Precedence
<1>4. ASSUME NEW i \in DOMAIN hs PROVE Cardinality(Ahead(i)) = Cardinality(Better(S, R, hs[i]))
  <2> DEFINE f == [j \in Ahead(i) |-> hs[j]]
             A == Ahead(i)
             B == Better(S, R, hs[i])
  <2>1. \A j \in DOMAIN hs : j \in A <=> <<hs[j], hs[i]>> \in R
    <3> TAKE j \in DOMAIN hs
    <3>1. j \in A <=> \/ <<hs[j], hs[i]>> \in R
                      \/ j < i /\ ~ <<hs[i], hs[j]>> \in R
      BY <1>2, <1>3
    <3>2. j < i => hs[i] # hs[j]  BY <1>2
    <3> HIDE DEF A, R, S
    <3> QED  BY <1>1, <1>2, <3>1, <3>2 DEF StrictOrder
  <2>2. A \subseteq DOMAIN hs  OBVIOUS
  <2>3. f = [j \in A |-> hs[j]]  OBVIOUS
  <2> HIDE DEF A, f, S, R
  <2>4. \A j \in A : f[j] \in B  BY <1>2, <2>1, <2>2, <2>3 DEF Better
  <2>5. \A x \in B : \E j \in A : f[j] = x  BY <1>2, <2>1, <2>3 DEF Better
  <2>6. \A j, k \in A : f[j] = f[k] => j = k  BY <1>2, <2>2, <2>3
  <2> HIDE DEF B
  <2>7. f \in [A -> B]
    <3>1. f = [j \in A |-> f[j]]  BY <2>3
    <3> QED  BY <2>4, <3>1, FunctionTyped
  <2>8. f \in Bijection(A, B)  BY <2>5, <2>6, <2>7 DEF Bijection, Injection, Surjection, IsInjective
  <2>9. IsFiniteSet(A)
    <3>1. 1 \in Int /\ Len(hs) \in Int  BY <1>2
    <3>2. IsFiniteSet(1..Len(hs))  BY <3>1, FS_Interval
    <3> QED  BY <1>2, <2>2, <3>2, FS_Subset
  <2>10. Cardinality(B) = Cardinality(A)  BY <2>8, <2>9, FS_Bijection DEF ExistsBijection
  <2> QED  BY <2>10 DEF A, B
<1>5. Ranked(hs, policy) = [r \in DOMAIN hs |-> hs[CHOOSE i \in DOMAIN hs : Cardinality(Ahead(i)) = r - 1]]
  BY DEF Ranked
<1> HIDE DEF Ahead
<1>6. ASSUME NEW r \in 1..Len(hs)
      PROVE  Ranked(hs, policy)[r] \in S /\ Cardinality(Better(S, R, Ranked(hs, policy)[r])) = r - 1
  <2>1. r - 1 \in 0..Cardinality(S) - 1 /\ r \in DOMAIN hs  BY <1>2
  <2>2. PICK x \in S : Cardinality(Better(S, R, x)) = r - 1
    <3> HIDE DEF S, R
    <3> QED  BY <1>1, <1>2, <2>1, EveryPlaceTaken
  <2>3. PICK i \in DOMAIN hs : x = hs[i]  BY <1>2
  <2> DEFINE c == CHOOSE k \in DOMAIN hs : Cardinality(Ahead(k)) = r - 1
  <2>4. Cardinality(Ahead(i)) = r - 1  BY <1>4, <2>2, <2>3
  <2>5. c \in DOMAIN hs /\ Cardinality(Ahead(c)) = r - 1  BY <2>4
  <2>6. Ranked(hs, policy)[r] = hs[c]  BY <1>5, <2>1
  <2> HIDE DEF c, S, R
  <2> QED  BY <1>2, <1>4, <2>5, <2>6
<1>7. Ranked(hs, policy) = [r \in 1..Len(hs) |-> Ranked(hs, policy)[r]]  BY <1>2, <1>5
<1> QED  BY <1>6, <1>7

\* So the ranking is of the hypotheses, not of their list.
LEMMA RankedIgnoresOrder ==
  ASSUME NEW hs \in HypothesisLists, NEW gs \in HypothesisLists, Reordered(gs, hs), NEW policy
  PROVE  Ranked(gs, policy) = Ranked(hs, policy)
<1> DEFINE S == Range(hs)
           R == Precedence(S, policy)
           f == Ranked(hs, policy)
           g == Ranked(gs, policy)
<1>1. Len(gs) = Len(hs) /\ Range(gs) = S  BY DEF Reordered
<1>2. /\ f = [r \in 1..Len(hs) |-> f[r]]
      /\ \A r \in 1..Len(hs) : f[r] \in S /\ Cardinality(Better(S, R, f[r])) = r - 1
  BY RankedPlaces
<1>3. /\ g = [r \in 1..Len(hs) |-> g[r]]
      /\ \A r \in 1..Len(hs) : g[r] \in S /\ Cardinality(Better(S, R, g[r])) = r - 1
  <2>1. /\ g = [r \in 1..Len(gs) |-> g[r]]
        /\ \A r \in 1..Len(gs) :
             /\ g[r] \in Range(gs)
             /\ Cardinality(Better(Range(gs), Precedence(Range(gs), policy), g[r])) = r - 1
    BY RankedPlaces
  <2> QED  BY <1>1, <2>1
<1>4. StrictOrder(S, R) /\ IsFiniteSet(S) /\ Cardinality(S) = Len(hs) /\ Len(hs) \in Nat
  BY BeforeOrders, ListFacts
<1> HIDE DEF S, R, f, g
<1>5. ASSUME NEW r \in 1..Len(hs) PROVE f[r] = g[r]
  <2>1. r - 1 \in 0..Cardinality(S) - 1  BY <1>4
  <2>2. \E x \in S : /\ Cardinality(Better(S, R, x)) = r - 1
                     /\ \A y \in S : Cardinality(Better(S, R, y)) = r - 1 => y = x
    BY <1>4, <2>1, EveryPlaceTaken
  <2> QED  BY <1>2, <1>3, <2>2
<1>6. f = g  BY <1>2, <1>3, <1>5
<1> QED  BY <1>6 DEF f, g
-----------------------------------------------------------------------------
(* Beliefs and providers. *)

\* Of two beliefs with different ids one prevails, whichever is named first.
LEMMA BeliefsSwap ==
  ASSUME NEW b1 \in Beliefs, NEW b2 \in Beliefs, b1.id # b2.id, NEW policy
  PROVE  ResolveBeliefContradiction(b1, b2, policy) = ResolveBeliefContradiction(b2, b1, policy)
<1>1. \A s \in DOMAIN SourceRank : SourceRank[s] \in Int  BY DEF SourceRank
<1>2. Standing(b1, policy) \in Int /\ Standing(b2, policy) \in Int /\ b1.id \in Int /\ b2.id \in Int
  <2>1. \A b \in Beliefs : Standing(b, policy) \in Int /\ b.id \in Int
    <3> TAKE b \in Beliefs
    <3>1. /\ {b.id, b.confidence, b.evidence_count, b.last_verified} \subseteq Int
          /\ b.source \in DOMAIN SourceRank
      BY DeliberationAssumption
    <3>2. SourceRank[b.source] \in Int  BY <1>1, <3>1
    <3> QED  BY <3>1, <3>2 DEF Standing
  <2> QED  BY <2>1
<1>3. Prevails(b1, b2, policy) <=> ~ Prevails(b2, b1, policy)  BY <1>2 DEF Prevails
<1>4. b1 # b2  OBVIOUS
<1> QED  BY <1>3, <1>4 DEF ResolveBeliefContradiction

Eligible(es, capability) == {i \in DOMAIN es : capability \in es[i].advertised}

PrefersTo(x, y) == x.priority > y.priority \/ (x.priority = y.priority /\ x.name < y.name)

\* Entries of different names are ranked by priority and name.
LEMMA EntriesRanked ==
  ASSUME NEW es \in EntryLists, DistinctNames(es), NEW capability, Eligible(es, capability) # {}
  PROVE  \E x \in {es[i] : i \in Eligible(es, capability)} :
           \A i \in Eligible(es, capability) :
             (\A j \in Eligible(es, capability) : PrefersEntry(es, i, j)) <=> es[i] = x
<1> DEFINE E == Eligible(es, capability)
           S == {es[i] : i \in E}
           R == {p \in S \X S : PrefersTo(p[1], p[2])}
<1>1. /\ es \in Seq(Range(es)) /\ DOMAIN es = 1..Len(es) /\ Len(es) \in Nat
      /\ \A i \in DOMAIN es : es[i].priority \in Int /\ es[i].name \in Int
  <2>1. es \in Seq(Range(es)) /\ \A e \in Range(es) : {e.priority, e.name} \subseteq Int
    BY DeliberationAssumption
  <2> QED  BY <2>1 DEF Range
<1>2. E \subseteq DOMAIN es /\ E # {}  BY DEF Eligible
<1>3. \A i, j \in DOMAIN es : es[i].name = es[j].name => i = j  BY DEF DistinctNames
<1>4. IsFiniteSet(S)
  <2>1. \A i, j \in DOMAIN es : es[i] = es[j] => i = j  BY <1>3
  <2>2. IsFiniteSet(Range(es))  BY <1>1, OnceIsOneToOne
  <2>3. S \subseteq Range(es)  BY <1>2 DEF Range
  <2> QED  BY <2>2, <2>3, FS_Subset
<1>5. \A x, y \in S : <<x, y>> \in R <=> PrefersTo(x, y)  OBVIOUS
<1>6. \A x \in S : \E i \in E : x = es[i] /\ i \in DOMAIN es /\ x.priority \in Int /\ x.name \in Int
  BY <1>1, <1>2
<1>7. \A i \in E : es[i] \in S  OBVIOUS
<1> HIDE DEF S, R, E
<1>8. StrictOrder(S, R)
  <2>1. ASSUME NEW x \in S PROVE ~ PrefersTo(x, x)  BY <1>6 DEF PrefersTo
  <2>2. ASSUME NEW x \in S, NEW y \in S, x # y PROVE PrefersTo(x, y) \/ PrefersTo(y, x)
    <3>1. x.name # y.name  BY <1>3, <1>6, <2>2
    <3> QED  BY <1>6, <3>1 DEF PrefersTo
  <2>3. ASSUME NEW x \in S, NEW y \in S, NEW z \in S, PrefersTo(x, y), PrefersTo(y, z)
        PROVE  PrefersTo(x, z)
    BY <1>6, <2>3 DEF PrefersTo
  <2> QED  BY <1>5, <2>1, <2>2, <2>3 DEF StrictOrder
<1>9. 0 \in 0..Cardinality(S) - 1
  <2>1. S # {}  BY <1>2, <1>7
  <2>2. Cardinality(S) \in Nat /\ Cardinality(S) # 0  BY <1>4, <2>1, FS_CardinalityType, FS_EmptySet
  <2> QED  BY <2>2
<1>10. PICK x \in S : Cardinality(Better(S, R, x)) = 0
  BY <1>4, <1>8, <1>9, EveryPlaceTaken
<1>11. \A y \in S : ~ PrefersTo(y, x)
  <2>1. Better(S, R, x) \subseteq S  BY DEF Better
  <2>2. IsFiniteSet(Better(S, R, x))  BY <1>4, <2>1, FS_Subset
  <2>3. Better(S, R, x) = {}  BY <1>10, <2>2, FS_EmptySet
  <2> QED  BY <1>5, <2>3 DEF Better
<1>12. ASSUME NEW i \in E, es[i] = x, NEW j \in E PROVE PrefersEntry(es, i, j)
  <2>1. i \in DOMAIN es /\ j \in DOMAIN es /\ es[j] \in S  BY <1>2, <1>7
  <2>2. ~ PrefersTo(es[j], es[i])  BY <1>11, <1>12, <2>1
  <2>3. /\ es[i].priority \in Int /\ es[j].priority \in Int /\ es[i].name \in Int /\ es[j].name \in Int
        /\ i \in Int /\ (es[i].name = es[j].name => i = j)
    BY <1>1, <1>3, <2>1
  <2> QED  BY <2>2, <2>3 DEF PrefersEntry, PrefersTo
<1>13. ASSUME NEW i \in E, \A j \in E : PrefersEntry(es, i, j) PROVE es[i] = x
  <2>1. PICK j \in E : x = es[j]  BY <1>6
  <2>2. i \in DOMAIN es /\ j \in DOMAIN es /\ es[i] \in S  BY <1>2, <1>7
  <2>3. PrefersEntry(es, i, j) /\ ~ PrefersTo(es[i], es[j])  BY <1>11, <1>13, <2>1, <2>2
  <2>4. es[i].name = es[j].name  BY <2>3 DEF PrefersEntry, PrefersTo
  <2> QED  BY <1>3, <2>1, <2>2, <2>4
<1> QED  BY <1>12, <1>13 DEF S, E

\* Reordered entries of different names give the same answer.
LEMMA ResolveIgnoresOrder ==
  ASSUME NEW es \in EntryLists, NEW fs \in EntryLists, Reordered(fs, es), DistinctNames(es), NEW capability
  PROVE  Resolve(fs, capability) = Resolve(es, capability)
<1> DEFINE E == Eligible(es, capability)
           F == Eligible(fs, capability)
<1>1. Len(fs) = Len(es) /\ Range(fs) = Range(es)  BY DEF Reordered
<1>2. /\ es \in Seq(Range(es)) /\ fs \in Seq(Range(fs)) /\ Len(es) \in Nat
      /\ DOMAIN es = 1..Len(es) /\ DOMAIN fs = 1..Len(es)
  BY <1>1, DeliberationAssumption
<1>3. DistinctNames(fs)
  <2>1. \A i, j \in DOMAIN es : es[i] = es[j] => i = j  BY DEF DistinctNames
  <2>2. Cardinality(Range(es)) = Len(es)  BY <1>2, <2>1, OnceIsOneToOne
  <2>3. \A i, j \in DOMAIN fs : fs[i] = fs[j] => i = j  BY <1>1, <1>2, <2>2, OnceIsOneToOne
  <2>4. \A x, y \in Range(es) : x.name = y.name => x = y  BY DEF DistinctNames, Range
  <2>5. \A i \in DOMAIN fs : fs[i] \in Range(es)  BY <1>1 DEF Range
  <2> QED  BY <2>3, <2>4, <2>5 DEF DistinctNames
<1>4. \A x : (\E i \in DOMAIN es : es[i] = x) <=> (\E i \in DOMAIN fs : fs[i] = x)
  <2>1. \A x : (\E i \in DOMAIN es : es[i] = x) <=> x \in Range(es)  BY DEF Range
  <2>2. \A x : (\E i \in DOMAIN fs : fs[i] = x) <=> x \in Range(fs)  BY DEF Range
  <2> QED  BY <1>1, <2>1, <2>2
<1>5. (\E i \in DOMAIN es : es[i].advertised \cap es[i].lacks # {})
        <=> (\E i \in DOMAIN fs : fs[i].advertised \cap fs[i].lacks # {})
  BY <1>4
<1>6. \A x : (\E i \in E : es[i] = x) <=> (\E i \in F : fs[i] = x)
  <2>1. \A x : (\E i \in E : es[i] = x) <=> (capability \in x.advertised /\ \E i \in DOMAIN es : es[i] = x)
    BY DEF Eligible
  <2>2. \A x : (\E i \in F : fs[i] = x) <=> (capability \in x.advertised /\ \E i \in DOMAIN fs : fs[i] = x)
    BY DEF Eligible
  <2> HIDE DEF E, F
  <2> QED  BY <1>4, <2>1, <2>2
<1>7. E = {} <=> F = {}
  <2> HIDE DEF E, F
  <2> QED  BY <1>6
<1>8. /\ Resolve(es, capability) =
           IF \E i \in DOMAIN es : es[i].advertised \cap es[i].lacks # {} THEN ConfigurationError
           ELSE IF E = {} THEN NoProvider
           ELSE es[CHOOSE i \in E : \A j \in E : PrefersEntry(es, i, j)]
      /\ Resolve(fs, capability) =
           IF \E i \in DOMAIN fs : fs[i].advertised \cap fs[i].lacks # {} THEN ConfigurationError
           ELSE IF F = {} THEN NoProvider
           ELSE fs[CHOOSE i \in F : \A j \in F : PrefersEntry(fs, i, j)]
  BY DEF Resolve, Eligible
<1>9. ASSUME E # {}
      PROVE  es[CHOOSE i \in E : \A j \in E : PrefersEntry(es, i, j)]
               = fs[CHOOSE i \in F : \A j \in F : PrefersEntry(fs, i, j)]
  <2> DEFINE b == CHOOSE i \in E : \A j \in E : PrefersEntry(es, i, j)
             c == CHOOSE i \in F : \A j \in F : PrefersEntry(fs, i, j)
  <2>1. PICK x \in {es[i] : i \in E} : \A i \in E : (\A j \in E : PrefersEntry(es, i, j)) <=> es[i] = x
    BY <1>9, EntriesRanked
  <2>2. PICK y \in {fs[i] : i \in F} : \A i \in F : (\A j \in F : PrefersEntry(fs, i, j)) <=> fs[i] = y
    BY <1>3, <1>7, <1>9, EntriesRanked
  <2> HIDE DEF E, F
  <2>3. b \in E /\ (\A j \in E : PrefersEntry(es, b, j)) /\ es[b] = x  BY <2>1
  <2>4. c \in F /\ (\A j \in F : PrefersEntry(fs, c, j)) /\ fs[c] = y  BY <2>2
  <2> HIDE DEF b, c
  <2>5. PICK i \in F : fs[i] = x  BY <1>6, <2>3
  <2>6. PICK j \in E : es[j] = y  BY <1>6, <2>4
  <2>7. b \in DOMAIN es /\ j \in DOMAIN es /\ c \in DOMAIN fs /\ i \in DOMAIN fs
    BY <2>3, <2>4, <2>5, <2>6 DEF E, F, Eligible
  <2>8. \A e \in Range(es) : e.priority \in Int /\ e.name \in Int
    <3>1. \A e \in Range(es) : {e.priority, e.name} \subseteq Int  BY DeliberationAssumption
    <3> QED  BY <3>1
  <2>9. x \in Range(es) /\ y \in Range(es)  BY <2>3, <2>6, <2>7 DEF Range
  <2>10. PrefersEntry(es, b, j) /\ PrefersEntry(fs, c, i)  BY <2>3, <2>4, <2>5, <2>6
  <2>11. x.name = y.name
    BY <2>3, <2>4, <2>5, <2>6, <2>8, <2>9, <2>10 DEF PrefersEntry
  <2>12. x = y  BY <2>3, <2>6, <2>7, <2>11 DEF DistinctNames
  <2> QED  BY <2>3, <2>4, <2>12 DEF b, c
<1> QED  BY <1>5, <1>7, <1>8, <1>9

-----------------------------------------------------------------------------
(* The answers about choices. *)

ChoicesAnswered ==
  LET q == question IN
  answer # Unanswered /\ q \in ChoiceQuestions =>
    Result = CASE q.of = "resolve_belief_contradiction" -> ResolveBeliefContradiction(q.b1, q.b2, q.policy)
               [] q.of = "resolve_hypotheses_conflict" -> ResolveHypothesesConflict(q.hs, q.policy)
               [] q.of = "prune_candidates" -> PruneCandidates(q.hs)
               [] OTHER -> Resolve(q.es, q.capability)

\* Choosing takes one step.
LEMMA ChoiceStep ==
  ASSUME question \in Questions, ChoicesAnswered, [QueryNext]_queryVars
  PROVE  ChoicesAnswered'
<1> SUFFICES ASSUME question \in ChoiceQuestions PROVE ChoicesAnswered'
  <2>1. question' = question  BY OneAlgorithm
  <2> QED  BY <2>1 DEF ChoicesAnswered
<1>1. question' = question /\ [Choose]_searchVars  BY OneAlgorithm
<1>2. CASE UNCHANGED searchVars  BY <1>2 DEF ChoicesAnswered, searchVars, Result
<1>3. CASE AskBeliefs
  BY <1>3 DEF AskBeliefs, Answers, Reply, ChoicesAnswered, Result
<1>4. CASE AskHypotheses
  BY <1>4 DEF AskHypotheses, Answers, Reply, ChoicesAnswered, Result
<1>5. CASE AskPrune
  BY <1>5 DEF AskPrune, Answers, Reply, ChoicesAnswered, Result
<1>6. CASE AskProvider
  BY <1>6 DEF AskProvider, Answers, Reply, ChoicesAnswered, Result
<1> QED  BY <1>1, <1>2, <1>3, <1>4, <1>5, <1>6 DEF Choose

\* Swapped beliefs, reordered hypotheses and reordered providers of different names give

\* the same winner, whatever the candidates.
THEOREM ChoicesAreOfTheCandidates == QuerySpec => []ChoicesIgnoreOrder
<1> DEFINE I == question \in Questions /\ ChoicesAnswered
<1>1. QueryInit => I  BY DEF QueryInit, Idle, ChoicesAnswered
<1>2. I /\ [QueryNext]_queryVars => I'  BY OneAlgorithm, ChoiceStep
<1>3. I => ChoicesIgnoreOrder
  <2> SUFFICES ASSUME question \in Questions, ChoicesAnswered PROVE ChoicesIgnoreOrder  OBVIOUS
  <2>1. ASSUME Answered({"resolve_belief_contradiction"})
        PROVE  Result = ResolveBeliefContradiction(question.b2, question.b1, question.policy)
    <3>1. question.of = "resolve_belief_contradiction" /\ question \in ChoiceQuestions
      BY <2>1, KindsApart DEF Answered
    <3>2. question.b1 \in Beliefs /\ question.b2 \in Beliefs /\ question.b1.id # question.b2.id
      BY <3>1 DEF ChoiceQuestions
    <3>3. Result = ResolveBeliefContradiction(question.b1, question.b2, question.policy)
      BY <2>1, <3>1 DEF ChoicesAnswered, Answered
    <3> QED  BY <3>2, <3>3, BeliefsSwap
  <2>2. ASSUME Answered({"resolve_hypotheses_conflict"}), NEW hs \in HypothesisLists, Reordered(hs, question.hs)
        PROVE  ResolveHypothesesConflict(hs, question.policy) = Result
    <3>1. question.of = "resolve_hypotheses_conflict" /\ question \in ChoiceQuestions
      BY <2>2, KindsApart DEF Answered
    <3>2. question.hs \in HypothesisLists  BY <3>1 DEF ChoiceQuestions
    <3>3. Result = ResolveHypothesesConflict(question.hs, question.policy)
      BY <2>2, <3>1 DEF ChoicesAnswered, Answered
    <3>4. Ranked(hs, question.policy) = Ranked(question.hs, question.policy)
      BY <2>2, <3>2, RankedIgnoresOrder
    <3> QED  BY <3>3, <3>4 DEF ResolveHypothesesConflict
  <2>3. ASSUME Answered({"prune_candidates"}), NEW hs \in HypothesisLists, Reordered(hs, question.hs)
        PROVE  PruneCandidates(hs) = Result
    <3>1. question.of = "prune_candidates" /\ question \in ChoiceQuestions
      BY <2>3, KindsApart DEF Answered
    <3>2. question.hs \in HypothesisLists  BY <3>1 DEF ChoiceQuestions
    <3>3. Result = PruneCandidates(question.hs)
      BY <2>3, <3>1 DEF ChoicesAnswered, Answered
    <3>4. Ranked(hs, "HIGHER_CONFIDENCE") = Ranked(question.hs, "HIGHER_CONFIDENCE")
      BY <2>3, <3>2, RankedIgnoresOrder
    <3> QED  BY <3>3, <3>4 DEF PruneCandidates
  <2>4. ASSUME Answered({"resolve"}), NEW es \in EntryLists, Reordered(es, question.es), DistinctNames(question.es)
        PROVE  Resolve(es, question.capability) = Result
    <3>1. question.of = "resolve" /\ question \in ChoiceQuestions
      BY <2>4, KindsApart DEF Answered
    <3>2. question.es \in EntryLists  BY <3>1 DEF ChoiceQuestions
    <3>3. Result = Resolve(question.es, question.capability)
      BY <2>4, <3>1 DEF ChoicesAnswered, Answered
    <3> QED  BY <2>4, <3>2, <3>3, ResolveIgnoresOrder
  <2> QED  BY <2>1, <2>2, <2>3, <2>4 DEF ChoicesIgnoreOrder
<1> QED  BY <1>1, <1>2, <1>3, PTL DEF QuerySpec

-----------------------------------------------------------------------------
(* Backward chaining. *)

GivenRules == Range(question.rules)
Frames == [rule : GivenRules, next : Nat \ {0}]

IsListed(r) == \E i \in DOMAIN order : order[i] = r

Layerings ==
  {layer \in [GivenRules -> 1..Len(question.rules)] :
     \A r, s \in GivenRules : Supports(r, s) => layer[s] < layer[r]}

NothingToChain ==
  \/ question.max_depth < 1 \/ question.goal \in question.held
  \/ \A r \in GivenRules : r.conclusion # question.goal

ChainTyped ==
  /\ question \in ChainQuestions /\ waiting \in Seq(Frames) /\ order \in Seq(GivenRules)
  /\ ~ running => waiting = <<>> /\ order = <<>> /\ visited = {}
  /\ running => ((order = <<>> /\ waiting = <<>>) <=> NothingToChain)

\* Each rule visited is listed or still has conditions to prove, once.
ChainVisited ==
  /\ \A x : x \in visited <=> \/ \E i \in DOMAIN order : order[i].id = x
                              \/ \E k \in DOMAIN waiting : waiting[k].rule.id = x
  /\ \A i, j \in DOMAIN order : order[i].id = order[j].id => i = j
  /\ \A k, m \in DOMAIN waiting : waiting[k].rule.id = waiting[m].rule.id => k = m
  /\ \A i \in DOMAIN order, k \in DOMAIN waiting : order[i].id # waiting[k].rule.id

\* The stack leads from the goal down, each rule concluding a premise of the one below.
ChainStack ==
  /\ waiting # <<>> => waiting[1].rule.conclusion = question.goal
  /\ \A k \in 1..Len(waiting) - 1 : Supports(waiting[k].rule, waiting[k + 1].rule)
  /\ \A layer \in Layerings : \A k, m \in DOMAIN waiting :
       k < m => layer[waiting[m].rule] < layer[waiting[k].rule]

\* Each rule listed concludes what a later one or one on the stack needs, or the goal.
ChainUsed ==
  \A i \in DOMAIN order :
    \/ \E j \in i + 1..Len(order) : Supports(order[j], order[i])
    \/ \E k \in DOMAIN waiting : Supports(waiting[k].rule, order[i])
    \/ i = Len(order) /\ waiting = <<>> /\ order[i].conclusion = question.goal

\* The m-th premise of the k-th rule on the stack is done with, or its first rule is next.
PremiseDone(k, m) ==
  \/ waiting[k].rule.premises[m] \in question.held
  \/ \A r \in GivenRules : FirstFor(question.rules, waiting[k].rule.premises[m], r) =>
       \/ IsListed(r)
       \/ k < Len(waiting) /\ m = waiting[k].next - 1 /\ r = waiting[k + 1].rule

ChainSettled ==
  question.max_depth > Len(question.rules) /\ Layerings # {} =>
    /\ \A j \in DOMAIN order, r \in GivenRules :
         \A p \in Range(order[j].premises) \ question.held :
           FirstFor(question.rules, p, r) => \E i \in 1..j - 1 : order[i] = r
    /\ \A k \in DOMAIN waiting : \A m \in DOMAIN waiting[k].rule.premises :
         m < waiting[k].next => PremiseDone(k, m)

ChainAnswered == answer # Unanswered => Result = order /\ waiting = <<>> /\ running

ChainInv ==
  question \in ChainQuestions =>
    ChainTyped /\ ChainVisited /\ ChainStack /\ ChainUsed /\ ChainSettled /\ ChainAnswered

\* The rules given have different ids and lists of premises.
LEMMA RuleFacts ==
  ASSUME question \in ChainQuestions
  PROVE  /\ question.rules \in Seq(GivenRules) /\ Len(question.rules) \in Nat
         /\ DOMAIN question.rules = 1..Len(question.rules)
         /\ \A i \in DOMAIN question.rules : question.rules[i] \in GivenRules
         /\ \A r \in GivenRules : /\ \E i \in DOMAIN question.rules : r = question.rules[i]
                                  /\ DOMAIN r.premises = 1..Len(r.premises) /\ Len(r.premises) \in Nat
         /\ \A r, s \in GivenRules : r.id = s.id => r = s
         /\ IsFiniteSet(GivenRules) /\ Cardinality(GivenRules) = Len(question.rules)
         /\ question.max_depth \in Int
<1> DEFINE rs == question.rules
<1>1. rs \in RuleLists /\ question.max_depth \in Int
  BY DeliberationAssumption DEF ChainQuestions
<1> HIDE DEF rs
<1>2. /\ rs \in Seq(Range(rs)) /\ Identified(rs)
      /\ \A r \in Range(rs) : r.premises \in Seq(Range(r.premises))
  BY <1>1, DeliberationAssumption
<1>3. \A i, j \in DOMAIN rs : rs[i].id = rs[j].id => i = j  BY <1>2 DEF Identified
<1>4. Len(rs) \in Nat /\ DOMAIN rs = 1..Len(rs)  BY <1>2
<1>5. \A x : x \in Range(rs) <=> \E i \in DOMAIN rs : x = rs[i]  BY DEF Range
<1>6. \A r \in Range(rs) : DOMAIN r.premises = 1..Len(r.premises) /\ Len(r.premises) \in Nat  BY <1>2
<1>7. \A i, j \in DOMAIN rs : rs[i] = rs[j] => i = j  BY <1>3
<1>8. IsFiniteSet(Range(rs)) /\ Cardinality(Range(rs)) = Len(rs)
  BY <1>2, <1>4, <1>7, OnceIsOneToOne
<1>9. \A r, s \in Range(rs) : r.id = s.id => r = s  BY <1>3, <1>5
<1>10. GivenRules = Range(rs)  BY DEF GivenRules, rs
<1> QED  BY <1>1, <1>2, <1>4, <1>5, <1>6, <1>8, <1>9, <1>10 DEF rs

\* The stack is never higher than there are rules.
LEMMA StackFitsRules ==
  ASSUME ChainTyped, ChainVisited
  PROVE  Len(waiting) <= Len(question.rules)
<1> DEFINE f == [k \in 1..Len(waiting) |-> waiting[k].rule]
<1>1. waiting \in Seq(Frames) /\ Len(waiting) \in Nat /\ DOMAIN waiting = 1..Len(waiting)  BY DEF ChainTyped
<1>2. \A k \in 1..Len(waiting) : waiting[k].rule \in GivenRules
  <2> TAKE k \in 1..Len(waiting)
  <2>1. waiting[k] \in Frames  BY <1>1
  <2> QED  BY <2>1 DEF Frames
<1>3. f \in [1..Len(waiting) -> GivenRules]  BY <1>2
<1>4. \A k, m \in 1..Len(waiting) : f[k] = f[m] => k = m  BY <1>1 DEF ChainVisited
<1> HIDE DEF f
<1>5. f \in Injection(1..Len(waiting), GivenRules)  BY <1>3, <1>4 DEF Injection, IsInjective
<1>6. IsFiniteSet(GivenRules) /\ Cardinality(GivenRules) = Len(question.rules)  BY RuleFacts DEF ChainTyped
<1>7. Cardinality(1..Len(waiting)) <= Cardinality(GivenRules)  BY <1>5, <1>6, FS_Injection
<1>8. Cardinality(1..Len(waiting)) = Len(waiting)
  <2>1. 1 \in Int /\ Len(waiting) \in Int  BY <1>1
  <2>2. Cardinality(1..Len(waiting)) = IF 1 > Len(waiting) THEN 0 ELSE Len(waiting) - 1 + 1  BY <2>1, FS_Interval
  <2> QED  BY <1>1, <2>2
<1> QED  BY <1>6, <1>7, <1>8

\* A target that does not fail takes its first rule not visited.
LEMMA FitFacts ==
  ASSUME question \in ChainQuestions, NEW target, NEW depth, ~ Fails(target, depth)
  PROVE  /\ FirstFit(target) \in GivenRules
         /\ FirstFit(target).conclusion = target /\ FirstFit(target).id \notin visited
         /\ target \notin question.held /\ ~ depth >= question.max_depth
         /\ \A r \in GivenRules :
              FirstFor(question.rules, target, r) /\ r.id \notin visited => r = FirstFit(target)
<1> DEFINE F == Fits(target)
           c == CHOOSE i \in F : \A j \in F : i <= j
<1>1. F \subseteq DOMAIN question.rules /\ DOMAIN question.rules \subseteq Nat
  BY RuleFacts DEF Fits
<1>2. F # {} /\ target \notin question.held /\ ~ depth >= question.max_depth  BY DEF Fails
<1>3. \A i \in DOMAIN question.rules :
        i \in F <=> question.rules[i].conclusion = target /\ question.rules[i].id \notin visited
  BY DEF Fits
<1>4. FirstFit(target) = question.rules[c]  BY DEF FirstFit
<1> HIDE DEF F
<1>5. F \in SUBSET Nat  BY <1>1
<1>6. \E i \in F : \A j \in F : i <= j  BY <1>2, <1>5, LeastNatural
<1>7. c \in F /\ \A j \in F : c <= j  BY <1>6
<1> HIDE DEF c
<1>8. ASSUME NEW r \in GivenRules, FirstFor(question.rules, target, r), r.id \notin visited
      PROVE  r = FirstFit(target)
  <2>1. PICK i \in DOMAIN question.rules :
          /\ question.rules[i] = r /\ r.conclusion = target
          /\ \A j \in 1..i - 1 : question.rules[j].conclusion # target
    BY <1>8 DEF FirstFor
  <2>2. i \in F /\ i \in Nat /\ c \in Nat /\ c <= i  BY <1>1, <1>3, <1>7, <1>8, <2>1
  <2>3. question.rules[c].conclusion = target /\ c \in DOMAIN question.rules  BY <1>1, <1>3, <1>7
  <2>4. c \in 1..Len(question.rules)  BY <2>3, RuleFacts
  <2>5. ~ c < i  BY <2>1, <2>2, <2>3, <2>4
  <2> QED  BY <1>4, <2>1, <2>2, <2>5
<1> QED  BY <1>1, <1>2, <1>3, <1>4, <1>7, <1>8, RuleFacts

\* The goal comes to the stack, or nothing can be chained.
LEMMA GoalStep ==
  ASSUME ChainTyped, ChainVisited, answer = Unanswered, ProveGoal
  PROVE  ChainTyped' /\ ChainVisited' /\ ChainStack' /\ ChainUsed' /\ ChainSettled' /\ ChainAnswered'
<1>1. /\ question' = question /\ answer' = answer /\ running' = TRUE /\ order' = order
      /\ order = <<>> /\ waiting = <<>> /\ visited = {} /\ question \in ChainQuestions
      /\ Prove(question.goal, 0, <<>>)
  BY DEF ProveGoal, ChainTyped
<1>2. question.max_depth \in Int  BY <1>1, RuleFacts
<1>3. CASE Fails(question.goal, 0)
  <2>1. waiting' = <<>> /\ visited' = {}  BY <1>1, <1>3 DEF Prove
  <2>2. NothingToChain
    <3>1. Fits(question.goal) = {} => \A r \in GivenRules : r.conclusion # question.goal
      <4> SUFFICES ASSUME Fits(question.goal) = {}, NEW r \in GivenRules, r.conclusion = question.goal
                   PROVE  FALSE
        OBVIOUS
      <4>1. PICK i \in DOMAIN question.rules : r = question.rules[i]  BY <1>1, RuleFacts
      <4>2. i \in Fits(question.goal)  BY <1>1, <4>1 DEF Fits
      <4> QED  BY <4>2
    <3> QED  BY <1>2, <1>3, <3>1 DEF Fails, NothingToChain
  <2>3. ChainTyped'  BY <1>1, <2>1, <2>2 DEF ChainTyped, NothingToChain, GivenRules, Frames
  <2>4. ChainVisited'  BY <1>1, <2>1 DEF ChainVisited
  <2>5. ChainStack' /\ ChainUsed' /\ ChainSettled' /\ ChainAnswered'
    BY <1>1, <2>1 DEF ChainStack, ChainUsed, ChainSettled, ChainAnswered
  <2> QED  BY <2>3, <2>4, <2>5
<1>4. CASE ~ Fails(question.goal, 0)
  <2> DEFINE r == FirstFit(question.goal)  e == Frame(r, 1)
  <2>1. r \in GivenRules /\ r.conclusion = question.goal /\ ~ NothingToChain
    BY <1>1, <1>2, <1>4, FitFacts DEF NothingToChain
  <2>2. waiting' = <<e>> /\ visited' = {r.id}  BY <1>1, <1>4 DEF Prove
  <2>3. e \in Frames /\ e.rule = r /\ e.next = 1  BY <2>1 DEF Frames, Frame
  <2> HIDE DEF e
  <2>4. waiting' \in Seq(Frames) /\ waiting' # <<>> /\ Len(waiting') = 1 /\ waiting'[1] = e /\ DOMAIN waiting' = 1..1
    BY <2>2, <2>3
  <2>5. ChainTyped'
    BY <1>1, <2>1, <2>4 DEF ChainTyped, NothingToChain, GivenRules, Frames
  <2>6. ChainVisited'  BY <1>1, <2>2, <2>3, <2>4 DEF ChainVisited
  <2>7. ChainStack'  BY <1>1, <2>1, <2>3, <2>4 DEF ChainStack
  <2>8. ChainUsed'  BY <1>1 DEF ChainUsed
  <2>9. ChainAnswered'  BY <1>1 DEF ChainAnswered
  <2>10. ChainSettled'
    <3>1. \A m \in DOMAIN r.premises : ~ m < 1
      <4>1. DOMAIN r.premises = 1..Len(r.premises) /\ Len(r.premises) \in Nat  BY <1>1, <2>1, RuleFacts
      <4> QED  BY <4>1
    <3>2. \A k \in DOMAIN waiting' : \A m \in DOMAIN waiting'[k].rule.premises : ~ m < waiting'[k].next
      BY <2>3, <2>4, <3>1
    <3>3. order' = <<>>  BY <1>1
    <3> QED  BY <3>2, <3>3 DEF ChainSettled
  <2> QED  BY <2>5, <2>6, <2>7, <2>8, <2>9, <2>10
<1> QED  BY <1>3, <1>4

\* Only the innermost rule goes on, and at most one rule comes on top of it.
LEMMA ConditionFacts ==
  ASSUME ChainTyped, ProveCondition
  PROVE  LET n == Len(waiting)
             p == waiting[n].rule.premises[waiting[n].next]
             r == FirstFit(p)
         IN  /\ question' = question /\ answer' = answer /\ running' = running /\ order' = order
             /\ running /\ answer = Unanswered /\ n \in Nat \ {0} /\ DOMAIN waiting = 1..n
             /\ \A k \in 1..n : waiting[k].rule \in GivenRules /\ waiting[k].next \in Nat \ {0}
             /\ waiting[n].next \in DOMAIN waiting[n].rule.premises
             /\ waiting' \in Seq(Frames) /\ DOMAIN waiting' = 1..Len(waiting')
             /\ \A k \in 1..n : /\ waiting'[k].rule = waiting[k].rule
                                /\ waiting'[k].next = waiting[k].next + (IF k = n THEN 1 ELSE 0)
             /\ IF Fails(p, n) THEN Len(waiting') = n /\ visited' = visited
                ELSE /\ Len(waiting') = n + 1 /\ visited' = visited \cup {r.id}
                     /\ waiting'[n + 1].rule = r /\ waiting'[n + 1].next = 1
                     /\ r \in GivenRules /\ r.conclusion = p /\ r.id \notin visited
<1> DEFINE n == Len(waiting)
           f == waiting[n]
           p == f.rule.premises[f.next]
           r == FirstFit(p)
           g == Frame(f.rule, f.next + 1)
           w == [waiting EXCEPT ![n] = g]
           e == Frame(r, 1)
<1>1. /\ question' = question /\ answer' = answer /\ running' = running /\ order' = order
      /\ running /\ answer = Unanswered /\ waiting # <<>> /\ f.next <= Len(f.rule.premises)
      /\ Prove(p, n, w)
  BY DEF ProveCondition, Searching, Innermost, Conditions
<1>2. question \in ChainQuestions /\ waiting \in Seq(Frames)  BY DEF ChainTyped
<1>3. n \in Nat \ {0} /\ DOMAIN waiting = 1..n /\ \A k \in 1..n : waiting[k] \in Frames  BY <1>1, <1>2
<1>4. \A k \in 1..n : waiting[k].rule \in GivenRules /\ waiting[k].next \in Nat \ {0}  BY <1>3 DEF Frames
<1>5. f \in Frames /\ f.rule \in GivenRules /\ f.next \in Nat \ {0}  BY <1>3, <1>4
<1>6. f.next \in DOMAIN f.rule.premises
  <2>1. DOMAIN f.rule.premises = 1..Len(f.rule.premises)  BY <1>2, <1>5, RuleFacts
  <2> QED  BY <1>1, <1>5, <2>1
<1>7. g \in Frames /\ g.rule = f.rule /\ g.next = f.next + 1  BY <1>5 DEF Frame, Frames
<1> HIDE DEF g
<1>8. w \in Seq(Frames) /\ Len(w) = n /\ \A k \in 1..n : w[k] = IF k = n THEN g ELSE waiting[k]
  <2>1. w \in [1..n -> Frames]  BY <1>2, <1>3, <1>7
  <2>2. \A k \in 1..n : w[k] = IF k = n THEN g ELSE waiting[k]  BY <1>3
  <2> HIDE DEF w, n
  <2> QED  BY <1>3, <2>1, <2>2
<1> HIDE DEF w
<1>9. \A k \in 1..n : w[k].rule = waiting[k].rule /\ w[k].next = waiting[k].next + (IF k = n THEN 1 ELSE 0)
  <2> TAKE k \in 1..n
  <2>1. CASE k = n  BY <1>7, <1>8, <2>1
  <2>2. CASE k # n  BY <1>4, <1>8, <2>2
  <2> QED  BY <2>1, <2>2
<1>10. CASE Fails(p, n)
  <2>1. waiting' = w /\ visited' = visited  BY <1>1, <1>10 DEF Prove
  <2>2. DOMAIN waiting' = 1..Len(waiting')  BY <1>8, <2>1
  <2> QED  BY <1>1, <1>3, <1>4, <1>6, <1>8, <1>9, <1>10, <2>1, <2>2
<1>11. CASE ~ Fails(p, n)
  <2>1. waiting' = Append(w, e) /\ visited' = visited \cup {r.id}  BY <1>1, <1>11 DEF Prove
  <2>2. r \in GivenRules /\ r.conclusion = p /\ r.id \notin visited  BY <1>2, <1>11, FitFacts
  <2>3. e \in Frames /\ e.rule = r /\ e.next = 1  BY <2>2 DEF Frame, Frames
  <2> HIDE DEF e, p, r, f, n
  <2>4. /\ waiting' \in Seq(Frames) /\ DOMAIN waiting' = 1..Len(waiting') /\ Len(waiting') = n + 1
        /\ waiting'[n + 1] = e /\ \A k \in 1..n : waiting'[k] = w[k]
    BY <1>3, <1>8, <2>1, <2>3
  <2>5. \A k \in 1..n : /\ waiting'[k].rule = waiting[k].rule
                        /\ waiting'[k].next = waiting[k].next + (IF k = n THEN 1 ELSE 0)
    BY <1>9, <2>4
  <2>6. waiting'[n + 1].rule = r /\ waiting'[n + 1].next = 1  BY <2>3, <2>4
  <2> QED  BY <1>1, <1>3, <1>4, <1>6, <1>11, <2>1, <2>2, <2>4, <2>5, <2>6 DEF n, f, p, r
<1> QED  BY <1>10, <1>11
\* What proving the condition p, the next one of the innermost rule, does: the rule stays
\* with its following condition, and r comes on top of it if p does not fail.
Extends(n, p, r) ==
  /\ question' = question /\ answer' = answer /\ running' = running /\ order' = order
  /\ n = Len(waiting) /\ p = waiting[n].rule.premises[waiting[n].next]
  /\ running /\ answer = Unanswered /\ n \in Nat /\ n > 0 /\ DOMAIN waiting = 1..n
  /\ \A k \in 1..n : waiting[k].rule \in GivenRules /\ waiting[k].next \in Nat
  /\ p \in Range(waiting[n].rule.premises)
  /\ waiting' \in Seq(Frames) /\ DOMAIN waiting' = 1..Len(waiting')
  /\ \A k \in 1..n : waiting'[k].rule = waiting[k].rule
  /\ \A k \in 1..n : waiting'[k].next = waiting[k].next + (IF k = n THEN 1 ELSE 0)
  /\ \/ Fails(p, n) /\ Len(waiting') = n /\ visited' = visited
     \/ /\ ~ Fails(p, n) /\ Len(waiting') = n + 1 /\ visited' = visited \cup {r.id}
        /\ waiting'[n + 1].rule = r /\ waiting'[n + 1].next = 1
        /\ r \in GivenRules /\ r.conclusion = p /\ r.id \notin visited
        /\ Supports(waiting[n].rule, r) /\ r = FirstFit(p)

\* ProveCondition is such a step.
LEMMA ConditionExtends ==
  ASSUME ChainTyped, ProveCondition
  PROVE  \E n, p, r : Extends(n, p, r)
<1> DEFINE n == Len(waiting)
           p == waiting[n].rule.premises[waiting[n].next]
           r == FirstFit(p)
<1>1. /\ question' = question /\ answer' = answer /\ running' = running /\ order' = order
      /\ running /\ answer = Unanswered /\ n \in Nat \ {0} /\ DOMAIN waiting = 1..n
      /\ \A k \in 1..n : waiting[k].rule \in GivenRules /\ waiting[k].next \in Nat \ {0}
      /\ waiting[n].next \in DOMAIN waiting[n].rule.premises
      /\ waiting' \in Seq(Frames) /\ DOMAIN waiting' = 1..Len(waiting')
      /\ \A k \in 1..n : /\ waiting'[k].rule = waiting[k].rule
                         /\ waiting'[k].next = waiting[k].next + (IF k = n THEN 1 ELSE 0)
      /\ IF Fails(p, n) THEN Len(waiting') = n /\ visited' = visited
         ELSE /\ Len(waiting') = n + 1 /\ visited' = visited \cup {r.id}
              /\ waiting'[n + 1].rule = r /\ waiting'[n + 1].next = 1
              /\ r \in GivenRules /\ r.conclusion = p /\ r.id \notin visited
  BY ConditionFacts
<1>2. p \in Range(waiting[n].rule.premises)  BY <1>1 DEF Range
<1>3. r.conclusion = p => Supports(waiting[n].rule, r)  BY <1>2 DEF Supports
<1>4. n = Len(waiting) /\ p = waiting[n].rule.premises[waiting[n].next] /\ r = FirstFit(p)  OBVIOUS
<1> HIDE DEF n, p, r
<1>5. n > 0
  <2>1. n \in Nat \ {0}  BY <1>1
  <2> QED  BY ONLY <2>1
<1>6. /\ \A k \in 1..n : waiting[k].rule \in GivenRules /\ waiting[k].next \in Nat
      /\ \A k \in 1..n : waiting'[k].rule = waiting[k].rule
      /\ \A k \in 1..n : waiting'[k].next = waiting[k].next + (IF k = n THEN 1 ELSE 0)
      /\ n \in Nat /\ DOMAIN waiting = 1..n
  BY <1>1
<1>7. \/ Fails(p, n) /\ Len(waiting') = n /\ visited' = visited
      \/ /\ ~ Fails(p, n) /\ Len(waiting') = n + 1 /\ visited' = visited \cup {r.id}
         /\ waiting'[n + 1].rule = r /\ waiting'[n + 1].next = 1
         /\ r \in GivenRules /\ r.conclusion = p /\ r.id \notin visited
         /\ Supports(waiting[n].rule, r) /\ r = FirstFit(p)
  BY <1>1, <1>3, <1>4
<1>8. /\ question' = question /\ answer' = answer /\ running' = running /\ order' = order
      /\ running /\ answer = Unanswered
      /\ waiting' \in Seq(Frames) /\ DOMAIN waiting' = 1..Len(waiting')
  BY <1>1
<1>9. Extends(n, p, r)  BY ONLY <1>2, <1>4, <1>5, <1>6, <1>7, <1>8, Zenon DEF Extends
<1> QED  BY <1>9

\* The places of the stack after such a step.
LEMMA ExtendedPlaces ==
  ASSUME NEW n, NEW p, NEW r, Extends(n, p, r)
  PROVE  /\ 1..n \subseteq DOMAIN waiting'
         /\ \A k \in DOMAIN waiting' : k \in 1..n \/ (k = n + 1 /\ ~ Fails(p, n))
<1>1. /\ n \in Nat /\ DOMAIN waiting' = 1..Len(waiting')
      /\ (Len(waiting') = n \/ (Len(waiting') = n + 1 /\ ~ Fails(p, n)))
  BY DEF Extends
<1> DEFINE l == Len(waiting')  D == DOMAIN waiting'  F == Fails(p, n)
<1>2. n \in Nat /\ D = 1..l /\ (l = n \/ (l = n + 1 /\ ~ F))  BY <1>1
<1> HIDE DEF l, D, F
<1>3. 1..n \subseteq D /\ \A k \in D : k \in 1..n \/ (k = n + 1 /\ ~ F)  BY <1>2
<1> QED  BY <1>3 DEF l, D, F

\* Such a step keeps the types, and does not come where nothing can be chained.
LEMMA ConditionTyped ==
  ASSUME NEW n, NEW p, NEW r, Extends(n, p, r), ChainTyped
  PROVE  ChainTyped'
<1>1. /\ question' = question /\ running' = running /\ order' = order
      /\ running /\ waiting' \in Seq(Frames) /\ n = Len(waiting) /\ n \in Nat /\ n > 0
      /\ (Len(waiting') = n \/ Len(waiting') = n + 1)
  BY DEF Extends
<1>2. waiting # <<>> /\ waiting' # <<>>
  <2>1. Len(waiting) # 0 /\ Len(waiting') # 0  BY <1>1
  <2> QED  BY <2>1
<1>3. NothingToChain' <=> NothingToChain  BY <1>1 DEF NothingToChain, GivenRules
<1>4. GivenRules' = GivenRules /\ Frames' = Frames  BY <1>1 DEF Frames, GivenRules
<1> QED  BY <1>1, <1>2, <1>3, <1>4 DEF ChainTyped

\* The rule that comes on the stack is visited then, and was not before.
LEMMA ConditionVisited ==
  ASSUME NEW n, NEW p, NEW r, Extends(n, p, r), ChainVisited
  PROVE  ChainVisited'
<1>1. /\ order' = order /\ DOMAIN waiting = 1..n /\ n \in Nat
      /\ \A k \in 1..n : waiting'[k].rule = waiting[k].rule
      /\ DOMAIN waiting' = 1..Len(waiting')
  BY DEF Extends
<1>2. CASE Len(waiting') = n /\ visited' = visited
  <2>1. DOMAIN waiting' = 1..n  BY <1>1, <1>2
  <2> QED  BY <1>1, <1>2, <2>1 DEF ChainVisited
<1>3. CASE /\ Len(waiting') = n + 1 /\ visited' = visited \cup {r.id}
           /\ waiting'[n + 1].rule = r /\ r.id \notin visited
  <2>1. DOMAIN waiting' = 1..n + 1  BY <1>1, <1>3
  <2>2. \A k \in 1..n + 1 : k \in 1..n \/ k = n + 1  BY <1>1
  <2>3. 1..n \subseteq 1..n + 1 /\ n + 1 \in 1..n + 1 /\ n + 1 \notin 1..n  BY <1>1
  <2>4. \A k \in 1..n : waiting'[k].rule.id \in visited /\ waiting'[k].rule.id # r.id
    BY <1>1, <1>3 DEF ChainVisited
  <2>5. \A i \in DOMAIN order : order[i].id \in visited /\ order[i].id # r.id
    BY <1>3 DEF ChainVisited
  <2>6. ASSUME NEW x
        PROVE  x \in visited' <=> \/ \E i \in DOMAIN order' : order'[i].id = x
                                  \/ \E k \in DOMAIN waiting' : waiting'[k].rule.id = x
    <3>1. CASE x = r.id  BY <1>3, <2>1, <2>3, <3>1
    <3>2. CASE x # r.id
      <4>1. x \in visited' <=> x \in visited  BY <1>3, <3>2
      <4>2. (\E k \in DOMAIN waiting' : waiting'[k].rule.id = x)
              <=> \E k \in DOMAIN waiting : waiting[k].rule.id = x
        BY <1>1, <1>3, <2>1, <2>2, <2>3, <3>2
      <4> QED  BY <1>1, <4>1, <4>2 DEF ChainVisited
    <3> QED  BY <3>1, <3>2
  <2>7. \A i, j \in DOMAIN order' : order'[i].id = order'[j].id => i = j  BY <1>1 DEF ChainVisited
  <2>8. ASSUME NEW k \in DOMAIN waiting', NEW m \in DOMAIN waiting', waiting'[k].rule.id = waiting'[m].rule.id
        PROVE  k = m
    <3>1. k \in 1..n \/ k = n + 1  BY <2>1, <2>2
    <3>2. m \in 1..n \/ m = n + 1  BY <2>1, <2>2
    <3>3. CASE k \in 1..n /\ m \in 1..n  BY <1>1, <2>8, <3>3 DEF ChainVisited
    <3>4. CASE k \in 1..n /\ m = n + 1  BY <1>3, <2>4, <2>8, <3>4
    <3>5. CASE k = n + 1 /\ m \in 1..n  BY <1>3, <2>4, <2>8, <3>5
    <3> QED  BY <3>1, <3>2, <3>3, <3>4, <3>5
  <2>9. ASSUME NEW i \in DOMAIN order', NEW k \in DOMAIN waiting'
        PROVE  order'[i].id # waiting'[k].rule.id
    <3>1. k \in 1..n \/ k = n + 1  BY <2>1, <2>2
    <3>2. CASE k \in 1..n  BY <1>1, <3>2 DEF ChainVisited
    <3>3. CASE k = n + 1  BY <1>1, <1>3, <2>5, <3>3
    <3> QED  BY <3>1, <3>2, <3>3
  <2> QED  BY <2>6, <2>7, <2>8, <2>9 DEF ChainVisited
<1> QED  BY <1>2, <1>3 DEF Extends

\* The rule that comes on top is in a layer below all others of the stack.
LEMMA Descends ==
  ASSUME NEW n, NEW p, NEW r, Extends(n, p, r), ChainStack, NEW layer \in Layerings,
         NEW s \in GivenRules, Supports(waiting[n].rule, s), NEW k \in 1..n
  PROVE  layer[s] < layer[waiting[k].rule]
<1>1. n \in Nat /\ n > 0 /\ DOMAIN waiting = 1..n /\ \A i \in 1..n : waiting[i].rule \in GivenRules
  BY DEF Extends
<1>2. n \in 1..n /\ (k < n \/ k = n)  BY <1>1
<1>3. waiting[n].rule \in GivenRules /\ waiting[k].rule \in GivenRules  BY <1>1, <1>2
<1>4. layer[s] < layer[waiting[n].rule]  BY <1>3 DEF Layerings
<1>5. k < n => layer[waiting[n].rule] < layer[waiting[k].rule]  BY <1>1, <1>2 DEF ChainStack
<1>6. \A t \in GivenRules : layer[t] \in Int  BY DEF Layerings
<1>7. layer[s] \in Int /\ layer[waiting[n].rule] \in Int /\ layer[waiting[k].rule] \in Int
  BY <1>3, <1>6
<1> DEFINE a == layer[s]  b == layer[waiting[n].rule]  c == layer[waiting[k].rule]
<1>8. a < b /\ (k < n => b < c) /\ a \in Int /\ b \in Int /\ c \in Int  BY <1>4, <1>5, <1>7
<1>9. k = n => b = c  OBVIOUS
<1> HIDE DEF a, b, c
<1>10. a < c  BY <1>2, <1>8, <1>9
<1> QED  BY <1>10 DEF a, c

\* It concludes the condition, which is a premise of the rule below it.
LEMMA ConditionStack ==
  ASSUME NEW n, NEW p, NEW r, Extends(n, p, r), ChainStack
  PROVE  ChainStack'
<1>1. /\ question' = question /\ n = Len(waiting) /\ DOMAIN waiting = 1..n /\ n \in Nat /\ n > 0
      /\ \A k \in 1..n : waiting'[k].rule = waiting[k].rule
      /\ (Len(waiting') = n \/ Len(waiting') = n + 1)
  BY DEF Extends
<1>2. Len(waiting') = n + 1 => /\ waiting'[n + 1].rule = r /\ r \in GivenRules
                               /\ Supports(waiting[n].rule, r)
  BY <1>1 DEF Extends
<1>3. waiting'[1].rule.conclusion = question'.goal
  <2>1. 1 \in 1..n /\ waiting # <<>>  BY <1>1
  <2> QED  BY <1>1, <2>1 DEF ChainStack
<1>4. ASSUME NEW k \in 1..Len(waiting') - 1 PROVE Supports(waiting'[k].rule, waiting'[k + 1].rule)
  <2>1. k \in Nat /\ k > 0 /\ (k < n \/ (k = n /\ Len(waiting') = n + 1))  BY <1>1
  <2>2. CASE k < n
    <3>1. k \in 1..n /\ k + 1 \in 1..n /\ k \in 1..Len(waiting) - 1  BY <1>1, <2>1, <2>2
    <3>2. Supports(waiting[k].rule, waiting[k + 1].rule)  BY <3>1 DEF ChainStack
    <3> QED  BY <1>1, <3>1, <3>2
  <2>3. CASE k = n /\ Len(waiting') = n + 1
    <3>1. n \in 1..n  BY <1>1
    <3> QED  BY <1>1, <1>2, <2>3, <3>1
  <2> QED  BY <2>1, <2>2, <2>3
<1>5. Layerings' = Layerings  BY <1>1 DEF Layerings, GivenRules
<1>6. ASSUME NEW layer \in Layerings', NEW k \in DOMAIN waiting', NEW m \in DOMAIN waiting', k < m
      PROVE  layer[waiting'[m].rule] < layer[waiting'[k].rule]
  <2>1. layer \in Layerings  BY <1>5
  <2>2. (k \in 1..n \/ k = n + 1) /\ (m \in 1..n \/ m = n + 1)  BY ExtendedPlaces
  <2>3. k \in 1..n  BY <1>1, <1>6, <2>2
  <2>4. CASE m \in 1..n  BY <1>1, <1>6, <2>1, <2>3, <2>4 DEF ChainStack
  <2>5. CASE m = n + 1
    <3>1. ~ m \in 1..n  BY <1>1, <2>5
    <3>2. Len(waiting') = n + 1  BY <1>1, <3>1, ExtendedPlaces DEF Extends
    <3>3. layer[r] < layer[waiting[k].rule]  BY <1>2, <2>1, <2>3, <3>2, Descends
    <3> QED  BY <1>1, <1>2, <2>3, <2>5, <3>2, <3>3
  <2> QED  BY <2>2, <2>4, <2>5
<1> QED  BY <1>3, <1>4, <1>6 DEF ChainStack

\* The rules listed are needed as before.
LEMMA ConditionUsed ==
  ASSUME NEW n, NEW p, NEW r, Extends(n, p, r), ChainUsed
  PROVE  ChainUsed'
<1>1. /\ order' = order /\ question' = question /\ DOMAIN waiting = 1..n /\ n \in Nat /\ n > 0
      /\ \A k \in 1..n : waiting'[k].rule = waiting[k].rule
  BY DEF Extends
<1>2. waiting # <<>>
  <2>1. 1 \in DOMAIN waiting  BY <1>1
  <2> QED  BY <2>1
<1>3. 1..n \subseteq DOMAIN waiting'  BY ExtendedPlaces
<1>4. ASSUME NEW i \in DOMAIN order
      PROVE  \/ \E j \in i + 1..Len(order) : Supports(order[j], order[i])
             \/ \E k \in DOMAIN waiting' : Supports(waiting'[k].rule, order[i])
  <2>1. \/ \E j \in i + 1..Len(order) : Supports(order[j], order[i])
        \/ \E k \in 1..n : Supports(waiting[k].rule, order[i])
    BY <1>1, <1>2 DEF ChainUsed
  <2>2. ASSUME NEW k \in 1..n, Supports(waiting[k].rule, order[i])
        PROVE  \E m \in DOMAIN waiting' : Supports(waiting'[m].rule, order[i])
    <3>1. k \in DOMAIN waiting' /\ waiting'[k].rule = waiting[k].rule  BY <1>1, <1>3
    <3> QED  BY <2>2, <3>1
  <2> QED  BY <2>1, <2>2
<1> QED  BY <1>1, <1>4 DEF ChainUsed

\* With the search never cut, the first rule for the condition is listed, or it is the one
\* that comes on the stack: it cannot be below, as the stack descends.
LEMMA FirstRuleSettled ==
  ASSUME NEW n, NEW p, NEW r, Extends(n, p, r), ChainTyped, ChainVisited, ChainStack,
         question.max_depth > Len(question.rules), Layerings # {}, p \notin question.held,
         NEW s \in GivenRules, FirstFor(question.rules, p, s)
  PROVE  IsListed(s) \/ (Len(waiting') = n + 1 /\ s = r)
<1>1. /\ n = Len(waiting) /\ DOMAIN waiting = 1..n /\ n \in Nat /\ n > 0
      /\ \A k \in 1..n : waiting[k].rule \in GivenRules
      /\ p \in Range(waiting[n].rule.premises)
  BY DEF Extends
<1>2. question \in ChainQuestions /\ order \in Seq(GivenRules)  BY DEF ChainTyped
<1>3. s.conclusion = p  BY DEF FirstFor
<1>4. Supports(waiting[n].rule, s)  BY <1>1, <1>3 DEF Supports
<1>5. ASSUME NEW k \in 1..n PROVE waiting[k].rule # s
  <2>1. PICK layer \in Layerings : TRUE  OBVIOUS
  <2>2. layer[s] < layer[waiting[k].rule]  BY <1>4, Descends
  <2>3. layer[s] \in Int  BY DEF Layerings
  <2> QED  BY <2>2, <2>3
<1>6. CASE s.id \in visited
  <2>1. \A k \in 1..n : waiting[k].rule.id # s.id  BY <1>1, <1>2, <1>5, RuleFacts
  <2>2. PICK i \in DOMAIN order : order[i].id = s.id  BY <1>1, <1>6, <2>1 DEF ChainVisited
  <2>3. order[i] \in GivenRules  BY <1>2
  <2>4. order[i] = s  BY <1>2, <2>2, <2>3, RuleFacts
  <2> QED  BY <2>4 DEF IsListed
<1>7. CASE s.id \notin visited
  <2>1. ~ n >= question.max_depth
    <3>1. n <= Len(question.rules)  BY <1>1, StackFitsRules
    <3>2. question.max_depth \in Int /\ Len(question.rules) \in Nat  BY <1>2, RuleFacts
    <3> QED  BY <1>1, <3>1, <3>2
  <2>2. Fits(p) # {}
    <3>1. PICK i \in DOMAIN question.rules : s = question.rules[i]  BY <1>2, RuleFacts
    <3>2. i \in Fits(p)  BY <1>3, <1>7, <3>1 DEF Fits
    <3> QED  BY <3>2
  <2>3. ~ Fails(p, n)  BY <2>1, <2>2 DEF Fails
  <2>4. Len(waiting') = n + 1 /\ r = FirstFit(p)  BY <2>3 DEF Extends
  <2>5. s = FirstFit(p)  BY <1>2, <1>7, <2>3, FitFacts
  <2> QED  BY <2>4, <2>5
<1> QED  BY <1>6, <1>7

\* The condition is done with, or the rule on top is its first.
LEMMA ConditionSettled ==
  ASSUME NEW n, NEW p, NEW r, Extends(n, p, r), ChainTyped, ChainVisited, ChainStack, ChainSettled
  PROVE  ChainSettled'
<1>1. /\ question' = question /\ order' = order
      /\ n = Len(waiting) /\ DOMAIN waiting = 1..n /\ n \in Nat /\ n > 0
      /\ p = waiting[n].rule.premises[waiting[n].next]
      /\ \A k \in 1..n : waiting[k].rule \in GivenRules /\ waiting[k].next \in Nat
      /\ \A k \in 1..n : waiting'[k].rule = waiting[k].rule
      /\ \A k \in 1..n : waiting'[k].next = waiting[k].next + (IF k = n THEN 1 ELSE 0)
      /\ (Len(waiting') = n \/ Len(waiting') = n + 1)
  BY DEF Extends
<1>2. question \in ChainQuestions  BY DEF ChainTyped
<1>3. Layerings' = Layerings /\ GivenRules' = GivenRules  BY <1>1 DEF Layerings, GivenRules
<1>4. \A s : IsListed(s)' <=> IsListed(s)  BY <1>1 DEF IsListed
<1>5. SUFFICES ASSUME question.max_depth > Len(question.rules), Layerings # {},
                      NEW k \in DOMAIN waiting', NEW m \in DOMAIN waiting'[k].rule.premises,
                      m < waiting'[k].next
               PROVE  PremiseDone(k, m)'
  BY <1>1, <1>3 DEF ChainSettled
<1>6. (k \in 1..n \/ k = n + 1) /\ (k \notin 1..n => ~ Fails(p, n))  BY ExtendedPlaces
<1>7. CASE k \in 1..n /\ m < waiting[k].next
  <2>1. waiting'[k].rule = waiting[k].rule /\ waiting[k].next \in Nat  BY <1>1, <1>7
  <2>2. PremiseDone(k, m)  BY <1>1, <1>5, <1>7, <2>1 DEF ChainSettled
  <2>3. ASSUME k < n
        PROVE  k < Len(waiting') /\ waiting'[k].next = waiting[k].next
               /\ waiting'[k + 1].rule = waiting[k + 1].rule
    <3>1. k + 1 \in 1..n /\ k # n  BY <1>1, <1>7, <2>3
    <3>2. waiting'[k].next = waiting[k].next + 0  BY <1>1, <1>7, <3>1
    <3> QED  BY <1>1, <1>7, <2>1, <2>3, <3>1, <3>2
  <2>4. CASE waiting[k].rule.premises[m] \in question.held  BY <1>1, <2>1, <2>4 DEF PremiseDone
  <2>5. CASE waiting[k].rule.premises[m] \notin question.held
    <3>1. ASSUME NEW s \in GivenRules, FirstFor(question.rules, waiting'[k].rule.premises[m], s)
          PROVE  \/ IsListed(s)
                 \/ k < Len(waiting') /\ m = waiting'[k].next - 1 /\ s = waiting'[k + 1].rule
      <4>1. FirstFor(question.rules, waiting[k].rule.premises[m], s)  BY <2>1, <3>1
      <4>2. \/ IsListed(s)
            \/ k < n /\ m = waiting[k].next - 1 /\ s = waiting[k + 1].rule
        BY <1>1, <2>2, <2>5, <4>1 DEF PremiseDone
      <4> QED  BY <2>3, <4>2
    <3> QED  BY <1>1, <1>3, <1>4, <3>1 DEF PremiseDone
  <2> QED  BY <2>4, <2>5
<1>8. CASE k \in 1..n /\ ~ m < waiting[k].next
  <2>1. waiting'[k].rule = waiting[k].rule /\ waiting[k].next \in Nat /\ waiting[k].rule \in GivenRules
        /\ waiting'[k].next = waiting[k].next + (IF k = n THEN 1 ELSE 0)
    BY <1>1, <1>8
  <2>2. m \in Nat
    <3>1. DOMAIN waiting[k].rule.premises = 1..Len(waiting[k].rule.premises)  BY <1>2, <2>1, RuleFacts
    <3> QED  BY <2>1, <3>1
  <2>3. k = n /\ m = waiting[k].next
    <3> DEFINE c == waiting[k].next  d == waiting'[k].next
    <3>1. m < d /\ ~ m < c /\ c \in Nat /\ (d = c + (IF k = n THEN 1 ELSE 0))  BY <1>5, <1>8, <2>1
    <3> HIDE DEF c, d
    <3>2. k = n /\ m = c  BY <2>2, <3>1
    <3> QED  BY <3>2 DEF c
  <2>4. waiting'[k].rule.premises[m] = p /\ m = waiting'[k].next - 1  BY <1>1, <2>1, <2>3
  <2>5. CASE p \in question.held  BY <1>1, <2>4, <2>5 DEF PremiseDone
  <2>6. CASE p \notin question.held
    <3>1. ASSUME NEW s \in GivenRules, FirstFor(question.rules, p, s)
          PROVE  \/ IsListed(s)
                 \/ k < Len(waiting') /\ m = waiting'[k].next - 1 /\ s = waiting'[k + 1].rule
      <4>1. IsListed(s) \/ (Len(waiting') = n + 1 /\ s = r)  BY <1>5, <2>6, <3>1, FirstRuleSettled
      <4>2. Len(waiting') = n + 1 => waiting'[n + 1].rule = r  BY <1>1 DEF Extends
      <4>3. n < n + 1  BY <1>1
      <4> QED  BY <2>3, <2>4, <4>1, <4>2, <4>3
    <3> QED  BY <1>1, <1>3, <1>4, <2>4, <3>1 DEF PremiseDone
  <2> QED  BY <2>5, <2>6
<1>9. CASE k \notin 1..n
  <2>1. waiting'[k].rule = r /\ waiting'[k].next = 1 /\ r \in GivenRules  BY <1>6, <1>9 DEF Extends
  <2>2. DOMAIN r.premises = 1..Len(r.premises) /\ Len(r.premises) \in Nat  BY <1>2, <2>1, RuleFacts
  <2>3. m \in 1..Len(r.premises) /\ m < 1  BY <1>5, <2>1, <2>2
  <2> QED  BY <2>2, <2>3
<1> QED  BY <1>7, <1>8, <1>9

\* A condition that finds no rule, and a rule that comes on the stack, keep the invariant.
LEMMA ConditionStep ==
  ASSUME ChainTyped, ChainVisited, ChainStack, ChainUsed, ChainSettled, ProveCondition
  PROVE  ChainTyped' /\ ChainVisited' /\ ChainStack' /\ ChainUsed' /\ ChainSettled' /\ ChainAnswered'
<1>1. PICK n, p, r : Extends(n, p, r)  BY ConditionExtends
<1>2. ChainAnswered'  BY <1>1 DEF Extends, ChainAnswered
<1> QED
  BY <1>1, <1>2, ConditionTyped, ConditionVisited, ConditionStack, ConditionUsed, ConditionSettled
\* What listing the innermost rule t as the o + 1-th does.
ListsRule(n, o, t) ==
  /\ question' = question /\ answer' = answer /\ running' = running /\ visited' = visited
  /\ running /\ answer = Unanswered
  /\ n = Len(waiting) /\ n \in Nat /\ n > 0 /\ DOMAIN waiting = 1..n
  /\ \A k \in 1..n : waiting[k].rule \in GivenRules /\ waiting[k].next \in Nat
  /\ t = waiting[n].rule /\ \A m \in DOMAIN t.premises : m < waiting[n].next
  /\ waiting' \in Seq(Frames) /\ Len(waiting') = n - 1 /\ DOMAIN waiting' = 1..n - 1
  /\ \A k \in 1..n - 1 : waiting'[k] = waiting[k]
  /\ o = Len(order) /\ o \in Nat /\ DOMAIN order = 1..o
  /\ order' \in Seq(GivenRules) /\ Len(order') = o + 1 /\ DOMAIN order' = 1..o + 1
  /\ \A i \in 1..o : order'[i] = order[i]
  /\ order'[o + 1] = t

\* ListRule is such a step.
LEMMA ListRuleIsOne ==
  ASSUME ChainTyped, ListRule
  PROVE  \E n, o, t : ListsRule(n, o, t)
<1> DEFINE n == Len(waiting)  o == Len(order)  f == waiting[n]  t == f.rule
<1>1. /\ question' = question /\ answer' = answer /\ running' = running /\ visited' = visited
      /\ running /\ answer = Unanswered /\ waiting # <<>> /\ f.next > Len(t.premises)
      /\ order' = Append(order, t) /\ waiting' = SubSeq(waiting, 1, n - 1)
  BY DEF ListRule, Searching, Innermost, Conditions, Outer
<1>2. question \in ChainQuestions /\ waiting \in Seq(Frames) /\ order \in Seq(GivenRules)  BY DEF ChainTyped
<1>3. n \in Nat /\ n > 0 /\ DOMAIN waiting = 1..n /\ \A k \in 1..n : waiting[k] \in Frames  BY <1>1, <1>2
<1>4. \A k \in 1..n : waiting[k].rule \in GivenRules /\ waiting[k].next \in Nat  BY <1>3 DEF Frames
<1>5. n \in 1..n /\ t \in GivenRules /\ f.next \in Nat  BY <1>3, <1>4
<1>6. \A m \in DOMAIN t.premises : m < f.next
  <2>1. DOMAIN t.premises = 1..Len(t.premises) /\ Len(t.premises) \in Nat  BY <1>2, <1>5, RuleFacts
  <2> QED  BY <1>1, <1>5, <2>1
<1>7. n = Len(waiting) /\ o = Len(order) /\ f = waiting[n] /\ t = waiting[n].rule  OBVIOUS
<1> HIDE DEF n, o, f, t
<1>8. /\ waiting' \in Seq(Frames) /\ Len(waiting') = n - 1 /\ DOMAIN waiting' = 1..n - 1
      /\ \A k \in 1..n - 1 : waiting'[k] = waiting[k]
  <2>1. n - 1 \in Nat /\ \A k \in 1..n - 1 : k \in 1..n  BY <1>3
  <2>2. Len(SubSeq(waiting, 1, n - 1)) = n - 1 /\ \A k \in 1..n - 1 : SubSeq(waiting, 1, n - 1)[k] = waiting[k]
    BY <1>2, <1>3, <1>7, <2>1
  <2>3. SubSeq(waiting, 1, n - 1) \in Seq(Frames)  BY <1>2, <1>3, <1>7, <2>1
  <2> QED  BY <1>1, <2>1, <2>2, <2>3
<1>9. /\ o \in Nat /\ DOMAIN order = 1..o
      /\ order' \in Seq(GivenRules) /\ Len(order') = o + 1 /\ DOMAIN order' = 1..o + 1
      /\ \A i \in 1..o : order'[i] = order[i]
      /\ order'[o + 1] = t
  <2>1. o \in Nat /\ DOMAIN order = 1..o  BY <1>2, <1>7
  <2>2. order' \in Seq(GivenRules) /\ Len(order') = o + 1  BY <1>1, <1>2, <1>5, <1>7
  <2>3. order'[o + 1] = t /\ \A i \in 1..o : order'[i] = order[i]  BY <1>1, <1>2, <1>5, <1>7, <2>1
  <2> QED  BY <2>1, <2>2, <2>3
<1>10. /\ question' = question /\ answer' = answer /\ running' = running /\ visited' = visited
       /\ running /\ answer = Unanswered
  BY <1>1
<1>11. ListsRule(n, o, t)  BY ONLY <1>3, <1>4, <1>6, <1>7, <1>8, <1>9, <1>10, Zenon DEF ListsRule
<1> QED  BY <1>11

\* Listing the innermost rule keeps the types, and lists something.
LEMMA ListTyped ==
  ASSUME NEW n, NEW o, NEW t, ListsRule(n, o, t), ChainTyped
  PROVE  ChainTyped'
<1>1. /\ question' = question /\ running' = running /\ running
      /\ waiting' \in Seq(Frames) /\ order' \in Seq(GivenRules)
      /\ DOMAIN waiting = 1..n /\ n \in Nat /\ n > 0 /\ DOMAIN order' = 1..o + 1 /\ o \in Nat
  BY DEF ListsRule
<1>2. waiting # <<>> /\ order' # <<>>
  <2>1. 1 \in DOMAIN waiting /\ 1 \in DOMAIN order'  BY <1>1
  <2> QED  BY <2>1
<1>3. NothingToChain' <=> NothingToChain  BY <1>1 DEF NothingToChain, GivenRules
<1>4. GivenRules' = GivenRules /\ Frames' = Frames  BY <1>1 DEF Frames, GivenRules
<1> QED  BY <1>1, <1>2, <1>3, <1>4 DEF ChainTyped

\* The rule listed leaves the stack, and is not listed twice.
LEMMA ListVisited ==
  ASSUME NEW n, NEW o, NEW t, ListsRule(n, o, t), ChainVisited
  PROVE  ChainVisited'
<1>1. /\ visited' = visited /\ DOMAIN waiting = 1..n /\ n \in Nat /\ n > 0
      /\ DOMAIN waiting' = 1..n - 1 /\ t = waiting[n].rule
      /\ \A k \in 1..n - 1 : waiting'[k] = waiting[k]
      /\ o \in Nat /\ DOMAIN order = 1..o /\ DOMAIN order' = 1..o + 1
      /\ \A i \in 1..o : order'[i] = order[i]
      /\ order'[o + 1] = t
  BY DEF ListsRule
<1>2. /\ 1..n - 1 \subseteq 1..n /\ n \in 1..n /\ n \notin 1..n - 1
      /\ \A k \in 1..n : k \in 1..n - 1 \/ k = n
      /\ 1..o \subseteq 1..o + 1 /\ o + 1 \in 1..o + 1
      /\ \A i \in 1..o + 1 : i \in 1..o \/ i = o + 1
  BY <1>1
<1>3. ASSUME NEW x
      PROVE  x \in visited' <=> \/ \E i \in DOMAIN order' : order'[i].id = x
                                \/ \E k \in DOMAIN waiting' : waiting'[k].rule.id = x
  <2>1. x \in visited <=> \/ \E i \in DOMAIN order : order[i].id = x
                          \/ \E k \in DOMAIN waiting : waiting[k].rule.id = x
    BY DEF ChainVisited
  <2>2. (\E i \in DOMAIN order' : order'[i].id = x)
          <=> t.id = x \/ \E i \in DOMAIN order : order[i].id = x
    BY <1>1, <1>2
  <2>3. (\E k \in DOMAIN waiting : waiting[k].rule.id = x)
          <=> t.id = x \/ \E k \in DOMAIN waiting' : waiting'[k].rule.id = x
    BY <1>1, <1>2
  <2> QED  BY <1>1, <2>1, <2>2, <2>3
<1>4. \A i \in DOMAIN order : order[i].id # t.id  BY <1>1, <1>2 DEF ChainVisited
<1>5. ASSUME NEW i \in DOMAIN order', NEW j \in DOMAIN order', order'[i].id = order'[j].id
      PROVE  i = j
  <2>1. (i \in 1..o \/ i = o + 1) /\ (j \in 1..o \/ j = o + 1)  BY <1>1, <1>2
  <2>2. CASE i \in 1..o /\ j \in 1..o  BY <1>1, <1>5, <2>2 DEF ChainVisited
  <2>3. CASE i \in 1..o /\ j = o + 1  BY <1>1, <1>4, <1>5, <2>3
  <2>4. CASE i = o + 1 /\ j \in 1..o  BY <1>1, <1>4, <1>5, <2>4
  <2> QED  BY <2>1, <2>2, <2>3, <2>4
<1>6. \A k, m \in DOMAIN waiting' : waiting'[k].rule.id = waiting'[m].rule.id => k = m
  BY <1>1, <1>2 DEF ChainVisited
<1>7. ASSUME NEW i \in DOMAIN order', NEW k \in DOMAIN waiting'
      PROVE  order'[i].id # waiting'[k].rule.id
  <2>1. k \in 1..n /\ k # n /\ waiting'[k] = waiting[k]  BY <1>1, <1>2
  <2>2. waiting[k].rule.id # t.id  BY <1>1, <1>2, <2>1 DEF ChainVisited
  <2>3. CASE i \in 1..o  BY <1>1, <2>1, <2>3 DEF ChainVisited
  <2>4. CASE i = o + 1  BY <1>1, <2>1, <2>2, <2>4
  <2> QED  BY <1>1, <1>2, <2>3, <2>4
<1> QED  BY <1>3, <1>5, <1>6, <1>7 DEF ChainVisited

\* What stays of the stack still leads down from the goal.
LEMMA ListStack ==
  ASSUME NEW n, NEW o, NEW t, ListsRule(n, o, t), ChainStack
  PROVE  ChainStack'
<1>1. /\ question' = question /\ n = Len(waiting) /\ DOMAIN waiting = 1..n /\ n \in Nat /\ n > 0
      /\ Len(waiting') = n - 1 /\ DOMAIN waiting' = 1..n - 1 /\ waiting' \in Seq(Frames)
      /\ \A k \in 1..n - 1 : waiting'[k] = waiting[k]
  BY DEF ListsRule
<1>2. waiting # <<>>
  <2>1. 1 \in DOMAIN waiting  BY <1>1
  <2> QED  BY <2>1
<1>3. waiting' # <<>> => waiting'[1].rule.conclusion = question'.goal
  <2> SUFFICES ASSUME waiting' # <<>> PROVE waiting'[1].rule.conclusion = question'.goal  OBVIOUS
  <2>1. Len(waiting') # 0  BY <1>1
  <2>2. 1 \in 1..n - 1  BY <1>1, <2>1
  <2> QED  BY <1>1, <1>2, <2>2 DEF ChainStack
<1>4. \A k \in 1..Len(waiting') - 1 : Supports(waiting'[k].rule, waiting'[k + 1].rule)
  <2> TAKE k \in 1..Len(waiting') - 1
  <2>1. k \in 1..Len(waiting) - 1 /\ k \in 1..n - 1 /\ k + 1 \in 1..n - 1  BY <1>1
  <2> QED  BY <1>1, <2>1 DEF ChainStack
<1>5. Layerings' = Layerings  BY <1>1 DEF Layerings, GivenRules
<1>6. 1..n - 1 \subseteq 1..n  BY <1>1
<1> QED  BY <1>1, <1>3, <1>4, <1>5, <1>6 DEF ChainStack

\* What only the innermost rule needed is needed by the rule listed, and that one by the

\* rule below it, or it concludes the goal.
LEMMA ListUsed ==
  ASSUME NEW n, NEW o, NEW t, ListsRule(n, o, t), ChainStack, ChainUsed
  PROVE  ChainUsed'
<1>1. /\ question' = question /\ n = Len(waiting) /\ DOMAIN waiting = 1..n /\ n \in Nat /\ n > 0
      /\ Len(waiting') = n - 1 /\ DOMAIN waiting' = 1..n - 1 /\ waiting' \in Seq(Frames)
      /\ \A k \in 1..n - 1 : waiting'[k] = waiting[k]
      /\ t = waiting[n].rule
      /\ o \in Nat /\ o = Len(order) /\ DOMAIN order = 1..o /\ DOMAIN order' = 1..o + 1 /\ Len(order') = o + 1
      /\ \A i \in 1..o : order'[i] = order[i]
      /\ order'[o + 1] = t
  BY DEF ListsRule
<1>2. waiting # <<>>
  <2>1. 1 \in DOMAIN waiting  BY <1>1
  <2> QED  BY <2>1
<1>3. SUFFICES ASSUME NEW i \in DOMAIN order'
               PROVE  \/ \E j \in i + 1..Len(order') : Supports(order'[j], order'[i])
                      \/ \E k \in DOMAIN waiting' : Supports(waiting'[k].rule, order'[i])
                      \/ i = Len(order') /\ waiting' = <<>> /\ order'[i].conclusion = question'.goal
  BY DEF ChainUsed
<1>4. CASE i \in 1..o
  <2>1. \/ \E j \in i + 1..o : Supports(order[j], order[i])
        \/ \E k \in 1..n : Supports(waiting[k].rule, order[i])
    BY <1>1, <1>2, <1>4 DEF ChainUsed
  <2>2. ASSUME NEW j \in i + 1..o, Supports(order[j], order[i])
        PROVE  \E a \in i + 1..Len(order') : Supports(order'[a], order'[i])
    <3>1. j \in 1..o /\ j \in i + 1..o + 1  BY <1>1, <1>4
    <3> QED  BY <1>1, <1>4, <2>2, <3>1
  <2>3. ASSUME NEW k \in 1..n - 1, Supports(waiting[k].rule, order[i])
        PROVE  \E m \in DOMAIN waiting' : Supports(waiting'[m].rule, order'[i])
    BY <1>1, <1>4, <2>3
  <2>4. ASSUME Supports(waiting[n].rule, order[i])
        PROVE  \E a \in i + 1..Len(order') : Supports(order'[a], order'[i])
    <3>1. o + 1 \in i + 1..o + 1  BY <1>1, <1>4
    <3> QED  BY <1>1, <1>4, <2>4, <3>1
  <2>5. \A k \in 1..n : k \in 1..n - 1 \/ k = n  BY <1>1
  <2> QED  BY <2>1, <2>2, <2>3, <2>4, <2>5
<1>5. CASE i = o + 1 /\ n = 1
  <2>1. waiting' = <<>>  BY <1>1, <1>5
  <2>2. t.conclusion = question'.goal  BY <1>1, <1>2, <1>5 DEF ChainStack
  <2> QED  BY <1>1, <1>5, <2>1, <2>2
<1>6. CASE i = o + 1 /\ n # 1
  <2>1. n - 1 \in 1..Len(waiting) - 1 /\ n - 1 \in 1..n - 1 /\ n - 1 + 1 = n  BY <1>1, <1>6
  <2>2. Supports(waiting[n - 1].rule, t)  BY <1>1, <2>1 DEF ChainStack
  <2> QED  BY <1>1, <1>6, <2>1, <2>2
<1>7. i \in 1..o \/ i = o + 1  BY <1>1, <1>3
<1> QED  BY <1>4, <1>5, <1>6, <1>7

\* All premises of the rule listed are done with, and it settles the condition of the

\* rule below that it was taken for.
LEMMA ListSettled ==
  ASSUME NEW n, NEW o, NEW t, ListsRule(n, o, t), ChainSettled
  PROVE  ChainSettled'
<1>1. /\ question' = question /\ n = Len(waiting) /\ DOMAIN waiting = 1..n /\ n \in Nat /\ n > 0
      /\ Len(waiting') = n - 1 /\ DOMAIN waiting' = 1..n - 1
      /\ \A k \in 1..n - 1 : waiting'[k] = waiting[k]
      /\ t = waiting[n].rule /\ \A m \in DOMAIN t.premises : m < waiting[n].next
      /\ o \in Nat /\ o = Len(order) /\ DOMAIN order = 1..o /\ DOMAIN order' = 1..o + 1
      /\ \A i \in 1..o : order'[i] = order[i]
      /\ order'[o + 1] = t
  BY DEF ListsRule
<1>2. Layerings' = Layerings /\ GivenRules' = GivenRules  BY <1>1 DEF Layerings, GivenRules
<1>3. SUFFICES ASSUME question.max_depth > Len(question.rules), Layerings # {}
               PROVE  /\ \A j \in DOMAIN order', s \in GivenRules :
                           \A q \in Range(order'[j].premises) \ question.held :
                             FirstFor(question.rules, q, s) => \E i \in 1..j - 1 : order'[i] = s
                      /\ \A k \in DOMAIN waiting' : \A m \in DOMAIN waiting'[k].rule.premises :
                           m < waiting'[k].next => PremiseDone(k, m)'
  BY <1>1, <1>2 DEF ChainSettled
<1>4. ASSUME NEW j \in DOMAIN order', NEW s \in GivenRules,
             NEW q \in Range(order'[j].premises) \ question.held, FirstFor(question.rules, q, s)
      PROVE  \E i \in 1..j - 1 : order'[i] = s
  <2>1. CASE j \in 1..o
    <3>1. PICK i \in 1..j - 1 : order[i] = s  BY <1>1, <1>3, <1>4, <2>1 DEF ChainSettled
    <3>2. i \in 1..o  BY <1>1, <2>1
    <3> QED  BY <1>1, <3>1, <3>2
  <2>2. CASE j = o + 1
    <3>1. PICK m \in DOMAIN t.premises : t.premises[m] = q  BY <1>1, <1>4, <2>2 DEF Range
    <3>2. n \in DOMAIN waiting /\ ~ n < Len(waiting)  BY <1>1
    <3>3. PremiseDone(n, m)  BY <1>1, <1>3, <3>1, <3>2 DEF ChainSettled
    <3>4. IsListed(s)  BY <1>1, <1>4, <3>1, <3>2, <3>3 DEF PremiseDone
    <3>5. PICK i \in 1..o : order[i] = s  BY <1>1, <3>4 DEF IsListed
    <3>6. i \in 1..j - 1  BY <1>1, <2>2
    <3> QED  BY <1>1, <3>5, <3>6
  <2> QED  BY <1>1, <2>1, <2>2
<1>5. ASSUME NEW s, IsListed(s) PROVE IsListed(s)'
  <2>1. PICK i \in 1..o : order[i] = s  BY <1>1, <1>5 DEF IsListed
  <2>2. i \in DOMAIN order' /\ order'[i] = s  BY <1>1, <2>1
  <2> QED  BY <2>2 DEF IsListed
<1>6. IsListed(t)'
  <2>1. o + 1 \in DOMAIN order'  BY <1>1
  <2> QED  BY <1>1, <2>1 DEF IsListed
<1>7. ASSUME NEW k \in DOMAIN waiting', NEW m \in DOMAIN waiting'[k].rule.premises, m < waiting'[k].next
      PROVE  PremiseDone(k, m)'
  <2>1. k \in 1..n /\ k < n /\ waiting'[k] = waiting[k]  BY <1>1
  <2>2. PremiseDone(k, m)  BY <1>1, <1>3, <1>7, <2>1 DEF ChainSettled
  <2>3. CASE waiting[k].rule.premises[m] \in question.held  BY <1>1, <2>1, <2>3 DEF PremiseDone
  <2>4. CASE waiting[k].rule.premises[m] \notin question.held
    <3>1. ASSUME NEW s \in GivenRules, FirstFor(question.rules, waiting'[k].rule.premises[m], s)
          PROVE  \/ IsListed(s)'
                 \/ k < Len(waiting') /\ m = waiting'[k].next - 1 /\ s = waiting'[k + 1].rule
      <4>1. \/ IsListed(s)
            \/ m = waiting[k].next - 1 /\ s = waiting[k + 1].rule
        BY <2>1, <2>2, <2>4, <3>1 DEF PremiseDone
      <4>2. CASE IsListed(s)  BY <1>5, <4>2
      <4>3. CASE m = waiting[k].next - 1 /\ s = waiting[k + 1].rule /\ k + 1 < n
        <5>1. k + 1 \in 1..n - 1 /\ k < n - 1  BY <1>1, <2>1, <4>3
        <5> QED  BY <1>1, <2>1, <4>3, <5>1
      <4>4. CASE s = waiting[k + 1].rule /\ ~ k + 1 < n
        <5>1. k + 1 = n  BY <1>1, <2>1, <4>4
        <5> QED  BY <1>1, <1>6, <4>4, <5>1
      <4> QED  BY <4>1, <4>2, <4>3, <4>4
    <3> QED  BY <1>1, <1>2, <3>1 DEF PremiseDone
  <2> QED  BY <2>3, <2>4
<1> QED  BY <1>4, <1>7

\* A rule all of whose conditions are done with goes from the stack to the list.
LEMMA ListStep ==
  ASSUME ChainTyped, ChainVisited, ChainStack, ChainUsed, ChainSettled, ListRule
  PROVE  ChainTyped' /\ ChainVisited' /\ ChainStack' /\ ChainUsed' /\ ChainSettled' /\ ChainAnswered'
<1>1. PICK n, o, t : ListsRule(n, o, t)  BY ListRuleIsOne
<1>2. ChainAnswered'  BY <1>1 DEF ListsRule, ChainAnswered
<1> QED  BY <1>1, <1>2, ListTyped, ListVisited, ListStack, ListUsed, ListSettled

\* Answering with the list, and no step, keep the invariant.
LEMMA ChainStutters ==
  ASSUME ChainTyped, ChainVisited, ChainStack, ChainUsed, ChainSettled, ChainAnswered,
         UNCHANGED <<question, running, visited, waiting, order>>,
         answer' = answer \/ (answer' = <<order>> /\ waiting = <<>> /\ running)
  PROVE  ChainTyped' /\ ChainVisited' /\ ChainStack' /\ ChainUsed' /\ ChainSettled' /\ ChainAnswered'
<1>1. /\ Layerings' = Layerings /\ GivenRules' = GivenRules /\ Frames' = Frames
      /\ NothingToChain' <=> NothingToChain
  BY DEF Layerings, GivenRules, Frames, NothingToChain
<1>2. ChainTyped'  BY <1>1 DEF ChainTyped
<1>3. ChainVisited'  BY DEF ChainVisited
<1>4. ChainStack'  BY <1>1 DEF ChainStack
<1>5. ChainUsed'  BY DEF ChainUsed
<1>6. ChainSettled'
  <2>1. \A k, m : PremiseDone(k, m)' <=> PremiseDone(k, m)  BY <1>1 DEF PremiseDone, IsListed
  <2> QED  BY <1>1, <2>1 DEF ChainSettled
<1>7. ChainAnswered'  BY DEF ChainAnswered, Result
<1> QED  BY <1>2, <1>3, <1>4, <1>5, <1>6, <1>7

\* Every step of the search keeps the invariant.
LEMMA ChainStep ==
  ASSUME question \in Questions, ChainInv, [QueryNext]_queryVars
  PROVE  ChainInv'
<1> SUFFICES ASSUME question' \in ChainQuestions
             PROVE  ChainTyped' /\ ChainVisited' /\ ChainStack' /\ ChainUsed' /\ ChainSettled' /\ ChainAnswered'
  BY DEF ChainInv
<1>1. question' = question /\ [BackwardChain]_searchVars  BY OneAlgorithm
<1>2. ChainTyped /\ ChainVisited /\ ChainStack /\ ChainUsed /\ ChainSettled /\ ChainAnswered
  BY <1>1 DEF ChainInv
<1>3. CASE UNCHANGED searchVars  BY <1>2, <1>3, ChainStutters DEF searchVars, locals
<1>4. CASE ProveGoal  BY <1>2, <1>4, GoalStep DEF ProveGoal
<1>5. CASE ProveCondition  BY <1>2, <1>5, ConditionStep
<1>6. CASE ListRule  BY <1>2, <1>6, ListStep
<1>7. CASE ReturnChain
  <2>1. /\ UNCHANGED <<question, running, visited, waiting, order>> /\ answer' = <<order>>
        /\ waiting = <<>> /\ running
    BY <1>7 DEF ReturnChain, Searching, Reply, locals
  <2> QED  BY <1>2, <2>1, ChainStutters
<1> QED  BY <1>1, <1>3, <1>4, <1>5, <1>6, <1>7 DEF BackwardChain

\* backward_chain lists each rule once and after the rules its premises need, the goal's

\* last, and lists none only when nothing can be proved, whatever the rules.
THEOREM ChainsAreInOrderOfUse == QuerySpec => []ChainInOrderOfUse
<1> DEFINE I == question \in Questions /\ ChainInv
<1>1. QueryInit => I
  <2> SUFFICES ASSUME QueryInit, question \in ChainQuestions
               PROVE  ChainTyped /\ ChainVisited /\ ChainStack /\ ChainUsed /\ ChainSettled /\ ChainAnswered
    BY DEF QueryInit, ChainInv
  <2>1. answer = Unanswered /\ running = FALSE /\ visited = {} /\ waiting = <<>> /\ order = <<>>
    BY DEF QueryInit, Idle
  <2>2. ChainTyped  BY <2>1 DEF ChainTyped
  <2>3. ChainVisited /\ ChainStack /\ ChainUsed /\ ChainSettled /\ ChainAnswered
    BY <2>1 DEF ChainVisited, ChainStack, ChainUsed, ChainSettled, ChainAnswered
  <2> QED  BY <2>2, <2>3
<1>2. I /\ [QueryNext]_queryVars => I'  BY OneAlgorithm, ChainStep
<1>3. I => ChainInOrderOfUse
  <2> SUFFICES ASSUME question \in Questions, ChainInv, Answered({"backward_chain"})
               PROVE  ChainInOrderOfUse
    BY DEF ChainInOrderOfUse
  <2>1. question \in ChainQuestions  BY KindsApart DEF Answered
  <2>2. ChainTyped /\ ChainVisited /\ ChainStack /\ ChainUsed /\ ChainSettled /\ ChainAnswered
    BY <2>1 DEF ChainInv
  <2>3. Result = order /\ waiting = <<>> /\ running  BY <2>2 DEF ChainAnswered, Answered
  <2>4. order \in Seq(GivenRules) /\ Len(order) \in Nat /\ DOMAIN order = 1..Len(order)
    BY <2>2 DEF ChainTyped
  <2>5. order = <<>> <=> NothingToChain  BY <2>2, <2>3 DEF ChainTyped
  <2>6. Identified(order)  BY <2>2 DEF ChainVisited, Identified
  <2>7. ASSUME NEW i \in DOMAIN order
        PROVE  IF i < Len(order) THEN \E j \in i + 1..Len(order) : Supports(order[j], order[i])
               ELSE order[i].conclusion = question.goal
    <3>1. \/ \E j \in i + 1..Len(order) : Supports(order[j], order[i])
          \/ i = Len(order) /\ order[i].conclusion = question.goal
      BY <2>2, <2>3 DEF ChainUsed
    <3> QED  BY <2>4, <3>1
  <2>8. order # <<>> => order[Len(order)].conclusion = question.goal
    <3>1. order # <<>> => Len(order) \in DOMAIN order  BY <2>4
    <3> QED  BY <2>4, <2>7, <3>1
  <2>9. \A i \in 1..Len(order) - 1 : \E j \in i + 1..Len(order) : Supports(order[j], order[i])
    <3> TAKE i \in 1..Len(order) - 1
    <3>1. i \in DOMAIN order /\ i < Len(order)  BY <2>4
    <3> QED  BY <2>7, <3>1
  <2>10. Layered(question.rules) <=> Layerings # {}  BY DEF Layered, Layerings, GivenRules
  <2>11. question.max_depth > Len(question.rules) /\ Layered(question.rules) =>
           \A j \in DOMAIN order, r \in Range(question.rules) :
             \A p \in Range(order[j].premises) \ question.held :
               FirstFor(question.rules, p, r) => \E i \in 1..j - 1 : order[i] = r
    BY <2>2, <2>10 DEF ChainSettled, GivenRules
  <2> QED  BY <2>3, <2>5, <2>6, <2>8, <2>9, <2>11 DEF ChainInOrderOfUse, NothingToChain, GivenRules
<1> QED  BY <1>1, <1>2, <1>3, PTL DEF QuerySpec

=============================================================================
