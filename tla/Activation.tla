------------------------------- MODULE Activation -------------------------------
(***************************************************************************)
(* ActivationEngine.activate: spreading activation over a concept graph,   *)
(* from one seed of activation One.  A step is one turn of its loops: an   *)
(* entry taken from the queue, or one edge of its concept.  A target that  *)
(* gains anything is queued again, with the gain it passes on.             *)
(***************************************************************************)
EXTENDS Traversal

CONSTANTS
  Seeds,       \* the concepts activation starts from
  Weight,      \* an edge's weight, in tenths
  One,         \* the Decimal 1 in units of the smallest value that occurs
  Threshold    \* 0.001 in those units

ASSUME ActivationAssumption ==
  /\ Seeds \subseteq Ids
  /\ Weight \in [EdgeKeys -> Nat]
  /\ One \in Nat /\ Threshold \in Nat

VARIABLE activations   \* 0: not in the dictionary

NoActivations == [n \in Nodes |-> 0]

ActivationQuestions == [of : {"activate"}, g : Graphs, start : Seeds, rels : {AllRelations}]

MaxHops == 3   \* the default of max_depth, which the cycle uses

Decayed(v, k) == (v * Weight[k]) \div 20   \* times edge.weight times 0.5

Pulse(n, v, d) == [node |-> n, value |-> v, depth |-> d]

\* An unknown seed is passed over.
Seed ==
  /\ answer = Unanswered /\ ~ running
  /\ running' = TRUE
  /\ IF question.start \in Nodes
     THEN /\ activations' = [activations EXCEPT ![question.start] = One]
          /\ waiting' = <<Pulse(question.start, One, 0)>>
     ELSE UNCHANGED <<activations, waiting>>
  /\ UNCHANGED <<question, answer, visited, walk, left, order>>

\* Mutant of SpreadsOn: one hop too many.
SpreadsOnOneMore(e) == e.depth <= MaxHops

SpreadsOn(e) == e.depth < MaxHops

TakeEntry ==
  /\ Searching /\ left = {} /\ waiting # <<>>
  /\ walk' = Head(waiting) /\ waiting' = Tail(waiting)
  /\ left' = IF SpreadsOn(Head(waiting)) THEN EdgesOf(question, Head(waiting).node) ELSE {}
  /\ UNCHANGED <<question, answer, running, visited, order, activations>>

Gain(a) == Decayed(walk.value, KeyOf(a))

\* Weak gains stop.
Spread(a) ==
  /\ Searching /\ IsNext(a)
  /\ left' = left \ {a}
  /\ IF Gain(a) <= Threshold THEN UNCHANGED <<activations, waiting>>
     ELSE /\ activations' = [activations EXCEPT ![Neighbor(a)] = @ + Gain(a)]
          /\ waiting' = Append(waiting, Pulse(Neighbor(a), Gain(a), walk.depth + 1))
  /\ UNCHANGED <<question, answer, running, visited, walk, order>>

Settle == Searching /\ left = {} /\ waiting = <<>> /\ Reply(activations) /\ UNCHANGED activations

Activate == Seed \/ TakeEntry \/ (\E a \in left : Spread(a)) \/ Settle

-----------------------------------------------------------------------------
(* What activation is to be, defined without the queue. *)

Total(s) ==
  LET total[i \in 0..Len(s)] == IF i = 0 THEN 0 ELSE total[i - 1] + s[i]
  IN  total[Len(s)]

\* An edge passes activation v of n on when more than the threshold is left of it.
Passes(g, n, v, k) == k \in g /\ k.source = n /\ Decayed(v, k) > Threshold

\* What t gets from activation v of n over all walks of at most d edges, edges counted as
\* often as they are walked.
Reaching(g, t) ==
  LET reach[d \in Nat] ==
        [n \in Nodes |-> [v \in Nat |->
           (IF n = t THEN v ELSE 0)
           + Total([i \in DOMAIN LinkOrder |->
               IF d > 0 /\ Passes(g, n, v, LinkOrder[i])
               THEN reach[d - 1][LinkOrder[i].target][Decayed(v, LinkOrder[i])] ELSE 0])]]
  IN  reach

\* Spreading activation adds up over every walk of up to three edges, also those that
\* come round a cycle: nothing is lost or counted twice by the queue, and weak gains stop.
ActivationSumsWalks ==
  Answered({"activate"}) =>
    Result = [t \in Nodes |->
                IF question.start \in Nodes
                THEN Reaching(question.g, t)[MaxHops][question.start][One] ELSE 0]
=============================================================================
