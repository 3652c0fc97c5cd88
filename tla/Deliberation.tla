------------------------------ MODULE Deliberation ------------------------------
(***************************************************************************)
(* The choices the symbolic engine offers as pure functions: the winner of *)
(* a contradiction and of competing hypotheses under each ConflictPolicy,  *)
(* the hypotheses worth keeping, the provider of a capability, and the     *)
(* rules that lead to a goal (backward chaining, one condition at a time). *)
(* An id is a number, for the place of its text among the texts; a         *)
(* proposition is a name, and that one text contains another is their      *)
(* equality.                                                               *)
(***************************************************************************)
EXTENDS Traversal, Functions

CONSTANTS
  Beliefs,
  HypothesisLists,
  EntryLists, Capabilities,
  RuleLists, Goals, MaxDepths

Identified(s) == \A i, j \in DOMAIN s : s[i].id = s[j].id => i = j

SourceRank == [KNOWLEDGE |-> 4, INFERENCE |-> 3, MEMORY |-> 2]

ASSUME DeliberationAssumption ==
  /\ \A b \in Beliefs :
       /\ {b.id, b.confidence, b.evidence_count, b.last_verified} \subseteq Int
       /\ b.source \in DOMAIN SourceRank
  /\ \A hs \in HypothesisLists :
       /\ hs \in Seq(Range(hs)) /\ Identified(hs)
       /\ \A h \in Range(hs) : {h.id, h.score, h.thoughts, h.created_at} \subseteq Int
  /\ \A es \in EntryLists :
       es \in Seq(Range(es)) /\ \A e \in Range(es) : {e.priority, e.name} \subseteq Int
  /\ \A rs \in RuleLists :
       /\ rs \in Seq(Range(rs)) /\ Identified(rs)
       /\ \A r \in Range(rs) : r.premises \in Seq(Range(r.premises))
  /\ MaxDepths \subseteq Int

Answers(kind, result) == answer = Unanswered /\ question.of = kind /\ Reply(result)

Policies == {"HIGHER_CONFIDENCE", "EVIDENCE_COUNT", "RECENT_SOURCE", "EXPLICIT_AUTHORITY"}

\* What the policy looks at.
Standing(b, policy) ==
  CASE policy = "EVIDENCE_COUNT" -> b.evidence_count
    [] policy = "RECENT_SOURCE" -> b.last_verified
    [] policy = "EXPLICIT_AUTHORITY" -> SourceRank[b.source]
    [] OTHER -> b.confidence

\* Mutant of Prevails: a tie goes to the belief that was named first.
PrevailsFirst(b, other, policy) == Standing(b, policy) >= Standing(other, policy)

Prevails(b, other, policy) ==
  \/ Standing(b, policy) > Standing(other, policy)
  \/ Standing(b, policy) = Standing(other, policy) /\ b.id < other.id

\* The winner as it was; the loser keeps everything but its confidence.
ResolveBeliefContradiction(b1, b2, policy) ==
  LET winner == IF Prevails(b1, b2, policy) THEN b1 ELSE b2
      loser == IF winner = b1 THEN b2 ELSE b1
  IN  [winner |-> winner, loser |-> [loser EXCEPT !.confidence = 0]]

-----------------------------------------------------------------------------
(* Hypotheses. *)

ByScore(h, other) ==
  h.score > other.score \/ (h.score = other.score /\ h.id < other.id)

\* Authority is for beliefs only: hypotheses fall back to their scores.
Before(h, other, policy) ==
  CASE policy = "EVIDENCE_COUNT" ->
         \/ h.thoughts > other.thoughts
         \/ h.thoughts = other.thoughts /\ ByScore(h, other)
    [] policy = "RECENT_SOURCE" ->
         \/ h.created_at > other.created_at
         \/ h.created_at = other.created_at /\ h.id < other.id
    [] OTHER -> ByScore(h, other)

\* sorted: candidates that tie stay in their order.
Ranked(hs, policy) ==
  LET Ahead(i) == {j \in DOMAIN hs :
                     \/ Before(hs[j], hs[i], policy)
                     \/ j < i /\ ~ Before(hs[i], hs[j], policy)}
  IN  [r \in DOMAIN hs |-> hs[CHOOSE i \in DOMAIN hs : Cardinality(Ahead(i)) = r - 1]]

ResolveHypothesesConflict(hs, policy) ==
  LET ranked == Ranked(hs, policy)
  IN  [i \in DOMAIN ranked |->
        [ranked[i] EXCEPT !.state = IF i = 1 THEN "ACCEPTED" ELSE "REJECTED"]]

MaxKeep == 3
MinScore == 30   \* percent

\* A rejected hypothesis takes one of the MaxKeep places all the same.
PruneCandidates(hs) ==
  LET ranked == Ranked(hs, "HIGHER_CONFIDENCE")
      Keeps(i) == i <= MaxKeep /\ ranked[i].score >= MinScore /\ ranked[i].state # "REJECTED"
      kept == {i \in DOMAIN ranked : Keeps(i)}
  IN  [kept |-> {ranked[i] : i \in kept},
       pruned |-> {[ranked[i] EXCEPT !.state = "PRUNED"] : i \in DOMAIN ranked \ kept}]

-----------------------------------------------------------------------------
(* ProviderResolver.  An entry advertises capabilities, some of which it   *)
(* may lack the methods for.                                               *)

ConfigurationError == "ValueError"
NoProvider == "None"

PrefersEntry(es, i, j) ==
  \/ es[i].priority > es[j].priority
  \/ es[i].priority = es[j].priority /\ es[i].name < es[j].name
  \/ es[i].priority = es[j].priority /\ es[i].name = es[j].name /\ i <= j

Resolve(es, capability) ==
  LET eligible == {i \in DOMAIN es : capability \in es[i].advertised}
  IN  IF \E i \in DOMAIN es : es[i].advertised \cap es[i].lacks # {} THEN ConfigurationError
      ELSE IF eligible = {} THEN NoProvider
      ELSE LET best == CHOOSE i \in eligible : \A j \in eligible : PrefersEntry(es, i, j)
           IN  es[best]

-----------------------------------------------------------------------------
(* The questions about choices. *)

ChoiceQuestions ==
       {q \in [of : {"resolve_belief_contradiction"}, b1 : Beliefs, b2 : Beliefs, policy : Policies] :
          q.b1.id # q.b2.id}
  \cup [of : {"resolve_hypotheses_conflict"}, hs : HypothesisLists, policy : Policies]
  \cup [of : {"prune_candidates"}, hs : HypothesisLists]
  \cup [of : {"resolve"}, es : EntryLists, capability : Capabilities]

AskBeliefs ==
  Answers("resolve_belief_contradiction",
          ResolveBeliefContradiction(question.b1, question.b2, question.policy))
AskHypotheses ==
  Answers("resolve_hypotheses_conflict", ResolveHypothesesConflict(question.hs, question.policy))
AskPrune == Answers("prune_candidates", PruneCandidates(question.hs))
AskProvider == Answers("resolve", Resolve(question.es, question.capability))

Choose == AskBeliefs \/ AskHypotheses \/ AskPrune \/ AskProvider

-----------------------------------------------------------------------------
(* InferenceEngine.backward_chain.  waiting is the stack of the rules      *)
(* whose conditions are being proved, each with its next condition; that a *)
(* condition finds no rule does not keep its rule out (sub_chain_valid).   *)

ChainQuestions ==
  [of : {"backward_chain"}, rules : RuleLists, held : SUBSET Goals, goal : Goals,
   max_depth : MaxDepths]

Fits(target) ==
  {i \in DOMAIN question.rules :
     question.rules[i].conclusion = target /\ question.rules[i].id \notin visited}

Fails(target, depth) ==
  depth >= question.max_depth \/ target \in question.held \/ Fits(target) = {}

FirstFit(target) ==
  question.rules[CHOOSE i \in Fits(target) : \A j \in Fits(target) : i <= j]

Frame(rule, next) == [rule |-> rule, next |-> next]

\* The first rule not visited that concludes the target is taken.
Prove(target, depth, frames) ==
  IF Fails(target, depth) THEN waiting' = frames /\ UNCHANGED visited
  ELSE /\ waiting' = Append(frames, Frame(FirstFit(target), 1))
       /\ visited' = visited \cup {FirstFit(target).id}

ProveGoal ==
  /\ answer = Unanswered /\ ~ running
  /\ running' = TRUE
  /\ Prove(question.goal, 0, <<>>)
  /\ UNCHANGED <<question, answer, walk, left, order>>

Innermost == waiting[Len(waiting)]
Conditions == Innermost.rule.premises

ProveCondition ==
  /\ Searching /\ waiting # <<>> /\ Innermost.next <= Len(Conditions)
  /\ Prove(Conditions[Innermost.next], Len(waiting),
           [waiting EXCEPT ![Len(waiting)] = Frame(@.rule, @.next + 1)])
  /\ UNCHANGED <<question, answer, running, walk, left, order>>

Outer == SubSeq(waiting, 1, Len(waiting) - 1)

\* Mutant of ListRule: a rule stands before those its conditions need.
ListRuleFirst ==
  /\ Searching /\ waiting # <<>> /\ Innermost.next > Len(Conditions)
  /\ order' = <<Innermost.rule>> \o order
  /\ waiting' = Outer
  /\ UNCHANGED <<question, answer, running, visited, walk, left>>

ListRule ==
  /\ Searching /\ waiting # <<>> /\ Innermost.next > Len(Conditions)
  /\ order' = Append(order, Innermost.rule)
  /\ waiting' = Outer
  /\ UNCHANGED <<question, answer, running, visited, walk, left>>

ReturnChain == Searching /\ waiting = <<>> /\ Reply(order)

BackwardChain == ProveGoal \/ ProveCondition \/ ListRule \/ ReturnChain

-----------------------------------------------------------------------------
(* What the answers are to be. *)

Reordered(s, t) == Len(s) = Len(t) /\ Range(s) = Range(t)

DistinctNames(es) == \A i, j \in DOMAIN es : es[i].name = es[j].name => i = j

\* Ties are broken by id, so no choice depends on the order its candidates come in:
\* swapped beliefs, reordered hypotheses and, between providers of different names,
\* reordered configurations give the same winner.
ChoicesIgnoreOrder ==
  LET q == question IN
  /\ Answered({"resolve_belief_contradiction"}) =>
       Result = ResolveBeliefContradiction(q.b2, q.b1, q.policy)
  /\ Answered({"resolve_hypotheses_conflict"}) =>
       \A hs \in HypothesisLists : Reordered(hs, q.hs) =>
         ResolveHypothesesConflict(hs, q.policy) = Result
  /\ Answered({"prune_candidates"}) =>
       \A hs \in HypothesisLists : Reordered(hs, q.hs) => PruneCandidates(hs) = Result
  /\ Answered({"resolve"}) =>
       \A es \in EntryLists : Reordered(es, q.es) /\ DistinctNames(q.es) =>
         Resolve(es, q.capability) = Result

Supports(r, s) == s.conclusion \in Range(r.premises)

\* No rule rests on itself.
Layered(rules) ==
  \E layer \in [Range(rules) -> 1..Len(rules)] :
    \A r, s \in Range(rules) : Supports(r, s) => layer[s] < layer[r]

FirstFor(rules, p, r) ==
  \E i \in DOMAIN rules :
    rules[i] = r /\ r.conclusion = p /\ \A j \in 1..i - 1 : rules[j].conclusion # p

\* The chain is empty only where nothing can be proved.  No rule occurs twice, each
\* concludes what a later one needs, the last one the goal.  Among rules that do not rest
\* on themselves, and unless the depth limit cut the search, the first rule that concludes
\* a premise, of those given, stands before the rule that needs it, however many others
\* conclude the same.
ChainInOrderOfUse ==
  LET q == question IN
  Answered({"backward_chain"}) =>
    /\ Result = <<>> <=> \/ q.max_depth < 1 \/ q.goal \in q.held
                         \/ \A r \in Range(q.rules) : r.conclusion # q.goal
    /\ Result # <<>> => Result[Len(Result)].conclusion = q.goal
    /\ Identified(Result)
    /\ \A i \in 1..Len(Result) - 1 : \E j \in i + 1..Len(Result) : Supports(Result[j], Result[i])
    /\ q.max_depth > Len(q.rules) /\ Layered(q.rules) =>
         \A j \in DOMAIN Result, r \in Range(q.rules) :
           \A p \in Range(Result[j].premises) \ q.held :
             FirstFor(q.rules, p, r) => \E i \in 1..j - 1 : Result[i] = r
=============================================================================
