--------------------------------- MODULE Queries ---------------------------------
(***************************************************************************)
(* The symbolic engine's pure algorithms side by side.  Every question is  *)
(* an initial state; its steps are those of the algorithm it is about, or  *)
(* the one step of a choice.                                               *)
(***************************************************************************)
EXTENDS Activation, Deliberation

Questions == SearchQuestions \cup ActivationQuestions \cup ChoiceQuestions \cup ChainQuestions

QueryInit == question \in Questions /\ Idle /\ activations = NoActivations

queryVars == <<searchVars, activations>>

AskSearch == question \in SearchQuestions /\ SearchNext /\ UNCHANGED activations
AskActivate == question.of = "activate" /\ Activate
AskChoice == Choose /\ UNCHANGED activations
AskBackwardChain == question.of = "backward_chain" /\ BackwardChain /\ UNCHANGED activations

\* The caller has the answer.
Rest == answer # Unanswered /\ UNCHANGED queryVars

QueryNext == AskSearch \/ AskActivate \/ AskChoice \/ AskBackwardChain \/ Rest

QuerySpec == QueryInit /\ [][QueryNext]_queryVars
=============================================================================
