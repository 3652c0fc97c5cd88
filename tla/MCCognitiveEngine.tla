-------------------------- MODULE MCCognitiveEngine --------------------------
(***************************************************************************)
(* One line for every rule of configs/rules that can give the intent, two  *)
(* lines for which two rules match, and one for which none does.           *)
(***************************************************************************)
EXTENDS CognitiveEngineProperties

Line(phrases, name, topic) == [phrases |-> phrases, name |-> name, topic |-> topic]

MCLines ==
  {Line({"hello"}, "none", "none"),
   Line({"my name is"}, "ann", "none"), Line({"my name is"}, "bob", "none"),
   Line({"i am"}, "bob", "none"),
   Line({"i like"}, "none", "astronomy"),
   Line({"my name is", "i like"}, "ann", "python"),
   Line({"hello", "my name is"}, "bob", "none"),
   Line({"my favorite"}, "none", "python"),
   Line({"recommend"}, "none", "none"),
   Line({"what is", "name"}, "none", "none"),
   Line({}, "none", "none")}
=============================================================================
