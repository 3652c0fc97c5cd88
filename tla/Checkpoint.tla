------------------------------- MODULE Checkpoint -------------------------------
(***************************************************************************)
(* What a session promises about the state of the cognitive cycle: it      *)
(* begins from the copy on disk or, detached from it, from nothing; it     *)
(* learns one cycle at a time; and only a session that began from the copy *)
(* writes one.                                                             *)
(***************************************************************************)
EXTENDS Sequences

CONSTANT Percepts

VARIABLES
  current,    \* the percepts of the cycles the session's state results from
  attached,   \* whether the session began from the copy
  saved,      \* the copy
  readable    \* whether it can be read

vars == <<current, attached, saved, readable>>

Init == current = <<>> /\ attached = FALSE /\ saved = <<>> /\ readable = TRUE

Attach ==
  /\ ~ attached /\ readable
  /\ current' = saved /\ attached' = TRUE
  /\ UNCHANGED <<saved, readable>>

Learn(p) == current' = Append(current, p) /\ UNCHANGED <<attached, saved, readable>>

\* A session that has written its copy is done with it, unless interrupted.
Save ==
  /\ attached /\ attached' \in BOOLEAN
  /\ saved' = current /\ readable' = TRUE
  /\ UNCHANGED current

\* A write loses the copy until it ends.
Tear ==
  /\ attached
  /\ saved' = <<>> /\ readable' = FALSE
  /\ UNCHANGED <<current, attached>>

Leave == current' = <<>> /\ attached' = FALSE /\ UNCHANGED <<saved, readable>>

Next == Attach \/ (\E p \in Percepts : Learn(p)) \/ Save \/ Tear \/ Leave

Spec == Init /\ [][Next]_vars
=============================================================================
