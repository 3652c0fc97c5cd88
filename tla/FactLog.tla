-------------------------------- MODULE FactLog --------------------------------
(***************************************************************************)
(* What the memory of facts promises: a log of key and value pairs to      *)
(* which statements are only appended, and a copy of it on disk that is    *)
(* replaced as a whole or lost.  A restart reads the copy.                 *)
(***************************************************************************)
EXTENDS Sequences

CONSTANT Facts    \* pairs of a key and a value

VARIABLES
  log,        \* the statements of the running process
  disk,       \* the copy
  readable    \* whether the copy can be read

vars == <<log, disk, readable>>

Init == log = <<>> /\ disk = <<>> /\ readable = TRUE

State(f) == log' = Append(log, f) /\ UNCHANGED <<disk, readable>>

Save == disk' = log /\ readable' = TRUE /\ UNCHANGED log

\* A write that does not reach its end loses the copy.
Tear == disk' = <<>> /\ readable' \in BOOLEAN /\ UNCHANGED log

Reload == readable /\ log' = disk /\ UNCHANGED <<disk, readable>>

Next == (\E f \in Facts : State(f)) \/ Save \/ Tear \/ Reload

Spec == Init /\ [][Next]_vars
=============================================================================
