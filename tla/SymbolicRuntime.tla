---------------------------- MODULE SymbolicRuntime ----------------------------
(***************************************************************************)
(* SymbolicRuntime over SymbolicStateStore: a pipeline whose committed     *)
(* state start() restores from a file and stop() writes to it.  A cycle is *)
(* deterministic, so the state S_t stands for the percepts of the cycles   *)
(* that were committed.  The operations; Session says who calls them.      *)
(***************************************************************************)
EXTENDS Sequences

VARIABLES
  committed,   \* SymbolicCognitivePipeline.state
  started,     \* SymbolicRuntime._started
  saving,      \* how far stop() is in save: "no", "before" or "after" the opening
  file         \* the state file

runtimeVars == <<committed, started, saving, file>>

\* The file is missing, cut short or empty, or holds a state.
NoFile == [form |-> "missing", state |-> <<>>]
TornFile == [form |-> "torn", state |-> <<>>]
FileWith(s) == [form |-> "whole", state |-> s]

\* __init__
New == committed = <<>> /\ started = FALSE /\ saving = "no"

\* Fault: the state is not restored.
StartRestoresNothing == started' = TRUE /\ UNCHANGED <<committed, saving, file>>

\* start: without a file the state stays what it is.
Start ==
  /\ file.form # "torn"
  /\ committed' = IF file.form = "whole" THEN file.state ELSE committed
  /\ started' = TRUE
  /\ UNCHANGED <<saving, file>>

\* load raises: the file exists, and cannot be read or decoded.
StartFails == file.form # "missing" /\ UNCHANGED runtimeVars

\* process, when the cycle succeeds.
Process(p) == committed' = Append(committed, p) /\ UNCHANGED <<started, saving, file>>

\* stop: the payload is serialized first.
Stop == saving = "no" /\ saving' = "before" /\ UNCHANGED <<committed, started, file>>

\* write_text opens the file and truncates it.
OpenFile ==
  /\ saving = "before" /\ saving' = "after"
  /\ file' = TornFile
  /\ UNCHANGED <<committed, started>>

\* The write ends, and stop with it.
WriteFile ==
  /\ saving = "after" /\ saving' = "no"
  /\ file' = FileWith(committed)
  /\ started' = FALSE
  /\ UNCHANGED committed

\* An exception or an interrupt leaves stop: what was opened stays cut short,
\* unless it is the interrupt of a write that had just ended.
StopRaises ==
  /\ saving # "no" /\ saving' = "no"
  /\ file' \in {file} \cup (IF saving = "after" THEN {FileWith(committed)} ELSE {})
  /\ UNCHANGED <<committed, started>>

\* The process ends and the file stays as it is.
End ==
  /\ committed' = <<>> /\ started' = FALSE /\ saving' = "no"
  /\ UNCHANGED file
=============================================================================
