--------------------------- MODULE SessionProperties ---------------------------
(***************************************************************************)
(* What sessions must satisfy across failed starts and stops, interrupts   *)
(* and ends of the process.                                                *)
(***************************************************************************)
EXTENDS Session

IsPrefixOf(s, t) == Len(s) <= Len(t) /\ \A i \in 1..Len(s) : s[i] = t[i]

\* The runtime saves only inside the kernel's call of its stop hook.
TypeOK ==
  /\ session \in {"off", "up", "leaving", "interrupted"}
  /\ committed \in Seq(Percepts) /\ started \in BOOLEAN
  /\ file.state \in Seq(Percepts)
  /\ file \in {R!NoFile, R!TornFile, R!FileWith(file.state)}
  /\ saving \in {"no", "before", "after"}
  /\ saving # "no" => op = "shutdown" /\ calling = Runtime /\ started
  /\ op = "shutdown" => session \in {"leaving", "interrupted"} /\ booted
  /\ op = "boot" => session = "up" /\ ~ booted
  /\ session = "off" => op = "none" /\ ~ booted

\* A save begins only over a file that can be read and whose state the saved
\* one extends: no session overwrites cycles that it did not begin with, nor
\* a file cut short, whatever start order is configured and however starts
\* and stops failed.
SaveExtendsFile ==
  saving = "before" => file.form # "torn" /\ IsPrefixOf(file.state, committed)

\* The registry calls the runtime STOPPED only when the file holds all that
\* was committed.
StoppedIsSaved ==
  Runtime \in DOMAIN state /\ state[Runtime] = "stopped" => file = R!FileWith(committed)

\* A session's state begins from what the last one saved, or from nothing
\* when that cannot be read; then the session writes no copy at all.
CheckpointOf ==
  INSTANCE Checkpoint WITH
    current <- committed,
    attached <- started,
    saved <- file.state,
    readable <- file.form # "torn"

ImplementsCheckpoint == CheckpointOf!Spec

\* Leaving ends the process, whichever hooks fail and even when interrupted.
LeavingEnds == session = "leaving" ~> session = "off"
=============================================================================
