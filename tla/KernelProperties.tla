--------------------------- MODULE KernelProperties ---------------------------
(***************************************************************************)
(* What booting and shutting down must satisfy, whatever the start order   *)
(* names and whichever hooks fail.                                         *)
(***************************************************************************)
EXTENDS Kernel

Active == {n \in DOMAIN state : state[n] = "running"}

\* The registry is in a transient state only for the subsystem whose hook is
\* running.
TypeOK ==
  /\ registered \in Seq(Names) /\ startOrder \in Seq(Names) /\ todo \in Seq(Names)
  /\ state \in [ToSet(registered) -> SubsystemState]
  /\ booted \in BOOLEAN
  /\ op \in {"none", "boot", "shutdown"}
  /\ lastBoot \in {"none", "ready", "raised"}
  /\ live \subseteq DOMAIN state
  /\ calling # NoName =>
       op # "none" /\ calling \in DOMAIN state /\ todo # <<>> /\ calling = Head(todo)
  /\ \A n \in DOMAIN state :
       /\ state[n] = "starting" <=> op = "boot" /\ calling = n
       /\ state[n] = "stopping" <=> op = "shutdown" /\ calling = n

\* The registry tells what the hooks did: a subsystem it calls RUNNING has
\* started and not stopped, and one that is live outside a hook of its own is
\* RUNNING, unless its stop hook failed.
RegistryMatchesHooks ==
  /\ Active \subseteq live
  /\ \A n \in live : n # calling => state[n] \in {"running", "failed"}

\* A shutdown that completed left nothing running, whichever stop hooks
\* failed; only a boot that raised leaves subsystems running behind it.
NothingRunsAfterShutdown ==
  ~ booted /\ op = "none" /\ lastBoot # "raised" => Active = {}

\* A boot that raised is final: every later boot raises as well, and, as
\* shutdown does nothing on a kernel that is not booted, what was running
\* keeps running.
FailedBootIsFinal ==
  [][lastBoot = "raised" => lastBoot' = "raised" /\ Active \subseteq Active']_vars

-----------------------------------------------------------------------------
(* What the documentation says and the code does not do. *)

=============================================================================
