-------------------------- MODULE CausalIntervention --------------------------
(***************************************************************************)
(* The causal experiment of phase 6E.17                                    *)
(* (scripts/dataset_generator/run_phase_6e17_causal_intervention.py): up   *)
(* to three training runs, the baseline B and the two with a trainable     *)
(* readout, I1 and C2, a fingerprint gate after B, and a verdict over the  *)
(* three.  A launch names the conditions it runs; one that leaves B out    *)
(* takes the B that a halted launch left in runs_partial_B.json.           *)
(*                                                                         *)
(* Training is abstracted to what the control reads of it: whether the     *)
(* model proposed on the dev split at a step, and whether the measured     *)
(* fingerprint is inside its limits.                                       *)
(***************************************************************************)
EXTENDS Integers, FiniteSets

CONSTANTS
    Horizon,        \* HORIZON
    K,              \* COLLAPSE_K
    Checkpoints,    \* CHECKPOINTS: the steps evaluated and saved
    Primary,        \* the checkpoints the primary endpoint averages over
    Printed,        \* the checkpoints whose cosine the gate's report prints
    OnsetWindow,    \* the collapse onsets the gate accepts
    CosineStep,     \* the checkpoint whose cosine the gate reads
    GateStep,       \* the checkpoint whose rank the gate reads
    MaxLaunches     \* bound: launches of the script

ASSUME StepsAssumption ==
    /\ Horizon \in Nat \ {0} /\ K \in Nat \ {0}
    /\ Checkpoints \subseteq 0..Horizon
    /\ Primary \subseteq Nat /\ Printed \subseteq Nat /\ OnsetWindow \subseteq Nat \ {0}
    /\ CosineStep \in Nat
    /\ GateStep \in Checkpoints
    /\ MaxLaunches \in Nat

\* The endpoint has a checkpoint that even the earliest collapse leaves behind.
ASSUME PrimaryAssumption ==
    \E t \in Primary \cap Checkpoints : t <= K + 1

\* The guard fires K steps into a collapse: past the gate's checkpoint, when
\* the onset is one that the gate accepts.
ASSUME WindowAssumption ==
    \A t \in OnsetWindow : GateStep <= t + K - 1

VARIABLES
    pc,             \* where the launch is in main
    launch,         \* how many launches there have been
    conditions,     \* the conditions this launch was asked for
    cur,            \* the training run in progress
    runs,           \* the runs this launch holds, its own and the one it loaded
    partial,        \* runs_partial_B.json: the B runs in it, at most one
    filesB,         \* the steps with a checkpoint file in condition_B
    gate,           \* B0_fingerprint_gate.json
    verdict         \* verdict.json

vars == <<pc, launch, conditions, cur, runs, partial, filesB, gate, verdict>>

Conditions == {"B", "I1", "C2"}

\* A run: the steps taken, whether the model ever proposed, the steps in a row
\* without a proposal, t* (0: none), whether the guard stopped it, and the
\* launch it is of.
FreshRun(l) == [step |-> 0, ever |-> FALSE, zeros |-> 0, onset |-> 0,
                collapsed |-> FALSE, by |-> l]

\* run["checkpoints"]: one for every listed step that was reached.
Saved(r) == {t \in Checkpoints : t <= r.step}

NoGate    == [by |-> 0, pass |-> FALSE]
NoVerdict == [by |-> 0, onB |-> 0]

Init ==
    /\ pc = "idle" /\ launch = 0 /\ conditions = {}
    /\ cur = FreshRun(0) /\ runs = [c \in Conditions |-> {}]
    /\ partial = {} /\ filesB = {} /\ gate = NoGate /\ verdict = NoVerdict

(***************************************************************************)
(* main, up to the first run: the conditions of the command line, and the  *)
(* B of an earlier launch when this one does not run its own.              *)
(***************************************************************************)
Launch(C) ==
    /\ pc = "idle" /\ launch < MaxLaunches
    /\ launch' = launch + 1 /\ conditions' = C
    /\ runs' = [c \in Conditions |-> IF c = "B" /\ "B" \notin C THEN partial ELSE {}]
    /\ pc' = "next"
    /\ UNCHANGED <<cur, partial, filesB, gate, verdict>>

Pending == {c \in conditions : runs[c] = {}}

\* run_condition up to its loop: the checkpoint of step 0 is saved.
BeginRun(c) ==
    /\ pc = "next" /\ c \in Pending
    /\ c = "I1" => "B" \notin Pending
    /\ c = "C2" => Pending = {"C2"}
    /\ pc' = c /\ cur' = FreshRun(launch)
    /\ filesB' = IF c = "B" THEN filesB \cup {0} ELSE filesB
    /\ UNCHANGED <<launch, conditions, runs, partial, gate, verdict>>

(***************************************************************************)
(* One optimizer step: the dev split is evaluated, a listed step is saved, *)
(* and the guard stops a model that proposed before and has not for K      *)
(* steps.                                                                  *)
(***************************************************************************)
\* Mutant: a run that has not proposed yet counts as collapsed.
GuardFiresUnproposed(ever, zeros) == zeros >= K

GuardFires(ever, zeros) == ever /\ zeros >= K

\* Mutant: a proposal does not reset the steps counted without one.
SteppedKeepsZeros(r, proposes) ==
    LET zeros == IF proposes THEN r.zeros ELSE r.zeros + 1
        ever  == r.ever \/ proposes
    IN [step |-> r.step + 1, ever |-> ever, zeros |-> zeros,
        onset |-> IF ~proposes /\ r.ever /\ r.onset = 0 THEN r.step + 1 ELSE r.onset,
        collapsed |-> GuardFires(ever, zeros), by |-> r.by]

Stepped(r, proposes) ==
    LET zeros == IF proposes THEN 0 ELSE r.zeros + 1
        ever  == r.ever \/ proposes
    IN [step |-> r.step + 1, ever |-> ever, zeros |-> zeros,
        onset |-> IF ~proposes /\ r.ever /\ r.onset = 0 THEN r.step + 1 ELSE r.onset,
        collapsed |-> GuardFires(ever, zeros), by |-> r.by]

Running(r) == r.step < Horizon /\ ~r.collapsed

TrainStep(proposes) ==
    /\ pc \in Conditions /\ Running(cur)
    /\ cur' = Stepped(cur, proposes)
    /\ filesB' = IF pc = "B" THEN filesB \cup ({cur'.step} \cap Checkpoints) ELSE filesB
    /\ UNCHANGED <<pc, launch, conditions, runs, partial, gate, verdict>>

\* The run is returned; B's goes on to its fingerprint.
FinishRun ==
    /\ pc \in Conditions /\ ~Running(cur)
    /\ runs' = [runs EXCEPT ![pc] = {cur}]
    /\ pc' = IF pc = "B" THEN "fingerprint" ELSE "next"
    /\ UNCHANGED <<launch, conditions, cur, partial, filesB, gate, verdict>>

(***************************************************************************)
(* The fingerprint of B.  "measured" says that the cosine, the two ranks   *)
(* and the alignment are inside their limits; the joint spectrum is that   *)
(* of a file in condition_B, of whichever launch.                          *)
(***************************************************************************)
GatePasses(r, measured) ==
    /\ measured
    /\ CosineStep \in Saved(r)
    /\ r.onset \in OnsetWindow
    /\ GateStep \in Saved(r)
    /\ GateStep \in filesB

Fingerprint(measured) ==
    /\ pc = "fingerprint"
    /\ gate' = [by |-> launch, pass |-> GatePasses(cur, measured)]
    /\ pc' = "announce"
    /\ UNCHANGED <<launch, conditions, cur, runs, partial, filesB, verdict>>

\* The report formats the cosines of two checkpoints and raises on a missing one.
AnnounceRaises ==
    /\ pc = "announce" /\ ~ (Printed \subseteq Saved(cur))
    /\ pc' = "idle"
    /\ UNCHANGED <<launch, conditions, cur, runs, partial, filesB, gate, verdict>>

GateOpens ==
    /\ pc = "announce" /\ Printed \subseteq Saved(cur) /\ gate.pass
    /\ pc' = "next"
    /\ UNCHANGED <<launch, conditions, cur, runs, partial, filesB, gate, verdict>>

\* Mutant: the exit after a failed gate is missing.
HaltGoesOn ==
    /\ pc = "announce" /\ Printed \subseteq Saved(cur) /\ ~gate.pass
    /\ partial' = runs["B"]
    /\ pc' = "next"
    /\ UNCHANGED <<launch, conditions, cur, runs, filesB, gate, verdict>>

\* B is left for a later launch, and this one exits.
Halt ==
    /\ pc = "announce" /\ Printed \subseteq Saved(cur) /\ ~gate.pass
    /\ partial' = runs["B"]
    /\ pc' = "idle"
    /\ UNCHANGED <<launch, conditions, cur, runs, filesB, gate, verdict>>

(***************************************************************************)
(* compute_verdict needs the three runs: with one missing it raises, after *)
(* runs.json was written.                                                  *)
(***************************************************************************)
WriteVerdict ==
    /\ pc = "next" /\ Pending = {}
    /\ pc' = "idle"
    /\ verdict' = IF \E c \in Conditions : runs[c] = {}
                  THEN verdict
                  ELSE [by |-> launch, onB |-> (CHOOSE r \in runs["B"] : TRUE).by]
    /\ UNCHANGED <<launch, conditions, cur, runs, partial, filesB, gate>>

\* The process dies; what it wrote stays.
Crash ==
    /\ pc # "idle"
    /\ pc' = "idle"
    /\ UNCHANGED <<launch, conditions, cur, runs, partial, filesB, gate, verdict>>

Next ==
    \/ \E C \in SUBSET Conditions \ {{}} : Launch(C)
    \/ \E c \in Conditions : BeginRun(c)
    \/ \E proposes \in BOOLEAN : TrainStep(proposes)
    \/ FinishRun
    \/ \E measured \in BOOLEAN : Fingerprint(measured)
    \/ AnnounceRaises \/ GateOpens \/ Halt
    \/ WriteVerdict
    \/ Crash

Spec == Init /\ [][Next]_vars

-----------------------------------------------------------------------------
Run == [step : 0..Horizon, ever : BOOLEAN, zeros : 0..Horizon, onset : 0..Horizon,
        collapsed : BOOLEAN, by : 0..MaxLaunches]

\* Runs, files and reports are well formed, whichever launches wrote them.
TypeOK ==
    /\ pc \in {"idle", "next", "fingerprint", "announce"} \cup Conditions
    /\ launch \in 0..MaxLaunches /\ conditions \subseteq Conditions
    /\ cur \in Run /\ runs \in [Conditions -> SUBSET Run]
    /\ partial \subseteq Run /\ filesB \subseteq Checkpoints \cup {0}
    /\ gate \in [by : 0..MaxLaunches, pass : BOOLEAN]
    /\ verdict \in [by : 0..MaxLaunches, onB : 0..MaxLaunches]

Finished == (UNION {runs[c] : c \in Conditions}) \cup partial

\* Every run that ends, however early the guard stopped it, left a checkpoint
\* of the primary endpoint: the means the verdict compares exist
\* (mean_cos, lines 916-918).
PrimaryEndpointMeasured ==
    \A r \in Finished : Saved(r) \cap Primary # {}

\* A run whose onset the gate accepts also saved the checkpoint the gate reads:
\* the guard does not cut the run between the two (lines 751-758, 1067-1083).
OnsetLeavesGateCheckpoint ==
    \A r \in Finished : r.onset \in OnsetWindow => GateStep \in Saved(r)

\* A verdict over the launch's own baseline is one whose gate had passed: the
\* script does not go on to I1 and C2 past a failed gate (lines 1092-1095).
VerdictOfOwnBaseline ==
    verdict.by # 0 /\ verdict.onB = verdict.by =>
        /\ gate.by >= verdict.by
        /\ gate.by = verdict.by => gate.pass
=============================================================================
