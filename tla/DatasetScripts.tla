---------------------------- MODULE DatasetScripts ----------------------------
(***************************************************************************)
(* What each script of scripts/dataset_generator does with the files that  *)
(* some other script of the directory writes, in the order of its main():  *)
(* the constants of ArtifactScripts.  The files:                           *)
(*   candidates    candidates/ds-v0.2.json and its split files             *)
(*   repaired      candidates/ds-v0.2-repaired.json                        *)
(*   order, manifest, review, adjudication   of review/                    *)
(*   dedup         candidates/ds-v0.2-deduplicated.json                    *)
(*   gold          the frozen corpus                                       *)
(*   adapter2, adapter6   the weights trained by phases 6e2 and 6e6        *)
(*   results6, results8   the JSON results of 6e6 and 6e8 read by 6e7, 6e9 *)
(* Whatever no script reads is "reports": audits, manifests and results.   *)
(* The base model and the probe set are read and never written, so nothing *)
(* can happen to them and they are left out.  The computations between two *)
(* steps touch no file; those whose outcome a later script asserts are in  *)
(* RepairedCorpus.                                                         *)
(***************************************************************************)
EXTENDS ArtifactScripts, RepairedCorpus

DataFiles == {"candidates", "repaired", "order", "manifest", "review", "adjudication",
              "dedup", "gold", "adapter2", "adapter6", "results6", "results8", "reports"}

Step1(kind, f) == << [do |-> kind, file |-> f] >>

Pins(f)     == Step1("pin", f)
Holds(f)    == Step1("hold", f)
Reads(f)    == Step1("read", f)
Checks(f)   == Step1("check", f)
Writes(f)   == Step1("write", f)
Compares(f) == Step1("compare", f)
Reports     == Step1("report", "reports")

-----------------------------------------------------------------------------
\* Building and auditing the corpus.
Generation == Writes("candidates") \o Reports
Repaired == Writes("repaired") \o Reports
Forensics == Reads("candidates") \o Reports
Adversarial == Reads("candidates") \o Reports
RepairAudit == Reads("repaired") \o Reports
IndependentAudit == Reads("repaired") \o Reports
AuditResolution == Reads("repaired") \o Reads("review") \o Reports
Validator == Reads("repaired")

\* Reviewing, repairing and freezing it.
Calibration ==
    Holds("repaired") \o Reads("repaired") \o Writes("order") \o Writes("manifest")
    \o Writes("review") \o Compares("repaired") \o Reports
\* The review records are made from the manifest; the corpus is only hashed.
FullReview ==
    Holds("repaired") \o Reads("manifest") \o Compares("repaired") \o Writes("review")
    \o Writes("adjudication") \o Reports
DuplicateForensics ==
    Holds("repaired") \o Reads("repaired") \o Reads("review") \o Compares("repaired")
    \o Reports
DuplicateRepair ==
    Holds("repaired") \o Reads("repaired") \o Reads("review") \o Writes("dedup") \o Reports
    \o Compares("repaired")
PostRepairAudit == Reads("dedup") \o Reads("review") \o Reports
\* The corpus is hashed after it was parsed, and not again.
FinalFreeze ==
    Pins("repaired") \o Reads("dedup") \o Reads("review") \o Holds("dedup")
    \o Checks("dedup") \o Reports
GoldFreezeLoads ==
    Reads("review") \o Reads("manifest") \o Reads("order") \o Reads("adjudication")
    \o Reads("repaired") \o Checks("review")
GoldFreezeSaves == Writes("gold") \o Reports

\* Phases 6c: evaluation up to the promotion; each compares the corpus at its end.
Phase6c2 == Pins("dedup") \o Reads("dedup") \o Reads("review") \o Reports \o Compares("dedup")
Phase6c3Training ==
    Pins("dedup") \o Reads("dedup") \o Reads("review") \o Reports \o Compares("dedup")
Phase6c3Forensics ==
    Pins("dedup") \o Reads("dedup") \o Reads("review") \o Reports \o Compares("dedup")
Phase6c4 == Pins("dedup") \o Reads("dedup") \o Reads("review") \o Reports \o Compares("dedup")
Phase6c5 == Pins("dedup") \o Reports \o Compares("dedup")
Phase6c6 == Pins("dedup") \o Reports \o Compares("dedup")
Phase6c7 == Pins("dedup") \o Reports \o Compares("dedup")
Phase6c7r == Pins("dedup") \o Reports \o Compares("dedup")
Phase6c7r1 == Pins("dedup") \o Reports \o Compares("dedup")
Phase6c8 == Pins("dedup") \o Reports \o Compares("dedup")
Phase6c9 == Pins("dedup") \o Reports \o Compares("dedup")
Phase6c10 == Pins("dedup") \o Reports \o Compares("dedup")

\* Phases 6e: training and the forensics of the trained weights.
Phase6e2Opens == Pins("dedup") \o Reads("dedup")
Phase6e2Closes == Writes("adapter2") \o Reads("adapter2") \o Reports
Phase6e2r1 == Pins("dedup") \o Pins("adapter2") \o Reads("adapter2") \o Reports
Phase6e3Opens == Pins("dedup") \o Pins("adapter2") \o Reads("adapter2") \o Reports
Phase6e3Closes == Reads("dedup") \o Reports
Phase6e4Opens == Pins("dedup") \o Pins("adapter2") \o Reads("dedup") \o Reads("adapter2")
Phase6e4Closes == Reports
Phase6e5Opens == Pins("dedup") \o Pins("adapter2") \o Reads("dedup")
Phase6e5Closes == Reports
Phase6e6Opens == Pins("dedup") \o Pins("adapter2") \o Reads("dedup")
Phase6e6Closes == Writes("adapter6") \o Reads("adapter6") \o Writes("results6") \o Reports
\* Writes what 6e6 wrote once more, from values in its source.
Phase6e6Reload ==
    Holds("dedup") \o Holds("adapter2") \o Holds("adapter6") \o Reads("adapter6")
    \o Reads("dedup") \o Writes("results6") \o Reports
Phase6e7Opens == Pins("dedup") \o Pins("adapter2") \o Pins("adapter6") \o Reads("dedup")
Phase6e7Closes ==
    Reads("results6") \o Reads("adapter2") \o Reads("adapter6") \o Reports
    \o Compares("dedup") \o Compares("adapter2") \o Compares("adapter6") \o Reports
Phase6e8Opens == Pins("dedup") \o Pins("adapter2") \o Pins("adapter6") \o Reads("dedup")
Phase6e8Closes ==
    Reads("adapter2") \o Reads("adapter6") \o Writes("results8") \o Reports
    \o Compares("dedup") \o Compares("adapter2") \o Compares("adapter6") \o Reports
Phase6e9Opens ==
    Pins("dedup") \o Pins("adapter2") \o Pins("adapter6") \o Reads("results8")
    \o Reads("dedup")
Phase6e9Closes ==
    Reports \o Compares("dedup") \o Compares("adapter2") \o Compares("adapter6") \o Reports
Phase6e10Opens == Pins("dedup") \o Pins("adapter2") \o Pins("adapter6")
Phase6e10Closes ==
    Reports \o Compares("dedup") \o Compares("adapter2") \o Compares("adapter6") \o Reports
Phase6e11Opens == Pins("dedup") \o Pins("adapter2") \o Pins("adapter6") \o Reads("dedup")
Phase6e11Closes ==
    Reports \o Compares("dedup") \o Compares("adapter2") \o Compares("adapter6") \o Reports
Phase6e12Opens == Pins("dedup") \o Reads("dedup")
Phase6e12Closes == Reports \o Compares("dedup") \o Reports
Phase6e13Opens == Pins("dedup") \o Reads("dedup")
Phase6e13Closes == Reports \o Compares("dedup") \o Reports
Phase6e14Opens == Pins("dedup") \o Reads("dedup")
Phase6e14Closes == Reports \o Compares("dedup") \o Reports
Phase6e15Opens == Pins("dedup") \o Reads("dedup")
Phase6e15Closes == Reports \o Compares("dedup") \o Reports
Phase6e16Opens == Holds("dedup") \o Reads("dedup")
Phase6e16Closes == Reports \o Compares("dedup") \o Reports

Bodies == [
    Generation         |-> Generation,
    Repaired           |-> Repaired,
    Forensics          |-> Forensics,
    Adversarial        |-> Adversarial,
    RepairAudit        |-> RepairAudit,
    IndependentAudit   |-> IndependentAudit,
    AuditResolution    |-> AuditResolution,
    Validator          |-> Validator,
    Calibration        |-> Calibration,
    FullReview         |-> FullReview,
    DuplicateForensics |-> DuplicateForensics,
    DuplicateRepair    |-> DuplicateRepair,
    PostRepairAudit    |-> PostRepairAudit,
    FinalFreeze        |-> FinalFreeze,
    GoldFreeze         |-> GoldFreezeLoads \o GoldFreezeSaves,
    Phase6c2           |-> Phase6c2,
    Phase6c3Training   |-> Phase6c3Training,
    Phase6c3Forensics  |-> Phase6c3Forensics,
    Phase6c4           |-> Phase6c4,
    Phase6c5           |-> Phase6c5,
    Phase6c6           |-> Phase6c6,
    Phase6c7           |-> Phase6c7,
    Phase6c7r          |-> Phase6c7r,
    Phase6c7r1         |-> Phase6c7r1,
    Phase6c8           |-> Phase6c8,
    Phase6c9           |-> Phase6c9,
    Phase6c10          |-> Phase6c10,
    Phase6e2           |-> Phase6e2Opens \o Phase6e2Closes,
    Phase6e2r1         |-> Phase6e2r1,
    Phase6e3           |-> Phase6e3Opens \o Phase6e3Closes,
    Phase6e4           |-> Phase6e4Opens \o Phase6e4Closes,
    Phase6e5           |-> Phase6e5Opens \o Phase6e5Closes,
    Phase6e6           |-> Phase6e6Opens \o Phase6e6Closes,
    Phase6e6Reload     |-> Phase6e6Reload,
    Phase6e7           |-> Phase6e7Opens \o Phase6e7Closes,
    Phase6e8           |-> Phase6e8Opens \o Phase6e8Closes,
    Phase6e9           |-> Phase6e9Opens \o Phase6e9Closes,
    Phase6e10          |-> Phase6e10Opens \o Phase6e10Closes,
    Phase6e11          |-> Phase6e11Opens \o Phase6e11Closes,
    Phase6e12          |-> Phase6e12Opens \o Phase6e12Closes,
    Phase6e13          |-> Phase6e13Opens \o Phase6e13Closes,
    Phase6e14          |-> Phase6e14Opens \o Phase6e14Closes,
    Phase6e15          |-> Phase6e15Opens \o Phase6e15Closes,
    Phase6e16          |-> Phase6e16Opens \o Phase6e16Closes ]

ScriptNames == DOMAIN Bodies

-----------------------------------------------------------------------------
(***************************************************************************)
(* The review the labels of a file go back to.  The calibration writes     *)
(* records that await a reviewer, the full review fills them in, and what  *)
(* is made from the review file has its labels.                            *)
(***************************************************************************)
LabelsOf(script, file) ==
    CASE script = "Calibration" /\ file = "review" -> "blank"
      [] script = "FullReview" /\ file = "review"  -> "finished"
      [] script = "DuplicateRepair"                -> "review"
      [] script = "GoldFreeze"                     -> "review"
      [] OTHER                                     -> "none"

\* Mutant: the freeze does not count the propositions and labels.
FreezeAcceptsAny(read) == TRUE

FreezeAccepts(read) ==
    /\ UniqueProps[read["dedup"].basis] = Total
    /\ LabelCounts[read["review"].basis] =
         [GOLD_POSITIVE |-> 67, GOLD_ABSTAIN |-> 66, HARD_NEGATIVE |-> 131]

\* load_upstream: each record of the review has a final label.
GoldAccepts(read) == read["review"].basis = "finished"

ChecksPass(script, read) ==
    /\ script = "FinalFreeze" => FreezeAccepts(read)
    /\ script = "GoldFreeze"  => GoldAccepts(read)

-----------------------------------------------------------------------------
(***************************************************************************)
(* What the frozen corpus rests on.                                        *)
(***************************************************************************)
ReviewFiles == {"review", "dedup"}

\* The review and the corpus repaired by it carry the labels of a review, blank
\* or finished, in the directory the model begins with and in what scripts write.
ASSUME DirectoryAssumption ==
    /\ ReviewFiles \subseteq Files
    /\ \A f \in ReviewFiles :
        /\ \A s \in Starts : s.disk[f].whole => s.disk[f].basis \in {"blank", "finished"}
        /\ \A s \in Scripts :
            Positions(s, "write", f) # {} => Labels(s, f) \in {"blank", "finished", "review"}
    /\ "FinalFreeze" \in Scripts =>
        /\ \A f \in ReviewFiles : Positions("FinalFreeze", "read", f) # {}
        /\ \E f \in Files : Positions("FinalFreeze", "check", f) # {}

\* A repair by the blank review leaves propositions twice.
ASSUME BlankAssumption == UniqueProps["blank"] # Total

\* A run of the final freeze that comes to its end read a deduplicated corpus
\* and review records that go back to a finished review, never to the blank one
\* that a calibration leaves behind (execute_final_freeze.py:87 and :94), in any
\* order and interleaving of the scripts that write the two files.
FrozenFromFinishedReview ==
    \A l \in closed :
        l.script = "FinalFreeze" =>
            l.read["dedup"].basis = "finished" /\ l.read["review"].basis = "finished"

\* The repaired corpus on disk satisfies the schema invariants and has unique
\* ids, which its manifest claims without a look at the result
\* (quality_gates.py:495, schema_invariants_verified).
CorpusIsSound == InvariantsHold(Records) /\ IdsUnique(Records)

CorpusMeetsItsManifest == disk["repaired"].whole => CorpusIsSound
=============================================================================
