------------------------------ MODULE MCDatasets ------------------------------
(***************************************************************************)
(* The scripts of scripts/dataset_generator on one data directory, two at  *)
(* a time, from two states of the directory: "vouch", where every file the *)
(* sources pin is in place and any scripts are run, and "labels", where    *)
(* the repaired corpus and its review are there and the scripts are run    *)
(* that carry the review's labels into the frozen corpora.                 *)
(***************************************************************************)
EXTENDS DatasetScripts

CONSTANTS VouchLaunches, LabelLaunches

Labelling == {"Calibration", "FullReview", "DuplicateRepair", "FinalFreeze", "GoldFreeze"}

Reviewed == {"repaired", "order", "manifest", "review", "adjudication"}

BasisOf(f) == IF f \in {"review", "dedup", "gold"} THEN "finished" ELSE "none"

MCStarts == {
    [disk     |-> [f \in Files |-> Original(BasisOf(f))],
     scripts  |-> Scripts,
     launches |-> VouchLaunches],
    [disk     |-> [f \in Files |-> IF f \in Reviewed THEN Original(BasisOf(f)) ELSE Missing],
     scripts  |-> Labelling,
     launches |-> LabelLaunches] }

SlotSymmetry == Permutations(Slots)
=============================================================================
