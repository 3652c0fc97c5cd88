\* Every pair of scripts on a complete directory, and the labelling scripts
\* three times on one that holds the repaired corpus and its review only.
SPECIFICATION Spec
CONSTANTS
    Scripts <- ScriptNames
    Files <- DataFiles
    Body <- Bodies
    Starts <- MCStarts
    Slots = {p1, p2}
    Labels <- LabelsOf
    Accepts <- ChecksPass
    VouchLaunches = 2
    LabelLaunches = 3
SYMMETRY SlotSymmetry
INVARIANTS
    ClosedOnWhatItRead
    FrozenFromFinishedReview
    CorpusMeetsItsManifest
\* Every script comes to an end and the launches are bounded.
CHECK_DEADLOCK FALSE
