\* The script's constants on a shorter run: a horizon of 8 steps for 20, with the
\* checkpoints, the onsets and the endpoint in the order they have in the script.
SPECIFICATION Spec
CONSTANTS
    Horizon = 8
    K = 3
    Checkpoints = {0, 4, 6, 7}
    Primary = {4, 6, 7}
    Printed = {4, 6}
    CosineStep = 6
    OnsetWindow = {6, 7}
    GateStep = 7
    MaxLaunches = 2
INVARIANTS
    PrimaryEndpointMeasured
    OnsetLeavesGateCheckpoint
    VerdictOfOwnBaseline
\* The launches are bounded.
CHECK_DEADLOCK FALSE
