CONSTANTS
    Calls = {c1, c2}
    MaxActive = 2
    MaxRetained = 1
    Linux = TRUE
    Inputs = {"stdin", "abort", "timeout", "output", "kill"}
SPECIFICATION Spec
CHECK_DEADLOCK FALSE
SYMMETRY Symmetry
INVARIANTS RetainedBound DisposeWaitsForSpawns
PROPERTY NoLaunchAfterDispose
