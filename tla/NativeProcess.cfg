CONSTANTS
    Calls = {c1, c2}
    MaxActive = 1
    MaxRetained = 1
    Linux = FALSE
    Inputs = {"stdin", "fork", "abort"}
SPECIFICATION FairSpec
CHECK_DEADLOCK FALSE
INVARIANTS ManagedBound FinishedGroupIsKilled DisposedMeansDead
PROPERTIES KilledFinishes DisposeSettlesOrWrites
