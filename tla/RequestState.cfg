CONSTANTS
    Requests = {r1, r2, r3}
    Calls = {c1, c2}
    MaxTurn = 1
    None = None
SPECIFICATION Spec
SYMMETRY Symmetry
INVARIANTS InterruptedTurnFenced NoSilentReplay CommitDurable HolderOwnsMarker
PROPERTIES CheckpointAdvancesByOne ImplementsLedger
