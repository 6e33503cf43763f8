CONSTANTS
    c1 = c1
    c2 = c2
    c3 = c3
    i1 = i1
    i2 = i2
    i3 = i3
    Calls = {c1, c2, c3}
    Ids = {i1, i2, i3}
    IdsOf <- OwnId
    Scopes = {s}
    MaxExited = 1
    Adapters = {"job"}
    Troubles = {"input", "output"}
SPECIFICATION Spec
CHECK_DEADLOCK FALSE
SYMMETRY Symmetry
INVARIANTS LiveRunRecorded FirstReasonRecorded ReplacementSupersedes
PROPERTY ReplacementSparesLater
