CONSTANTS
    c1 = c1
    c2 = c2
    c3 = c3
    i1 = i1
    i2 = i2
    i3 = i3
    Calls = {c1, c2}
    Ids = {i1, i2}
    IdsOf <- SharedId
    Scopes = {s}
    MaxExited = 1
    Adapters = {"sdk", "relay"}
    Troubles = {"loss", "escape"}
SPECIFICATION FairSpec
CHECK_DEADLOCK FALSE
INVARIANTS CancelledIsSignalled ShutdownMeansExtinct
PROPERTY ShutdownSettles
