CONSTANTS
    Calls = {c1}
    MaxActive = 1
    MaxRetained = 1
    Linux = FALSE
    Inputs = {"stdin"}
SPECIFICATION FairSpec
CHECK_DEADLOCK FALSE
PROPERTY DisposeSettles
