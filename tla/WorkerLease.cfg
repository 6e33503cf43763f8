CONSTANTS
    Calls = {c1, c2}
    VMs = {v1, v2}
    NoCall = NoCall
    NoVm = NoVm
    Faults = {"timeout", "prepare", "create", "begin", "install", "device", "bundle", "stop", "retire", "dispose"}
    MaxFaults = 5
SPECIFICATION FairSpec
CHECK_DEADLOCK FALSE
INVARIANTS TerminalMeansReleased NoOrphanVm EnrollsLeasedVm
PROPERTIES ReadyKeepsVm DestroyCompletes
