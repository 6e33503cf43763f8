CONSTANTS
    Calls = {c1, c2}
    VMs = {v1, v2}
    NoCall = NoCall
    NoVm = NoVm
    Faults = {"dispose"}
    MaxFaults = 1
SPECIFICATION Spec
CHECK_DEADLOCK FALSE
INVARIANT TerminalMeansNoVm
