CONSTANTS
    Procs = {root, p1}
    Root = root
    Sup = Sup
    HostInit = HostInit
    Faults = {}
SPECIFICATION JobSpec
CHECK_DEADLOCK FALSE
INVARIANT UnstartedGroupRemoved
