CONSTANTS
    Procs = {root, p1, p2}
    Root = root
    Sup = Sup
    HostInit = HostInit
    Faults = {"setup", "enroll", "kill", "events", "poll", "sigkill"}
SPECIFICATION FairJobSpec
CHECK_DEADLOCK FALSE
INVARIANTS FinishMeansExtinct ReadyMeansIdentified SupervisorHasGroup
PROPERTIES LaunchSettles CancelSettles
