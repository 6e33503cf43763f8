CONSTANTS
    Procs = {root, p1, p2, p3}
    Root = root
    Sup = Sup
    HostInit = HostInit
    Faults = {"setup", "enroll", "kill", "events", "poll", "sigkill"}
SPECIFICATION StuckSpec
CHECK_DEADLOCK FALSE
INVARIANTS CleanExitMeansExtinct RunsOnlyEnrolled OrphanRootIsDoomed
PROPERTY StopEndsSupervisor
