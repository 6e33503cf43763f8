---------------------------- MODULE JobSupervisor ----------------------------
(***************************************************************************)
(* One Linux job: packages/agentos-sdk/native/supervisor.c, the child it    *)
(* forks (which becomes native/launcher.c and then the workload), and the    *)
(* parts of the kernel they rely on: the process tree, adoption of orphans   *)
(* by the subreaper, the job's cgroup and the parent-death signal.           *)
(*                                                                         *)
(* The supervisor enrols the gated child in the cgroup, publishes its        *)
(* identity, opens the gate, and then loops: drain waitpid, poll the         *)
(* manager, and once stopping is requested kill the cgroup and wait, with a  *)
(* deadline, until nothing is left.                                          *)
(***************************************************************************)
EXTENDS Naturals, Sequences, FiniteSets

CONSTANTS
    Procs,      \* process identities of the job
    Root,       \* the child the supervisor forks
    Sup,        \* the supervisor, as a parent
    HostInit,   \* the host's init, the parent of last resort
    Faults      \* which calls may fail and who may be killed

FaultKinds == {"setup", "enroll", "kill", "events", "poll", "sigkill"}

ASSUME RootAssumption == Root \in Procs
ASSUME ParentAssumption == Sup \notin Procs /\ HostInit \notin Procs /\ Sup # HostInit
ASSUME FaultAssumption == Faults \subseteq FaultKinds

VARIABLES
    \* the supervisor
    sup,            \* where it is
    rootDone,       \* root_done
    noChildren,     \* no_children of this iteration
    stopping,       \* stopping
    late,           \* the cleanup deadline has passed
    \* what reaches it
    control,        \* fd 4 is readable: a cancel byte, or the manager is gone
    interrupted,    \* interrupted: SIGTERM or SIGINT was delivered
    \* the kernel
    state,          \* each process: unborn, running, zombie, reaped
    parent,         \* each process's parent
    group,          \* processes that were enrolled in the cgroup, or forked there
    doomed,         \* processes with SIGKILL pending
    \* the child before it is the workload
    gate,           \* the start gate: shut or open ('G' was written)
    phase,          \* gated, started, launcher, restricted, tenant
    \* fd 3, shared by supervisor and launcher
    events          \* status lines not yet read

supVars == <<sup, rootDone, noChildren, stopping, late>>
inputVars == <<control, interrupted>>
kernelVars == <<state, parent, group, doomed>>
childVars == <<gate, phase>>
vars == <<supVars, inputVars, kernelVars, childVars, events>>

Gone == {"clean", "error", "killed"}
SupAlive == sup \notin Gone
Running(p) == state[p] = "running"
ChildrenOf(x) == {p \in Procs : parent[p] = x /\ state[p] \in {"running", "zombie"}}
ZombiesOf(x) == {p \in Procs : parent[p] = x /\ state[p] = "zombie"}

\* cgroup.events reports populated 1: zombies are not counted.
Populated == \E p \in group : Running(p)

Say(event) == events' = Append(events, event)

Init ==
    /\ sup = "setup"
    /\ rootDone = FALSE /\ noChildren = FALSE /\ stopping = FALSE /\ late = FALSE
    /\ control = FALSE /\ interrupted = FALSE
    /\ state = [p \in Procs |-> "unborn"]
    /\ parent = [p \in Procs |-> HostInit]
    /\ group = {} /\ doomed = {}
    /\ gate = "shut" /\ phase = "gated"
    /\ events = <<>>

-----------------------------------------------------------------------------
(* The kernel.                                                             *)

\* p ends: its children are adopted by the subreaper, or by init once that is
\* gone; what init adopts or parents is reaped at once.
ProcessEnd(p) ==
    LET adopter == IF SupAlive THEN Sup ELSE HostInit
    IN  /\ state' = [q \in Procs |->
              IF q = p THEN (IF parent[p] = HostInit THEN "reaped" ELSE "zombie")
              ELSE IF q \in ZombiesOf(p) /\ adopter = HostInit THEN "reaped"
              ELSE state[q]]
        /\ parent' = [q \in Procs |-> IF parent[q] = p THEN adopter ELSE parent[q]]
        /\ doomed' = doomed \ {p}
        /\ UNCHANGED group

\* The supervisor ends: init adopts and reaps, and a root that has armed the
\* parent-death signal is killed.  No other process of the job is.
SupervisorEnd(how) ==
    /\ sup' = how
    /\ state' = [q \in Procs |-> IF q \in ZombiesOf(Sup) THEN "reaped" ELSE state[q]]
    /\ parent' = [q \in Procs |-> IF parent[q] = Sup THEN HostInit ELSE parent[q]]
    /\ doomed' = doomed \cup {p \in {Root} : Running(p) /\ phase \in {"launcher", "restricted", "tenant"}}
    /\ UNCHANGED <<group, rootDone, noChildren, stopping, late>>

\* error(stage): report and return 125.
SupervisorError ==
    /\ Say("supervisor-error")
    /\ SupervisorEnd("error")

-----------------------------------------------------------------------------
(* The supervisor up to its loop.                                          *)

\* Arguments, pipes, cgroup_open, subreaper, handlers, gate pipe, fork.
Setup ==
    /\ sup = "setup"
    /\ \/ "setup" \in Faults /\ SupervisorError
       \/ /\ sup' = "join"
          /\ state' = [state EXCEPT ![Root] = "running"]
          /\ parent' = [parent EXCEPT ![Root] = Sup]
          /\ UNCHANGED <<rootDone, noChildren, stopping, late, group, doomed, events>>
    /\ UNCHANGED <<inputVars, childVars>>

\* group_join: the group must be empty, and hold exactly the root afterwards.
\* On failure the root is killed.
Join ==
    /\ sup = "join"
    /\ \/ /\ Running(Root) /\ ~Populated
          /\ group' = group \cup {Root}
          /\ sup' = "publish"
          /\ UNCHANGED doomed
       \/ /\ ~Running(Root) \/ Populated \/ "enroll" \in Faults
          /\ doomed' = doomed \cup {p \in {Root} : Running(p)}
          /\ sup' = "abort"
          /\ UNCHANGED group
    /\ UNCHANGED <<rootDone, noChildren, stopping, late, inputVars, state, parent, childVars, events>>

\* Mutant: the child's identity is not published.
PublishForgotten ==
    /\ sup = "publish"
    /\ sup' = "release"
    /\ UNCHANGED <<rootDone, noChildren, stopping, late, inputVars, kernelVars, childVars, events>>

Publish ==
    /\ sup = "publish"
    /\ Say("enrolled")
    /\ sup' = "release"
    /\ UNCHANGED <<rootDone, noChildren, stopping, late, inputVars, kernelVars, childVars>>

\* Writing 'G' fails with EPIPE when the gated child is dead.
Release ==
    /\ sup = "release"
    /\ IF Running(Root) THEN sup' = "reap" /\ gate' = "open"
                        ELSE sup' = "abort" /\ UNCHANGED gate
    /\ UNCHANGED <<rootDone, noChildren, stopping, late, inputVars, kernelVars, phase, events>>

\* reap_root blocks until the killed child is a zombie; then error.
Abort ==
    /\ sup = "abort"
    /\ Root \in ZombiesOf(Sup)
    /\ SupervisorError
    /\ UNCHANGED <<inputVars, childVars>>

-----------------------------------------------------------------------------
(* The supervisor's loop.                                                  *)

\* waitpid(-1, WNOHANG) returns a child; the root's exit is reported.
Reap(p) ==
    /\ sup = "reap"
    /\ p \in ZombiesOf(Sup)
    /\ state' = [state EXCEPT ![p] = "reaped"]
    /\ rootDone' = (rootDone \/ p = Root)
    /\ IF p = Root THEN Say("root-exit") ELSE UNCHANGED events
    /\ UNCHANGED <<sup, noChildren, stopping, late, inputVars, parent, group, doomed, childVars>>

\* It returns 0, or -1 with ECHILD when there is no child at all.
DrainEnd ==
    /\ sup = "reap"
    /\ ZombiesOf(Sup) = {}
    /\ noChildren' = (ChildrenOf(Sup) = {})
    /\ sup' = "poll"
    /\ UNCHANGED <<rootDone, stopping, late, inputVars, kernelVars, childVars, events>>

\* Mutant: fd 4 is not looked at.
RequestedWithoutControl == interrupted \/ rootDone

Requested == interrupted \/ rootDone \/ control

\* The first request stops the job: cleanup-start, the deadline, cgroup.kill.
\* When the kill fails only the root is killed, and the supervisor gives up.
Stop ==
    /\ stopping' = TRUE
    /\ \/ /\ Say("cleanup-start")
          /\ doomed' = doomed \cup {p \in group : Running(p)}
          /\ sup' = "check"
          /\ UNCHANGED <<state, parent, group>>
       \/ /\ "kill" \in Faults
          /\ events' = events \o <<"cleanup-start", "supervisor-error">>
          /\ sup' = "error"
          /\ doomed' = doomed \cup {p \in {Root} : Running(p)}
          /\ state' = [q \in Procs |-> IF q \in ZombiesOf(Sup) THEN "reaped" ELSE state[q]]
          /\ parent' = [q \in Procs |-> IF parent[q] = Sup THEN HostInit ELSE parent[q]]
          /\ UNCHANGED group

Poll ==
    /\ sup = "poll"
    /\ \/ "poll" \in Faults /\ SupervisorError
       \/ /\ Requested /\ ~stopping
          /\ Stop
          /\ UNCHANGED <<rootDone, noChildren, late>>
       \/ /\ ~(Requested /\ ~stopping)
          /\ sup' = IF stopping THEN "check" ELSE "reap"
          /\ UNCHANGED <<rootDone, noChildren, stopping, late, kernelVars, events>>
    /\ UNCHANGED <<inputVars, childVars>>

\* Mutant: the tree is taken for dead with its root.
CleanedUpWithRoot == rootDone

CleanedUp == rootDone /\ noChildren /\ ~Populated

\* Mutant: no deadline.
CheckForever ==
    /\ sup = "check"
    /\ \/ /\ CleanedUp
          /\ Say("cleanup-complete")
          /\ SupervisorEnd("clean")
       \/ /\ ~CleanedUp
          /\ sup' = "reap"
          /\ UNCHANGED <<rootDone, noChildren, stopping, late, kernelVars, events>>
    /\ UNCHANGED <<inputVars, childVars>>

\* group_empty, then success before the deadline is looked at.
Check ==
    /\ sup = "check"
    /\ \/ "events" \in Faults /\ SupervisorError
       \/ /\ CleanedUp
          /\ Say("cleanup-complete")
          /\ SupervisorEnd("clean")
       \/ ~CleanedUp /\ late /\ SupervisorError
       \/ /\ ~CleanedUp /\ ~late
          /\ sup' = "reap"
          /\ UNCHANGED <<rootDone, noChildren, stopping, late, kernelVars, events>>
    /\ UNCHANGED <<inputVars, childVars>>

SupervisorStep ==
    \/ Setup \/ Join \/ Publish \/ Release \/ Abort
    \/ DrainEnd \/ Poll \/ Check
    \/ \E p \in Procs : Reap(p)

-----------------------------------------------------------------------------
(* The child: gate, launcher, workload.                                    *)

\* Mutant: the child does not wait for the gate.
PassGateUngated ==
    /\ Running(Root) /\ phase = "gated"
    /\ phase' = "started"
    /\ UNCHANGED <<supVars, inputVars, kernelVars, gate, events>>

\* The gated child reads 'G', or end of file once no one can write it.
PassGate ==
    /\ Running(Root) /\ phase = "gated"
    /\ \/ /\ gate = "open"
          /\ phase' = "started"
          /\ UNCHANGED kernelVars
       \/ /\ gate = "shut" /\ (~SupAlive \/ sup = "abort")
          /\ ProcessEnd(Root)
          /\ UNCHANGED phase
    /\ UNCHANGED <<supVars, inputVars, gate, events>>

\* Mutant: the parent is not compared.
ArmUnchecked ==
    /\ Running(Root) /\ phase = "started"
    /\ phase' = "launcher"
    /\ UNCHANGED <<supVars, inputVars, kernelVars, gate, events>>

\* getppid, PR_SET_PDEATHSIG, getppid again: either the supervisor was alive
\* when the signal was armed, or the child leaves.  Then exec of the launcher.
Arm ==
    /\ Running(Root) /\ phase = "started"
    /\ \/ SupAlive /\ phase' = "launcher" /\ UNCHANGED kernelVars
       \/ ~SupAlive /\ ProcessEnd(Root) /\ UNCHANGED phase
    /\ UNCHANGED <<supVars, inputVars, gate, events>>

\* The launcher checks the group, applies its restrictions and says so.
Restrict ==
    /\ Running(Root) /\ phase = "launcher" /\ Root \in group
    /\ Say("restricted")
    /\ phase' = "restricted"
    /\ UNCHANGED <<supVars, inputVars, kernelVars, gate>>

\* fail(stage): a line with errno, and exit.  A failed execv of the launcher itself
\* reports and exits in the same way.
LauncherFail ==
    /\ Running(Root) /\ phase \in {"launcher", "restricted"}
    /\ Say("launch-error")
    /\ ProcessEnd(Root)
    /\ UNCHANGED <<supVars, inputVars, childVars>>

Execve ==
    /\ Running(Root) /\ phase = "restricted"
    /\ phase' = "tenant"
    /\ UNCHANGED <<supVars, inputVars, kernelVars, gate, events>>

\* A process of the workload; the cgroup is inherited.
Tenant(p) == Running(p) /\ (p = Root => phase = "tenant")

Fork(p, q) ==
    /\ Tenant(p) /\ p \notin doomed
    /\ state[q] = "unborn" /\ q # Root
    /\ state' = [state EXCEPT ![q] = "running"]
    /\ parent' = [parent EXCEPT ![q] = p]
    /\ group' = IF p \in group THEN group \cup {q} ELSE group
    /\ UNCHANGED <<supVars, inputVars, doomed, childVars, events>>

\* A workload process reaps a child of its own.
TenantWait(p, q) ==
    /\ Tenant(p) /\ q \in ZombiesOf(p)
    /\ state' = [state EXCEPT ![q] = "reaped"]
    /\ UNCHANGED <<supVars, inputVars, parent, group, doomed, childVars, events>>

\* A process exits, crashes or is killed by the host (out of memory).
Exit(p) ==
    /\ Running(p) /\ p \notin doomed
    /\ ProcessEnd(p)
    /\ UNCHANGED <<supVars, inputVars, childVars, events>>

\* A pending SIGKILL takes effect.
Die(p) ==
    /\ Running(p) /\ p \in doomed
    /\ ProcessEnd(p)
    /\ UNCHANGED <<supVars, inputVars, childVars, events>>

-----------------------------------------------------------------------------
(* The environment.                                                        *)

\* The manager writes a byte, closes fd 4, or is gone.
ManagerCancel ==
    /\ ~control
    /\ control' = TRUE
    /\ UNCHANGED <<supVars, interrupted, kernelVars, childVars, events>>

Signal ==
    /\ ~interrupted
    /\ interrupted' = TRUE
    /\ UNCHANGED <<supVars, control, kernelVars, childVars, events>>

\* Three seconds pass since stopping was set.
DeadlinePasses ==
    /\ stopping /\ ~late
    /\ late' = TRUE
    /\ UNCHANGED <<sup, rootDone, noChildren, stopping, inputVars, kernelVars, childVars, events>>

\* SIGKILL of the supervisor itself: the limit the code documents.
SupervisorKilled ==
    /\ "sigkill" \in Faults
    /\ SupAlive
    /\ SupervisorEnd("killed")
    /\ UNCHANGED <<inputVars, childVars, events>>

JobStep ==
    \/ PassGate \/ Arm \/ Restrict \/ LauncherFail \/ Execve
    \/ \E p \in Procs : Exit(p) \/ Die(p)
    \/ \E p, q \in Procs : Fork(p, q) \/ TenantWait(p, q)

Next ==
    \/ SupervisorStep \/ JobStep
    \/ ManagerCancel \/ Signal \/ DeadlinePasses \/ SupervisorKilled

\* The supervisor is scheduled, time passes and the gated child runs, where it
\* can be killed.  Nothing is assumed of the launcher or of the workload, not
\* even that SIGKILL ends it: a process may be stuck in the kernel.
SupervisorFairness ==
    /\ WF_vars(SupervisorStep)
    /\ WF_vars(DeadlinePasses)
    /\ WF_vars(PassGate) /\ WF_vars(Arm)
    /\ WF_vars(phase = "gated" /\ Die(Root))

Spec == Init /\ [][Next]_vars
StuckSpec == Spec /\ SupervisorFairness
-----------------------------------------------------------------------------
(* Properties.                                                             *)

TypeOK ==
    /\ sup \in {"setup", "join", "publish", "release", "abort", "reap", "poll", "check"} \cup Gone
    /\ rootDone \in BOOLEAN /\ noChildren \in BOOLEAN /\ stopping \in BOOLEAN /\ late \in BOOLEAN
    /\ control \in BOOLEAN /\ interrupted \in BOOLEAN
    /\ state \in [Procs -> {"unborn", "running", "zombie", "reaped"}]
    /\ parent \in [Procs -> Procs \cup {Sup, HostInit}]
    /\ group \in SUBSET Procs /\ doomed \in SUBSET {p \in Procs : Running(p)}
    /\ gate \in {"shut", "open"}
    /\ phase \in {"gated", "started", "launcher", "restricted", "tenant"}
    /\ events \in Seq({"enrolled", "restricted", "launch-error", "root-exit",
                       "cleanup-start", "cleanup-complete", "supervisor-error"})

Extinct == \A p \in Procs : state[p] \in {"unborn", "reaped"}

\* cleanup-complete is the truth (supervisor.c lines 160-168): a supervisor that
\* reports it and returns leaves no process of the job, running or zombie.
CleanExitMeansExtinct == sup = "clean" => Extinct

\* Nothing of the job runs outside the cgroup (lines 104-129): past the gate the
\* root is enrolled and its identity published, and so is all it forks.
RunsOnlyEnrolled ==
    \A p \in Procs :
        Running(p) /\ (p = Root => phase # "gated") => p \in group

\* A root whose supervisor is gone is dead, dying, or about to find out at the
\* gate (lines 107-112): it never becomes the workload of a lost supervisor.
OrphanRootIsDoomed ==
    ~SupAlive /\ Running(Root) /\ phase \notin {"gated", "started"} => Root \in doomed

\* Stopping is bounded (lines 147-170): once the manager cancels or disappears,
\* a signal arrives or the root is dead, the supervisor ends, even over a process
\* that SIGKILL does not end.
StopEndsSupervisor ==
    control \/ interrupted \/ (sup = "reap" /\ ~Running(Root)) ~> ~SupAlive

=============================================================================
