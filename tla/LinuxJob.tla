------------------------------ MODULE LinuxJob ------------------------------
(***************************************************************************)
(* The manager's side of one Linux job: prepare(), the start closure, the    *)
(* status reader, finish() and cancel() of                                   *)
(* packages/agentos-sdk/src/linux-process-driver.ts, composed with the       *)
(* supervisor and the kernel of JobSupervisor.  The status pipe (events) and *)
(* the control pipe (control) are the only things they share.                *)
(***************************************************************************)
EXTENDS JobSupervisor

VARIABLES
    job,        \* new, refused, prepared, cancelled, threw, started, abandoned
    used,       \* used: the closure was started or cancelled
    groupDir,   \* the job's cgroup directory: absent, present, removed
    timer,      \* the launch timer is armed
    ready,      \* the ready promise: pending, ok, failed
    rootPid,    \* rootPid is known
    rootExit,   \* rootExit is known
    cleaned,    \* cleaned
    failure,    \* the first failure, or none
    closed,     \* the child's close event was emitted
    finish      \* the completion promise: idle, resolved, rejected

managerVars == <<job, used, groupDir, timer, ready, rootPid, rootExit, cleaned,
                 failure, closed, finish>>
jobVars == <<vars, managerVars>>

JobInit ==
    /\ Init
    /\ job = "new" /\ used = FALSE /\ groupDir = "absent"
    /\ timer = FALSE /\ ready = "pending"
    /\ rootPid = FALSE /\ rootExit = FALSE /\ cleaned = FALSE
    /\ failure = "none" /\ closed = FALSE /\ finish = "idle"

-----------------------------------------------------------------------------
(* prepare, start, cancel.                                                 *)

\* mkdir, the controls and the probe of cgroup.kill; a failed write removes the
\* directory again, as far as rmdir lets it.
Prepare ==
    /\ job = "new"
    /\ \/ job' = "prepared" /\ groupDir' = "present"
       \/ job' = "refused" /\ groupDir' \in {"absent", "removed", "present"}
    /\ UNCHANGED <<vars, used, timer, ready, rootPid, rootExit, cleaned, failure, closed, finish>>

\* cancel(): the SDK was disposed, the caller aborted during prepare(), or the
\* start closure threw.  It rejects when rmdir fails.
Cancel ==
    /\ job \in {"prepared", "threw"}
    /\ \/ used /\ job' = "cancelled" /\ UNCHANGED <<used, groupDir>>
       \/ ~used /\ used' = TRUE /\ job' = "cancelled" /\ groupDir' = "removed"
       \/ ~used /\ used' = TRUE /\ job' = "refused" /\ UNCHANGED groupDir
    /\ UNCHANGED <<vars, timer, ready, rootPid, rootExit, cleaned, failure, closed, finish>>

\* fail(e): the first failure counts, readiness is refused, 'K' is written.
Fail(kind) ==
    /\ failure' = IF failure = "none" THEN kind ELSE failure
    /\ ready' = IF ready = "pending" THEN "failed" ELSE ready
    /\ control' = TRUE

\* Mutant: the closure may be started after it was cancelled.
StartUnguarded ==
    /\ job \in {"prepared", "cancelled"}
    /\ used' = TRUE
    /\ job' = "started" /\ timer' = TRUE
    /\ UNCHANGED <<vars, ready, failure, groupDir, rootPid, rootExit, cleaned, closed, finish>>

\* The start closure.  spawn may throw (an argument list too long, no memory),
\* may report an error later without a process, or starts the supervisor.
Start ==
    /\ job = "prepared" /\ ~used
    /\ used' = TRUE
    /\ \/ /\ job' = "threw"
          /\ UNCHANGED <<vars, timer, ready, failure>>
       \/ /\ job' = "started" /\ timer' = TRUE
          /\ Fail("spawn")
          /\ sup' = "error"
          /\ UNCHANGED <<rootDone, noChildren, stopping, late, interrupted,
                         kernelVars, childVars, events>>
       \/ /\ job' = "started" /\ timer' = TRUE
          /\ UNCHANGED <<vars, ready, failure>>
    /\ UNCHANGED <<groupDir, rootPid, rootExit, cleaned, closed, finish>>

-----------------------------------------------------------------------------
(* The running job.                                                        *)

\* One status line.
ReadStatus ==
    /\ job = "started" /\ events # <<>>
    /\ events' = Tail(events)
    /\ rootPid' = (rootPid \/ Head(events) = "enrolled")
    /\ cleaned' = (cleaned \/ Head(events) = "cleanup-complete")
    /\ timer' = (timer /\ Head(events) # "restricted")
    /\ \/ /\ Head(events) \in {"supervisor-error", "launch-error"}
          /\ Fail("launch")
          /\ UNCHANGED rootExit
       \/ /\ Head(events) = "root-exit"
          /\ \/ rootExit' = TRUE /\ UNCHANGED <<ready, failure, control>>
             \/ Fail("signal") /\ UNCHANGED rootExit
       \/ /\ Head(events) = "restricted"
          /\ ready' = IF ready = "pending" THEN "ok" ELSE ready
          /\ UNCHANGED <<rootExit, failure, control>>
       \/ /\ Head(events) \in {"enrolled", "cleanup-start", "cleanup-complete"}
          /\ UNCHANGED <<rootExit, ready, failure, control>>
    /\ UNCHANGED <<supVars, interrupted, kernelVars, childVars, job, used, groupDir,
                   closed, finish>>

\* Mutant: the timer only notes that it fired.
LaunchTimeoutSilent ==
    /\ job = "started" /\ timer
    /\ timer' = FALSE
    /\ UNCHANGED <<vars, job, used, groupDir, ready, rootPid, rootExit, cleaned,
                   failure, closed, finish>>

\* Five seconds without readiness.
LaunchTimeout ==
    /\ job = "started" /\ timer
    /\ Fail("timeout")
    /\ timer' = FALSE
    /\ UNCHANGED <<supVars, interrupted, kernelVars, childVars, events, job, used, groupDir,
                   rootPid, rootExit, cleaned, closed, finish>>

\* signal('SIGKILL') of the SDK: cancel, timeout, output limit or disposal.
Kill ==
    /\ job = "started" /\ ~closed /\ ~control
    /\ control' = TRUE
    /\ UNCHANGED <<supVars, interrupted, kernelVars, childVars, events, managerVars>>

\* The child's close event: the supervisor has ended and its pipes are drained.
\* A surviving workload process delays it unless it has closed its own copies.
Close ==
    /\ job = "started" /\ ~closed
    /\ ~SupAlive /\ events = <<>>
    /\ closed' = TRUE /\ timer' = FALSE
    /\ ready' = IF ready = "pending" THEN "failed" ELSE ready
    /\ UNCHANGED <<vars, job, used, groupDir, rootPid, rootExit, cleaned, failure, finish>>

\* Mutant: the group is trusted to be empty and left in place.
FinishBlindly ==
    /\ job = "started" /\ closed /\ finish = "idle"
    /\ finish' = IF failure = "none" THEN "resolved" ELSE "rejected"
    /\ UNCHANGED <<vars, job, used, groupDir, timer, ready, rootPid, rootExit, cleaned,
                   failure, closed>>

\* finish(): read cgroup.events, rmdir, then the verdict.  No process can enter
\* an empty group between the two calls.
Finish ==
    /\ job = "started" /\ closed /\ finish = "idle"
    /\ \/ ~Populated /\ groupDir' = "removed" /\ UNCHANGED failure
       \/ /\ groupDir' = groupDir
          /\ failure' = IF failure = "none" THEN "cleanup" ELSE failure
    /\ finish' = IF failure' = "none" /\ cleaned /\ rootExit THEN "resolved" ELSE "rejected"
    /\ UNCHANGED <<vars, job, used, timer, ready, rootPid, rootExit, cleaned, closed>>

\* The manager dies: its pipe ends close.
ManagerDies ==
    /\ job = "started"
    /\ job' = "abandoned"
    /\ control' = TRUE
    /\ UNCHANGED <<supVars, interrupted, kernelVars, childVars, events, used, groupDir, timer,
                   ready, rootPid, rootExit, cleaned, failure, closed, finish>>

ManagerStep ==
    \/ Prepare \/ Cancel \/ Start
    \/ ReadStatus \/ LaunchTimeout \/ Kill \/ Close \/ Finish
    \/ ManagerDies

\* A step of the supervisor, the job or the host, once the supervisor exists.
System(A) ==
    /\ job \in {"started", "abandoned"}
    /\ A
    /\ UNCHANGED managerVars

JobNext ==
    \/ ManagerStep
    \/ System(SupervisorStep \/ JobStep \/ Signal \/ DeadlinePasses \/ SupervisorKilled)

\* The event loop delivers what has happened, and the supervisor's fairness
\* holds; a close event is only certain when no process is left to delay it.
JobFairness ==
    /\ WF_jobVars(ReadStatus) /\ WF_jobVars(LaunchTimeout) /\ WF_jobVars(Finish)
    /\ WF_jobVars(Extinct /\ Close)
    /\ WF_jobVars(System(SupervisorStep))
    /\ WF_jobVars(System(DeadlinePasses))
    /\ WF_jobVars(System(PassGate \/ Arm))
    /\ \A p \in Procs : WF_jobVars(System(Die(p)))

JobSpec == JobInit /\ [][JobNext]_jobVars
FairJobSpec == JobSpec /\ JobFairness

-----------------------------------------------------------------------------
(* Properties.                                                             *)

JobTypeOK ==
    /\ TypeOK
    /\ job \in {"new", "refused", "prepared", "cancelled", "threw", "started", "abandoned"}
    /\ groupDir \in {"absent", "present", "removed"}
    /\ ready \in {"pending", "ok", "failed"}
    /\ failure \in {"none", "spawn", "launch", "signal", "timeout", "cleanup"}
    /\ finish \in {"idle", "resolved", "rejected"}
    /\ \A flag \in {used, timer, rootPid, rootExit, cleaned, closed} : flag \in BOOLEAN

\* finish() resolves only over a dead job (linux-process-driver.ts lines
\* 135-145): every process reaped, the group removed, the root identified,
\* whatever order events, cancellation, deadline and crashes came in.
FinishMeansExtinct ==
    finish = "resolved" => Extinct /\ groupDir = "removed" /\ rootPid /\ sup = "clean"

\* Readiness means a restricted root in its group whose pid the manager knows
\* (lines 114-115, and supervisor.c lines 122-125).
ReadyMeansIdentified == ready = "ok" => rootPid /\ Root \in group

\* A job started after its directory was given back would run in no group
\* (lines 90-92 and 149): the supervisor only runs over its directory.
SupervisorHasGroup == job = "started" /\ ~closed => groupDir = "present"

\* Launching is bounded (line 104): the ready promise of a started job settles,
\* also when the launcher hangs or the supervisor is killed.
LaunchSettles == job = "started" ~> ready # "pending" \/ job = "abandoned"

\* A cancelled job settles (lines 103, 131-145): once the control pipe is written,
\* finish() resolves or rejects, unless the supervisor is gone and a process of
\* the job outlives it for ever with the pipes that delay the close event.
CancelSettles ==
    job = "started" /\ control ~>
        finish # "idle" \/ job = "abandoned" \/ [](~SupAlive /\ ~Extinct)

\* "Cleanup of an allocated but unstarted group is attached to the closure"
\* (line 148): a job that never started leaves no directory behind.
UnstartedGroupRemoved == job = "cancelled" => groupDir = "removed"
=============================================================================
