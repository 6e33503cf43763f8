--------------------------- MODULE LinuxJobProofs ---------------------------
(***************************************************************************)
(* Proofs about LinuxJob, for any number of processes and any faults.        *)
(*                                                                         *)
(* What the manager knows it has read from the status pipe, one line at a    *)
(* time, while supervisor and job move on.  So the invariant speaks of what   *)
(* was read and of what is still in the pipe: the root's identity precedes   *)
(* every line that depends on it, and cleanup-complete, read or unread, was  *)
(* said by a supervisor that is gone for good.                                *)
(***************************************************************************)
EXTENDS LinuxJob, JobSupervisorProofs

\* The root's identity was read, or is among the next i lines.
Known(i) == rootPid \/ \E j \in 1 .. i : events[j] = "enrolled"

\* The supervisor has published the root's identity.
Past == {"release", "reap", "poll", "check", "clean"}

Published == gate = "open" \/ sup \in Past => Known(Len(events))

\* No line that depends on the root's identity overtakes it.
Ordered ==
    \A i \in 1 .. Len(events) :
        events[i] \in {"restricted", "root-exit", "cleanup-complete"} => Known(i)

\* cleanup-complete is the last word.
Truthful ==
    cleaned \/ (\E i \in 1 .. Len(events) : events[i] = "cleanup-complete") => sup = "clean"

RestrictedInGroup == (\E i \in 1 .. Len(events) : events[i] = "restricted") => Root \in group

Pipe == Published /\ Ordered /\ Truthful /\ RestrictedInGroup

\* Before the start there is no supervisor.
Unstarted == job \notin {"started", "abandoned"} => sup = "setup"

Prepared == job = "prepared" => groupDir = "present"

\* The root's exit is only read after its identity.
ExitKnown == rootExit => rootPid

JobInv ==
    /\ Inv /\ JobTypeOK /\ Pipe /\ Unstarted /\ Prepared /\ ExitKnown
    /\ FinishMeansExtinct /\ ReadyMeansIdentified /\ SupervisorHasGroup

-----------------------------------------------------------------------------
(* The status pipe.                                                        *)

\* Lines are appended: those that depend on the root's identity only once it is
\* published, and cleanup-complete only with the end of the supervisor.
LEMMA PipeGrows ==
    ASSUME events \in Seq(Events), Pipe, NEW added \in Seq(Events), events' = events \o added,
           UNCHANGED <<rootPid, cleaned>>, group \subseteq group',
           sup = "clean" => sup' = "clean",
           gate' = "open" \/ sup' \in Past =>
               gate = "open" \/ sup \in Past \/ \E k \in 1 .. Len(added) : added[k] = "enrolled",
           \A k \in 1 .. Len(added) :
               /\ added[k] \in {"restricted", "root-exit", "cleanup-complete"} =>
                      gate = "open" \/ sup \in Past
               /\ added[k] = "cleanup-complete" => sup' = "clean"
               /\ added[k] = "restricted" => Root \in group
    PROVE  Pipe'
<1>1. /\ Len(events) \in Nat /\ Len(added) \in Nat
      /\ Len(events') = Len(events) + Len(added)
      /\ \A i \in 1 .. Len(events) : events'[i] = events[i]
      /\ \A i \in 1 .. Len(events') : i \notin 1 .. Len(events) =>
            /\ i - Len(events) \in 1 .. Len(added)
            /\ events'[i] = added[i - Len(events)]
      /\ \A k \in 1 .. Len(added) : events'[Len(events) + k] = added[k]
  <2>1. Len(events) \in Nat /\ Len(added) \in Nat
    OBVIOUS
  <2>2. /\ Len(events') = Len(events) + Len(added)
        /\ \A i \in 1 .. Len(events) + Len(added) :
              events'[i] = IF i <= Len(events) THEN events[i] ELSE added[i - Len(events)]
    OBVIOUS
  <2> QED BY <2>1, <2>2
<1>2. ASSUME NEW i \in 1 .. Len(events), Known(i) PROVE Known(i)'
  BY <1>1, <1>2 DEF Known
<1>3. ASSUME NEW i \in Nat, i >= Len(events), Known(Len(events)) PROVE Known(i)'
  BY <1>1, <1>3 DEF Known
<1>4. Published'
  <2>1. SUFFICES ASSUME gate' = "open" \/ sup' \in Past PROVE Known(Len(events))'
    BY DEF Published, Past
  <2>2. CASE gate = "open" \/ sup \in Past
    BY <2>2, <1>1, <1>3 DEF Pipe, Published
  <2>3. CASE \E k \in 1 .. Len(added) : added[k] = "enrolled"
    <3>1. PICK k \in 1 .. Len(added) : added[k] = "enrolled"
      BY <2>3
    <3>2. Len(events) + k \in 1 .. Len(events') /\ events'[Len(events) + k] = "enrolled"
      BY <1>1, <3>1
    <3> QED BY <3>2 DEF Known
  <2> QED BY <2>1, <2>2, <2>3
<1>5. Ordered'
  <2>1. SUFFICES ASSUME NEW i \in 1 .. Len(events'),
                        events'[i] \in {"restricted", "root-exit", "cleanup-complete"}
                 PROVE  Known(i)'
    BY DEF Ordered
  <2>2. CASE i \in 1 .. Len(events)
    BY <1>1, <1>2, <2>1, <2>2 DEF Pipe, Ordered
  <2>3. CASE i \notin 1 .. Len(events)
    <3>1. gate = "open" \/ sup \in Past
      BY <1>1, <2>1, <2>3
    <3> QED BY <1>1, <1>3, <2>3, <3>1 DEF Pipe, Published
  <2> QED BY <2>2, <2>3
<1>6. Truthful'
  BY <1>1 DEF Pipe, Truthful
<1>7. RestrictedInGroup'
  BY <1>1 DEF Pipe, RestrictedInGroup
<1> QED BY <1>4, <1>5, <1>6, <1>7 DEF Pipe

\* The manager reads a line (linux-process-driver.ts lines 107-129).
LEMMA PipeRead ==
    ASSUME events \in Seq(Events), events # <<>>, Pipe, events' = Tail(events),
           rootPid' = (rootPid \/ Head(events) = "enrolled"),
           cleaned' = (cleaned \/ Head(events) = "cleanup-complete"),
           UNCHANGED <<sup, gate, group>>
    PROVE  Pipe'
<1>1. /\ Len(events) \in Nat /\ Len(events) >= 1 /\ Head(events) = events[1]
      /\ Len(events') = Len(events) - 1
      /\ \A i \in 1 .. Len(events') : i + 1 \in 1 .. Len(events) /\ events'[i] = events[i + 1]
  <2>1. Len(events) \in Nat /\ Len(events) # 0
    OBVIOUS
  <2>2. Len(events') = Len(events) - 1 /\ \A i \in 1 .. Len(events') : events'[i] = events[i + 1]
    OBVIOUS
  <2> QED BY <2>1, <2>2
<1>2. ASSUME NEW i \in 0 .. Len(events'), Known(i + 1) PROVE Known(i)'
  <2>1. CASE rootPid \/ events[1] = "enrolled"
    BY <1>1, <2>1 DEF Known
  <2>2. CASE ~(rootPid \/ events[1] = "enrolled")
    <3>1. PICK j \in 1 .. i + 1 : events[j] = "enrolled"
      BY <1>2, <2>2 DEF Known
    <3>2. j - 1 \in 1 .. i /\ j - 1 \in 1 .. Len(events') /\ events'[j - 1] = "enrolled"
      BY <1>1, <2>2, <3>1
    <3> QED BY <3>2 DEF Known
  <2> QED BY <2>1, <2>2
<1>3. Published'
  BY <1>1, <1>2 DEF Pipe, Published
<1>4. Ordered'
  <2>1. SUFFICES ASSUME NEW i \in 1 .. Len(events'),
                        events'[i] \in {"restricted", "root-exit", "cleanup-complete"}
                 PROVE  Known(i)'
    BY DEF Ordered
  <2>2. Known(i + 1)
    BY <1>1, <2>1 DEF Pipe, Ordered
  <2> QED BY <1>1, <1>2, <2>2
<1>5. Truthful'
  <2>1. cleaned' => cleaned \/ events[1] = "cleanup-complete"
    BY <1>1
  <2>2. (\E i \in 1 .. Len(events') : events'[i] = "cleanup-complete") =>
            \E i \in 1 .. Len(events) : events[i] = "cleanup-complete"
    BY <1>1
  <2>3. events[1] = "cleanup-complete" => \E i \in 1 .. Len(events) : events[i] = "cleanup-complete"
    BY <1>1
  <2> QED BY <2>1, <2>2, <2>3 DEF Pipe, Truthful
<1>6. RestrictedInGroup'
  BY <1>1 DEF Pipe, RestrictedInGroup
<1> QED BY <1>3, <1>4, <1>5, <1>6 DEF Pipe

\* A step that says nothing.
LEMMA PipeQuiet ==
    ASSUME Inv, Pipe, UNCHANGED <<events, rootPid, cleaned>>, group \subseteq group',
           sup = "clean" => sup' = "clean",
           gate' = "open" \/ sup' \in Past => gate = "open" \/ sup \in Past
    PROVE  Pipe'
<1>1. events \in Seq(Events)
  BY DEF Inv, TypeOK, Events
<1> DEFINE added == <<>>
<1>2. added \in Seq(Events) /\ Len(added) = 0
  OBVIOUS
<1>3. events' = events \o added
  BY <1>1
<1>4. /\ gate' = "open" \/ sup' \in Past =>
             gate = "open" \/ sup \in Past \/ \E k \in 1 .. Len(added) : added[k] = "enrolled"
      /\ \A k \in 1 .. Len(added) :
             /\ added[k] \in {"restricted", "root-exit", "cleanup-complete"} =>
                    gate = "open" \/ sup \in Past
             /\ added[k] = "cleanup-complete" => sup' = "clean"
             /\ added[k] = "restricted" => Root \in group
  BY <1>2
<1> HIDE DEF added
<1> QED BY <1>1, <1>2, <1>3, <1>4, PipeGrows

\* A step that says one line.
LEMMA PipeSays ==
    ASSUME Inv, Pipe, NEW e \in Events, Say(e), UNCHANGED <<rootPid, cleaned>>, group \subseteq group',
           sup = "clean" => sup' = "clean",
           gate' = "open" \/ sup' \in Past => gate = "open" \/ sup \in Past \/ e = "enrolled",
           e \in {"restricted", "root-exit", "cleanup-complete"} => gate = "open" \/ sup \in Past,
           e = "cleanup-complete" => sup' = "clean",
           e = "restricted" => Root \in group
    PROVE  Pipe'
<1>1. events \in Seq(Events)
  BY DEF Inv, TypeOK, Events
<1> DEFINE added == <<e>>
<1>2. added \in Seq(Events) /\ Len(added) = 1 /\ added[1] = e
  OBVIOUS
<1>3. events' = events \o added
  BY <1>1 DEF Say
<1>4. /\ gate' = "open" \/ sup' \in Past =>
             gate = "open" \/ sup \in Past \/ \E k \in 1 .. Len(added) : added[k] = "enrolled"
      /\ \A k \in 1 .. Len(added) :
             /\ added[k] \in {"restricted", "root-exit", "cleanup-complete"} =>
                    gate = "open" \/ sup \in Past
             /\ added[k] = "cleanup-complete" => sup' = "clean"
             /\ added[k] = "restricted" => Root \in group
  BY <1>2
<1> HIDE DEF added
<1> QED BY <1>1, <1>2, <1>3, <1>4, PipeGrows

-----------------------------------------------------------------------------
(* The supervisor and the job write to the pipe.                           *)

\* Who was enrolled stays enrolled, and a supervisor that is done is done.
Steady == group \subseteq group' /\ (sup = "clean" => sup' = "clean")

\* error(stage) says nothing that the pipe's order is about.
LEMMA ErrorPipe ==
    ASSUME Inv, Pipe, SupAlive, SupervisorError, UNCHANGED <<rootPid, cleaned, gate>>
    PROVE  Steady /\ Pipe'
<1>1. Say("supervisor-error") /\ "supervisor-error" \in Events
  BY DEF SupervisorError, Events
<1>2. Steady /\ sup' = "error"
  BY DEF SupervisorError, SupervisorEnd, Steady, SupAlive, Gone
<1>3. sup' \notin Past
  BY <1>2 DEF Past
<1> QED BY <1>1, <1>2, <1>3, PipeSays DEF Steady

LEMMA StartupPipe ==
    ASSUME Inv, Pipe, Setup \/ Join \/ Publish \/ Release \/ Abort, UNCHANGED <<rootPid, cleaned>>
    PROVE  Steady /\ Pipe'
<1>1. CASE SupervisorError
  <2>1. SupAlive /\ UNCHANGED gate
    BY <1>1 DEF Setup, Join, Publish, Release, Abort, childVars, SupAlive, Gone, SupervisorError, SupervisorEnd
  <2> QED BY <1>1, <2>1, ErrorPipe
<1>2. CASE Publish
  <2>1. Steady
    BY <1>2 DEF Publish, kernelVars, Steady
  <2>2. Say("enrolled") /\ "enrolled" \in Events
    BY <1>2 DEF Publish, Events
  <2> QED BY <1>2, <2>1, <2>2, PipeSays DEF Steady
<1>3. CASE ~SupervisorError /\ (Setup \/ Join \/ Release)
  <2>1. Steady /\ UNCHANGED events
    BY <1>3 DEF Setup, Join, Release, kernelVars, Steady
  <2>2. gate' = "open" \/ sup' \in Past => gate = "open" \/ sup \in Past
    BY <1>3 DEF Setup, Join, Release, childVars, Past
  <2> QED BY <2>1, <2>2, PipeQuiet DEF Steady
<1> QED BY <1>1, <1>2, <1>3 DEF Abort

LEMMA ReapPipe ==
    ASSUME Inv, Pipe, NEW p \in Procs, Reap(p), UNCHANGED <<rootPid, cleaned>>
    PROVE  Steady /\ Pipe'
<1>1. Steady /\ sup \in Past /\ UNCHANGED <<sup, gate>>
  BY DEF Reap, Steady, childVars, Past
<1>2. CASE p = Root
  <2>1. Say("root-exit") /\ "root-exit" \in Events
    BY <1>2 DEF Reap, Events
  <2> QED BY <1>1, <2>1, PipeSays DEF Steady
<1>3. CASE p # Root
  BY <1>1, <1>3, PipeQuiet DEF Reap, Steady
<1> QED BY <1>2, <1>3

\* The stop request: cleanup-start, and supervisor-error when the kill fails.
LEMMA StopPipe ==
    ASSUME Inv, Pipe, sup = "poll", Stop, UNCHANGED <<rootPid, cleaned, gate>>
    PROVE  Steady /\ Pipe'
<1>1. Steady /\ sup \in Past
  BY DEF Stop, Steady, Past
<1>2. CASE Say("cleanup-start")
  <2>1. "cleanup-start" \in Events
    BY DEF Events
  <2> QED BY <1>1, <1>2, <2>1, PipeSays DEF Steady
<1>3. CASE events' = events \o <<"cleanup-start", "supervisor-error">>
  <2> DEFINE added == <<"cleanup-start", "supervisor-error">>
  <2>1. added \in Seq(Events) /\ events \in Seq(Events)
    BY DEF Events, Inv, TypeOK
  <2>2. \A k \in 1 .. Len(added) : added[k] \in {"cleanup-start", "supervisor-error"}
    OBVIOUS
  <2>3. events' = events \o added
    BY <1>3
  <2> HIDE DEF added
  <2>4. \A k \in 1 .. Len(added) :
            /\ added[k] \in {"restricted", "root-exit", "cleanup-complete"} =>
                   gate = "open" \/ sup \in Past
            /\ added[k] = "cleanup-complete" => sup' = "clean"
            /\ added[k] = "restricted" => Root \in group
    BY <2>2
  <2> QED BY <1>1, <2>1, <2>3, <2>4, PipeGrows DEF Steady
<1> QED BY <1>2, <1>3 DEF Stop

LEMMA LoopPipe ==
    ASSUME Inv, Pipe, DrainEnd \/ Poll \/ Check, UNCHANGED <<rootPid, cleaned>>
    PROVE  Steady /\ Pipe'
<1>1. sup \in Past /\ SupAlive /\ sup # "clean" /\ UNCHANGED gate
  BY DEF DrainEnd, Poll, Check, Past, SupAlive, Gone, childVars
<1>2. CASE SupervisorError
  BY <1>1, <1>2, ErrorPipe
<1>3. CASE sup = "poll" /\ Stop
  BY <1>1, <1>3, StopPipe
<1>4. CASE Say("cleanup-complete") /\ SupervisorEnd("clean")
  <2>1. "cleanup-complete" \in Events
    BY DEF Events
  <2>2. Steady /\ sup' = "clean"
    BY <1>4 DEF SupervisorEnd, Steady
  <2> QED BY <1>1, <1>4, <2>1, <2>2, PipeSays DEF Steady
<1>5. CASE UNCHANGED <<events, kernelVars>>
  <2>1. Steady
    BY <1>1, <1>5 DEF Steady, kernelVars
  <2> QED BY <1>1, <1>5, <2>1, PipeQuiet DEF Steady
<1>6. DrainEnd => UNCHANGED <<events, kernelVars>>
  BY DEF DrainEnd
<1>7. Poll => SupervisorError \/ (sup = "poll" /\ Stop) \/ UNCHANGED <<events, kernelVars>>
  BY DEF Poll
<1>8. Check => \/ SupervisorError
               \/ Say("cleanup-complete") /\ SupervisorEnd("clean")
               \/ UNCHANGED <<events, kernelVars>>
  BY DEF Check
<1> QED BY <1>2, <1>3, <1>4, <1>5, <1>6, <1>7, <1>8

\* A step of the child or of the workload: only restricted matters, and it
\* comes from a root that passed the gate.
LEMMA JobStepPipe ==
    ASSUME Inv, Pipe, JobStep, UNCHANGED <<rootPid, cleaned>>
    PROVE  Steady /\ Pipe'
<1>1. Steady /\ UNCHANGED <<sup, gate>>
  <2>1. ASSUME NEW p \in Procs, NEW q \in Procs, Fork(p, q) PROVE Steady /\ UNCHANGED <<sup, gate>>
    BY <2>1 DEF Fork, supVars, childVars, Steady
  <2>2. ASSUME NEW p \in Procs, NEW q \in Procs, TenantWait(p, q) PROVE Steady /\ UNCHANGED <<sup, gate>>
    BY <2>2 DEF TenantWait, supVars, childVars, Steady
  <2>3. ASSUME NEW p \in Procs, Exit(p) \/ Die(p) PROVE Steady /\ UNCHANGED <<sup, gate>>
    BY <2>3 DEF Exit, Die, ProcessEnd, supVars, childVars, Steady
  <2>4. CASE PassGate \/ Arm \/ Restrict \/ LauncherFail \/ Execve
    <3>1. UNCHANGED <<sup, gate>>
      BY <2>4 DEF PassGate, Arm, Restrict, LauncherFail, Execve, supVars, childVars
    <3>2. UNCHANGED group
      BY <2>4 DEF PassGate, Arm, Restrict, LauncherFail, Execve, ProcessEnd, kernelVars
    <3> QED BY <3>1, <3>2 DEF Steady
  <2> QED BY <2>1, <2>2, <2>3, <2>4 DEF JobStep
<1>2. CASE Restrict
  <2>1. Say("restricted") /\ "restricted" \in Events /\ Root \in group
    BY <1>2 DEF Restrict, Events
  <2>2. gate = "open"
    BY <1>2 DEF Restrict, Inv, RootEnrolled
  <2> QED BY <1>1, <2>1, <2>2, PipeSays DEF Steady
<1>3. CASE LauncherFail
  <2>1. Say("launch-error") /\ "launch-error" \in Events
    BY <1>3 DEF LauncherFail, Events
  <2> QED BY <1>1, <2>1, PipeSays DEF Steady
<1>4. CASE ~Restrict /\ ~LauncherFail
  <2>1. ASSUME NEW p \in Procs, NEW q \in Procs, Exit(p) \/ Die(p) \/ Fork(p, q) \/ TenantWait(p, q)
        PROVE  UNCHANGED events
    BY <2>1 DEF Exit, Die, Fork, TenantWait
  <2>2. PassGate \/ Arm \/ Execve => UNCHANGED events
    BY DEF PassGate, Arm, Execve
  <2>3. UNCHANGED events
    BY <1>4, <2>1, <2>2 DEF JobStep
  <2> QED BY <1>1, <2>3, PipeQuiet DEF Steady
<1> QED BY <1>2, <1>3, <1>4

LEMMA SystemPipe ==
    ASSUME Inv, Pipe, SupervisorStep \/ JobStep \/ Signal \/ DeadlinePasses \/ SupervisorKilled,
           UNCHANGED <<rootPid, cleaned>>
    PROVE  Steady /\ Pipe'
<1>1. CASE Signal \/ DeadlinePasses
  <2>1. UNCHANGED <<sup, gate, group, events>>
    BY <1>1 DEF Signal, DeadlinePasses, supVars, kernelVars, childVars
  <2> QED BY <2>1, PipeQuiet DEF Steady
<1>2. CASE SupervisorKilled
  <2>1. sup # "clean" /\ sup' \notin Past /\ UNCHANGED <<gate, group, events>>
    BY <1>2 DEF SupervisorKilled, SupervisorEnd, SupAlive, Gone, Past, childVars
  <2> QED BY <2>1, PipeQuiet DEF Steady
<1> QED BY <1>1, <1>2, StartupPipe, ReapPipe, LoopPipe, JobStepPipe DEF SupervisorStep

-----------------------------------------------------------------------------
(* The manager.                                                            *)

\* The manager's flags.
FlagsOK ==
    /\ used \in BOOLEAN /\ timer \in BOOLEAN /\ rootPid \in BOOLEAN
    /\ rootExit \in BOOLEAN /\ cleaned \in BOOLEAN /\ closed \in BOOLEAN

LEMMA Flags == (\A flag \in {used, timer, rootPid, rootExit, cleaned, closed} : flag \in BOOLEAN) <=> FlagsOK
  BY DEF FlagsOK

LEMMA SystemKeeps ==
    ASSUME JobInv, System(SupervisorStep \/ JobStep \/ Signal \/ DeadlinePasses \/ SupervisorKilled)
    PROVE  JobInv'
<1>1. /\ SupervisorStep \/ JobStep \/ Signal \/ DeadlinePasses \/ SupervisorKilled
      /\ job \in {"started", "abandoned"}
      /\ UNCHANGED <<job, used, groupDir, timer, ready, rootPid, rootExit, cleaned,
                     failure, closed, finish>>
  BY DEF System, managerVars
<1>2. Inv'
  BY <1>1, NextInv DEF JobInv, Next
<1>3. Steady /\ Pipe'
  BY <1>1, SystemPipe DEF JobInv
<1>4. JobTypeOK'
  BY <1>1, <1>2 DEF JobInv, JobTypeOK, Inv
<1>5. Unstarted' /\ Prepared' /\ ExitKnown'
  BY <1>1 DEF JobInv, Unstarted, Prepared, ExitKnown
<1>6. FinishMeansExtinct'
  BY <1>1, <1>2, <1>3 DEF JobInv, FinishMeansExtinct, Inv, CleanExitMeansExtinct, Steady
<1>7. ReadyMeansIdentified' /\ SupervisorHasGroup'
  BY <1>1, <1>3 DEF JobInv, ReadyMeansIdentified, SupervisorHasGroup, Steady
<1> QED BY <1>2, <1>3, <1>4, <1>5, <1>6, <1>7 DEF JobInv

\* A step of the manager that leaves the supervisor, the job and the pipe alone,
\* but for the request on the control pipe.
LEMMA ManagerInv ==
    ASSUME JobInv, control' \in BOOLEAN,
           UNCHANGED <<supVars, interrupted, kernelVars, childVars, events, rootPid, cleaned>>
    PROVE  Inv' /\ Pipe' /\ (FinishMeansExtinct' <=>
               (finish' = "resolved" => Extinct /\ groupDir' = "removed" /\ rootPid /\ sup = "clean"))
<1>1. Inv'
  BY InputKeeps DEF JobInv, Inv, TypeOK, Events, supVars
<1>2. Pipe'
  BY PipeQuiet DEF JobInv, supVars, kernelVars, childVars
<1>3. Extinct' <=> Extinct
  BY DEF Extinct, kernelVars
<1> QED BY <1>1, <1>2, <1>3 DEF FinishMeansExtinct, supVars

LEMMA PrepareKeeps ==
    ASSUME JobInv, Prepare \/ Cancel
    PROVE  JobInv'
<1>1. /\ UNCHANGED <<supVars, inputVars, kernelVars, childVars, events, timer, ready,
                     rootPid, rootExit, cleaned, failure, closed, finish>>
      /\ job \notin {"started", "abandoned"}
      /\ job' \in {"prepared", "refused", "cancelled"}
      /\ groupDir' \in {"absent", "present", "removed"}
      /\ job' = "prepared" => groupDir' = "present"
      /\ used' \in BOOLEAN
  BY DEF Prepare, Cancel, vars, JobInv, JobTypeOK
<1>2. control' \in BOOLEAN /\ UNCHANGED <<sup, group, interrupted>>
  BY <1>1 DEF JobInv, Inv, TypeOK, inputVars, supVars, kernelVars
<1>3. Inv' /\ Pipe' /\ finish # "resolved"
  <2>1. finish # "resolved"
    BY <1>1 DEF JobInv, Unstarted, FinishMeansExtinct
  <2> QED BY <1>1, <1>2, <2>1, ManagerInv
<1>4. JobTypeOK'
  <2>1. FlagsOK'
    BY <1>1, Flags DEF JobInv, JobTypeOK, FlagsOK
  <2>2. (\A flag \in {used, timer, rootPid, rootExit, cleaned, closed} : flag \in BOOLEAN)'
    BY <2>1 DEF FlagsOK
  <2> QED BY <1>1, <1>3, <2>2 DEF JobInv, JobTypeOK, Inv
<1>5. Unstarted' /\ Prepared' /\ ExitKnown'
  BY <1>1, <1>2 DEF JobInv, Unstarted, Prepared, ExitKnown
<1>6. FinishMeansExtinct' /\ ReadyMeansIdentified' /\ SupervisorHasGroup'
  BY <1>1, <1>2, <1>3 DEF JobInv, FinishMeansExtinct, ReadyMeansIdentified, SupervisorHasGroup
<1> QED BY <1>3, <1>4, <1>5, <1>6 DEF JobInv

\* The spawn that fails later: there is no supervisor, and no process.
LEMMA SpawnErrorKeeps ==
    ASSUME JobInv, job = "prepared", sup' = "error", control' \in BOOLEAN,
           UNCHANGED <<rootDone, noChildren, stopping, late, interrupted, kernelVars, childVars,
                       events, rootPid, cleaned>>
    PROVE  Inv' /\ Pipe'
<1> USE DEF JobInv, Inv
<1>1. sup = "setup"
  BY DEF Unstarted
<1>2. TypeOK'
  BY DEF TypeOK, Gone, kernelVars, childVars, Running
<1>3. Forest'
  BY SameForest DEF SupAlive, Gone, kernelVars
<1>4. Fresh' /\ Drained' /\ CleanExitMeansExtinct'
  BY DEF Fresh, Drained, CleanExitMeansExtinct
<1>5. RootEnrolled' /\ Enrolled' /\ OrphanRootIsDoomed'
  BY <1>1 DEF RootEnrolled, Enrolled, OrphanRootIsDoomed, Fresh, kernelVars, childVars
<1>6. Pipe'
  BY <1>1, PipeQuiet DEF kernelVars, childVars, Past
<1> QED BY <1>2, <1>3, <1>4, <1>5, <1>6

LEMMA StartKeeps ==
    ASSUME JobInv, Start
    PROVE  JobInv'
<1>1. /\ job = "prepared" /\ job' \in {"threw", "started"}
      /\ used' = TRUE /\ timer' \in BOOLEAN
      /\ UNCHANGED <<groupDir, rootPid, rootExit, cleaned, closed, finish>>
  BY DEF Start, JobInv, JobTypeOK
<1>2. /\ ready' \in {"pending", "ok", "failed"} /\ (ready' = "ok" => ready = "ok")
      /\ failure' \in {"none", "spawn", "launch", "signal", "timeout", "cleanup"}
      /\ group' = group
      /\ job' = "threw" => sup' = sup
  BY DEF Start, Fail, JobInv, JobTypeOK, vars, kernelVars, supVars
<1>3. Inv' /\ Pipe'
  <2>1. CASE UNCHANGED vars
    BY <1>1, <2>1, ManagerInv DEF vars, inputVars, JobInv, Inv, TypeOK
  <2>2. CASE ~UNCHANGED vars
    <3>1. /\ sup' = "error" /\ control' = TRUE
          /\ UNCHANGED <<rootDone, noChildren, stopping, late, interrupted, kernelVars, childVars, events>>
      BY <2>2 DEF Start, Fail
    <3> QED BY <1>1, <3>1, SpawnErrorKeeps
  <2> QED BY <2>1, <2>2
<1>4. JobTypeOK'
  <2>1. (\A flag \in {used, timer, rootPid, rootExit, cleaned, closed} : flag \in BOOLEAN)'
    BY <1>1, Flags DEF JobInv, JobTypeOK, FlagsOK
  <2> QED BY <1>1, <1>2, <1>3, <2>1 DEF JobInv, JobTypeOK, Inv
<1>5. Unstarted' /\ Prepared' /\ ExitKnown'
  BY <1>1, <1>2 DEF JobInv, Unstarted, Prepared, ExitKnown
<1>6. FinishMeansExtinct' /\ ReadyMeansIdentified' /\ SupervisorHasGroup'
  BY <1>1, <1>2 DEF JobInv, Unstarted, Prepared, FinishMeansExtinct, ReadyMeansIdentified, SupervisorHasGroup
<1> QED BY <1>3, <1>4, <1>5, <1>6 DEF JobInv

LEMMA ReadStatusKeeps ==
    ASSUME JobInv, ReadStatus
    PROVE  JobInv'
<1>1. /\ job = "started" /\ events # <<>> /\ events' = Tail(events) /\ events \in Seq(Events)
      /\ rootPid' = (rootPid \/ Head(events) = "enrolled")
      /\ cleaned' = (cleaned \/ Head(events) = "cleanup-complete")
      /\ timer' = (timer /\ Head(events) # "restricted")
      /\ UNCHANGED <<supVars, interrupted, kernelVars, childVars, job, used, groupDir, closed, finish>>
  BY DEF ReadStatus, JobInv, Inv, TypeOK, Events
<1>2. /\ Head(events) = events[1] /\ Len(events) \in Nat /\ 1 \in 1 .. Len(events)
      /\ events' \in Seq(Events)
  BY <1>1
<1>3. rootPid' \in BOOLEAN /\ cleaned' \in BOOLEAN /\ timer' \in BOOLEAN /\ (rootPid => rootPid')
  BY <1>1
<1>4. rootExit' \in BOOLEAN /\ (rootExit' => rootExit \/ events[1] = "root-exit")
  <2>1. UNCHANGED rootExit \/ (Head(events) = "root-exit" /\ rootExit' = TRUE)
    BY DEF ReadStatus
  <2>2. rootExit \in BOOLEAN
    BY Flags DEF JobInv, JobTypeOK, FlagsOK
  <2>3. rootExit' \in BOOLEAN
    BY <2>1, <2>2
  <2>4. rootExit' => rootExit \/ Head(events) = "root-exit"
    BY <2>1
  <2> QED BY <1>2, <2>3, <2>4
<1>5. /\ ready' \in {"pending", "ok", "failed"}
      /\ ready' = "ok" => ready = "ok" \/ events[1] = "restricted"
      /\ failure' \in {"none", "spawn", "launch", "signal", "timeout", "cleanup"}
      /\ control' \in BOOLEAN
  BY <1>2 DEF ReadStatus, Fail, JobInv, JobTypeOK, Inv, TypeOK
<1>6. events[1] \in {"restricted", "root-exit"} => rootPid
  BY <1>2 DEF JobInv, Pipe, Ordered, Known
<1>7. events[1] = "restricted" => Root \in group
  BY <1>2 DEF JobInv, Pipe, RestrictedInGroup
<1>8. Inv' /\ Pipe'
  <2>1. Inv'
    BY <1>1, <1>2, <1>5, InputKeeps DEF JobInv, Inv, TypeOK, supVars
  <2>2. Pipe'
    BY <1>1, PipeRead DEF JobInv, supVars, kernelVars, childVars
  <2> QED BY <2>1, <2>2
<1>9. JobTypeOK'
  <2>1. (\A flag \in {used, timer, rootPid, rootExit, cleaned, closed} : flag \in BOOLEAN)'
    BY <1>1, <1>3, <1>4, Flags DEF JobInv, JobTypeOK, FlagsOK
  <2> QED BY <1>1, <1>5, <1>8, <2>1 DEF JobInv, JobTypeOK, Inv
<1>10. Unstarted' /\ Prepared' /\ ExitKnown'
  BY <1>1, <1>3, <1>4, <1>6 DEF JobInv, Unstarted, Prepared, ExitKnown
<1>11. Extinct' <=> Extinct
  BY <1>1 DEF Extinct, kernelVars
<1>12. FinishMeansExtinct' /\ ReadyMeansIdentified' /\ SupervisorHasGroup'
  <2>1. FinishMeansExtinct'
    BY <1>1, <1>3, <1>11 DEF JobInv, FinishMeansExtinct, supVars
  <2>2. ReadyMeansIdentified'
    BY <1>1, <1>3, <1>5, <1>6, <1>7 DEF JobInv, ReadyMeansIdentified, kernelVars
  <2>3. SupervisorHasGroup'
    BY <1>1 DEF JobInv, SupervisorHasGroup
  <2> QED BY <2>1, <2>2, <2>3
<1> QED BY <1>8, <1>9, <1>10, <1>12 DEF JobInv

\* The timer, signal(), the close event, finish() and the death of the manager.
LEMMA RequestKeeps ==
    ASSUME JobInv, LaunchTimeout \/ Kill \/ Close \/ Finish \/ ManagerDies
    PROVE  JobInv'
<1>1. /\ job = "started" /\ job' \in {"started", "abandoned"}
      /\ UNCHANGED <<supVars, interrupted, kernelVars, childVars, events, used, rootPid, rootExit, cleaned>>
      /\ control' \in BOOLEAN /\ timer' \in BOOLEAN /\ closed' \in BOOLEAN
  BY DEF LaunchTimeout, Kill, Close, Finish, ManagerDies, Fail, vars, inputVars, managerVars,
     JobInv, JobTypeOK, Inv, TypeOK
<1>2. /\ ready' \in {"pending", "ok", "failed"} /\ (ready' = "ok" => ready = "ok")
      /\ failure' \in {"none", "spawn", "launch", "signal", "timeout", "cleanup"}
      /\ finish' \in {"idle", "resolved", "rejected"}
      /\ groupDir' \in {"absent", "present", "removed"}
  BY DEF LaunchTimeout, Kill, Close, Finish, ManagerDies, Fail, managerVars, JobInv, JobTypeOK
<1>3. /\ ~closed' => ~closed /\ groupDir' = groupDir
      /\ finish' = "resolved" => \/ finish = "resolved" /\ groupDir' = groupDir
                                 \/ cleaned /\ rootExit /\ groupDir' = "removed"
  BY DEF LaunchTimeout, Kill, Close, Finish, ManagerDies, managerVars, JobInv, JobTypeOK
<1>4. Inv' /\ Pipe' /\ (FinishMeansExtinct' <=>
         (finish' = "resolved" => Extinct /\ groupDir' = "removed" /\ rootPid /\ sup = "clean"))
  BY <1>1, ManagerInv
<1>5. JobTypeOK'
  <2>1. (\A flag \in {used, timer, rootPid, rootExit, cleaned, closed} : flag \in BOOLEAN)'
    BY <1>1, Flags DEF JobInv, JobTypeOK, FlagsOK
  <2> QED BY <1>1, <1>2, <1>4, <2>1 DEF JobInv, JobTypeOK, Inv
<1>6. Unstarted' /\ Prepared' /\ ExitKnown'
  BY <1>1 DEF JobInv, Unstarted, Prepared, ExitKnown
<1>7. FinishMeansExtinct'
  <2>1. cleaned /\ rootExit => rootPid /\ sup = "clean" /\ Extinct
    BY DEF JobInv, Pipe, Truthful, ExitKnown, Inv, CleanExitMeansExtinct
  <2> QED BY <1>3, <1>4, <2>1 DEF JobInv, FinishMeansExtinct
<1>8. ReadyMeansIdentified' /\ SupervisorHasGroup'
  BY <1>1, <1>2, <1>3 DEF JobInv, ReadyMeansIdentified, SupervisorHasGroup, kernelVars
<1> QED BY <1>4, <1>5, <1>6, <1>7, <1>8 DEF JobInv

-----------------------------------------------------------------------------
(* The theorems.                                                           *)

LEMMA JobInitInv == JobInit => JobInv
<1> SUFFICES ASSUME JobInit PROVE JobInv
  OBVIOUS
<1>1. Inv
  BY InitInv DEF JobInit
<1>2. Pipe
  BY DEF JobInit, Init, Pipe, Published, Past, Ordered, Truthful, RestrictedInGroup
<1>3. JobTypeOK
  <2>1. \A flag \in {used, timer, rootPid, rootExit, cleaned, closed} : flag \in BOOLEAN
    BY DEF JobInit
  <2> QED BY <1>1, <2>1 DEF JobInit, JobTypeOK, Inv
<1> QED
  BY <1>1, <1>2, <1>3 DEF JobInv, JobInit, Init, Unstarted, Prepared, ExitKnown,
     FinishMeansExtinct, ReadyMeansIdentified, SupervisorHasGroup

LEMMA JobNextInv ==
    ASSUME JobInv, [JobNext]_jobVars
    PROVE  JobInv'
<1>1. CASE UNCHANGED jobVars
  <2>1. UNCHANGED <<vars, job, used, groupDir, timer, ready, rootPid, rootExit, cleaned,
                    failure, closed, finish>>
    BY <1>1 DEF jobVars, managerVars
  <2>2. Inv' /\ Pipe' /\ (FinishMeansExtinct' <=>
         (finish' = "resolved" => Extinct /\ groupDir' = "removed" /\ rootPid /\ sup = "clean"))
    BY <2>1, ManagerInv DEF vars, inputVars, JobInv, Inv, TypeOK
  <2>3. JobTypeOK'
    BY <2>1, <2>2 DEF JobInv, JobTypeOK, Inv
  <2>4. Unstarted' /\ Prepared' /\ ExitKnown'
    BY <2>1 DEF JobInv, Unstarted, Prepared, ExitKnown, vars, supVars
  <2>5. FinishMeansExtinct' /\ ReadyMeansIdentified' /\ SupervisorHasGroup'
    BY <2>1, <2>2 DEF JobInv, FinishMeansExtinct, ReadyMeansIdentified, SupervisorHasGroup, vars, kernelVars
  <2> QED BY <2>2, <2>3, <2>4, <2>5 DEF JobInv
<1>2. CASE ManagerStep
  BY <1>2, PrepareKeeps, StartKeeps, ReadStatusKeeps, RequestKeeps DEF ManagerStep
<1> QED BY <1>1, <1>2, SystemKeeps DEF JobNext

\* What the manager has read of its job is true, and stays in order, however
\* supervisor, workload, deadline, cancellation and crashes interleave.
THEOREM JobInvariance == JobSpec => []JobInv
  BY JobInitInv, JobNextInv, PTL DEF JobSpec

\* finish() resolves only over a dead job (linux-process-driver.ts lines 135-145).
THEOREM FinishExtinct == JobSpec => []FinishMeansExtinct
<1>1. JobInv => FinishMeansExtinct
  BY DEF JobInv
<1> QED BY <1>1, JobInvariance, PTL

\* Readiness means a restricted root in its group whose pid is known (lines 114-115).
THEOREM ReadyIdentified == JobSpec => []ReadyMeansIdentified
<1>1. JobInv => ReadyMeansIdentified
  BY DEF JobInv
<1> QED BY <1>1, JobInvariance, PTL

\* The supervisor only runs over the directory of its group (lines 90-92 and 149).
THEOREM StartedHasGroup == JobSpec => []SupervisorHasGroup
<1>1. JobInv => SupervisorHasGroup
  BY DEF JobInv
<1> QED BY <1>1, JobInvariance, PTL

\* What supervisor.c promises by itself it also keeps under the manager: cleanup-complete
\* is the truth, nothing runs outside the cgroup, an orphaned root is doomed.
THEOREM JobKeepsSupervisor == JobSpec => [](CleanExitMeansExtinct /\ RunsOnlyEnrolled /\ OrphanRootIsDoomed)
<1>1. JobInv => CleanExitMeansExtinct /\ RunsOnlyEnrolled /\ OrphanRootIsDoomed
  BY DEF JobInv, Inv, RunsOnlyEnrolled, RootEnrolled, Enrolled, Running
<1> QED BY <1>1, JobInvariance, PTL
=============================================================================
