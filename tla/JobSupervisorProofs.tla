------------------------- MODULE JobSupervisorProofs -------------------------
(***************************************************************************)
(* Proofs about JobSupervisor, for any number of processes and any faults.   *)
(*                                                                         *)
(* That waitpid finds no child says nothing about the rest of the tree by    *)
(* itself.  It does because the parents form a forest (Tree) whose inner      *)
(* nodes are running processes (ParentRuns) and whose living members hang    *)
(* from the supervisor as long as that lives (Rooted): the set of living      *)
(* processes, if not empty, has a member whose parent is outside it, and     *)
(* that one is a child of the supervisor.                                     *)
(***************************************************************************)
EXTENDS JobSupervisor, TLAPS

\* No set of processes is closed under taking parents.
Tree == \A S \in SUBSET Procs : S # {} => \E p \in S : parent[p] \notin S

\* A process that is somebody's parent is running: who ends, loses its children.
ParentRuns == \A p \in Procs : parent[p] \in Procs => Running(parent[p])

\* While the supervisor lives, no living process belongs to init.
Rooted ==
    SupAlive => \A p \in Procs : state[p] \in {"running", "zombie"} => parent[p] # HostInit

Forest == Tree /\ ParentRuns /\ Rooted

\* Before the fork there is nothing.
Fresh ==
    sup = "setup" =>
        (\A p \in Procs : state[p] = "unborn") /\ gate = "shut" /\ phase = "gated"

\* ECHILD at the last drain: nothing is left, and nothing can come back.
Drained == sup \in {"poll", "check"} /\ noChildren => Extinct

\* The root is in the group before its gate opens, and stays there.
RootEnrolled ==
    /\ sup \in {"publish", "release", "reap", "poll", "check"} \/ gate = "open" => Root \in group
    /\ phase # "gated" => gate = "open"

\* So is everything it forks.
Enrolled == \A p \in Procs \ {Root} : state[p] # "unborn" => p \in group

Inv ==
    /\ TypeOK /\ Forest /\ Fresh /\ Drained /\ RootEnrolled /\ Enrolled
    /\ OrphanRootIsDoomed /\ CleanExitMeansExtinct

Events == {"enrolled", "restricted", "launch-error", "root-exit",
           "cleanup-start", "cleanup-complete", "supervisor-error"}

-----------------------------------------------------------------------------
(* The process tree.                                                       *)

\* waitpid's ECHILD (supervisor.c lines 136-146): a living supervisor without
\* children is alone.
LEMMA NoChildrenMeansExtinct ==
    ASSUME TypeOK, Forest, SupAlive, ChildrenOf(Sup) = {}
    PROVE  Extinct
<1> DEFINE Living == {p \in Procs : state[p] \in {"running", "zombie"}}
<1>1. SUFFICES ASSUME Living # {} PROVE FALSE
  BY DEF Extinct, TypeOK
<1>2. PICK p \in Living : parent[p] \notin Living
  BY <1>1 DEF Forest, Tree
<1>3. parent[p] \notin Procs
  BY <1>2 DEF Forest, ParentRuns, Running
<1>4. parent[p] = Sup
  BY <1>2, <1>3 DEF Forest, Rooted, TypeOK
<1> QED BY <1>2, <1>4 DEF ChildrenOf

\* A process ends: its children move up, out of any set of processes.
LEMMA ProcessEndForest ==
    ASSUME TypeOK, Forest, NEW p \in Procs, Running(p), ProcessEnd(p), UNCHANGED sup
    PROVE  Forest'
<1> DEFINE adopter == IF SupAlive THEN Sup ELSE HostInit
<1>1. adopter \notin Procs
  BY ParentAssumption
<1>2. parent[p] # p
  <2>1. {p} \in SUBSET Procs /\ {p} # {}
    OBVIOUS
  <2> QED BY <2>1 DEF Forest, Tree
<1>3. /\ parent' = [q \in Procs |-> IF parent[q] = p THEN adopter ELSE parent[q]]
      /\ state' = [q \in Procs |->
              IF q = p THEN (IF parent[p] = HostInit THEN "reaped" ELSE "zombie")
              ELSE IF q \in ZombiesOf(p) /\ adopter = HostInit THEN "reaped"
              ELSE state[q]]
  BY DEF ProcessEnd
<1>4. Tree'
  <2>1. SUFFICES ASSUME NEW S \in SUBSET Procs, S # {}
                 PROVE  \E q \in S : parent'[q] \notin S
    BY DEF Tree
  <2>2. PICK q \in S : parent[q] \notin S
    BY <2>1 DEF Forest, Tree
  <2> QED BY <2>2, <1>1, <1>3
<1>5. ParentRuns'
  <2>1. SUFFICES ASSUME NEW q \in Procs, parent'[q] \in Procs
                 PROVE  state'[parent'[q]] = "running"
    BY DEF ParentRuns, Running
  <2>2. parent'[q] = parent[q] /\ parent[q] # p
    BY <1>1, <1>3, <2>1
  <2>3. state[parent[q]] = "running"
    BY <2>1, <2>2 DEF Forest, ParentRuns, Running
  <2> QED BY <1>3, <2>1, <2>2, <2>3 DEF ZombiesOf
<1>6. Rooted'
  <2>1. SUFFICES ASSUME SupAlive, NEW q \in Procs, state'[q] \in {"running", "zombie"}
                 PROVE  parent'[q] # HostInit
    BY DEF Rooted, SupAlive
  <2>2. parent[q] # HostInit
    BY <1>3, <2>1 DEF Forest, Rooted, Running
  <2> QED BY <1>3, <2>1, <2>2, ParentAssumption
<1> QED BY <1>4, <1>5, <1>6 DEF Forest

\* The supervisor ends: init takes its children.
LEMMA SupervisorEndForest ==
    ASSUME TypeOK, Forest, sup' \in Gone,
           state' = [q \in Procs |-> IF q \in ZombiesOf(Sup) THEN "reaped" ELSE state[q]],
           parent' = [q \in Procs |-> IF parent[q] = Sup THEN HostInit ELSE parent[q]]
    PROVE  Forest'
<1>1. Tree'
  <2>1. SUFFICES ASSUME NEW S \in SUBSET Procs, S # {}
                 PROVE  \E q \in S : parent'[q] \notin S
    BY DEF Tree
  <2>2. PICK q \in S : parent[q] \notin S
    BY <2>1 DEF Forest, Tree
  <2> QED BY <2>2, ParentAssumption
<1>2. ParentRuns'
  BY ParentAssumption DEF Forest, ParentRuns, Running, ZombiesOf, TypeOK
<1>3. Rooted'
  BY DEF Rooted, SupAlive
<1> QED BY <1>1, <1>2, <1>3 DEF Forest

\* A step that leaves the parents alone and ends nobody.
LEMMA SameForest ==
    ASSUME TypeOK, Forest, UNCHANGED parent, SupAlive' => SupAlive,
           \A p \in Procs : state[p] = "running" => state'[p] = "running",
           \A p \in Procs : state'[p] \in {"running", "zombie"} => state[p] \in {"running", "zombie"}
    PROVE  Forest'
<1>1. Tree'
  BY DEF Forest, Tree
<1>2. ParentRuns'
  BY DEF Forest, ParentRuns, Running
<1>3. Rooted'
  BY DEF Forest, Rooted
<1> QED BY <1>1, <1>2, <1>3 DEF Forest

-----------------------------------------------------------------------------
(* The rest of the kernel.                                                  *)

\* What the end of a process leaves of the other parts.
LEMMA ProcessEndRest ==
    ASSUME Inv, NEW p \in Procs, Running(p), ProcessEnd(p), UNCHANGED <<supVars, gate, phase>>
    PROVE  Fresh' /\ Drained' /\ RootEnrolled' /\ Enrolled' /\ OrphanRootIsDoomed' /\ CleanExitMeansExtinct'
<1> USE DEF Inv, TypeOK, supVars
<1>1. /\ \A q \in Procs : state'[q] = "running" => state[q] = "running" /\ q # p
      /\ \A q \in Procs : state'[q] = "unborn" <=> state[q] = "unborn"
      /\ group' = group /\ doomed' = doomed \ {p}
  BY DEF ProcessEnd, Running, ZombiesOf
<1>2. ~Extinct /\ sup # "setup"
  BY DEF Extinct, Running, Fresh
<1>3. Fresh' /\ Drained' /\ CleanExitMeansExtinct'
  BY <1>2 DEF Fresh, Drained, CleanExitMeansExtinct
<1>4. RootEnrolled' /\ Enrolled'
  BY <1>1 DEF RootEnrolled, Enrolled
<1>5. OrphanRootIsDoomed'
  BY <1>1, RootAssumption DEF OrphanRootIsDoomed, Running, SupAlive
<1> QED BY <1>3, <1>4, <1>5

LEMMA ProcessEndTypes ==
    ASSUME TypeOK, NEW p \in Procs, Running(p), ProcessEnd(p)
    PROVE  /\ state' \in [Procs -> {"unborn", "running", "zombie", "reaped"}]
           /\ parent' \in [Procs -> Procs \cup {Sup, HostInit}]
           /\ group' \in SUBSET Procs
           /\ doomed' \in SUBSET {q \in Procs : state'[q] = "running"}
<1>1. state' \in [Procs -> {"unborn", "running", "zombie", "reaped"}]
  BY DEF TypeOK, ProcessEnd
<1>2. parent' \in [Procs -> Procs \cup {Sup, HostInit}]
  BY DEF TypeOK, ProcessEnd
<1>3. \A q \in Procs : q # p /\ state[q] = "running" => state'[q] = "running"
  BY DEF ProcessEnd, ZombiesOf
<1> QED BY <1>1, <1>2, <1>3 DEF TypeOK, ProcessEnd, Running

\* The end of a process keeps the invariant, whatever it says before.
LEMMA ProcessEndKeeps ==
    ASSUME Inv, NEW p \in Procs, Running(p), ProcessEnd(p),
           UNCHANGED <<supVars, inputVars, childVars>>, events' \in Seq(Events)
    PROVE  Inv'
<1>1. TypeOK'
  BY ProcessEndTypes DEF Inv, TypeOK, supVars, inputVars, childVars, Events, Running
<1>2. Forest'
  BY ProcessEndForest DEF Inv, supVars
<1> QED BY <1>1, <1>2, ProcessEndRest DEF Inv, childVars

\* So does the end of the supervisor, unless it claims more than it knows.
LEMMA SupervisorEndKeeps ==
    ASSUME Inv, sup' \in Gone, sup' = "clean" => Extinct,
           state' = [q \in Procs |-> IF q \in ZombiesOf(Sup) THEN "reaped" ELSE state[q]],
           parent' = [q \in Procs |-> IF parent[q] = Sup THEN HostInit ELSE parent[q]],
           doomed' \in SUBSET {p \in Procs : Running(p)}, doomed \subseteq doomed',
           Running(Root) /\ phase \in {"launcher", "restricted", "tenant"} => Root \in doomed',
           rootDone' \in BOOLEAN, noChildren' \in BOOLEAN, stopping' \in BOOLEAN, late' \in BOOLEAN,
           UNCHANGED <<group, inputVars, childVars>>, events' \in Seq(Events)
    PROVE  Inv'
<1> USE DEF Inv
<1>1. \A q \in Procs : state[q] = "running" <=> state'[q] = "running"
  BY DEF TypeOK, ZombiesOf
<1>2. TypeOK'
  <2>1. state' \in [Procs -> {"unborn", "running", "zombie", "reaped"}]
    BY DEF TypeOK
  <2>2. parent' \in [Procs -> Procs \cup {Sup, HostInit}]
    BY DEF TypeOK
  <2> QED BY <1>1, <2>1, <2>2 DEF TypeOK, Running, Events, inputVars, childVars, Gone
<1>3. Forest'
  BY SupervisorEndForest
<1>4. Fresh' /\ Drained'
  BY DEF Fresh, Drained, Gone
<1>5. CleanExitMeansExtinct'
  BY DEF CleanExitMeansExtinct, Extinct
<1>6. RootEnrolled' /\ Enrolled'
  BY DEF RootEnrolled, Enrolled, Gone, childVars, ZombiesOf
<1>7. OrphanRootIsDoomed'
  BY <1>1, RootAssumption DEF OrphanRootIsDoomed, Running, childVars, TypeOK
<1> QED BY <1>2, <1>3, <1>4, <1>5, <1>6, <1>7

\* error(stage).
LEMMA SupervisorErrorKeeps ==
    ASSUME Inv, SupervisorError, UNCHANGED <<inputVars, childVars>>
    PROVE  Inv'
<1>1. events' \in Seq(Events)
  BY DEF Inv, TypeOK, Events, SupervisorError, Say
<1>2. /\ sup' = "error"
      /\ doomed' = doomed \cup {p \in {Root} : Running(p) /\ phase \in {"launcher", "restricted", "tenant"}}
  BY DEF SupervisorError, SupervisorEnd
<1>3. doomed' \in SUBSET {p \in Procs : Running(p)}
  BY <1>2, RootAssumption DEF Inv, TypeOK
<1> QED
  BY <1>1, <1>2, <1>3, SupervisorEndKeeps DEF Inv, TypeOK, SupervisorError, SupervisorEnd, Gone

-----------------------------------------------------------------------------
(* The supervisor's steps.                                                  *)

LEMMA SetupKeeps ==
    ASSUME Inv, Setup
    PROVE  Inv'
<1>1. CASE SupervisorError
  BY <1>1, SupervisorErrorKeeps DEF Setup
<1>2. CASE ~SupervisorError
  <2>1. /\ sup = "setup" /\ sup' = "join"
        /\ state' = [state EXCEPT ![Root] = "running"]
        /\ parent' = [parent EXCEPT ![Root] = Sup]
        /\ UNCHANGED <<rootDone, noChildren, stopping, late, group, doomed, events, inputVars, childVars>>
    BY <1>2 DEF Setup
  <2>2. TypeOK'
    BY <2>1, RootAssumption DEF Inv, TypeOK, Running, inputVars, childVars
  <2>3. Forest'
    <3>1. Tree'
      <4>1. SUFFICES ASSUME NEW S \in SUBSET Procs, S # {}
                     PROVE  \E q \in S : parent'[q] \notin S
        BY DEF Tree
      <4>2. PICK q \in S : parent[q] \notin S
        BY <4>1 DEF Inv, Forest, Tree
      <4> QED BY <2>1, <4>2, ParentAssumption DEF Inv, TypeOK
    <3>2. ParentRuns'
      BY <2>1, ParentAssumption, RootAssumption DEF Inv, TypeOK, Forest, ParentRuns, Running
    <3>3. Rooted'
      BY <2>1, ParentAssumption, RootAssumption DEF Inv, TypeOK, Fresh, Rooted
    <3> QED BY <3>1, <3>2, <3>3 DEF Forest
  <2> QED
    BY <2>1, <2>2, <2>3 DEF Inv, TypeOK, Fresh, Drained, RootEnrolled, Enrolled,
       OrphanRootIsDoomed, CleanExitMeansExtinct, SupAlive, Gone, childVars
<1> QED BY <1>1, <1>2

LEMMA JoinKeeps ==
    ASSUME Inv, Join
    PROVE  Inv'
<1> USE RootAssumption DEF Inv, TypeOK, Join, Running, inputVars, childVars
<1>1. TypeOK'
  OBVIOUS
<1>2. Forest'
  BY SameForest DEF SupAlive, Gone
<1>3. Fresh' /\ Drained' /\ CleanExitMeansExtinct' /\ OrphanRootIsDoomed'
  BY DEF Fresh, Drained, CleanExitMeansExtinct, OrphanRootIsDoomed, SupAlive, Gone
<1>4. RootEnrolled' /\ Enrolled'
  BY DEF RootEnrolled, Enrolled
<1> QED BY <1>1, <1>2, <1>3, <1>4

LEMMA PublishKeeps ==
    ASSUME Inv, Publish
    PROVE  Inv'
<1> USE DEF Inv, TypeOK, Publish, Say, inputVars, childVars, kernelVars
<1>1. TypeOK'
  BY DEF Running
<1>2. Forest'
  BY SameForest DEF SupAlive, Gone
<1> QED
  BY <1>1, <1>2 DEF Fresh, Drained, RootEnrolled, Enrolled, OrphanRootIsDoomed,
     CleanExitMeansExtinct, Running, SupAlive, Gone

LEMMA ReleaseKeeps ==
    ASSUME Inv, Release
    PROVE  Inv'
<1> USE DEF Inv, TypeOK, Release, inputVars, kernelVars
<1>1. TypeOK'
  BY DEF Running
<1>2. Forest'
  BY SameForest DEF SupAlive, Gone
<1> QED
  BY <1>1, <1>2 DEF Fresh, Drained, RootEnrolled, Enrolled, OrphanRootIsDoomed,
     CleanExitMeansExtinct, Running, SupAlive, Gone

LEMMA ReapKeeps ==
    ASSUME Inv, NEW p \in Procs, Reap(p)
    PROVE  Inv'
<1> USE DEF Inv, TypeOK, Reap, ZombiesOf, inputVars, childVars
<1>1. TypeOK'
  BY DEF Running, Say
<1>2. Forest'
  BY SameForest DEF SupAlive
<1>3. Fresh' /\ Drained' /\ CleanExitMeansExtinct'
  BY DEF Fresh, Drained, CleanExitMeansExtinct
<1>4. RootEnrolled' /\ Enrolled' /\ OrphanRootIsDoomed'
  BY DEF RootEnrolled, Enrolled, OrphanRootIsDoomed, Running, SupAlive, Gone
<1> QED BY <1>1, <1>2, <1>3, <1>4

LEMMA DrainEndKeeps ==
    ASSUME Inv, DrainEnd
    PROVE  Inv'
<1> USE DEF Inv, DrainEnd, inputVars, childVars, kernelVars
<1>1. TypeOK'
  BY DEF TypeOK, Running
<1>2. Forest'
  BY SameForest DEF TypeOK, SupAlive, Gone
<1>3. Drained'
  BY NoChildrenMeansExtinct DEF Drained, Extinct, SupAlive, Gone
<1> QED
  BY <1>1, <1>2, <1>3 DEF TypeOK, Fresh, RootEnrolled, Enrolled, OrphanRootIsDoomed,
     CleanExitMeansExtinct, Running, SupAlive, Gone

\* The first request: the group is killed, or the supervisor gives up.
LEMMA StopKeeps ==
    ASSUME Inv, sup = "poll", Stop,
           UNCHANGED <<rootDone, noChildren, late, inputVars, childVars>>
    PROVE  Inv'
<1>1. CASE sup' = "error"
  <2>1. /\ doomed' = doomed \cup {p \in {Root} : Running(p)}
        /\ events' = events \o <<"cleanup-start", "supervisor-error">>
        /\ state' = [q \in Procs |-> IF q \in ZombiesOf(Sup) THEN "reaped" ELSE state[q]]
        /\ parent' = [q \in Procs |-> IF parent[q] = Sup THEN HostInit ELSE parent[q]]
        /\ UNCHANGED group /\ stopping' = TRUE
    BY <1>1 DEF Stop
  <2>2. events' \in Seq(Events)
    BY <2>1 DEF Inv, TypeOK, Events
  <2>3. doomed' \in SUBSET {p \in Procs : Running(p)}
    BY <2>1, RootAssumption DEF Inv, TypeOK
  <2> QED BY <1>1, <2>1, <2>2, <2>3, SupervisorEndKeeps DEF Inv, TypeOK, Gone
<1>2. CASE sup' # "error"
  <2>1. /\ sup' = "check" /\ stopping' = TRUE
        /\ Say("cleanup-start")
        /\ doomed' = doomed \cup {p \in group : Running(p)}
        /\ UNCHANGED <<state, parent, group>>
    BY <1>2 DEF Stop
  <2> USE DEF Inv, TypeOK, inputVars, childVars
  <2>2. TypeOK'
    BY <2>1 DEF Running, Say
  <2>3. Forest'
    BY <2>1, SameForest DEF SupAlive, Gone
  <2> QED
    BY <2>1, <2>2, <2>3 DEF Fresh, Drained, Extinct, RootEnrolled, Enrolled, OrphanRootIsDoomed,
       CleanExitMeansExtinct, Running, SupAlive, Gone
<1> QED BY <1>1, <1>2

\* The loop goes on.
LEMMA LoopKeeps ==
    ASSUME Inv, sup \in {"poll", "check"}, sup' \in {"check", "reap"},
           sup' = "check" => sup = "poll",
           UNCHANGED <<rootDone, noChildren, stopping, late, inputVars, kernelVars, childVars, events>>
    PROVE  Inv'
<1> USE DEF Inv, TypeOK, inputVars, kernelVars, childVars
<1>1. TypeOK'
  BY DEF Running
<1>2. Forest'
  BY SameForest DEF SupAlive, Gone
<1> QED
  BY <1>1, <1>2 DEF Fresh, Drained, Extinct, RootEnrolled, Enrolled, OrphanRootIsDoomed,
     CleanExitMeansExtinct, Running, SupAlive, Gone

LEMMA PollKeeps ==
    ASSUME Inv, Poll
    PROVE  Inv'
<1>1. CASE SupervisorError
  BY <1>1, SupervisorErrorKeeps DEF Poll
<1>2. CASE Stop /\ UNCHANGED <<rootDone, noChildren, late>>
  BY <1>2, StopKeeps DEF Poll
<1>3. CASE /\ sup' = IF stopping THEN "check" ELSE "reap"
           /\ UNCHANGED <<rootDone, noChildren, stopping, late, kernelVars, events>>
  BY <1>3, LoopKeeps DEF Poll
<1> QED BY <1>1, <1>2, <1>3 DEF Poll

\* cleanup-complete is only said over ECHILD.
LEMMA CheckKeeps ==
    ASSUME Inv, Check
    PROVE  Inv'
<1>1. CASE SupervisorError
  BY <1>1, SupervisorErrorKeeps DEF Check
<1>2. CASE CleanedUp /\ Say("cleanup-complete") /\ SupervisorEnd("clean")
  <2>1. Extinct
    BY <1>2 DEF Check, CleanedUp, Inv, Drained
  <2>2. events' \in Seq(Events)
    BY <1>2 DEF Inv, TypeOK, Events, Say
  <2>3. /\ sup' = "clean"
        /\ doomed' = doomed \cup {p \in {Root} : Running(p) /\ phase \in {"launcher", "restricted", "tenant"}}
    BY <1>2 DEF SupervisorEnd
  <2>4. doomed' \in SUBSET {p \in Procs : Running(p)}
    BY <2>3, RootAssumption DEF Inv, TypeOK
  <2> QED
    BY <1>2, <2>1, <2>2, <2>3, <2>4, SupervisorEndKeeps DEF Inv, TypeOK, Check, SupervisorEnd, Gone
<1>3. CASE /\ sup' = "reap"
           /\ UNCHANGED <<rootDone, noChildren, stopping, late, kernelVars, events>>
  BY <1>3, LoopKeeps DEF Check
<1> QED BY <1>1, <1>2, <1>3 DEF Check

LEMMA SupervisorStepKeeps ==
    ASSUME Inv, SupervisorStep
    PROVE  Inv'
<1>1. CASE Abort
  BY <1>1, SupervisorErrorKeeps DEF Abort
<1> QED
  BY <1>1, SetupKeeps, JoinKeeps, PublishKeeps, ReleaseKeeps, DrainEndKeeps, PollKeeps,
     CheckKeeps, ReapKeeps DEF SupervisorStep

-----------------------------------------------------------------------------
(* The steps of the job and of the host.                                    *)

\* The child moves on without touching the kernel.
LEMMA PhaseKeeps ==
    ASSUME Inv, Running(Root),
           phase' \in {"started", "launcher", "restricted", "tenant"}, gate = "open",
           phase' = "started" \/ SupAlive \/ phase \in {"launcher", "restricted"},
           UNCHANGED <<supVars, inputVars, kernelVars, gate>>, events' \in Seq(Events)
    PROVE  Inv'
<1> USE DEF Inv, TypeOK, supVars, inputVars, kernelVars
<1>1. TypeOK'
  BY DEF Running, Events
<1>2. Forest'
  BY SameForest DEF SupAlive
<1>3. Fresh' /\ Drained' /\ CleanExitMeansExtinct'
  BY RootAssumption DEF Fresh, Drained, CleanExitMeansExtinct, Extinct, Running
<1>4. RootEnrolled' /\ Enrolled'
  BY DEF RootEnrolled, Enrolled
<1>5. OrphanRootIsDoomed'
  BY DEF OrphanRootIsDoomed, SupAlive, Running
<1> QED BY <1>1, <1>2, <1>3, <1>4, <1>5

LEMMA ChildKeeps ==
    ASSUME Inv, PassGate \/ Arm \/ Restrict \/ LauncherFail \/ Execve
    PROVE  Inv'
<1> USE DEF Inv, RootEnrolled, TypeOK, Events
<1>1. CASE PassGate
  BY <1>1, PhaseKeeps, ProcessEndKeeps, RootAssumption DEF PassGate, childVars
<1>2. CASE Arm
  BY <1>2, PhaseKeeps, ProcessEndKeeps, RootAssumption DEF Arm, childVars
<1>3. CASE Restrict
  BY <1>3, PhaseKeeps DEF Restrict, Say
<1>4. CASE LauncherFail
  <2>1. events' \in Seq(Events)
    BY <1>4 DEF LauncherFail, Say
  <2> QED BY <1>4, <2>1, ProcessEndKeeps, RootAssumption DEF LauncherFail
<1>5. CASE Execve
  BY <1>5, PhaseKeeps DEF Execve
<1> QED BY <1>1, <1>2, <1>3, <1>4, <1>5

\* A fork hangs a new leaf into the tree, inside the group.
LEMMA ForkKeeps ==
    ASSUME Inv, NEW p \in Procs, NEW q \in Procs, Fork(p, q)
    PROVE  Inv'
<1> USE DEF Inv, TypeOK
<1>1. /\ state[p] = "running" /\ state[q] = "unborn" /\ q # Root /\ q # p
      /\ state' = [state EXCEPT ![q] = "running"] /\ parent' = [parent EXCEPT ![q] = p]
      /\ UNCHANGED <<supVars, inputVars, doomed, childVars, events>>
  BY DEF Fork, Tenant, Running
<1>2. p \in group /\ group' = group \cup {q}
  BY <1>1 DEF Fork, Tenant, Running, RootEnrolled, Enrolled
<1>3. TypeOK'
  BY <1>1, <1>2 DEF supVars, inputVars, childVars, Running
<1>4. Tree'
  <2>1. SUFFICES ASSUME NEW S \in SUBSET Procs, S # {}
                 PROVE  \E x \in S : parent'[x] \notin S
    BY DEF Tree
  <2>2. CASE q \notin S
    <3>1. PICK x \in S : parent[x] \notin S
      BY <2>1 DEF Forest, Tree
    <3> QED BY <1>1, <2>2, <3>1
  <2>3. CASE q \in S /\ p \notin S
    BY <1>1, <2>3
  <2>4. CASE q \in S /\ p \in S
    <3>1. S \ {q} \in SUBSET Procs /\ S \ {q} # {}
      BY <1>1, <2>4
    <3>2. PICK x \in S \ {q} : parent[x] \notin S \ {q}
      BY <3>1 DEF Forest, Tree
    <3>3. parent[x] # q
      BY <1>1, <3>2 DEF Forest, ParentRuns, Running
    <3> QED BY <1>1, <3>2, <3>3
  <2> QED BY <2>2, <2>3, <2>4
<1>5. ParentRuns'
  BY <1>1 DEF Forest, ParentRuns, Running
<1>6. Rooted'
  BY <1>1, ParentAssumption DEF Forest, Rooted, SupAlive, supVars
<1>7. Fresh' /\ Drained' /\ CleanExitMeansExtinct'
  BY <1>1 DEF Fresh, Drained, CleanExitMeansExtinct, Extinct, supVars
<1>8. RootEnrolled' /\ Enrolled' /\ OrphanRootIsDoomed'
  BY <1>1, <1>2, RootAssumption DEF RootEnrolled, Enrolled, OrphanRootIsDoomed, SupAlive, Running,
     supVars, childVars
<1> QED BY <1>3, <1>4, <1>5, <1>6, <1>7, <1>8 DEF Forest

LEMMA TenantWaitKeeps ==
    ASSUME Inv, NEW p \in Procs, NEW q \in Procs, TenantWait(p, q)
    PROVE  Inv'
<1> USE DEF Inv, TypeOK, TenantWait, ZombiesOf, supVars, inputVars, childVars
<1>1. TypeOK'
  BY DEF Running
<1>2. Forest'
  BY SameForest DEF SupAlive
<1>3. Fresh' /\ Drained' /\ CleanExitMeansExtinct'
  BY DEF Fresh, Drained, CleanExitMeansExtinct, Extinct
<1>4. RootEnrolled' /\ Enrolled' /\ OrphanRootIsDoomed'
  BY DEF RootEnrolled, Enrolled, OrphanRootIsDoomed, Running, SupAlive
<1> QED BY <1>1, <1>2, <1>3, <1>4

LEMMA JobStepKeeps ==
    ASSUME Inv, JobStep
    PROVE  Inv'
<1>1. ASSUME NEW p \in Procs, Exit(p) \/ Die(p) PROVE Inv'
  BY <1>1, ProcessEndKeeps DEF Exit, Die, Inv, TypeOK, Events
<1> QED BY <1>1, ChildKeeps, ForkKeeps, TenantWaitKeeps DEF JobStep

\* Requests, the deadline and stuttering change nothing the invariant is about.
LEMMA InputKeeps ==
    ASSUME Inv, control' \in BOOLEAN, interrupted' \in BOOLEAN, late' \in BOOLEAN,
           events' \in Seq(Events),
           UNCHANGED <<sup, rootDone, noChildren, stopping, kernelVars, childVars>>
    PROVE  Inv'
<1> USE DEF Inv, TypeOK, kernelVars, childVars
<1>1. TypeOK'
  BY DEF Running, Events
<1>2. Forest'
  BY SameForest DEF SupAlive
<1> QED
  BY <1>1, <1>2 DEF Fresh, Drained, Extinct, RootEnrolled, Enrolled, OrphanRootIsDoomed,
     CleanExitMeansExtinct, Running, SupAlive

LEMMA SupervisorKilledKeeps ==
    ASSUME Inv, SupervisorKilled
    PROVE  Inv'
<1>1. /\ sup' = "killed"
      /\ doomed' = doomed \cup {p \in {Root} : Running(p) /\ phase \in {"launcher", "restricted", "tenant"}}
  BY DEF SupervisorKilled, SupervisorEnd
<1>2. doomed' \in SUBSET {p \in Procs : Running(p)}
  BY <1>1, RootAssumption DEF Inv, TypeOK
<1> QED
  BY <1>1, <1>2, SupervisorEndKeeps DEF Inv, TypeOK, SupervisorKilled, SupervisorEnd, Gone, Events

LEMMA InitInv == Init => Inv
<1> SUFFICES ASSUME Init PROVE Inv
  OBVIOUS
<1>1. TypeOK
  <2>1. /\ state \in [Procs -> {"unborn", "running", "zombie", "reaped"}]
        /\ parent \in [Procs -> Procs \cup {Sup, HostInit}]
    BY DEF Init
  <2>2. events \in Seq(Events)
    BY DEF Init
  <2> QED BY <2>1, <2>2 DEF Init, TypeOK, Events
<1>2. Forest
  BY ParentAssumption DEF Init, Forest, Tree, ParentRuns, Rooted
<1> QED
  BY <1>1, <1>2 DEF Inv, Init, Fresh, Drained, RootEnrolled, Enrolled, OrphanRootIsDoomed,
     CleanExitMeansExtinct, SupAlive, Gone

LEMMA NextInv ==
    ASSUME Inv, [Next]_vars
    PROVE  Inv'
<1>1. CASE ManagerCancel
  BY <1>1, InputKeeps DEF ManagerCancel, supVars, Inv, TypeOK, Events
<1>2. CASE Signal
  BY <1>2, InputKeeps DEF Signal, supVars, Inv, TypeOK, Events
<1>3. CASE DeadlinePasses
  BY <1>3, InputKeeps DEF DeadlinePasses, inputVars, Inv, TypeOK, Events
<1>4. CASE UNCHANGED vars
  BY <1>4, InputKeeps DEF vars, supVars, inputVars, Inv, TypeOK, Events
<1> QED
  BY <1>1, <1>2, <1>3, <1>4, SupervisorStepKeeps, JobStepKeeps, SupervisorKilledKeeps DEF Next

-----------------------------------------------------------------------------
(* The theorems.                                                           *)

\* The tree of a job is a forest under its supervisor, whatever supervisor.c and
\* the workload do, and with it the rest of the invariant.
THEOREM SupervisorInvariance == Spec => []Inv
  BY InitInv, NextInv, PTL DEF Spec

\* cleanup-complete is the truth (supervisor.c lines 160-168).
THEOREM CleanExit == Spec => []CleanExitMeansExtinct
<1>1. Inv => CleanExitMeansExtinct
  BY DEF Inv
<1> QED BY <1>1, SupervisorInvariance, PTL

\* Nothing of the job runs outside its cgroup (lines 104-129).
THEOREM OnlyEnrolled == Spec => []RunsOnlyEnrolled
<1>1. Inv => RunsOnlyEnrolled
  BY DEF Inv, RunsOnlyEnrolled, RootEnrolled, Enrolled, Running
<1> QED BY <1>1, SupervisorInvariance, PTL

\* A root never becomes the workload of a lost supervisor (lines 107-112).
THEOREM OrphanDoomed == Spec => []OrphanRootIsDoomed
<1>1. Inv => OrphanRootIsDoomed
  BY DEF Inv
<1> QED BY <1>1, SupervisorInvariance, PTL
=============================================================================
