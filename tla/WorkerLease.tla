----------------------------- MODULE WorkerLease -----------------------------
(***************************************************************************)
(* The life of one worker environment: the gateway's durable record and its  *)
(* tasks (gateway/worker-environments/provider-lifecycle.ts and service.ts), *)
(* the agentOS provider they call (src/provider.ts) and the embedded driver   *)
(* that keeps a VM per lease (src/embedded-agentos-driver.ts).               *)
(*                                                                         *)
(* Gateway tasks on one environment exclude each other (withLock), and so do *)
(* provider calls (callProvider's queue).  A call that times out loses its    *)
(* caller and not its place in the queue: it runs on, with its enrollment    *)
(* aborted, while the gateway goes on to replay the provision or to destroy. *)
(* The steps of draining and destroying a record are one state here.         *)
(***************************************************************************)
EXTENDS Naturals, FiniteSets

CONSTANTS
    Calls,      \* identities of provider calls, used again once a call is over
    VMs,        \* identities of virtual machines, likewise
    NoCall,     \* nobody holds the queue
    NoVm,       \* the lease has no VM
    Faults,     \* what may go wrong
    MaxFaults   \* how often something may go wrong

FaultKinds == {"timeout", "prepare", "create", "begin", "install", "device", "bundle",
               "stop", "retire", "dispose"}
Profiles == {"valid", "malformed", "rejected"}

ASSUME IdentityAssumption == NoCall \notin Calls /\ NoVm \notin VMs
ASSUME FaultAssumption == Faults \subseteq FaultKinds /\ MaxFaults \in Nat

VARIABLES
    \* the gateway's record
    envState,         \* requested, provisioning, ready, draining, destroyed, failed
    leased,           \* leaseId is recorded
    destroyRequested, \* destroyRequestedAtMs is set
    failing,          \* teardownTerminalState is failed
    profile,          \* profileSnapshot: valid, malformed (the provider cannot parse it) or
                      \* rejected (it asks for what the provider does not have)
    \* the gateway task that holds the environment's lock
    task,             \* idle, wait and await (a provider call), stop, abandon, bundle, proven
    want,             \* the provider call it waits for
    \* the queue of provider calls
    holder,           \* the call that owns the environment's provider
    pc,               \* each call: where it is
    kind,             \* each call: provision, resolve, inspect, destroy
    late,             \* each call: its caller timed out, its enrollment is aborted
    kept,             \* each call: the VM whose state enrollNode keeps over its awaits
    hand,             \* each call: the VM that release() took out of the map
    result,           \* each call: how it ended
    \* the driver and its machines
    leases,           \* the VM of the lease
    vm,               \* each VM: none or up
    node,             \* each VM's node process: none, running, exited
    leaked,           \* a VM whose dispose() failed is still up
    budget            \* faults still to come

recordVars == <<envState, leased, destroyRequested, failing, profile>>
taskVars == <<task, want>>
callVars == <<pc, kind, late, kept, hand, result>>
driverVars == <<leases, vm, node, leaked>>
vars == <<recordVars, taskVars, holder, callVars, driverVars, budget>>

Kinds == {"provision", "resolve", "inspect", "destroy"}
Terminal == envState \in {"destroyed", "failed"}

Init ==
    /\ envState = "requested" /\ leased = FALSE /\ destroyRequested = FALSE /\ failing = FALSE
    /\ profile \in Profiles
    /\ task = "idle" /\ want = "provision"
    /\ holder = NoCall
    /\ pc = [c \in Calls |-> "idle"] /\ kind = [c \in Calls |-> "provision"]
    /\ late = [c \in Calls |-> FALSE]
    /\ kept = [c \in Calls |-> NoVm] /\ hand = [c \in Calls |-> NoVm]
    /\ result = [c \in Calls |-> "none"]
    /\ leases = NoVm /\ vm = [v \in VMs |-> "none"] /\ node = [v \in VMs |-> "none"]
    /\ leaked = FALSE
    /\ budget = MaxFaults

Fault(f) == f \in Faults /\ budget > 0 /\ budget' = budget - 1

-----------------------------------------------------------------------------
(* Tasks of the gateway.                                                   *)

Call(k) == task' = "wait" /\ want' = k
Rest == task' = "idle" /\ UNCHANGED want

\* resumeProvision: the runtime is prepared before a first allocation, and the
\* record says provisioning before the provider is called.  A malformed profile
\* gets no further: resolveProvisionTimeoutMs throws, and the error is saved.
ResumeProvision ==
    \/ /\ envState' = "provisioning"
       /\ \/ profile # "malformed" /\ Call("provision")
          \/ profile = "malformed" /\ Rest
       /\ UNCHANGED budget
    \/ /\ envState = "requested" /\ Fault("prepare")
       /\ envState' = "failed"
       /\ Rest

\* createWithProfile, first or again with the same idempotency key.
Create ==
    /\ task = "idle" /\ envState \in {"requested", "provisioning"}
    /\ ~leased /\ ~destroyRequested
    /\ ResumeProvision
    /\ UNCHANGED <<leased, destroyRequested, failing, profile, holder, callVars, driverVars>>

\* destroy: the request is durable before anything is torn down, and a record
\* for which nothing was allocated ends at once.
Destroy ==
    /\ task = "idle" /\ ~Terminal
    /\ destroyRequested' = TRUE
    /\ \/ envState = "requested" /\ envState' = "failed" /\ Rest
       \/ envState # "requested" /\ task' = "stop" /\ UNCHANGED <<envState, want>>
    /\ UNCHANGED <<leased, failing, profile, holder, callVars, driverVars, budget>>

\* reconcileRecord, up to its inspection of a recorded lease.
Reconcile ==
    /\ task = "idle" /\ ~Terminal
    /\ \/ leased /\ Call("inspect") /\ UNCHANGED <<envState, budget>>
       \/ ~leased /\ destroyRequested /\ task' = "stop" /\ UNCHANGED <<envState, want, budget>>
       \/ ~leased /\ ~destroyRequested /\ ResumeProvision
    /\ UNCHANGED <<leased, destroyRequested, failing, profile, holder, callVars, driverVars>>

\* stopOwner in finishDestroy and in failBootstrap, which knows its lease.
StopOwner ==
    /\ task \in {"stop", "abandon"}
    /\ \/ /\ task = "abandon" \/ leased
          /\ envState' = IF task = "abandon" THEN "draining" ELSE envState
          /\ leased' = TRUE
          /\ Call("destroy")
          /\ UNCHANGED budget
       \/ /\ task = "stop" /\ ~leased
          /\ Call("resolve")
          /\ UNCHANGED <<envState, leased, budget>>
       \/ /\ Fault("stop")
          /\ Rest
          /\ UNCHANGED <<envState, leased>>
    /\ UNCHANGED <<destroyRequested, failing, profile, holder, callVars, driverVars>>

\* nodeProvisioning.finish: the worker bundle is installed and the record ready,
\* or failBootstrap requests the teardown.
Bundle ==
    /\ task = "bundle"
    /\ \/ /\ envState' = "ready" /\ leased' = TRUE
          /\ Rest
          /\ UNCHANGED <<destroyRequested, failing, budget>>
       \/ /\ Fault("bundle")
          /\ destroyRequested' = TRUE /\ failing' = TRUE
          /\ task' = "abandon"
          /\ UNCHANGED <<envState, leased, want>>
    /\ UNCHANGED <<profile, holder, callVars, driverVars>>

\* finishProvenDestroy, after the second stop of the owner.
FinishProvenDestroy ==
    /\ task = "proven"
    /\ \/ /\ envState' = IF failing THEN "failed" ELSE "destroyed"
          /\ leased' = (leased /\ ~failing)
          /\ UNCHANGED budget
       \/ /\ Fault("retire")
          /\ envState' \in {envState, "draining"}
          /\ UNCHANGED leased
    /\ Rest
    /\ UNCHANGED <<destroyRequested, failing, profile, holder, callVars, driverVars>>

-----------------------------------------------------------------------------
(* callProvider.                                                           *)

\* Where a call of each kind starts.
Entry(k) == CASE k = "provision" -> "provision"
              [] k = "destroy" -> "release"
              [] OTHER -> k

\* The queue gives the provider to the waiting task.
CallStart(c) ==
    /\ task = "wait" /\ holder = NoCall /\ pc[c] = "idle"
    /\ holder' = c
    /\ pc' = [pc EXCEPT ![c] = Entry(want)]
    /\ kind' = [kind EXCEPT ![c] = want]
    /\ task' = "await"
    /\ UNCHANGED <<recordVars, want, late, kept, hand, result, driverVars, budget>>

Awaited(c) == task = "await" /\ pc[c] \notin {"idle"} /\ ~late[c]

TeardownExpected == destroyRequested \/ envState = "draining"

\* finishProvision with the answer of provision(): the node is set up, a teardown
\* that failed is left to reconciliation, or a rejected profile ends the record
\* without a teardown.
ProvisionAnswered(answer) ==
    \/ /\ answer = "ok"
       /\ task' = "bundle" /\ UNCHANGED <<recordVars, want>>
    \/ /\ answer = "indeterminate"
       /\ envState' = "draining" /\ leased' = TRUE
       /\ destroyRequested' = TRUE
       /\ failing' = (failing \/ ~destroyRequested)
       /\ Rest /\ UNCHANGED profile
    \/ /\ answer = "rejected"
       /\ envState' = "failed"
       /\ Rest /\ UNCHANGED <<leased, destroyRequested, failing, profile>>

\* finishDestroy with the lease resolveAllocation() names, and over the answer of
\* destroy().
DestroyAnswered(k) ==
    \/ /\ k = "resolve"
       /\ envState' = "draining" /\ leased' = TRUE
       /\ Call("destroy")
       /\ UNCHANGED <<destroyRequested, failing, profile>>
    \/ /\ k = "destroy"
       /\ task' = "proven" /\ UNCHANGED <<recordVars, want>>

\* reconcileRecord over the status of its lease: a lost lease, a requested
\* teardown or an active node of a stale build is torn down.
InspectAnswered(answer) ==
    \/ /\ answer = "unknown"
       /\ destroyRequested' = (destroyRequested \/ ~TeardownExpected)
       /\ failing' = (failing \/ ~TeardownExpected)
       /\ task' = "stop" /\ UNCHANGED <<envState, leased, profile, want>>
    \/ /\ \/ answer = "active" /\ (destroyRequested \/ envState = "ready")
          \/ answer = "dormant" /\ TeardownExpected
       /\ task' = "stop" /\ UNCHANGED <<recordVars, want>>
    \/ /\ \/ answer = "active" /\ ~destroyRequested
          \/ answer = "dormant" /\ ~TeardownExpected
       /\ Rest /\ UNCHANGED recordVars

\* What the task does with the answer of its call; an error is saved, and the
\* record stays as it is.
Continue(c, answer) ==
    \/ kind[c] = "provision" /\ ProvisionAnswered(answer)
    \/ kind[c] \in {"resolve", "destroy"} /\ answer = "ok" /\ DestroyAnswered(kind[c])
    \/ kind[c] = "inspect" /\ InspectAnswered(answer)
    \/ answer = "error" /\ Rest /\ UNCHANGED recordVars

\* Mutant: a call that outlived its caller never leaves the queue.
CallReturnHeld(c) ==
    /\ pc[c] = "done"
    /\ pc' = [pc EXCEPT ![c] = "idle"]
    /\ late' = [late EXCEPT ![c] = FALSE]
    /\ result' = [result EXCEPT ![c] = "none"]
    /\ holder' = IF late[c] THEN holder ELSE NoCall
    /\ \/ Awaited(c) /\ Continue(c, result[c])
       \/ ~Awaited(c) /\ UNCHANGED <<recordVars, taskVars>>
    /\ UNCHANGED <<kind, kept, hand, driverVars, budget>>

\* The call is over: its place in the queue is free, a task that still waits
\* goes on, and a late answer is dropped.
CallReturn(c) ==
    /\ pc[c] = "done"
    /\ pc' = [pc EXCEPT ![c] = "idle"]
    /\ late' = [late EXCEPT ![c] = FALSE]
    /\ result' = [result EXCEPT ![c] = "none"]
    /\ holder' = IF holder = c THEN NoCall ELSE holder
    /\ \/ Awaited(c) /\ Continue(c, result[c])
       \/ ~Awaited(c) /\ UNCHANGED <<recordVars, taskVars>>
    /\ UNCHANGED <<kind, kept, hand, driverVars, budget>>

\* Mutant: a timeout gives the provider away.
TimeoutReleasing(c) ==
    /\ Awaited(c) /\ pc[c] # "done" /\ Fault("timeout")
    /\ late' = [late EXCEPT ![c] = TRUE]
    /\ holder' = NoCall
    /\ Rest /\ UNCHANGED recordVars
    /\ UNCHANGED <<pc, kind, kept, hand, result, driverVars>>

\* The task gives up on the call, which keeps its place in the queue.
Timeout(c) ==
    /\ Awaited(c) /\ pc[c] # "done" /\ Fault("timeout")
    /\ late' = [late EXCEPT ![c] = TRUE]
    /\ Rest /\ UNCHANGED recordVars
    /\ UNCHANGED <<holder, pc, kind, kept, hand, result, driverVars>>

-----------------------------------------------------------------------------
(* The provider and the driver, call by call.                              *)

Go(c, to) == pc' = [pc EXCEPT ![c] = to] /\ UNCHANGED result
End(c, how) == pc' = [pc EXCEPT ![c] = "done"] /\ result' = [result EXCEPT ![c] = how]

\* Mutant: the VM of an earlier attempt is not adopted.
ProvisionAnew(c) ==
    /\ pc[c] = "provision"
    /\ \/ profile = "rejected" /\ End(c, "rejected")
       \/ profile # "rejected" /\ Go(c, "create")
    /\ UNCHANGED <<recordVars, taskVars, holder, kind, late, kept, hand, driverVars, budget>>

\* provision refuses what it does not have (a machine class) with a
\* WorkerProviderError; driver.provision adopts the VM of the lease.
Provision(c) ==
    /\ pc[c] = "provision"
    /\ \/ profile = "rejected" /\ End(c, "rejected")
       \/ profile # "rejected" /\ Go(c, IF leases = NoVm THEN "create" ELSE "begin")
    /\ UNCHANGED <<recordVars, taskVars, holder, kind, late, kept, hand, driverVars, budget>>

\* AgentOs.create resolves and the lease is entered in the map.
CreateVm(c, v) ==
    /\ pc[c] = "create"
    /\ \/ /\ vm[v] = "none"
          /\ vm' = [vm EXCEPT ![v] = "up"] /\ node' = [node EXCEPT ![v] = "none"]
          /\ leases' = v
          /\ Go(c, "begin")
          /\ UNCHANGED <<leaked, budget>>
       \/ Fault("create") /\ End(c, "error") /\ UNCHANGED driverVars
    /\ UNCHANGED <<recordVars, taskVars, holder, kind, late, kept, hand>>

\* beginNodeEnrollment, outside the provider's try: an operation that is closed
\* by now keeps its VM for the replay.
BeginEnrollment(c) ==
    /\ pc[c] = "begin"
    /\ \/ ~late[c] /\ Go(c, "enroll") /\ UNCHANGED budget
       \/ late[c] /\ End(c, "error") /\ UNCHANGED budget
       \/ ~late[c] /\ Fault("begin") /\ End(c, "error")
    /\ UNCHANGED <<recordVars, taskVars, holder, kind, late, kept, hand, driverVars>>

\* enrollNode up to its early return: aborted, no lease, or the node is running.
EnrollNode(c) ==
    /\ pc[c] = "enroll"
    /\ kept' = [kept EXCEPT ![c] = leases]
    /\ \/ (late[c] \/ leases = NoVm) /\ Go(c, "catch")
       \/ /\ ~late[c] /\ leases # NoVm
          /\ Go(c, IF node[leases] = "running" THEN "device" ELSE "install")
    /\ UNCHANGED <<recordVars, taskVars, holder, kind, late, hand, driverVars, budget>>

\* The rest of enrollNode: download, installation and compatibility fail or find
\* the signal aborted, or the node is spawned and its pid written down.
Install(c) ==
    /\ pc[c] = "install"
    /\ \/ late[c] /\ Go(c, "catch") /\ UNCHANGED <<node, budget>>
       \/ /\ Fault("install")
          /\ Go(c, "catch")
          /\ node' \in {node, [node EXCEPT ![kept[c]] = "running"]}
       \/ /\ ~late[c]
          /\ node' = [node EXCEPT ![kept[c]] = "running"]
          /\ Go(c, "device")
          /\ UNCHANGED budget
    /\ UNCHANGED <<recordVars, taskVars, holder, kind, late, kept, hand, leases, vm, leaked>>

\* waitForDeviceId: the node connects, or the wait is aborted or expires.
WaitForDevice(c) ==
    /\ pc[c] = "device"
    /\ \/ /\ ~late[c] /\ node[kept[c]] = "running"
          /\ End(c, "ok")
          /\ UNCHANGED budget
       \/ late[c] /\ Go(c, "catch") /\ UNCHANGED budget
       \/ node[kept[c]] # "running" /\ Go(c, "catch") /\ UNCHANGED budget
       \/ Fault("device") /\ Go(c, "catch")
    /\ UNCHANGED <<recordVars, taskVars, holder, kind, late, kept, hand, driverVars>>

\* The provider's catch: an aborted enrollment keeps its VM, a failed one not.
Catch(c) ==
    /\ pc[c] = "catch"
    /\ \/ late[c] /\ End(c, "error")
       \/ ~late[c] /\ Go(c, "release")
    /\ UNCHANGED <<recordVars, taskVars, holder, kind, late, kept, hand, driverVars, budget>>

\* What the end of release() means for the call it is part of.
Released(c) == End(c, IF kind[c] = "destroy" THEN "ok" ELSE "error")

\* release takes the lease out of the map before it touches the VM.
Release(c) ==
    /\ pc[c] = "release"
    /\ \/ /\ leases = NoVm
          /\ Released(c)
          /\ UNCHANGED <<hand, leases>>
       \/ /\ leases # NoVm
          /\ hand' = [hand EXCEPT ![c] = leases]
          /\ leases' = NoVm
          /\ Go(c, "dispose")
    /\ UNCHANGED <<recordVars, taskVars, holder, kind, late, kept, vm, node, leaked, budget>>

\* vm.dispose: a failure rejects destroy(), or makes provision() indeterminate,
\* and nothing refers to the VM any more.
DisposeVm(c) ==
    /\ pc[c] = "dispose"
    /\ vm' = [vm EXCEPT ![hand[c]] = "none"] /\ node' = [node EXCEPT ![hand[c]] = "none"]
    /\ \/ /\ Released(c)
          /\ UNCHANGED <<leaked, budget>>
       \/ /\ Fault("dispose")
          /\ leaked' = TRUE
          /\ End(c, IF kind[c] = "destroy" THEN "error" ELSE "indeterminate")
    /\ hand' = [hand EXCEPT ![c] = NoVm]
    /\ UNCHANGED <<recordVars, taskVars, holder, kind, late, kept, leases>>

\* resolveAllocation parses the profile, which throws on a malformed one, computes
\* the lease id and allocates nothing.
ResolveAllocation(c) ==
    /\ pc[c] = "resolve"
    /\ End(c, IF profile = "malformed" THEN "error" ELSE "ok")
    /\ UNCHANGED <<recordVars, taskVars, holder, kind, late, kept, hand, driverVars, budget>>

Inspect(c) ==
    /\ pc[c] = "inspect"
    /\ End(c, IF leases = NoVm THEN "unknown"
              ELSE IF node[leases] = "running" THEN "active" ELSE "dormant")
    /\ UNCHANGED <<recordVars, taskVars, holder, kind, late, kept, hand, driverVars, budget>>

\* The node process ends by itself.
NodeExits(v) ==
    /\ vm[v] = "up" /\ node[v] = "running"
    /\ node' = [node EXCEPT ![v] = "exited"]
    /\ UNCHANGED <<recordVars, taskVars, holder, callVars, leases, vm, leaked, budget>>

ProviderStep(c) ==
    \/ Provision(c) \/ (\E v \in VMs : CreateVm(c, v)) \/ BeginEnrollment(c) \/ EnrollNode(c)
    \/ Install(c) \/ WaitForDevice(c) \/ Catch(c) \/ Release(c) \/ DisposeVm(c)
    \/ ResolveAllocation(c) \/ Inspect(c)

TaskStep == StopOwner \/ Bundle \/ FinishProvenDestroy

Next ==
    \/ Create \/ Destroy \/ Reconcile \/ TaskStep
    \/ \E c \in Calls : CallStart(c) \/ CallReturn(c) \/ Timeout(c) \/ ProviderStep(c)
    \/ \E v \in VMs : NodeExits(v)

\* Provider calls and tasks that have started go on, the queue serves a waiting
\* task, and the reconcile interval fires.
Fairness ==
    /\ WF_vars(Reconcile) /\ WF_vars(TaskStep)
    /\ \A c \in Calls : WF_vars(CallReturn(c)) /\ WF_vars(ProviderStep(c))
    /\ WF_vars(\E c \in Calls : CallStart(c))

Spec == Init /\ [][Next]_vars
FairSpec == Spec /\ Fairness

-----------------------------------------------------------------------------
(* Properties.                                                             *)

TypeOK ==
    /\ envState \in {"requested", "provisioning", "ready", "draining", "destroyed", "failed"}
    /\ leased \in BOOLEAN /\ destroyRequested \in BOOLEAN /\ failing \in BOOLEAN
    /\ leaked \in BOOLEAN /\ profile \in Profiles
    /\ task \in {"idle", "wait", "await", "stop", "abandon", "bundle", "proven"}
    /\ want \in Kinds
    /\ holder \in Calls \cup {NoCall}
    /\ pc \in [Calls -> {"idle", "provision", "create", "begin", "enroll", "install", "device",
                         "catch", "release", "dispose", "resolve", "inspect", "done"}]
    /\ kind \in [Calls -> Kinds] /\ late \in [Calls -> BOOLEAN]
    /\ kept \in [Calls -> VMs \cup {NoVm}] /\ hand \in [Calls -> VMs \cup {NoVm}]
    /\ result \in [Calls -> {"none", "ok", "error", "indeterminate", "rejected", "unknown", "active", "dormant"}]
    /\ leases \in VMs \cup {NoVm} /\ vm \in [VMs -> {"none", "up"}]
    /\ node \in [VMs -> {"none", "running", "exited"}]
    /\ budget \in 0 .. MaxFaults

Up == {v \in VMs : vm[v] = "up"}

\* A terminal record leaves no VM behind that was never told to go
\* (provider-lifecycle.ts lines 107-124 and 382-429): whatever timed out and ran
\* on before, once the record is destroyed or failed every VM of the
\* environment was disposed of.  A rejection (lines 277-283) tears nothing down and
\* relies on it.
TerminalMeansReleased == Terminal => Up = {}

\* "A dedicated provider's destroy result proves physical teardown"
\* (provider-lifecycle.ts line 413): nor does one whose disposal failed live on.
TerminalMeansNoVm == Terminal => Up = {} /\ ~leaked

\* Every VM that is up is in the driver's map or in the hand of a release() that
\* still runs (embedded-agentos-driver.ts lines 52-66): replays adopt, and no
\* late call leaves a machine nobody can destroy.  Only a VM whose dispose()
\* failed escapes; it counts as leaked and not as up.
NoOrphanVm == \A v \in Up : v = leases \/ \E c \in Calls : hand[c] = v

\* A replay after a timeout never overlaps the call it replays (service.ts line
\* 216): the cleanup of a failed provision never takes the VM of an environment
\* that became ready.
ReadyKeepsVm ==
    [][\A c \in Calls :
        envState = "ready" /\ kind[c] = "provision" /\ pc[c] = "release" => pc'[c] = pc[c]]_vars

\* enrollNode works on the state it read before its awaits
\* (embedded-agentos-driver.ts lines 105-181): the VM it installs into and
\* waits for is still the lease's, and up.
EnrollsLeasedVm ==
    \A c \in Calls : pc[c] \in {"install", "device"} => kept[c] = leases /\ kept[c] \in Up

\* A requested destroy reaches the end of the record once nothing goes wrong any
\* more, also over provisions that timed out and are still running
\* (provider-lifecycle.ts lines 382-429 and 431-604).  A malformed profile is the
\* one exception: it is not rejected (lines 277-285), so its record is kept, and
\* resolveAllocation (provider.ts line 22) throws in every teardown of it.
DestroyCompletes == destroyRequested /\ profile # "malformed" ~> Terminal
=============================================================================
