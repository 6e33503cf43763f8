# OpenClaw on AgentOS: a TLA+ development

This directory holds TLA+ models of the concurrent and crash-sensitive parts of
this repository, the TLC configurations that check them on small instances, and
TLAPS proofs of their safety properties for every instance. `PROJECT.json` is
the index: which definition stands for which lines, which run checks which
property, which change of the code each property would notice.

Paths below leave out the leading `src/` of `PROJECT.json`.

## 1. The system and its parts

The repository runs OpenClaw, an agent, inside or next to AgentOS. Its own code
(about 3000 lines) has three layers:

* `packages/agentos-sdk`: a workspace handle that runs processes and accesses
  files, either as plain detached children (`native.ts`) or, on Linux, as
  *jobs*: a cgroup, a supervisor (`native/supervisor.c`) and a launcher that
  restricts itself before it becomes the workload (`native/launcher.c`);
* `packages/openclaw-core`: OpenClaw's use of that handle, and the durable state
  between two turns of a session;
* `src`: the provider that leases VMs, boots a guest in them and serves it files
  and SQLite.

The agent itself is vendored under `packages/openclaw-core/upstream` (1.7 million
lines). Two of its subsystems are the direct counterparts of the code above and
are part of this development: the process supervisor that drives the adapter,
and the worker environments that call the VM provider.

| Part | State it keeps | Operations | What is hard |
|---|---|---|---|
| Request checkpointing (`openclaw-core/src/request-state.mjs`) | marker and checkpoint file of a session, flags of a handle | `beginRequest`, `commit` | crashes and power loss between two file operations, several processes on one directory, overlapping commits |
| Job supervisor (`agentos-sdk/native/supervisor.c`) | process tree of a job, cgroup, gate, deadline | enrol, publish, release, reap, poll, stop, check | late forks, orphans, root exit against last reap, a manager that disappears, processes that do not die |
| Launcher (`native/launcher.c`) | its own restrictions | arm parent-death signal, restrict, `execve` | its supervisor dies first; its line on the shared pipe overtakes the supervisor's |
| Linux process driver (`src/linux-process-driver.ts`) | cgroup directory, launch timer, promises | `prepare`, start, status lines, `kill`, close, `finish`, `cancel` | launch timer against late readiness, crash of either side, one of several cleanup steps failing |
| Native process manager (`src/native.ts`) | records, calls in flight, history, disposal | `#spawn`, `#exec`, `#kill`, child events, `dispose` | every await of `#spawn` races with abort and disposal; limits; descendants that keep pipes open |
| Linux file access (`src/linux-filesystem.ts`, `native/file-access.c`) | at most four helper processes, a root descriptor | one helper per operation, `dispose` | helpers that outlive a timeout, disposal over running helpers |
| Node file API (`src/filesystem.ts`, `file-options.ts`) | none | path checks, then one system call each | symbolic links changed by others between check and use |
| SDK surface (`contracts.ts`, `language-execution.ts`, `sdk-surface.ts`) | none | argument forms of the SDK onto process and file calls | - |
| Preflight (`preflight.ts`, `native/preflight.c`) | none | one query of the kernel | - |
| Process adapter (`openclaw-core/src/sdk-process-adapter.mjs`) | one run: input ended or closed, the first adapter failure, the exit promise | spawn, write, end or destroy input, kill, wait, dispose | order of input callbacks, exit and kill; refused signals |
| Tool runtime (`openclaw-core/src/sdk-tool-runtime.mjs`) | none of its own | maps OpenClaw's file and shell calls onto a handle; hosts the upstream process supervisor over the adapter | a write is `mkdir` and then a second call |
| AgentOS VM provider (`src/provider.ts`, `embedded-agentos-driver.ts`) | map of leases, one VM each, with the enrolled node process | `provision`, `enrollNode`, `inspect`, `destroy`, `dispose` | overlapping calls for one lease at the awaits between lookup and insertion |
| Bootstrap and transfer (`src/bootstrap-download.ts`, `write-large-file.ts`) | the parts written so far | download with size and digest check; write in parts, join in the guest, rename | partial failure, cleanup of parts |
| Core artifact store (`src/core-artifact-store.mjs`) | a temporary directory, a sealed flag | add files while unsealed, `seal`, `dispose` | a write that began before `seal` ends after it; a digest known only after the last byte |
| Host SQLite binding (`src/host-sqlite.mjs`, `core-host-sqlite.mjs`) | table of at most 64 databases, a bounded statement cache for each | open, close, exec, statement calls | errors after an effect, handles nobody knows, cached statements over a changed schema |
| Compatibility shims (`src/compatibility.ts`, `src/core-compat/*`) | none | replace Node modules in the guest | - |
| Process supervisor (`upstream/src/process/supervisor/`) | starting and active runs, records of the last runs | `spawn` with replacement, `cancel`, `cancelScope`, kill timer, `shutdown` | cancellation of a run that has no process yet, replacements behind fences, shutdown over what is starting, reused identities |
| Worker environments (`upstream/src/gateway/worker-environments/`) | a durable record per environment, a queue of provider calls | create, replay, reconcile, destroy | calls that outlive their timeout, replays, teardown that fails half-way |
| Rest of OpenClaw core (`openclaw-core/upstream`) | vendored | - | outside this development |
| Scripts (`scripts/*`) | none | build, probe, audit | - |

How they interact: OpenClaw calls the tool runtime, which hosts the process
supervisor, which calls the adapter, which calls the SDK's handle. The gateway
keeps a record per worker environment and calls the VM provider, one call per
environment at a time; the provider calls the driver, which keeps a VM per
lease. The handle asks the driver to `prepare` a job and
then starts it. Driver and supervisor share two pipes: status lines up (fd 3,
written by supervisor *and* launcher) and control down (fd 4, one byte or its
closing means "stop"). Supervisor and workload share the kernel's process tree
and the cgroup. Request checkpointing only touches its directory; separate
processes meet there.

What would make each part right, in a line:

* checkpointing: a turn whose effects may exist is never replayed silently, and
  a committed turn is never lost;
* supervisor: "cleanup-complete" is the truth; nothing runs outside the group;
  stopping is bounded;
* driver: `finish` resolves only over a dead job and a removed group; readiness
  and cancellation settle;
* process manager: limits hold under concurrency, disposal leaves nothing alive
  and launches nothing, what is killed is reported;
* file access: at most four helpers, an answer per call, no descriptor closed
  under a helper;
* process supervisor: a stopped run never leaves a process behind, whenever it was
  stopped; a replacement stops what came before it and nothing after; `shutdown`
  settles, and resolves over nothing;
* VM provider and worker environments: every VM is known to its lease, and a
  terminal record has none.

## 2. Modules

| Module | Models | Extends |
|---|---|---|
| `RequestLedger` | what `request-state.mjs` promises: one holder, a durable next turn | - |
| `RequestState` | `request-state.mjs`, one action per await; refines `RequestLedger` | - |
| `RequestStateProofs` | theorems about it | `RequestState` |
| `JobSupervisor` | `supervisor.c`, the launcher's control flow, the kernel they rely on | - |
| `JobSupervisorProofs` | theorems about it | `JobSupervisor` |
| `LinuxJob` | `linux-process-driver.ts`, composed with the supervisor | `JobSupervisor` |
| `LinuxJobProofs` | theorems about the composition | `LinuxJob`, `JobSupervisorProofs` |
| `NativeProcess` | `#spawn`, `#kill`, callbacks and `dispose` of `native.ts` | - |
| `NativeProcessProofs` | theorems about it | `NativeProcess` |
| `LinuxFileAccess` | `linux-filesystem.ts` and the read and write of `file-access.c` | - |
| `LinuxFileAccessProofs` | theorems about it | `LinuxFileAccess` |
| `ProcessSupervisor` | `supervisor-runtime.ts` and `registry.ts` over `sdk-process-adapter.mjs` or a relay | - |
| `ProcessSupervisorProofs` | theorems about it | `ProcessSupervisor` |
| `WorkerLease` | one environment: `provider-lifecycle.ts`, the queue of `service.ts`, `provider.ts`, `embedded-agentos-driver.ts` | - |
| `WorkerLeaseProofs` | theorems about it | `WorkerLease` |
| `MC*` | symmetry and constants for TLC | their module |

A definition introduced by a comment that starts with "Mutant" is not part of
the model. It is a plausible slip in the definition that follows it, and
`PROJECT.json` says which property notices it.

### RequestState

The directory is two names, `pending` (request-inflight.json) and `checkpoint`
(request-checkpoint.json), each with the set of values a power loss may leave
behind (`diskPending`, `diskCheckpoint`). Changing a name adds to its set;
`syncDirectory` reduces it to the current value; `PowerLoss` picks a member. A
file renamed before its data was synced may come back `Torn`. `beginRequest` is
`OpenMarker`, `WriteMarker`, `SyncMarker`, `LoadCheckpoint` and, in its catch,
`AbortBegin`. `commit` is `CallCommit` (the synchronous guards) and then
`CreateTemp`, `FlushTemp`, `PublishCheckpoint`, `SettleCheckpoint`,
`ReleaseMarker`, `ConfirmRelease`, with `CleanupTemp` for its finally. Every
one of them may also fail. `Crash` kills one process at any await. `Recover` is
the operator the error messages ask for; it removes the marker of a request
that is quiet and remembers it in `acknowledged`.

`RequestLedger` has no files: a holder (free, running, interrupted), the next
turn and what of it is durable.

### JobSupervisor and LinuxJob

`sup` walks through the supervisor's `main`: `Setup`, `Join`, `Publish`,
`Release` (or `Abort`), then the loop `Reap`/`DrainEnd`, `Poll` with `Stop`,
`Check`. The child it forks has a `phase`: gated, started, launcher,
restricted, tenant. A tenant forks, waits, exits; `Die` delivers SIGKILL to a
doomed process. The kernel part is what the code relies on: orphans go to the
nearest subreaper (the supervisor) or to init, `cgroup.kill` dooms every running
member, a fork of a doomed process is impossible once it is dead, zombies do not
count as population, the parent-death signal reaches only a root that armed it.
`Faults` says which system calls may fail ("setup", "enroll", "kill", "events",
"poll") and whether the supervisor itself may get SIGKILL.

`LinuxJob` adds the manager: `Prepare`, `Start` (which may throw), `ReadStatus`
for the lines in `events`, `LaunchTimeout`, `Kill`, `Close`, `Finish`, `Cancel`
and `ManagerDies`. The pipes are the variables `events` and `control`.

### NativeProcess

One handle and the `Calls` made on it. `pc` says at which await a `#spawn` is:
resolving (realpath, stat), preparing, starting (a job's readiness), writing and
ending (options.stdin). `Spawn` is the synchronous head with the limit test,
`Launch` the spawn of the child with its record and listeners; a plain child's
spawn event and the recheck after it are part of the step, since `dispose` awaits
the pending spawn either way and then kills every record. Child events are
`ExitEvent` and `CloseEvent`; the other callbacks are `TimerFires`, `Abort`,
`Overrun`, `StdinError`, `KillCall`. `dispose` is `Dispose` (refuse, await the
pending spawns), `DisposeKill`, then `DisposeResolve` or `DisposeTimeout`. The
host has one leader per call and at most one descendant, which may leave the
group with `setsid` and may hold the pipes. With `Linux = TRUE` a call is a job,
of which only what `LinuxJob` shows is used: it dies as a whole, and `finish`
may reject. `#exec` and the queries of `#records` are not in the module.

### LinuxFileAccess

One handle, one path, one helper process per operation. `Run` admits an operation
under the limit or refuses it; until the helper's close event (`Close`) an abort,
the timer or a stream error may `Stop` it, which keeps the first reason and kills
the helper. The helper reads its whole input, opens, truncates and writes
(`ReadInput`, `Open`, `Truncate`, `Write`), or reads; it may fail, be killed or
hang in the kernel (`Stall`) between any two of these. The file is who wrote it
last and whether that is whole or cut. `Dispose` takes the snapshot it waits
for; `DisposeResolves` and `DisposeTimesOut` both close the root descriptor.

### ProcessSupervisor

A run has a stage: fenced (behind the starts it replaces, or behind a
replacement), creating, live, stillborn (cancelled before it started), warning
(its start failed) or over. `startingRuns` and `active` are functions of the
stages, as the two maps are in the code. `Spawn`, `PassFence` and
`AdapterCreated` are the segments of `spawn` and `startRun` between awaits;
`Started` holds the cancellation of the scope, `Adopted` the cancellation that
arrived before the adapter. `CancelAdapter` is SIGTERM with the kill timer, or
SIGKILL at once for a run whose result is there while descendants are left. A
Linux job refuses SIGTERM, which the adapter keeps as its failure; a relay has
two promises, the result and the extinction of its group, and may lose the
group. A result waits for the end of the output too: `holders` are the runs
whose command is over while a descendant that left its process group still has the
pipes open, which blocks `Settle` until `HolderExits`. The registry is a record per identity, the relation that says which of two records
is older (the insertion order of the code's map), and the counter of the exited
ones.
`Quiet` says that promise continuations run before the next event.

### WorkerLease

The record (`envState`, `leased`, `destroyRequested`, `failing`, and `profile`, its
snapshot of the settings), the task of the
gateway that holds the environment's lock, the queue of provider calls
(`holder`), and for each call its place in the provider and driver. A call that
times out stays in the queue with its enrollment aborted (`late`), while the task
rests and the gateway goes on. `Provision` ... `WaitForDevice` are the segments of
`provision` and `enrollNode`, `Catch`, `Release` and `DisposeVm` the cleanup,
which `destroy` shares. The bootstrapping, draining and destroying states of a
teardown are one, as are the registration steps of a node. `Faults` names what
may go wrong: preparing, creating the VM, beginning or carrying out the
enrollment, installing the bundle, stopping the owner, retiring the enrollment,
disposing of the VM, timeouts. The profile is fixed with the record: a *rejected* one
(it asks for a machine class) makes `provision` throw a `WorkerProviderError`
before anything is allocated, which ends the record without a teardown; a
*malformed* one makes `parseAgentOsProfile` throw a `TypeError`, which is no
rejection, so the record stays in provisioning and neither a replay nor a destroy
gets past that error.

## 3. Runs

| Run | Instance | What it shows |
|---|---|---|
| `request_state` | 3 requests, 2 `commit` calls each, turns 0..1 | an interrupted turn is fenced and never replayed silently, a commit is durable, one handle owns the marker, and the files implement `RequestLedger` |
| `job_supervisor` | 4 processes, all faults | cleanup-complete is the truth, nothing runs outside the group, and a stop request ends the supervisor even if SIGKILL never takes effect |
| `linux_job` | 3 processes, all faults | `finish` and readiness tell the truth; readiness and completion settle |
| `linux_job_leak` | 2 processes, no faults | expected violation, see below |
| `native_process` | 2 calls, limit 1, native; input, descendants, aborts | the limit, the kill of the group, the meaning of a resolved `dispose`; killed processes are reported and `dispose` settles, each with its one exception |
| `native_process_linux` | 2 calls, limit 2, history 1, Linux; input, aborts, timeouts, output limits, kills | nothing launches after `dispose`, `dispose` outlasts pending spawns, history is bounded |
| `native_process_hang` | 1 call, input | expected violation, see below |
| `process_supervisor` | 2 runs, identities shared, SDK and relay adapters, lost groups, escaped descendants | a cancelled run is signalled whenever it was cancelled; `shutdown` resolves over nothing, and settles unless an escaped descendant of an SDK process holds its pipes for ever |
| `process_supervisor_scope` | 3 runs of one scope, Linux jobs, failing input and listeners, 1 exited record kept | replacements stop the older and spare the newer runs; live runs keep their record; the first reason is recorded |
| `linux_file_access` | 2 operations on one file, limit 1 | an acknowledged write was not cut off, helpers are bounded, a resolved `dispose` is quiet; operations and `dispose` settle |
| `worker_lease` | 2 call and 2 VM identities, 5 faults of any kind, profiles that are valid, malformed or rejected | no VM is lost or kept by a terminal record, enrollment works on the lease's VM, a ready environment keeps its VM, a requested destroy completes unless the profile is malformed |
| `worker_lease_teardown` | the same, 1 failing `vm.dispose` | expected violation, see below |

### Bounds

* `Requests`, `Calls` of `RequestState`: three requests give one that was
  interrupted, one that overlaps with it and one that comes after both; two
  `commit` calls give the overlap and the retry after a failure. `MaxTurn`: two
  turns let a checkpoint be the expected one, one behind or one ahead. The
  proofs have no such bounds.
* `Procs`: with four processes the root can leave an orphan that forks while
  its parent is being reaped. Each process identity is used once.
* `Calls` of `NativeProcess`: two calls give one that waits for its limit,
  overlaps with the other or finishes out of order; `MaxActive` and
  `MaxRetained` of 1 make both limits bite. The proofs have no bound. `Inputs`
  only removes things callers and children may do, to keep an instance small;
  the two runs have all of them between them.
* `Calls` of `ProcessSupervisor`: two calls give a run and the one that replaces
  it, reuses its identity or starts during its shutdown; three give a run before,
  a replacement and a run after it in one scope. `MaxExited` of 1 makes pruning
  happen with the second exit.
* `Calls` of `LinuxFileAccess`: a writer and another operation on its file; a
  limit of 1 makes the second one meet a helper that is dying.
* `Calls` and `VMs` of `WorkerLease`: identities are used again, so two of each
  give any number of calls and machines one after another, and two at once if
  the code allowed it. `MaxFaults` of 5 allows a failure in every stage of one
  life, with the replays between them.
* Deadlines and timers carry no numbers: they may fire at any time after they
  were armed.

Deadlock checking is off wherever a job or a handle may simply be over; it is on
in `request_state`, where power can always fail.

### Fairness

* `SupervisorFairness`: the supervisor is scheduled, its three seconds pass, and
  the gated child, which runs only our own code, reads its gate or can be
  killed. Nothing is assumed of the launcher or the workload.
* `JobFairness` adds that SIGKILL ends a process in the end (`StopEndsSupervisor`
  does without it, because the deadline of `supervisor.c` exists for processes it
  does not end) and that Node's event loop delivers status lines, timers and
  events that have happened. The close event is only certain when no process is
  left that could hold the pipes.
* `Fairness` of `NativeProcess`: file system calls, `prepare` and readiness are
  answered (for a job, that is `LaunchSettles`), events and timers are
  delivered, and a killed process dies. It is *not* assumed that a child reads
  its input or that a descendant exits.
* `Fairness` of `ProcessSupervisor`: settled promises continue, the kill timer
  fires, `createAdapter` settles (the adapter gives `spawn` no input to write, so
  the hang below is not in its way), and SIGKILL ends a command and its group. No
  command is assumed to end by itself or on SIGTERM. A descendant that left its
  group with `setsid` is not signalled and not assumed to exit; while it holds
  the pipes there is no close event (`native.ts` line 154) and `Settle` is not
  enabled, so nothing is assumed of it either. `ShutdownSettles` names that
  exception (`HeldOpen`), as `KilledFinishes` does for the handle below. A relay
  reports the extinction of its group apart from its result, and descendants of
  a Linux job do not leave its cgroup, so neither holds `shutdown` up.
* `Fairness` of `LinuxFileAccess`: timers fire, SIGKILL ends a helper that does
  not hang in the kernel, and the close event of a dead helper arrives. A helper
  is not assumed to do anything.
* `Fairness` of `WorkerLease`: provider calls and tasks that began go on, the
  queue serves the waiting task, and the reconcile interval fires. Faults are
  finitely many (`budget`), because a provider that always fails can never be
  torn down; after the last one the destroy has to complete. A malformed profile
  is not a fault that passes: `resolveAllocation` throws in every teardown of its
  record, which stays as it is, and `DestroyCompletes` names it as its exception.

### What the expected violations show

* `linux_job_leak`: `start()` marks the job used before it spawns. If the spawn
  throws, `cancel()` finds the job used and leaves the cgroup directory behind,
  although the closure is documented to clean up an unstarted group.
* `native_process_hang`: `dispose()` awaits the pending spawns, without a bound
  and before it kills anything. A child that does not read its input keeps its
  spawn pending, and so the documented bound on cleanup waits does not hold.
  `DisposeSettlesOrWrites` shows that this is the only such case.
* `worker_lease_teardown`: `release()` takes the lease out of its map before it
  disposes of the VM. If `vm.dispose()` rejects, the gateway keeps the record
  and tries again, as it should; the second `destroy()` finds no lease and
  resolves, and the record becomes terminal with the VM still up.
  `TerminalMeansReleased` shows that a failing `dispose` is the only way there.

## 4. What is proved

TLAPS checks the following for every value of the constants that satisfies the
named assumptions.

`RequestStateProofs`, from `TurnAssumption` and `NoneAssumption`: `Typing`,
`Invariance`, `Fencing`, `NoReplay`, `Durability`, `Ownership`, `AdvancesByOne`
and `Refinement`. None of the properties is inductive. The argument is `Inv`:
at most one `commit` call of a handle passed the guards (`OneCommit`); whoever is
between marker and admission owns the marker, durably from the directory sync
on (`BeginOwns`); an open handle owns it durably until it releases it, and the
checkpoint is exactly what its commit has reached (`HandleOwns`); an admitted
marker is durable wherever it is (`AdmittedMarkerDurable`). Two requests can
therefore not both be between admission and release, which is what every step
lemma (`OpenMarkerInv` ... `RecoverInv`) rests on. `Refinement` maps the marker to
the ledger's holder (`Holder`): the steps of `beginRequest` up to admission are
stutters, a failed commit and a crash are `Interrupt`, and a power loss of the
files is one of the ledger's.

`NativeProcessProofs`, from `CallsAssumption`, `LimitAssumption` and
`LinuxAssumption`: `NativeTyping`, `Limit`, `GroupKilled`, `WaitsForSpawns`,
`DisposedDead` and `NoLaunch`. The inductive invariant is `Control` with
`ManagedBound`: `#inFlight` is the number of pending spawns (`Counted`; without
it the limit test says nothing about a concurrent call); a call that has not
launched has no child, verdict or record (`Fresh`); a verdict comes after the exit
event, which killed the group (`Seen`, `Finished`); disposal sees every living
child in `#records` until it resolves (`Tracked`) and every spawn it raced with
in what it awaits (`Draining`). `History` is about the eviction in `finish` and
needs one thing more, that records have pids of their own in the order of their
launch (`Pids`): the number of newer finished records then tells the kept ones
apart and is below the limit, so there are at most as many (`EvictionBound`).

`JobSupervisorProofs`, from `RootAssumption` and `ParentAssumption`:
`SupervisorInvariance`, `CleanExit`, `OnlyEnrolled` and `OrphanDoomed`, for any set of
processes, finite or not, and any faults. `waitpid` saying ECHILD is a fact about
the supervisor's children only. It becomes one about the whole job because the
parents form a forest, stated as: every nonempty set of processes has a member
whose parent is outside it (`Tree`); whoever is a parent runs, since the kernel
takes the children away from who ends (`ParentRuns`); and a living supervisor is
the only way out of the set of living processes (`Rooted`). A living process
would thus give a child of the supervisor. `Drained` carries that fact from the
last drain to the report, `RootEnrolled` and `Enrolled` give the cgroup side.
`Tree` survives the adoption of orphans because these only move to the supervisor
or to init, which have no parent among the processes.

`LinuxJobProofs`, from the same assumptions: `JobInvariance`, `FinishExtinct`,
`ReadyIdentified`, `StartedHasGroup`, and `JobKeepsSupervisor`, which says that
the supervisor's properties survive a manager that cancels, closes its pipe or
dies at any step. The manager only knows what it has read, so the invariant is about
the pipe: the line with the root's pid is read, or lies before every line that
depends on it (`Published`, `Ordered`); cleanup-complete, read or unread, was said
by a supervisor that is gone (`Truthful`), and by `CleanExitMeansExtinct` over an
extinct job. Nothing bounds the pipe.

`ProcessSupervisorProofs`, from `IdAssumption`, `AdapterAssumption` and
`LimitAssumption`: `RuntimeTyping`, `RuntimeInvariance`, `NoLateChild`, `Supersession`,
`LaterRunsSpared`, `LiveRecordKept`, `FirstReasonKept`, `ShutdownExtinct` and
`ExitedExact`, for any calls, identities, scopes and adapters, finitely many or
not. The invariant has three layers. `RunOK` is one run: what each stage may
hold, and that a cancelled run with a process was signalled (`Signalled`). `Orders` is the runs among each other: orders are given in turn,
a replacement waits for every start before it (`Fenced`), and while a replacement is starting every
later run of its scope is fenced behind it or behind a later replacement
(`Held`; this is what makes a delayed cancellation safe, and it cannot be read off
one fence, since a run waits only for the last replacement before it). `RecordsOK`
says what the registry holds for the last run of an identity, with the exception
named `Shadowed`. `Books` is about the registry alone: age is a strict total
order of the records, and `exitedRecords` is the number of exited ones and never
above the cap, so `prune` deletes at most one record, the oldest exited (`OldestExists`,
`PruneBooks`), and never one of a live run.

`WorkerLeaseProofs`, from `IdentityAssumption` and `FaultAssumption`:
`LeaseInvariance`, `NoOrphan`, `LeaseReleased`, `EnrollsLeased` and `ReadyKept`,
for any number of calls, machines and faults. The inductive invariant says that
the call that is not idle holds the queue (`QueueOk`), so whoever creates, keeps
or releases a VM does so alone (`MapOk`, `CallOk`, `KindOk`); that a provision
runs only under a record that says provisioning (`ProvisionOk`); and that a task
leaves that state only with the answer of a call that is over (`AwaitOk`,
`RecordOk`). A record that ends without a teardown has a rejected profile, for
which nothing was ever allocated (`ProfileOk`). A call that outlived its caller therefore never meets a record that
went on, which is what the comment in `service.ts` about timeouts asks for.

`LinuxFileAccessProofs`, from `LimitAssumption`: `FileInvariance`, `AckedWhole`,
`HelperLimit` and `DisposedQuiet`, for any number of operations and any limit. A
live helper belongs to an active operation (`Placed`, `Fresh`), which the limit
bounds (`Bounded`) and disposal's snapshot contains (`Snapshot`); the reasons of
an operation that was not stopped are known, so it resolves only over exit code
zero (`Reasons`, `Acked`), and a helper that gets there has done its last write
(`Uncut`).

Every invariant and action property of the passing runs is a theorem, and the
type invariants are parts of the proved invariants. Only model-checked is what
must eventually happen: `StopEndsSupervisor`, `LaunchSettles`, `CancelSettles`,
`KilledFinishes`, `DisposeSettlesOrWrites`, `ShutdownSettles`,
`FileDisposeSettles`, `OperationSettles` and `DestroyCompletes`. Liveness under
fairness is out of this prover's reach and stays with TLC. The three expected
violations are counterexamples, which need no proof.

## 5. What is abstracted or left out

* Contents: commands, paths, environment, output and the JSON in the files are
  absent; a checkpoint is its `nextTurn`. Invalid arguments are one refusal.
* The launcher's restrictions (namespaces, seccomp, limits) are one step that
  succeeds or fails; that they confine the workload is a claim about the kernel.
* Numbers that the host reuses (process ids, group ids) are not reused in the
  models; the two places where the code would notice are listed as hazards.
* A host that runs out of descriptors inside `spawn` ends the manager with an
  unhandled error event; there is no later state.
* `LinuxFileAccess` has read, write and exclusive write; the other commands of the
  helper are one system call each behind the same `#run`.
* `ProcessSupervisor` has one cancellation for its caller and its two deadlines;
  output capture, the pty adapter and the messages of the relay are left out, and
  of the adapter's input only its failure. Two effects of it are visible in the
  model and limit what the properties say: a cancel that arrives while a failed
  start still writes its warning turns the exited record back to exiting, and
  the late result of a relay run whose identity was reused is written to the
  record of its successor (`Shadowed`).
* `WorkerLease` has node-backed environments with a dedicated VM. SSH leases,
  shared hosts and attached sessions belong to other providers. A restart of the
  gateway ends the embedded VMs with it.
* A failed `vm.dispose()` is a flag (`leaked`), because nothing in the code can
  reach that VM any more.
* Code with no state between calls (file API, SDK surface, preflight, shims), the
  rest of the vendored core and the scripts: `PROJECT.json` gives the reason for
  each.

## 6. Plan

Left to do, in this order:

1. Safety cores of the liveness properties: for each, that the step they wait for
   stays possible (a pending promise has a pending event, a killed run a live
   timer), which is an invariant and can be proved although the progress itself
   cannot.
2. `NativeProcess`: `#exec` (spawn, wait, outcome) and the queries of records.
3. `HostSqlite`: the handle table and its limits; results refused after effects.
4. `WriteLargeFile` and `ArtifactStore`: parts, join, rename and cleanup under
   partial failure; sealing against writes under way.
