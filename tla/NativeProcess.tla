--------------------------- MODULE NativeProcess ---------------------------
(***************************************************************************)
(* The process manager of one workspace handle: #spawn, #kill, the child's   *)
(* callbacks, process.kill and dispose() of                                  *)
(* packages/agentos-sdk/src/native.ts.                                       *)
(*                                                                         *)
(* Callers, child events, timers, abort signals and disposal interleave at   *)
(* the awaits of #spawn and dispose.  With Linux = TRUE a process is a job   *)
(* of linux-process-driver.ts (module LinuxJob), with FALSE it is a detached *)
(* child that leads its own process group.                                   *)
(***************************************************************************)
EXTENDS Naturals, FiniteSets

CONSTANTS
    Calls,          \* spawn calls, each with its own child
    MaxActive,      \* managedProcessLimit
    MaxRetained,    \* retainedProcessLimit
    Linux,          \* a LinuxProcessDriver is present
    Inputs          \* what callers and children may do besides running and exiting

ASSUME CallsAssumption == IsFiniteSet(Calls)
ASSUME LimitAssumption == MaxActive \in Nat \ {0} /\ MaxRetained \in Nat \ {0}
ASSUME LinuxAssumption == Linux \in BOOLEAN
ASSUME InputsAssumption == Inputs \subseteq {"stdin", "timeout", "abort", "output", "kill", "fork"}

\* The choices an input leaves open.
Maybe(input) == IF input \in Inputs THEN BOOLEAN ELSE {FALSE}

VARIABLES
    \* the handle
    pc,         \* where each #spawn is
    inFlight,   \* #inFlight
    records,    \* #records
    pid,        \* each record's pid: the order of #records
    next,       \* #next
    disposal,   \* open, draining, racing, resolved, rejected
    awaited,    \* calls whose promises disposal waits for
    \* each call's record
    exit,       \* the outcome of r.exit, or none
    failure,    \* r.failure is set
    timedOut,   \* r.timeout
    timer,      \* the timeout is armed
    aborted,    \* the caller's signal is aborted
    \* the host
    leader,     \* the child: none, running, or how it ended
    kid,        \* a descendant: none, in the group, or escaped by setsid()
    holds,      \* the descendant holds the child's pipes
    killed,     \* calls whose group, or job, was sent SIGKILL
    exitSeen    \* calls whose child's exit event was delivered

handleVars == <<pc, inFlight, records, pid, next, disposal, awaited>>
recordVars == <<exit, failure, timedOut, timer, aborted>>
hostVars == <<leader, kid, holds, killed, exitSeen>>
vars == <<handleVars, recordVars, hostVars>>

Closed == disposal # "open"

\* Calls inside the try of #spawn, and so members of #pending.
InTry == {"resolving", "preparing", "starting", "writing", "ending"}
Pending == {c \in Calls : pc[c] \in InTry}

Unfinished == {c \in records : exit[c] = "none"}
Managed == Pending \cup Unfinished

Init ==
    /\ pc = [c \in Calls |-> "idle"] /\ inFlight = 0
    /\ records = {} /\ pid = [c \in Calls |-> 0] /\ next = 1
    /\ disposal = "open" /\ awaited = {}
    /\ exit = [c \in Calls |-> "none"] /\ failure = [c \in Calls |-> FALSE]
    /\ timedOut = [c \in Calls |-> FALSE] /\ timer = [c \in Calls |-> FALSE]
    /\ aborted = [c \in Calls |-> FALSE]
    /\ leader = [c \in Calls |-> "none"] /\ kid = [c \in Calls |-> "none"]
    /\ holds = [c \in Calls |-> FALSE] /\ killed = {} /\ exitSeen = {}

-----------------------------------------------------------------------------
(* #kill and finish.                                                       *)

\* #kill(r, 'SIGKILL') for a set of records: a finished one is left alone.
Kill(C) == killed' = killed \cup {c \in C : exit[c] = "none"}

\* Mutant: one finished record too many is kept.
EvictedLate(recs, ex, order) ==
    LET finished == {c \in recs : ex[c] # "none"}
    IN  {c \in finished : Cardinality({d \in finished : order[d] > order[c]}) > MaxRetained}

\* The finished records beyond the newest MaxRetained.
Evicted(recs, ex, order) ==
    LET finished == {c \in recs : ex[c] # "none"}
    IN  {c \in finished : Cardinality({d \in finished : order[d] > order[c]}) >= MaxRetained}

\* r.exit.outcome.
Outcome(c, error) ==
    IF timedOut[c] THEN "timed_out"
    ELSE IF error \/ failure[c] \/ leader[c] = "signal" THEN "signalled"
    ELSE "exited"

\* finish(): the first verdict counts, then history is trimmed.
Finish(c, recs, order, outcome) ==
    /\ exit' = [exit EXCEPT ![c] = outcome]
    /\ timer' = [timer EXCEPT ![c] = FALSE]
    /\ records' = recs \ Evicted(recs, exit', order)

-----------------------------------------------------------------------------
(* #spawn.                                                                 *)

\* #spawn leaves its try: the promise settles and #inFlight goes down.
Leave(c, how) ==
    /\ pc' = [pc EXCEPT ![c] = how]
    /\ inFlight' = inFlight - 1

\* Mutant: calls that have no record yet are not counted.
AtLimitRecordsOnly == Cardinality(Unfinished) >= MaxActive

AtLimit == inFlight + Cardinality(Unfinished) >= MaxActive

\* The synchronous head of #spawn: disposed, invalid or already aborted, at the
\* limit, or admitted.
Spawn(c) ==
    /\ pc[c] = "idle"
    /\ \/ /\ pc' = [pc EXCEPT ![c] = "threw"]
          /\ UNCHANGED inFlight
       \/ /\ ~Closed /\ ~aborted[c] /\ AtLimit
          /\ pc' = [pc EXCEPT ![c] = "limited"]
          /\ UNCHANGED inFlight
       \/ /\ ~Closed /\ ~aborted[c] /\ ~AtLimit
          /\ pc' = [pc EXCEPT ![c] = "resolving"]
          /\ inFlight' = inFlight + 1
    /\ UNCHANGED <<records, pid, next, disposal, awaited, recordVars, hostVars>>

\* Spawning the child, its record and its callbacks.  spawn throws, or its error
\* event finishes the record at once, or the child runs.  A detached child has
\* started by then; a job is still to become ready.  stdin: the call has input.
Launch(c) ==
    \/ /\ Leave(c, "threw")
       /\ UNCHANGED <<records, pid, next, recordVars, hostVars>>
    \/ /\ pid' = [pid EXCEPT ![c] = next] /\ next' = next + 1
       /\ Finish(c, records \cup {c}, pid', "signalled")
       /\ Leave(c, "threw")
       /\ UNCHANGED <<failure, timedOut, aborted, hostVars>>
    \/ /\ pid' = [pid EXCEPT ![c] = next] /\ next' = next + 1
       /\ records' = records \cup {c}
       /\ \E timeout \in Maybe("timeout") : timer' = [timer EXCEPT ![c] = timeout]
       /\ leader' = [leader EXCEPT ![c] = "running"]
       /\ \E stdin \in Maybe("stdin") :
             IF Linux \/ stdin
             THEN /\ pc' = [pc EXCEPT ![c] = IF Linux THEN "starting" ELSE "writing"]
                  /\ UNCHANGED inFlight
             ELSE Leave(c, "returned")
       /\ UNCHANGED <<exit, failure, timedOut, aborted, kid, holds, killed, exitSeen>>

\* Mutant: disposal and abort are not looked at again.
RefusedNever(c) == FALSE

\* The recheck after an await.
Refused(c) == Closed \/ aborted[c]

\* realpath and stat of the working directory have answered.
Resolved(c) ==
    /\ pc[c] = "resolving"
    /\ \/ /\ Leave(c, "threw")
          /\ UNCHANGED <<records, pid, next, recordVars, hostVars>>
       \/ /\ ~Refused(c)
          /\ \/ ~Linux /\ Launch(c)
             \/ /\ Linux
                /\ pc' = [pc EXCEPT ![c] = "preparing"]
                /\ UNCHANGED <<inFlight, records, pid, next, recordVars, hostVars>>
    /\ UNCHANGED <<disposal, awaited>>

\* The driver's prepare() has answered; a refused job is cancelled first.
Prepared(c) ==
    /\ pc[c] = "preparing"
    /\ \/ /\ Leave(c, "threw")
          /\ UNCHANGED <<records, pid, next, recordVars, hostVars>>
       \/ ~Refused(c) /\ Launch(c)
    /\ UNCHANGED <<disposal, awaited>>

\* The job's ready promise.  Once it is ready, a disposed handle kills it, and
\* input cannot be written to it any more.
Ready(c) ==
    /\ pc[c] = "starting"
    /\ \/ Leave(c, "threw") /\ UNCHANGED killed
       \/ /\ Closed /\ Kill({c})
          /\ \E how \in {"returned", "threw"} : Leave(c, how)
       \/ ~Closed /\ Leave(c, "returned") /\ UNCHANGED killed
       \/ /\ "stdin" \in Inputs /\ ~Closed
          /\ pc' = [pc EXCEPT ![c] = "writing"]
          /\ UNCHANGED <<inFlight, killed>>
    /\ UNCHANGED <<records, pid, next, disposal, awaited, recordVars,
                   leader, kid, holds, exitSeen>>

\* The child has taken its input; closeStdin looks the process up again.
Written(c) ==
    /\ pc[c] = "writing" /\ c \notin exitSeen
    /\ \/ /\ Closed \/ c \notin records
          /\ Kill({c}) /\ Leave(c, "threw")
       \/ /\ ~Closed /\ c \in records
          /\ pc' = [pc EXCEPT ![c] = "ending"]
          /\ UNCHANGED <<inFlight, killed>>
    /\ UNCHANGED <<records, pid, next, disposal, awaited, recordVars,
                   leader, kid, holds, exitSeen>>

Ended(c) ==
    /\ pc[c] = "ending"
    /\ Leave(c, "returned")
    /\ UNCHANGED <<records, pid, next, disposal, awaited, recordVars, hostVars>>

\* The child closed its input, or ended: the write is refused.
StdinFails(c) ==
    /\ pc[c] \in {"writing", "ending"}
    /\ Kill({c}) /\ Leave(c, "threw")
    /\ UNCHANGED <<records, pid, next, disposal, awaited, recordVars,
                   leader, kid, holds, exitSeen>>

-----------------------------------------------------------------------------
(* Callbacks and requests.                                                 *)

Live(c) == leader[c] # "none" /\ exit[c] = "none"

TimerFires(c) ==
    /\ timer[c]
    /\ timer' = [timer EXCEPT ![c] = FALSE]
    /\ timedOut' = [timedOut EXCEPT ![c] = TRUE]
    /\ Kill({c})
    /\ UNCHANGED <<handleVars, exit, failure, aborted, leader, kid, holds, exitSeen>>

\* The caller aborts; the listener exists from launch to finish.
Abort(c) ==
    /\ "abort" \in Inputs /\ ~aborted[c]
    /\ aborted' = [aborted EXCEPT ![c] = TRUE]
    /\ IF Live(c) THEN failure' = [failure EXCEPT ![c] = TRUE] /\ Kill({c})
                  ELSE UNCHANGED <<failure, killed>>
    /\ UNCHANGED <<handleVars, exit, timedOut, timer, leader, kid, holds, exitSeen>>

\* collect(): output over the limit, or an output callback that throws.
Overrun(c) ==
    /\ "output" \in Inputs /\ Live(c) /\ ~failure[c]
    /\ failure' = [failure EXCEPT ![c] = TRUE]
    /\ Kill({c})
    /\ UNCHANGED <<handleVars, exit, timedOut, timer, aborted, leader, kid, holds, exitSeen>>

\* stdin's error event, other than EPIPE: noted only.
StdinError(c) ==
    /\ "stdin" \in Inputs /\ Live(c) /\ ~failure[c]
    /\ failure' = [failure EXCEPT ![c] = TRUE]
    /\ UNCHANGED <<handleVars, exit, timedOut, timer, aborted, hostVars>>

\* process.kill(pid).
KillCall(c) ==
    /\ "kill" \in Inputs /\ ~Closed /\ c \in records /\ Live(c) /\ c \notin killed
    /\ Kill({c})
    /\ UNCHANGED <<handleVars, recordVars, leader, kid, holds, exitSeen>>

\* Mutant: the group is not killed when its leader exits.
ExitEventOnly(c) ==
    /\ leader[c] \in {"code", "signal"} /\ c \notin exitSeen
    /\ exitSeen' = exitSeen \cup {c}
    /\ UNCHANGED <<handleVars, recordVars, leader, kid, holds, killed>>

\* The child's exit event: a detached child's group is killed.
ExitEvent(c) ==
    /\ leader[c] \in {"code", "signal"} /\ c \notin exitSeen
    /\ exitSeen' = exitSeen \cup {c}
    /\ IF Linux THEN UNCHANGED killed ELSE Kill({c})
    /\ UNCHANGED <<handleVars, recordVars, leader, kid, holds>>

\* No process keeps the pipes open, or disposal destroyed this end of them.
Drained(c) ==
    \/ kid[c] = "none" \/ ~holds[c]
    \/ disposal \in {"resolved", "rejected"} /\ c \in awaited

\* The child's close event.  A job's finish() may also reject; its launch has
\* settled before.
CloseEvent(c) ==
    /\ c \in exitSeen /\ Live(c) /\ Drained(c)
    /\ pc[c] # "starting"
    /\ \E error \in (IF Linux THEN BOOLEAN ELSE {FALSE}) : Finish(c, records, pid, Outcome(c, error))
    /\ UNCHANGED <<pc, inFlight, pid, next, disposal, awaited,
                   failure, timedOut, aborted, hostVars>>

-----------------------------------------------------------------------------
(* dispose().                                                              *)

Dispose ==
    /\ ~Closed
    /\ disposal' = "draining"
    /\ awaited' = Pending
    /\ UNCHANGED <<pc, inFlight, records, pid, next, recordVars, hostVars>>

\* Mutant: the pending spawns are not waited for.
DisposeKillNow ==
    /\ disposal = "draining"
    /\ disposal' = "racing"
    /\ awaited' = records
    /\ Kill(records)
    /\ UNCHANGED <<pc, inFlight, records, pid, next, recordVars, leader, kid, holds, exitSeen>>

\* Every pending spawn has settled: kill what is recorded.
DisposeKill ==
    /\ disposal = "draining" /\ awaited \cap Pending = {}
    /\ disposal' = "racing"
    /\ awaited' = records
    /\ Kill(records)
    /\ UNCHANGED <<pc, inFlight, records, pid, next, recordVars, leader, kid, holds, exitSeen>>

\* Mutant: sending the signals is enough.
AllDoneAssumed == TRUE

AllDone == \A c \in awaited : exit[c] # "none"

DisposeResolve ==
    /\ disposal = "racing" /\ AllDone
    /\ disposal' = "resolved"
    /\ records' = {}
    /\ UNCHANGED <<pc, inFlight, pid, next, awaited, recordVars, hostVars>>

\* Mutant: the wait is not bounded.
DisposeTimeoutNever == FALSE

\* CLEANUP_TIMEOUT.
DisposeTimeout ==
    /\ disposal = "racing" /\ ~AllDone
    /\ disposal' = "rejected"
    /\ records' = {}
    /\ UNCHANGED <<pc, inFlight, pid, next, awaited, recordVars, hostVars>>

-----------------------------------------------------------------------------
(* The host.                                                               *)

\* The child forks; the descendant may leave the group or close the pipes.
Fork(c) ==
    /\ "fork" \in Inputs /\ leader[c] = "running" /\ kid[c] = "none" /\ c \notin killed
    /\ \E where \in {"group", "escaped"} : kid' = [kid EXCEPT ![c] = where]
    /\ \E pipes \in BOOLEAN : holds' = [holds EXCEPT ![c] = pipes]
    /\ UNCHANGED <<handleVars, recordVars, leader, killed, exitSeen>>

\* The child ends by itself.  A job's supervisor kills what is left, unless it
\* fails at that.
LeaderEnds(c) ==
    /\ leader[c] = "running" /\ c \notin killed
    /\ \E how \in {"code", "signal"} : leader' = [leader EXCEPT ![c] = how]
    /\ \/ UNCHANGED kid
       \/ Linux /\ kid[c] # "none" /\ kid' = [kid EXCEPT ![c] = "none"]
    /\ UNCHANGED <<handleVars, recordVars, holds, killed, exitSeen>>

\* Mutant: the signal is sent to the child alone.
ReachedLeaderOnly(c) == Linux /\ kid[c] # "none"

\* What SIGKILL reaches: the process group, or all of a job.
Reached(c) == kid[c] = "group" \/ (Linux /\ kid[c] = "escaped")

\* SIGKILL takes effect.
Die(c) ==
    /\ c \in killed
    /\ leader[c] = "running" \/ Reached(c)
    /\ leader' = [leader EXCEPT ![c] = IF @ = "running" THEN "signal" ELSE @]
    /\ kid' = [kid EXCEPT ![c] = IF Reached(c) THEN "none" ELSE @]
    /\ UNCHANGED <<handleVars, recordVars, holds, killed, exitSeen>>

-----------------------------------------------------------------------------
CallStep(c) ==
    \/ Spawn(c) \/ Resolved(c) \/ Prepared(c) \/ Ready(c)
    \/ Written(c) \/ Ended(c) \/ StdinFails(c)
    \/ TimerFires(c) \/ Abort(c) \/ Overrun(c) \/ StdinError(c) \/ KillCall(c)
    \/ ExitEvent(c) \/ CloseEvent(c)
    \/ Fork(c) \/ LeaderEnds(c) \/ Die(c)

DisposeStep == Dispose \/ DisposeKill \/ DisposeResolve \/ DisposeTimeout

Next == DisposeStep \/ \E c \in Calls : CallStep(c)

Spec == Init /\ [][Next]_vars

\* File system calls, timers and events reach the event loop, readiness is bounded
\* by the driver (LinuxJob!LaunchSettles) and SIGKILL takes effect.  A child that
\* does not read its input is not made to, but its end fails the write.
Fairness ==
    /\ \A c \in Calls :
          /\ WF_vars(Resolved(c)) /\ WF_vars(Prepared(c)) /\ WF_vars(Ready(c))
          /\ WF_vars(c \in exitSeen /\ StdinFails(c))
          /\ WF_vars(TimerFires(c))
          /\ WF_vars(ExitEvent(c)) /\ WF_vars(CloseEvent(c)) /\ WF_vars(Die(c))
    /\ WF_vars(DisposeKill) /\ WF_vars(DisposeResolve) /\ WF_vars(DisposeTimeout)

FairSpec == Spec /\ Fairness

-----------------------------------------------------------------------------
(* Properties.                                                             *)

TypeOK ==
    /\ pc \in [Calls -> InTry \cup {"idle", "threw", "limited", "returned"}]
    /\ inFlight \in Nat /\ next \in Nat
    /\ records \subseteq Calls /\ pid \in [Calls -> Nat]
    /\ disposal \in {"open", "draining", "racing", "resolved", "rejected"}
    /\ awaited \subseteq Calls
    /\ exit \in [Calls -> {"none", "exited", "signalled", "timed_out"}]
    /\ failure \in [Calls -> BOOLEAN] /\ timedOut \in [Calls -> BOOLEAN]
    /\ timer \in [Calls -> BOOLEAN] /\ aborted \in [Calls -> BOOLEAN]
    /\ leader \in [Calls -> {"none", "running", "code", "signal"}]
    /\ kid \in [Calls -> {"none", "group", "escaped"}] /\ holds \in [Calls -> BOOLEAN]
    /\ killed \subseteq Calls /\ exitSeen \subseteq Calls

\* managedProcessLimit holds however many spawns are admitted before the first of
\* them launches (native.ts lines 111-112, 130 and 169): calls in flight and
\* unfinished processes together never exceed it.
ManagedBound == Cardinality(Managed) <= MaxActive

\* retainedProcessLimit bounds the finished records (lines 139-140), whatever
\* order the processes finish in.
RetainedBound == Cardinality({c \in records : exit[c] # "none"}) <= MaxRetained

\* "same-process-group descendants are stopped when shell exits" (line 153): a
\* process is reported finished only when it has ended and its group was killed.
FinishedGroupIsKilled ==
    \A c \in Calls : exit[c] # "none" /\ leader[c] # "none" =>
        leader[c] # "running" /\ (~Linux /\ kid[c] = "group" => c \in killed)

\* A dispose() that resolves leaves no child running, those of spawns that raced
\* with it and those whose records were evicted included (lines 166, 199-204).
DisposedMeansDead ==
    disposal = "resolved" => \A c \in Calls : leader[c] # "running"

\* dispose() settles after every spawn it raced with, so that no spawn works on
\* the workspace afterwards (line 199).
DisposeWaitsForSpawns ==
    disposal \in {"racing", "resolved", "rejected"} => Pending = {}

\* "never launches after disposal" (line 117 and 123): no child is born once
\* dispose() was called, whichever await it was called at.
NoLaunchAfterDispose ==
    [][Closed => \A c \in Calls : leader[c] = "none" => leader'[c] = "none"]_vars

\* A process that was killed is reported finished (lines 100-104, 153-158), except
\* over a descendant that escaped a native group and holds the pipes for ever.
KilledFinishes ==
    \A c \in Calls : c \in killed ~>
        exit[c] # "none" \/ [](~Linux /\ kid[c] = "escaped" /\ holds[c])

\* dispose() settles (lines 199-205) unless a spawn it waits for goes on writing
\* its input for ever.
DisposeSettlesOrWrites ==
    disposal = "draining" ~>
        \/ disposal \in {"resolved", "rejected"}
        \/ [](\E c \in Calls : pc[c] \in {"writing", "ending"})

\* "Cleanup waits are bounded and can report CLEANUP_TIMEOUT" (README of the SDK,
\* lines 112-113): dispose() settles.
DisposeSettles == Closed ~> disposal \in {"resolved", "rejected"}

=============================================================================
