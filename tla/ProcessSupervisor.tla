-------------------------- MODULE ProcessSupervisor --------------------------
(***************************************************************************)
(* The process supervisor that runs the agent's commands:                    *)
(* packages/openclaw-core/upstream/src/process/supervisor/                   *)
(* supervisor-runtime.ts with its registry.ts, over an adapter such as       *)
(* packages/openclaw-core/src/sdk-process-adapter.mjs.                       *)
(*                                                                         *)
(* A run is fenced (behind the starts it replaces or that replace it),       *)
(* creating (its adapter is awaited), live (it has one) and, when it never   *)
(* gets one, stillborn or warning until its reservation is cleared.  Run      *)
(* identities are reused; the registry keeps the records of the last ones.   *)
(* The maps startingRuns and active are functions of the runs' stages.        *)
(***************************************************************************)
EXTENDS Naturals, FiniteSets

CONSTANTS
    Calls,      \* spawn() calls
    Ids,        \* run identities
    IdsOf,      \* the identities each call may be given
    Scopes,     \* scope keys; a run without one is alone in its scope
    MaxExited,  \* maxExitedRecords
    Adapters,   \* kinds of adapter: "sdk", "job" (an SDK handle over Linux jobs), "relay"
    Troubles    \* what may go wrong with a live run: "input", "output", "loss", "escape"

ASSUME IdAssumption == IdsOf \in [Calls -> SUBSET Ids]
ASSUME LimitAssumption == MaxExited \in Nat \ {0}
ASSUME AdapterAssumption == Adapters \subseteq {"sdk", "job", "relay"}
ASSUME TroubleAssumption == Troubles \subseteq {"input", "output", "loss", "escape"}

VARIABLES
    run,        \* each call's run
    reg,        \* the registry: records, who is older than whom, exitedRecords
    holders,    \* runs whose command is over while a descendant that left its process
                \* group still holds the output pipes
    shut,       \* open, requested (shuttingDown), waiting, resolved, rejected
    awaited,    \* the runs of shutdown's current snapshot
    lost        \* firstFailure of shutdown is set

vars == <<run, reg, holders, shut, awaited, lost>>

Unused == [stage |-> "unused", id |-> "none", scope |-> "none", replace |-> FALSE,
           order |-> 0, behind |-> {}, forced |-> "none", asked |-> FALSE,
           timer |-> "none", adapter |-> "none", root |-> "none", killed |-> FALSE,
           failed |-> FALSE, group |-> "none", result |-> "none"]

NoRecord == [state |-> "none", reason |-> "none"]

Init ==
    /\ run = [c \in Calls |-> Unused]
    /\ reg = [rec |-> [i \in Ids |-> NoRecord], older |-> {}, exited |-> 0]
    /\ holders = {}
    /\ shut = "open" /\ awaited = [starts |-> {}, owned |-> {}] /\ lost = FALSE

\* releaseOwnership was called.  A relay tells when its group is extinct; for
\* the other adapters the result is all there is.
Extinct(r) == IF r.adapter = "relay" THEN r.group \in {"extinct", "lost"} ELSE r.result # "none"

\* The maps startingRuns and active.
startingRuns(rs) == {c \in Calls : rs[c].stage \in {"fenced", "creating", "stillborn", "warning"}}
active(rs) == {c \in Calls : rs[c].stage = "live" /\ ~Extinct(rs[c])}
Owned(rs) == startingRuns(rs) \cup active(rs)

\* The events of processes and timers come when no promise continuation is left
\* to run: a passed fence, a settled snapshot, a cleared reservation.
Cleared(c) == run[c].stage = "fenced" /\ run[c].behind \cap startingRuns(run) = {}
Settled ==
    /\ awaited.starts \cap startingRuns(run) = {}
    /\ awaited.owned \cap active(run) = {}
Quiet ==
    /\ shut # "requested" /\ ~(shut = "waiting" /\ Settled)
    /\ \A c \in Calls : ~Cleared(c) /\ run[c].stage # "stillborn"

-----------------------------------------------------------------------------
(* The registry.                                                           *)

Exits(g, before, after) ==
    IF before # "exited" /\ after = "exited" THEN g.exited + 1
    ELSE IF before = "exited" /\ after # "exited" THEN g.exited - 1
    ELSE g.exited

\* records.set: a new identity is the youngest, a known one keeps its place.
Add(g, i, state, reason) ==
    [rec |-> [g.rec EXCEPT ![i] = [state |-> state, reason |-> reason]],
     older |-> IF g.rec[i].state # "none" THEN g.older
               ELSE g.older \cup {<<j, i>> : j \in {j \in Ids : g.rec[j].state # "none"}},
     exited |-> Exits(g, g.rec[i].state, state)]

\* updateState; the reason is kept when the patch has none.
Update(g, i, state, reason) ==
    IF g.rec[i].state = "none" THEN g
    ELSE [g EXCEPT !.rec[i] = [state |-> state,
                               reason |-> IF reason = "none" THEN @.reason ELSE reason],
                   !.exited = Exits(g, g.rec[i].state, state)]

\* Mutant: the oldest records leave, whatever their state.
PruneAny(g) ==
    LET known == {i \in Ids : g.rec[i].state # "none"}
        over == IF g.exited > MaxExited THEN g.exited - MaxExited ELSE 0
        gone == {i \in known : Cardinality({j \in known : <<j, i>> \in g.older}) < over}
    IN  [rec |-> [i \in Ids |-> IF i \in gone THEN NoRecord ELSE g.rec[i]],
         older |-> {p \in g.older : p[1] \notin gone /\ p[2] \notin gone},
         exited |-> g.exited - Cardinality(gone)]

\* pruneExitedRecords: the exited records leave, oldest first, until MaxExited
\* are left.
Prune(g) ==
    LET exited == {i \in Ids : g.rec[i].state = "exited"}
        over == IF g.exited > MaxExited THEN g.exited - MaxExited ELSE 0
        gone == {i \in exited : Cardinality({j \in exited : <<j, i>> \in g.older}) < over}
    IN  [rec |-> [i \in Ids |-> IF i \in gone THEN NoRecord ELSE g.rec[i]],
         older |-> {p \in g.older : p[1] \notin gone /\ p[2] \notin gone},
         exited |-> g.exited - Cardinality(gone)]

\* Mutant: the last observation wins.
FinalizeLast(g, i, reason) ==
    IF g.rec[i].state \in {"none", "exited"} THEN g
    ELSE Prune([g EXCEPT !.rec[i] = [state |-> "exited", reason |-> reason],
                         !.exited = @ + 1])

\* finalize: the first terminal observation wins.
Finalize(g, i, reason) ==
    IF g.rec[i].state \in {"none", "exited"} THEN g
    ELSE Prune([g EXCEPT !.rec[i] = [state |-> "exited",
                                     reason |-> IF @.reason = "none" THEN reason ELSE @.reason],
                         !.exited = @ + 1])

-----------------------------------------------------------------------------
(* Cancellation.                                                           *)

\* adapter.kill.  A Linux job refuses SIGTERM, and the refusal is kept as the
\* adapter's failure; a process whose exit is recorded is not signalled.
Kill(r, signal) ==
    IF r.root = "ended" /\ r.group # "held" THEN r
    ELSE IF signal = "TERM" /\ r.adapter = "job" THEN [r EXCEPT !.failed = TRUE]
    ELSE [r EXCEPT !.killed = @ \/ signal = "KILL"]

\* setForcedReason, the run's own part.
Forced(r, reason) ==
    IF r.forced = "none" /\ r.result = "none" THEN [r EXCEPT !.forced = reason] ELSE r

\* cancelAdapter: SIGTERM and the kill timer; SIGKILL at once when the result
\* is already there and only descendants are left.
CancelAdapter(r) ==
    IF Extinct(r) \/ (r.asked /\ ~(r.result # "none" /\ r.timer # "none")) THEN r
    ELSE IF r.result # "none" THEN [Kill(r, "KILL") EXCEPT !.asked = TRUE, !.timer = "none"]
    ELSE [Kill(r, "TERM") EXCEPT !.asked = TRUE, !.timer = "armed"]

\* requestCancel of a live run.
RequestCancel(r, reason) == CancelAdapter(Forced(r, reason))

\* cancel() of one run: terminationReason of a start that has not begun is what
\* forcedReason is afterwards.
Cancelled(r, reason) ==
    IF r.stage = "live" THEN RequestCancel(r, reason) ELSE Forced(r, reason)

\* cancel() in the registry: a start's record is updated whatever its state.
Noted(g, rs, c, reason) ==
    IF rs[c].stage = "live"
    THEN IF rs[c].forced = "none" /\ rs[c].result = "none"
         THEN Update(g, rs[c].id, "exiting", reason) ELSE g
    ELSE Update(g, rs[c].id, "exiting",
                IF rs[c].forced = "none" THEN reason ELSE rs[c].forced)

\* The runs of cs are cancelled in turn; each touches its own record only.
CancelRuns(rs, cs, reason) ==
    [c \in Calls |-> IF c \in cs THEN Cancelled(rs[c], reason) ELSE rs[c]]
CancelRecords(g, rs, cs, reason) ==
    LET of(i) == {c \in cs : rs[c].id = i}
        now(i) == IF of(i) = {} THEN g ELSE Noted(g, rs, CHOOSE c \in of(i) : TRUE, reason)
        back == {i \in Ids : g.rec[i].state = "exited" /\ now(i).rec[i].state # "exited"}
    IN  [g EXCEPT !.rec = [i \in Ids |-> now(i).rec[i]],
                  !.exited = @ - Cardinality(back)]
CancelSet(cs, reason) ==
    /\ run' = CancelRuns(run, cs, reason)
    /\ reg' = CancelRecords(reg, run, cs, reason)

\* cancel(runId), managedRun.cancel() or one of the run's deadlines: the reasons
\* they give are one here.
Cancel(c) ==
    /\ run[c].stage \notin {"unused", "over"}
    /\ CancelSet({c}, "manual-cancel")
    /\ UNCHANGED <<holders, shut, awaited, lost>>

\* cancelScope(scopeKey).
CancelScope(s) ==
    /\ CancelSet({c \in Owned(run) : run[c].scope = s}, "manual-cancel")
    /\ UNCHANGED <<holders, shut, awaited, lost>>
-----------------------------------------------------------------------------
(* Starting a run.                                                         *)

Taken(rs, i) == \E c \in Owned(rs) : rs[c].id = i

\* Mutant: a replacement does not hold back what comes after it.
PreviousUnfenced(rs, scope, replace) ==
    IF replace THEN {c \in startingRuns(rs) : rs[c].scope = scope} ELSE {}

\* Mutant: a replacement does not wait for the starts before it.
PreviousUnwaited(rs, scope, replace) ==
    IF replace THEN {}
    ELSE {c \in startingRuns(rs) : rs[c].scope = scope /\ rs[c].replace}

\* What a spawn waits for: a replacement for every start of its scope, another
\* run for the scope's last replacement.
Previous(rs, scope, replace) ==
    LET peers == {c \in startingRuns(rs) : rs[c].scope = scope}
    IN  IF replace THEN peers
        ELSE {c \in peers : rs[c].replace /\ \A d \in peers : rs[d].replace => rs[d].order <= rs[c].order}

\* startRun of c up to its first await: a cancelled start is recorded and never
\* launched, a replacement cancels the active runs of its scope.
Started(rs, c) ==
    IF rs[c].forced # "none" THEN [rs EXCEPT ![c].stage = "stillborn"]
    ELSE [CancelRuns(rs, {d \in active(rs) : rs[c].replace /\ rs[d].scope = rs[c].scope},
                     "manual-cancel") EXCEPT ![c].stage = "creating"]
Recorded(g, rs, c) ==
    IF rs[c].forced # "none"
    THEN Finalize(Add(g, rs[c].id, "exiting", rs[c].forced), rs[c].id, rs[c].forced)
    ELSE CancelRecords(Add(g, rs[c].id, "starting", "none"), rs,
             {d \in active(rs) : rs[c].replace /\ rs[d].scope = rs[c].scope}, "manual-cancel")

\* spawn().  Without anything to wait for, startRun begins at once.
Spawn(c) ==
    /\ run[c].stage = "unused"
    /\ \E i \in IdsOf[c], scope \in Scopes, replace \in BOOLEAN :
        LET refused == shut # "open" \/ Taken(run, i)
            previous == Previous(run, scope, replace)
            order == 1 + Cardinality({d \in Calls : run[d].stage # "unused"})
            reserved == [run EXCEPT ![c] = [Unused EXCEPT !.stage = "fenced", !.id = i,
                !.scope = scope, !.replace = replace,
                !.order = order, !.behind = previous]]
        IN  \/ refused /\ run' = [run EXCEPT ![c].stage = "over"] /\ UNCHANGED reg
            \/ ~refused /\ previous # {} /\ run' = reserved /\ UNCHANGED reg
            \/ /\ ~refused /\ previous = {}
               /\ run' = Started(reserved, c)
               /\ reg' = Recorded(reg, reserved, c)
    /\ UNCHANGED <<holders, shut, awaited, lost>>

\* Promise.allSettled(previous).then(startRun).
PassFence(c) ==
    /\ Cleared(c)
    /\ run' = [Started(run, c) EXCEPT ![c].behind = {}]
    /\ reg' = Recorded(reg, run, c)
    /\ UNCHANGED <<holders, shut, awaited, lost>>

\* Mutant: a cancellation during createAdapter is forgotten.
AdoptedUncancelled(r, kind) ==
    [r EXCEPT !.stage = "live", !.adapter = kind, !.root = "running",
              !.group = IF kind = "relay" THEN "held" ELSE "none"]

\* The run gets its adapter, and the cancellation that arrived before it.
Adopted(r, kind) ==
    LET live == [r EXCEPT !.stage = "live", !.adapter = kind, !.root = "running",
                          !.group = IF kind = "relay" THEN "held" ELSE "none"]
    IN  IF r.forced = "none" THEN live ELSE RequestCancel(live, r.forced)

\* createAdapter settles.  A failed start keeps its reservation while the warning
\* is written.
AdapterCreated(c) ==
    /\ run[c].stage = "creating"
    /\ \/ /\ \E kind \in Adapters : run' = [run EXCEPT ![c] = Adopted(@, kind)]
          /\ reg' = Update(reg, run[c].id, IF run[c].forced = "none" THEN "running" ELSE "exiting",
                           run[c].forced)
       \/ /\ run' = [run EXCEPT ![c].stage = "warning"]
          /\ reg' = Finalize(reg, run[c].id, "spawn-error")
    /\ UNCHANGED <<holders, shut, awaited, lost>>

\* clearPendingStart of a run that got no process.
ClearPendingStart(c) ==
    /\ run[c].stage \in {"stillborn", "warning"}
    /\ run' = [run EXCEPT ![c].stage = "over"]
    /\ UNCHANGED <<reg, holders, shut, awaited, lost>>

-----------------------------------------------------------------------------
(* A live run.  Its failed flag says that wait() will reject.              *)

\* releaseOwnership clears forceKillTimer.
Released(r) == IF Extinct(r) THEN [r EXCEPT !.timer = "none"] ELSE r

\* The command ends, by itself or by a signal.  A descendant that left its group
\* may outlive it with the pipes open; none leaves the cgroup of a Linux job.
RootEnds(c) ==
    /\ run[c].root = "running"
    /\ run' = [run EXCEPT ![c].root = "ended"]
    /\ \/ UNCHANGED holders
       \/ "escape" \in Troubles /\ run[c].adapter # "job" /\ holders' = holders \cup {c}
    /\ UNCHANGED <<reg, shut, awaited, lost>>

\* The last descendant with the pipes open exits.
HolderExits(c) ==
    /\ c \in holders
    /\ holders' = holders \ {c}
    /\ UNCHANGED <<run, reg, shut, awaited, lost>>

\* failInput: the input could not be written or closed.
InputFails(c) ==
    /\ "input" \in Troubles /\ Quiet
    /\ run[c].stage = "live" /\ run[c].adapter # "relay"
    /\ run[c].root = "running" /\ ~run[c].failed
    /\ run' = [run EXCEPT ![c] = Kill([@ EXCEPT !.failed = TRUE], "KILL")]
    /\ UNCHANGED <<reg, holders, shut, awaited, lost>>

\* An output listener throws.
ListenerThrows(c) ==
    /\ "output" \in Troubles /\ Quiet
    /\ run[c].stage = "live" /\ run[c].result = "none" /\ ~run[c].failed
    /\ run' = [run EXCEPT ![c] = RequestCancel([@ EXCEPT !.failed = TRUE], "spawn-error")]
    /\ reg' = Noted(reg, run, c, "spawn-error")
    /\ UNCHANGED <<holders, shut, awaited, lost>>

\* forceKillTimer.
ForceKill(c) ==
    /\ Quiet /\ run[c].timer = "armed"
    /\ run' = [run EXCEPT ![c] = [Kill(@, "KILL") EXCEPT !.timer = "fired"]]
    /\ UNCHANGED <<reg, holders, shut, awaited, lost>>

\* adapter.wait() settles: the verdict, and with it the ownership of a run whose
\* adapter cannot tell more.  The verdict waits for the end of the output, and
\* that of a cancelled relay for its group.  An adapter rejects for its own
\* reasons too.
Settle(c) ==
    /\ Quiet
    /\ run[c].stage = "live" /\ run[c].result = "none" /\ run[c].root = "ended"
    /\ c \notin holders
    /\ \E result \in {"resolved", "rejected"} :
        /\ run[c].failed \/ (run[c].asked /\ run[c].group = "held") => result = "rejected"
        /\ run' = [run EXCEPT ![c] = Released([@ EXCEPT !.result = result])]
        /\ reg' = Finalize(reg, run[c].id,
                    IF result = "rejected" THEN "spawn-error"
                    ELSE IF run[c].forced = "none" THEN "exit" ELSE run[c].forced)
    /\ UNCHANGED <<holders, shut, awaited, lost>>

\* waitForExtinction() of a relay: its group is gone, or the relay lost sight of
\* it, which rejects an outstanding result too.
GroupEnds(c) ==
    /\ Quiet
    /\ run[c].stage = "live" /\ run[c].group = "held"
    /\ \/ /\ run[c].root = "ended"
          /\ run' = [run EXCEPT ![c] = Released([@ EXCEPT !.group = "extinct"])]
          /\ UNCHANGED reg
       \/ /\ "loss" \in Troubles
          /\ run' = [run EXCEPT ![c] = Released([@ EXCEPT !.group = "lost",
                         !.result = IF run[c].result = "none" THEN "rejected" ELSE run[c].result])]
          /\ reg' = IF run[c].result = "none" THEN Finalize(reg, run[c].id, "spawn-error") ELSE reg
    /\ UNCHANGED <<holders, shut, awaited, lost>>

-----------------------------------------------------------------------------
(* Shutdown.                                                               *)

Shutdown ==
    /\ shut = "open"
    /\ shut' = "requested"
    /\ UNCHANGED <<run, reg, holders, awaited, lost>>

\* Mutant: starts are left to themselves.
SweptActive == active(run)

Swept == Owned(run)

\* The loop: cancel everything, then wait for a snapshot.
Sweep ==
    /\ shut = "requested"
    /\ \/ /\ Owned(run) = {}
          /\ shut' = "resolved"
          /\ UNCHANGED <<run, reg, awaited>>
       \/ /\ Owned(run) # {}
          /\ CancelSet(Swept, "manual-cancel")
          /\ awaited' = [starts |-> startingRuns(run), owned |-> active(run)]
          /\ shut' = "waiting"
    /\ UNCHANGED <<holders, lost>>

Rejects(r) == IF r.adapter = "relay" THEN r.group = "lost" ELSE r.result = "rejected"

\* Mutant: the maps are not looked at again.
RecheckOnce ==
    /\ shut = "waiting"
    /\ Settled
    /\ lost' = (lost \/ \E c \in awaited.owned : Rejects(run[c]))
    /\ shut' = IF lost' THEN "rejected" ELSE "resolved"
    /\ UNCHANGED <<run, reg, holders, awaited>>

\* The snapshot has settled: look again.  Failed starts are ignored.
Recheck ==
    /\ shut = "waiting"
    /\ Settled
    /\ lost' = (lost \/ \E c \in awaited.owned : Rejects(run[c]))
    /\ \/ /\ Owned(run) = {}
          /\ shut' = IF lost' THEN "rejected" ELSE "resolved"
          /\ UNCHANGED awaited
       \/ /\ Owned(run) # {}
          /\ awaited' = [starts |-> startingRuns(run), owned |-> active(run)]
          /\ UNCHANGED shut
    /\ UNCHANGED <<run, reg, holders>>

-----------------------------------------------------------------------------
RunStep(c) ==
    \/ Cancel(c) \/ Spawn(c) \/ PassFence(c) \/ AdapterCreated(c) \/ ClearPendingStart(c)
    \/ RootEnds(c) \/ HolderExits(c) \/ InputFails(c) \/ ListenerThrows(c) \/ ForceKill(c)
    \/ Settle(c) \/ GroupEnds(c)

Next ==
    \/ \E c \in Calls : RunStep(c)
    \/ \E s \in Scopes : CancelScope(s)
    \/ Shutdown \/ Sweep \/ Recheck

\* Promises that settled run their continuations, timers fire, createAdapter
\* settles, and SIGKILL ends a command and its group.  A descendant that left the
\* group is not signalled, and nothing makes it exit.
Fairness ==
    /\ \A c \in Calls :
        /\ WF_vars(PassFence(c)) /\ WF_vars(AdapterCreated(c)) /\ WF_vars(ClearPendingStart(c))
        /\ WF_vars(ForceKill(c)) /\ WF_vars(Settle(c))
        /\ WF_vars(run[c].killed /\ RootEnds(c))
        /\ WF_vars(run[c].killed /\ GroupEnds(c))
    /\ WF_vars(Sweep) /\ WF_vars(Recheck)

Spec == Init /\ [][Next]_vars
FairSpec == Spec /\ Fairness

-----------------------------------------------------------------------------
(* Properties.                                                             *)

Reasons == {"none", "manual-cancel", "spawn-error", "exit"}

TypeOK ==
    /\ run \in [Calls ->
         [stage : {"unused", "fenced", "creating", "live", "stillborn", "warning", "over"},
          id : Ids \cup {"none"}, scope : Scopes \cup {"none"}, replace : BOOLEAN,
          order : Nat, behind : SUBSET Calls, forced : Reasons, asked : BOOLEAN,
          timer : {"none", "armed", "fired"}, adapter : Adapters \cup {"none"},
          root : {"none", "running", "ended"}, killed : BOOLEAN,
          failed : BOOLEAN, group : {"none", "held", "extinct", "lost"},
          result : {"none", "resolved", "rejected"}]]
    /\ reg.rec \in [Ids -> [state : {"none", "starting", "running", "exiting", "exited"},
                             reason : Reasons]]
    /\ reg.older \subseteq Ids \X Ids /\ reg.exited \in Nat
    /\ holders \subseteq Calls
    /\ shut \in {"open", "requested", "waiting", "resolved", "rejected"}
    /\ awaited \in [starts : SUBSET Calls, owned : SUBSET Calls] /\ lost \in BOOLEAN

\* An earlier relay run of the same identity: the identity is free once its group
\* is gone, and its late result is then written to the record of its successor.
Shadowed(c) ==
    \E d \in Calls : run[d].id = run[c].id /\ run[d].order < run[c].order /\ run[d].adapter = "relay"

Latest(c) == \A d \in Calls : run[d].id = run[c].id => run[d].order <= run[c].order

\* "Stopping a run cannot silently leave a late child alive" (supervisor-runtime.ts
\* lines 531-532): whenever it was cancelled, a run with a process was signalled.
CancelledIsSignalled ==
    \A c \in active(run) : run[c].forced # "none" => run[c].asked

\* A replacement supersedes its scope (lines 221-225): when it runs, every run
\* spawned before it in the scope is being stopped.
ReplacementSupersedes ==
    \A r \in Calls : run[r].replace /\ run[r].stage \in {"creating", "live"} =>
        \A c \in active(run) :
            run[c].scope = run[r].scope /\ run[c].order < run[r].order => run[c].asked

\* "Delayed cancellation cannot accidentally terminate a newer scoped run" (lines
\* 542-543): a replacement that passes its fence stops nothing spawned after it.
ReplacementSparesLater ==
    [][\A r, c \in Calls :
        PassFence(r) /\ run[r].order < run[c].order => run'[c] = run[c]]_vars

\* Pruning never touches a live run (registry.ts lines 37-39): a run that is
\* starting or has no result yet keeps a record that is not exited.
LiveRunRecorded ==
    \A c \in Calls :
        Latest(c) /\ ~Shadowed(c)
          /\ run[c].stage \in {"creating", "live"} /\ run[c].result = "none" =>
        reg.rec[run[c].id].state \in {"starting", "running", "exiting"}

\* The first terminal reason wins (registry.ts lines 123-125): a cancelled run is
\* recorded as cancelled, also when its adapter or its start failed afterwards.
FirstReasonRecorded ==
    \A c \in Calls :
        Latest(c) /\ ~Shadowed(c) /\ run[c].stage \in {"live", "over"} /\ run[c].forced # "none"
          /\ reg.rec[run[c].id].state = "exited" => reg.rec[run[c].id].reason = run[c].forced

\* shutdown() resolves over nothing (lines 577-589): no run is starting or active,
\* and no command runs that the supervisor did not lose sight of.  Descendants that
\* left their process group are outside the adapters' contract.
ShutdownMeansExtinct ==
    shut = "resolved" => Owned(run) = {} /\ \A c \in Calls :
        run[c].root = "running" => run[c].group = "lost"

\* A run that is active for ever only because an escaped descendant holds its pipes:
\* the close event (native.ts line 154) never comes.
HeldOpen(c) == run[c].adapter = "sdk" /\ c \in holders /\ c \in active(run)

\* shutdown() settles (lines 577-590), whatever is starting or behind a fence,
\* unless a descendant of an SDK process left its group and keeps the pipes open.
ShutdownSettles ==
    shut = "requested" ~>
        shut \in {"resolved", "rejected"} \/ \E c \in Calls : []HeldOpen(c)
=============================================================================
