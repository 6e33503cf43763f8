---------------------------- MODULE RequestState ----------------------------
(***************************************************************************)
(* The checkpoint protocol of packages/openclaw-core/src/request-state.mjs. *)
(* beginRequest(stateDir, turn) takes the exclusive pending marker, makes   *)
(* it durable, and admits the turn the checkpoint expects; the returned     *)
(* handle's commit() publishes the next checkpoint and drops the marker.    *)
(* Every await is a step of its own: requests of several processes          *)
(* interleave there, any I/O call may fail there, a process may be killed   *)
(* there, and the host may lose power there.                                *)
(*                                                                         *)
(* The state directory is modelled by what its two names hold now           *)
(* (pending, checkpoint) and by the set of values each may hold after a     *)
(* power loss (diskPending, diskCheckpoint).  A change of a name adds a     *)
(* value to its set; syncDirectory leaves only the current one.             *)
(***************************************************************************)
EXTENDS Integers

CONSTANTS
    Requests,   \* the beginRequest calls, each of a process of its own
    Calls,      \* the commit() calls a caller may make on one handle
    MaxTurn,    \* bound: the largest turn a caller asks for
    None        \* "no marker"

ASSUME TurnAssumption == MaxTurn \in Nat
ASSUME NoneAssumption == None \notin Requests

VARIABLES
    pc,             \* where each beginRequest call, then its handle, is
    turn,           \* the turn each request asked for
    committing,     \* the requests whose handle has committing set
    committed,      \* the requests whose handle has committed set
    cpc,            \* where each commit() call is
    temp,           \* each commit() call's temporary file
    pending,        \* request-inflight.json: the request that made it, or None
    checkpoint,     \* nextTurn of request-checkpoint.json; 0 when it is absent
    diskPending,    \* what pending may be after a power loss
    diskCheckpoint, \* what checkpoint may be after a power loss
    admitted,       \* history: requests whose beginRequest resolved
    acknowledged    \* history: requests whose marker an operator removed

handleVars == <<turn, committing, committed, cpc, temp>>
nameVars == <<pending, checkpoint, diskPending, diskCheckpoint>>
historyVars == <<admitted, acknowledged>>
vars == <<pc, handleVars, nameVars, historyVars>>

Turns == 0 .. MaxTurn

\* A checkpoint file whose data never reached the disk: JSON.parse rejects it.
Torn == -1

Beginning == {"marking", "syncing", "loading", "aborting"}
Live == Beginning \cup {"open"}
NotStarted == {"idle", "rejected"}
BeforeRelease == {"create", "flush", "publish", "settle", "release"}
InProgress == BeforeRelease \cup {"confirm", "cleanup"}
CallStates == NotStarted \cup InProgress \cup {"resolved", "failed", "lost"}
TempStates == {"none", "dirty", "clean"}

Init ==
    /\ pc = [r \in Requests |-> "idle"]
    /\ turn = [r \in Requests |-> 0]
    /\ committing = {}
    /\ committed = {}
    /\ cpc = [r \in Requests |-> [c \in Calls |-> "idle"]]
    /\ temp = [r \in Requests |-> [c \in Calls |-> "none"]]
    /\ pending = None
    /\ checkpoint = 0
    /\ diskPending = {None}
    /\ diskCheckpoint = {0}
    /\ admitted = {}
    /\ acknowledged = {}

-----------------------------------------------------------------------------
(* The directory.                                                          *)

SetPending(v) ==
    /\ pending' = v
    /\ diskPending' = diskPending \cup {v}
    /\ UNCHANGED <<checkpoint, diskCheckpoint>>

\* syncDirectory: fsync of the directory makes both names durable as they are.
SyncDirectory ==
    /\ diskPending' = {pending}
    /\ diskCheckpoint' = {checkpoint}
    /\ UNCHANGED <<pending, checkpoint>>

At(r, label) == pc[r] = label
Goto(r, label) == pc' = [pc EXCEPT ![r] = label]

-----------------------------------------------------------------------------
(* beginRequest.                                                           *)

\* open(pending, 'wx'): the name is taken exclusively, or the call is refused.
OpenMarker(r) ==
    /\ At(r, "idle")
    /\ \E t \in Turns : turn' = [turn EXCEPT ![r] = t]
    /\ \/ pending = None /\ SetPending(r) /\ Goto(r, "marking")
       \/ UNCHANGED nameVars /\ Goto(r, "refused")
    /\ UNCHANGED <<committing, committed, cpc, temp, historyVars>>

\* writeFile, sync and close of the marker; any of them may reject.
WriteMarker(r) ==
    /\ At(r, "marking")
    /\ Goto(r, "syncing") \/ Goto(r, "aborting")
    /\ UNCHANGED <<handleVars, nameVars, historyVars>>

\* Mutant: the directory sync after the marker is forgotten.
SyncMarkerUnsynced(r) ==
    /\ At(r, "syncing")
    /\ Goto(r, "loading")
    /\ UNCHANGED <<handleVars, nameVars, historyVars>>

\* The marker's name is durable before the turn may run.
SyncMarker(r) ==
    /\ At(r, "syncing")
    /\ \/ SyncDirectory /\ Goto(r, "loading")
       \/ UNCHANGED nameVars /\ Goto(r, "aborting")
    /\ UNCHANGED <<handleVars, historyVars>>

\* Mutant: the saved nextTurn is not compared with the requested turn.
LoadCheckpointUnchecked(r) ==
    /\ At(r, "loading")
    /\ Goto(r, "open")
    /\ admitted' = admitted \cup {r}
    /\ UNCHANGED <<handleVars, nameVars, acknowledged>>

\* The checkpoint is read under the marker.  An absent file is turn 0; a saved
\* one has nextTurn >= 1; anything else, and any read error, aborts.
LoadCheckpoint(r) ==
    /\ At(r, "loading")
    /\ \/ /\ checkpoint = turn[r]
          /\ Goto(r, "open")
          /\ admitted' = admitted \cup {r}
       \/ Goto(r, "aborting") /\ UNCHANGED admitted
    /\ UNCHANGED <<handleVars, nameVars, acknowledged>>

\* The catch block: unlink(pending), by name and without a directory sync.
AbortBegin(r) ==
    /\ At(r, "aborting")
    /\ \/ pending # None /\ SetPending(None)
       \/ UNCHANGED nameVars
    /\ Goto(r, "refused")
    /\ UNCHANGED <<handleVars, historyVars>>

-----------------------------------------------------------------------------
(* commit().                                                               *)

AtCall(r, c, label) == At(r, "open") /\ cpc[r][c] = label
GotoCall(r, c, label) == cpc' = [cpc EXCEPT ![r][c] = label]
Fail(r, c) ==
    /\ GotoCall(r, c, "cleanup")
    /\ UNCHANGED <<temp, nameVars>>

\* Mutant: a call under way does not keep a second one out.
MayCommitAgain(r) == r \notin committed

MayCommit(r) == r \notin committed /\ r \notin committing

\* The guards before the first await.  Messages that are no array, or that
\* encode to more than MAX_BYTES, reject before committing is set.
CallCommit(r, c) ==
    /\ AtCall(r, c, "idle")
    /\ \/ /\ MayCommit(r)
          /\ committing' = committing \cup {r}
          /\ GotoCall(r, c, "create")
       \/ GotoCall(r, c, "rejected") /\ UNCHANGED committing
    /\ UNCHANGED <<pc, turn, committed, temp, nameVars, historyVars>>

\* open(temporary, 'wx') and writeFile.
CreateTemp(r, c) ==
    /\ AtCall(r, c, "create")
    /\ \/ /\ temp' = [temp EXCEPT ![r][c] = "dirty"]
          /\ GotoCall(r, c, "flush")
          /\ UNCHANGED nameVars
       \/ Fail(r, c)
    /\ UNCHANGED <<pc, turn, committing, committed, historyVars>>

\* h.sync and h.close.
FlushTemp(r, c) ==
    /\ AtCall(r, c, "flush")
    /\ \/ /\ temp' = [temp EXCEPT ![r][c] = "clean"]
          /\ GotoCall(r, c, "publish")
          /\ UNCHANGED nameVars
       \/ Fail(r, c)
    /\ UNCHANGED <<pc, turn, committing, committed, historyVars>>

\* rename(temporary, checkpoint).  The data of a file that was not synced may
\* be missing after a power loss although its name is there.
Rename(r, c) ==
    /\ checkpoint' = turn[r] + 1
    /\ diskCheckpoint' = diskCheckpoint \cup {turn[r] + 1}
                            \cup (IF temp[r][c] = "clean" THEN {} ELSE {Torn})
    /\ temp' = [temp EXCEPT ![r][c] = "none"]
    /\ UNCHANGED <<pending, diskPending>>

\* Mutant: committed is set as soon as the new checkpoint has its name.
PublishCheckpointEarly(r, c) ==
    /\ AtCall(r, c, "publish")
    /\ Rename(r, c)
    /\ committed' = committed \cup {r}
    /\ GotoCall(r, c, "settle")
    /\ UNCHANGED <<pc, turn, committing, historyVars>>

PublishCheckpoint(r, c) ==
    /\ AtCall(r, c, "publish")
    /\ \/ Rename(r, c) /\ GotoCall(r, c, "settle")
       \/ Fail(r, c)
    /\ UNCHANGED <<pc, turn, committing, committed, historyVars>>

\* Mutant: the directory sync between rename and unlink is forgotten.
SettleCheckpointUnsynced(r, c) ==
    /\ AtCall(r, c, "settle")
    /\ GotoCall(r, c, "release")
    /\ UNCHANGED <<pc, turn, committing, committed, temp, nameVars, historyVars>>

\* syncDirectory between rename and unlink.
SettleCheckpoint(r, c) ==
    /\ AtCall(r, c, "settle")
    /\ \/ SyncDirectory /\ GotoCall(r, c, "release") /\ UNCHANGED temp
       \/ Fail(r, c)
    /\ UNCHANGED <<pc, turn, committing, committed, historyVars>>

\* unlink(pending), by name; a name that is gone rejects with ENOENT.
ReleaseMarker(r, c) ==
    /\ AtCall(r, c, "release")
    /\ \/ /\ pending # None
          /\ SetPending(None)
          /\ GotoCall(r, c, "confirm")
          /\ UNCHANGED temp
       \/ Fail(r, c)
    /\ UNCHANGED <<pc, turn, committing, committed, historyVars>>

\* The second syncDirectory, then committed = true.
ConfirmRelease(r, c) ==
    /\ AtCall(r, c, "confirm")
    /\ \/ /\ SyncDirectory
          /\ committed' = committed \cup {r}
          /\ GotoCall(r, c, "cleanup")
          /\ UNCHANGED temp
       \/ Fail(r, c) /\ UNCHANGED committed
    /\ UNCHANGED <<pc, turn, committing, historyVars>>

\* The finally block unlinks the temporary file; ENOENT is ignored, another
\* error rejects even a commit that was completed.  committing stays set.
CleanupTemp(r, c) ==
    /\ AtCall(r, c, "cleanup")
    /\ \/ /\ temp' = [temp EXCEPT ![r][c] = "none"]
          /\ GotoCall(r, c, IF r \in committed THEN "resolved" ELSE "failed")
       \/ GotoCall(r, c, "failed") /\ UNCHANGED temp
    /\ UNCHANGED <<pc, turn, committing, committed, nameVars, historyVars>>

-----------------------------------------------------------------------------
(* The environment.                                                        *)

Lost(calls) == [c \in Calls |-> IF calls[c] \in InProgress THEN "lost" ELSE calls[c]]

\* The process of a request is killed: nothing of the directory changes.
Crash(r) ==
    /\ pc[r] \in Live
    /\ Goto(r, "dead")
    /\ cpc' = [cpc EXCEPT ![r] = Lost(cpc[r])]
    /\ UNCHANGED <<turn, committing, committed, temp, nameVars, historyVars>>

\* The host stops: every process dies and each name holds one of the values
\* it could have on disk.
PowerLoss ==
    /\ pc' = [r \in Requests |-> IF pc[r] \in Live THEN "dead" ELSE pc[r]]
    /\ cpc' = [r \in Requests |-> Lost(cpc[r])]
    /\ pending' \in diskPending
    /\ checkpoint' \in diskCheckpoint
    /\ diskPending' = {pending'}
    /\ diskCheckpoint' = {checkpoint'}
    /\ UNCHANGED <<turn, committing, committed, temp, historyVars>>

\* The holder is gone, or its commit was rejected and no call is under way.
Quiet(r) ==
    \/ pc[r] \in {"dead", "refused"}
    \/ /\ \E c \in Calls : cpc[r][c] = "failed"
       /\ \A c \in Calls : cpc[r][c] \notin InProgress

\* The explicit recovery the refusal message asks for: an operator who has
\* looked at the interrupted turn removes its marker.
Recover ==
    /\ pending # None
    /\ Quiet(pending)
    /\ SetPending(None)
    /\ acknowledged' = acknowledged \cup {pending}
    /\ UNCHANGED <<pc, handleVars, admitted>>

BeginStep(r) ==
    \/ OpenMarker(r) \/ WriteMarker(r) \/ SyncMarker(r)
    \/ LoadCheckpoint(r) \/ AbortBegin(r)

CommitStep(r, c) ==
    \/ CallCommit(r, c) \/ CreateTemp(r, c) \/ FlushTemp(r, c)
    \/ PublishCheckpoint(r, c) \/ SettleCheckpoint(r, c)
    \/ ReleaseMarker(r, c) \/ ConfirmRelease(r, c) \/ CleanupTemp(r, c)

Next ==
    \/ \E r \in Requests : BeginStep(r) \/ Crash(r)
    \/ \E r \in Requests, c \in Calls : CommitStep(r, c)
    \/ PowerLoss
    \/ Recover

Spec == Init /\ [][Next]_vars

-----------------------------------------------------------------------------
(* Properties.                                                             *)

TypeOK ==
    /\ pc \in [Requests -> Live \cup {"idle", "refused", "dead"}]
    /\ turn \in [Requests -> Turns]
    /\ committing \in SUBSET Requests
    /\ committed \in SUBSET Requests
    /\ cpc \in [Requests -> [Calls -> CallStates]]
    /\ temp \in [Requests -> [Calls -> TempStates]]
    /\ pending \in Requests \cup {None}
    /\ checkpoint \in Torn .. MaxTurn + 1
    /\ diskPending \in SUBSET (Requests \cup {None})
    /\ diskCheckpoint \in SUBSET (Torn .. MaxTurn + 1)
    /\ admitted \in SUBSET Requests
    /\ acknowledged \in SUBSET Requests

\* A turn that was admitted, whose next checkpoint a power loss could still
\* take away, and that no operator has looked at: its side effects may exist.
Unsettled(r) ==
    /\ r \in admitted \ acknowledged
    /\ \E v \in diskCheckpoint : v <= turn[r]

\* The fence of request-state.mjs (lines 12-19 and 49-52): while an admitted
\* turn's next checkpoint is not safe on disk, the marker is that turn's, now
\* and after any power loss, so no later request can silently replay the turn.
InterruptedTurnFenced ==
    \A r \in Requests : Unsettled(r) => pending = r /\ diskPending = {r}

\* No silent replay: two requests are admitted to the same turn only when an
\* operator has recovered one of them (lines 13 and 56: "explicit recovery").
NoSilentReplay ==
    \A r \in admitted, s \in admitted :
        r # s /\ turn[r] = turn[s] => {r, s} \cap acknowledged # {}

\* Once committed is set (lines 50-53) the published turn survives every later
\* power loss, whatever the requests after it do.
CommitDurable ==
    \A r \in Requests : r \in committed => \A v \in diskCheckpoint : v > turn[r]

\* request-checkpoint.json is whole, also after a power loss (lines 47-49: the
\* temporary file is synced before it is renamed).
CheckpointNeverTorn == checkpoint # Torn /\ Torn \notin diskCheckpoint

\* A handle whose turn may still run, and a commit() call that has not released
\* the marker, own the marker: the unlink by name at line 51 never removes the
\* marker of another request (lines 40-44: one commit per handle, no retry).
HolderOwnsMarker ==
    \A r \in Requests :
        /\ At(r, "open")
        /\ \/ \A c \in Calls : cpc[r][c] \in NotStarted
           \/ \E c \in Calls : cpc[r][c] \in BeforeRelease
        => pending = r

\* Turns are published one at a time: outside a power loss the checkpoint only
\* moves from the admitted turn to the next (lines 31-33 and 42).
CheckpointAdvancesByOne ==
    [][checkpoint' # checkpoint =>
          checkpoint' = checkpoint + 1 \/ checkpoint' \in diskCheckpoint]_vars

-----------------------------------------------------------------------------
(* The inductive invariant behind these properties.                        *)

\* One commit() call at most has passed the guards of lines 40-43.
OneCommit ==
    \A r \in Requests :
        /\ \A c, d \in Calls :
              cpc[r][c] \notin NotStarted /\ cpc[r][d] \notin NotStarted => c = d
        /\ r \notin committing => \A c \in Calls : cpc[r][c] \in NotStarted
        /\ r \in committed => \A c \in Calls : cpc[r][c] \notin BeforeRelease \cup {"confirm"}
        /\ r \in committed => r \in committing
        /\ pc[r] # "dead" => \A c \in Calls : cpc[r][c] # "lost"
        /\ pc[r] \notin {"open", "dead"} => r \notin committing

\* Who is admitted, acknowledged or named by a marker has begun.
Begun ==
    /\ \A r \in Requests : pc[r] \in Beginning \cup {"idle", "refused"} => r \notin admitted
    /\ \A r \in Requests : pc[r] = "open" => r \in admitted
    /\ \A r \in Requests : pc[r] = "idle" => r \notin diskPending
    /\ pending \in diskPending /\ checkpoint \in diskCheckpoint

\* A beginRequest under way owns the marker, durably from the directory sync on.
BeginOwns ==
    \A r \in Requests :
        /\ pc[r] \in Beginning => pending = r
        /\ pc[r] = "loading" => diskPending = {r} /\ diskCheckpoint = {checkpoint}

\* A handle owns the marker durably until it releases it, and the checkpoint
\* is what its commit() call has reached.
HandleOwns ==
    \A r \in Requests : At(r, "open") =>
        /\ (\A c \in Calls : cpc[r][c] \in NotStarted \cup {"create", "flush", "publish"})
              => pending = r /\ diskPending = {r} /\ diskCheckpoint = {turn[r]}
        /\ \A c \in Calls :
              /\ cpc[r][c] = "publish" => temp[r][c] = "clean"
              /\ cpc[r][c] = "settle" =>
                    /\ pending = r /\ diskPending = {r} /\ checkpoint = turn[r] + 1
                    /\ diskCheckpoint \subseteq {turn[r], turn[r] + 1}
              /\ cpc[r][c] = "release" =>
                    pending = r /\ diskPending = {r} /\ diskCheckpoint = {turn[r] + 1}
              /\ cpc[r][c] = "confirm" => \A v \in diskCheckpoint : v > turn[r]

\* The marker of an admitted turn is durable wherever it is.
AdmittedMarkerDurable == pending \in admitted => diskPending = {pending}

\* The invariant TLAPS proves inductive; the properties above follow from it.
Inv ==
    /\ TypeOK /\ OneCommit /\ Begun /\ BeginOwns /\ HandleOwns
    /\ AdmittedMarkerDurable /\ CheckpointNeverTorn
    /\ InterruptedTurnFenced /\ NoSilentReplay /\ CommitDurable

-----------------------------------------------------------------------------
(* The promise to callers.                                                 *)

\* The marker as RequestLedger sees it: the marker of a request that was never
\* admitted holds nothing, and a failed commit or a dead process leaves the
\* turn interrupted.
HolderStatus ==
    IF pending \notin admitted THEN "free"
    ELSE IF /\ At(pending, "open")
            /\ \A c \in Calls : cpc[pending][c] \in NotStarted \cup BeforeRelease
         THEN "running"
         ELSE "interrupted"

Holder ==
    IF HolderStatus = "running"
    THEN [status |-> "running", request |-> pending, turn |-> turn[pending]]
    ELSE [status |-> HolderStatus, request |-> None, turn |-> 0]

Ledger == INSTANCE RequestLedger
            WITH holder <- Holder, next <- checkpoint, durable <- diskCheckpoint

\* The files, awaits and commit() calls of request-state.mjs implement the
\* session ledger: one holder at a time, a turn released only when its
\* successor is durable, every interruption left for an operator.
ImplementsLedger == Ledger!Spec
=============================================================================
