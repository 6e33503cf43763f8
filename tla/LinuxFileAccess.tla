--------------------------- MODULE LinuxFileAccess ---------------------------
(***************************************************************************)
(* The Linux file API: packages/agentos-sdk/src/linux-filesystem.ts (#run    *)
(* and dispose) and the helper process it starts for every operation         *)
(* (native/file-access.c), all working on one path.                          *)
(*                                                                         *)
(* An operation ends when its helper's close event arrives.  Until then an    *)
(* abort, the five second timer, an output limit or an input error stop it:  *)
(* the first reason is kept, falsy ones too, and the helper is killed.        *)
(* Contents are abstracted to who wrote them.                                *)
(***************************************************************************)
EXTENDS Naturals, FiniteSets

CONSTANTS
    Calls,      \* file operations
    MaxActive,  \* how many may be active: four
    Nobody      \* the author of what is not an operation's

ASSUME LimitAssumption == MaxActive \in Nat \ {0}

VARIABLES
    \* the handle
    closed,     \* #closed
    active,     \* the keys of #active
    disposal,   \* #disposal: idle, waiting, resolved, rejected
    jobs,       \* the operations dispose() waits for
    root,       \* the pinned directory is open
    \* each operation
    kind,       \* read, write, exclusive
    promise,    \* idle, pending, resolved, rejected
    stopped,    \* stopped
    failure,    \* failure, or what the promise was rejected with
    \* each helper
    helper,     \* none, input, open, truncate, write, read, end, dead
    code,       \* its exit code: none, zero, error, signal
    killed,     \* SIGKILL is pending
    stalled,    \* it hangs in the kernel and cannot be killed
    \* the file
    file        \* absent, old, cut or whole, and by which operation

handleVars == <<closed, disposal, jobs, root>>
promiseVars == <<promise, stopped, failure>>
helperVars == <<helper, code, killed, stalled>>
vars == <<handleVars, active, kind, promiseVars, helperVars, file>>

Kinds == {"read", "write", "exclusive"}
\* undefined, a null abort reason, and errors.
Falsy(f) == f \in {"undefined", "null"}

Init ==
    /\ closed = FALSE /\ active = {} /\ disposal = "idle" /\ jobs = {} /\ root = TRUE
    /\ kind \in [Calls -> Kinds]
    /\ promise = [c \in Calls |-> "idle"] /\ stopped = [c \in Calls |-> FALSE]
    /\ failure = [c \in Calls |-> "undefined"]
    /\ helper = [c \in Calls |-> "none"] /\ code = [c \in Calls |-> "none"]
    /\ killed = [c \in Calls |-> FALSE] /\ stalled = [c \in Calls |-> FALSE]
    /\ file \in {"absent", "old"} \X {Nobody}

Alive(c) == helper[c] \notin {"none", "dead"}

-----------------------------------------------------------------------------
(* #run.                                                                   *)

\* Mutant: one operation too many is admitted.
AdmittedOneMore == ~closed /\ Cardinality(active) <= MaxActive

Admitted == ~closed /\ Cardinality(active) < MaxActive

\* The helper starts, or spawn reports an error and a close event follows.  An
\* aborted signal, a bad path, disposal and the limit reject without a helper.
Run(c) ==
    /\ promise[c] = "idle"
    /\ \/ /\ Admitted
          /\ promise' = [promise EXCEPT ![c] = "pending"]
          /\ active' = active \cup {c}
          /\ \/ helper' = [helper EXCEPT ![c] = "input"] /\ UNCHANGED <<failure, code>>
             \/ /\ helper' = [helper EXCEPT ![c] = "dead"]
                /\ code' = [code EXCEPT ![c] = "error"]
                /\ failure' = [failure EXCEPT ![c] = "spawn"]
       \/ /\ promise' = [promise EXCEPT ![c] = "rejected"]
          /\ failure' = [failure EXCEPT ![c] = IF Admitted THEN "aborted" ELSE "refused"]
          /\ UNCHANGED <<active, helper, code>>
    /\ UNCHANGED <<handleVars, kind, stopped, killed, stalled, file>>

\* stop(reason)
Stop(c, reason) ==
    /\ c \in active
    /\ failure' = [failure EXCEPT ![c] = IF stopped[c] THEN @ ELSE reason]
    /\ stopped' = [stopped EXCEPT ![c] = TRUE]
    /\ killed' = [killed EXCEPT ![c] = @ \/ Alive(c)]
    /\ UNCHANGED active

StopUnchanged == UNCHANGED <<handleVars, kind, promise, helper, code, stalled, file>>

\* The caller aborts, with an error or with a falsy reason.
Abort(c) == (\E reason \in {"null", "abort"} : Stop(c, reason)) /\ StopUnchanged

\* Mutant: the timer is forgotten.
TimerFiresNever(c) == FALSE /\ Stop(c, "timeout") /\ StopUnchanged

TimerFires(c) == ~stopped[c] /\ Stop(c, "timeout") /\ StopUnchanged

\* Too much output or diagnostics, or an input error that is not EPIPE.
StreamFails(c) == ~stopped[c] /\ Stop(c, "stream") /\ StopUnchanged

\* The failure a close event leaves: disposal, then the helper's exit code.
Verdict(c) ==
    CASE stopped[c] -> failure[c]
      [] ~stopped[c] /\ failure[c] = "undefined" /\ closed -> "disposed"
      [] ~stopped[c] /\ failure[c] = "undefined" /\ ~closed /\ code[c] # "zero" -> "errno"
      [] OTHER -> failure[c]

\* Mutant: a falsy reason is no reason.
RejectsTruthy(c) == ~Falsy(Verdict(c))

Rejects(c) == stopped[c] \/ ~Falsy(Verdict(c))

\* The close event: the helper is gone and its pipes are drained.
Close(c) ==
    /\ c \in active /\ helper[c] = "dead"
    /\ active' = active \ {c}
    /\ failure' = [failure EXCEPT ![c] = Verdict(c)]
    /\ promise' = [promise EXCEPT ![c] = IF Rejects(c) THEN "rejected" ELSE "resolved"]
    /\ UNCHANGED <<handleVars, kind, stopped, helperVars, file>>

-----------------------------------------------------------------------------
(* The helper.                                                             *)

Step(c, from, to) ==
    /\ helper[c] = from /\ ~stalled[c]
    /\ helper' = [helper EXCEPT ![c] = to]

HelperUnchanged == UNCHANGED <<handleVars, active, kind, promiseVars, killed, stalled>>

\* The whole input is read before the file is touched.
ReadInput(c) ==
    /\ Step(c, "input", "open")
    /\ UNCHANGED <<code, file>> /\ HelperUnchanged

\* O_EXCL refuses a file that is there.
Exists(c) == kind[c] = "exclusive" /\ file[1] # "absent"

\* openat2 creates the file for a writer; a reader needs it.
Open(c) ==
    /\ ~Exists(c) /\ (kind[c] = "read" => file[1] # "absent")
    /\ Step(c, "open", IF kind[c] = "read" THEN "read" ELSE "truncate")
    /\ file' = IF file[1] = "absent" THEN <<"cut", c>> ELSE file
    /\ UNCHANGED code /\ HelperUnchanged

Truncate(c) ==
    /\ Step(c, "truncate", "write")
    /\ file' = <<"cut", c>>
    /\ UNCHANGED code /\ HelperUnchanged

\* write_all, the last piece.
Write(c) ==
    /\ Step(c, "write", "end")
    /\ file' = <<"whole", c>>
    /\ UNCHANGED code /\ HelperUnchanged

Read(c) ==
    /\ Step(c, "read", "end")
    /\ UNCHANGED <<code, file>> /\ HelperUnchanged

Exit(c) ==
    /\ Step(c, "end", "dead")
    /\ code' = [code EXCEPT ![c] = "zero"]
    /\ UNCHANGED file /\ HelperUnchanged

\* fail(stage): EEXIST, ENOENT, a full disk, a limit, or close() of a whole file.
HelperFails(c) ==
    /\ Alive(c)
    /\ Step(c, helper[c], "dead")
    /\ code' = [code EXCEPT ![c] = "error"]
    /\ UNCHANGED file /\ HelperUnchanged

\* SIGKILL takes effect, between any two of its calls.
Die(c) ==
    /\ Alive(c) /\ killed[c] /\ ~stalled[c]
    /\ helper' = [helper EXCEPT ![c] = "dead"]
    /\ code' = [code EXCEPT ![c] = "signal"]
    /\ UNCHANGED <<handleVars, active, kind, promiseVars, killed, stalled, file>>

\* A call of the helper hangs in the kernel.
Stall(c) ==
    /\ Alive(c) /\ ~stalled[c]
    /\ stalled' = [stalled EXCEPT ![c] = TRUE]
    /\ UNCHANGED <<handleVars, active, kind, promiseVars, helper, code, killed, file>>

HelperStep(c) ==
    ReadInput(c) \/ Open(c) \/ Truncate(c) \/ Write(c) \/ Read(c) \/ Exit(c)

-----------------------------------------------------------------------------
(* dispose.                                                                *)

\* Admission stops and every active helper is killed.
Dispose ==
    /\ ~closed
    /\ closed' = TRUE /\ disposal' = "waiting" /\ jobs' = active
    /\ killed' = [c \in Calls |-> killed[c] \/ (c \in active /\ Alive(c))]
    /\ UNCHANGED <<root, active, kind, promiseVars, helper, code, stalled, file>>

\* Mutant: dispose() trusts its kills.
DrainedAssumed == TRUE

Drained == \A c \in jobs : promise[c] # "pending"

\* All operations settled; the directory is closed.
DisposeResolves ==
    /\ disposal = "waiting" /\ Drained
    /\ disposal' = "resolved" /\ root' = FALSE
    /\ UNCHANGED <<closed, jobs, active, kind, promiseVars, helperVars, file>>

\* Mutant: without a deadline.
DisposeTimesOutNever == FALSE /\ disposal' = "rejected" /\ UNCHANGED vars

\* Three seconds: CLEANUP_TIMEOUT, and the directory is closed all the same.
DisposeTimesOut ==
    /\ disposal = "waiting" /\ ~Drained
    /\ disposal' = "rejected" /\ root' = FALSE
    /\ UNCHANGED <<closed, jobs, active, kind, promiseVars, helperVars, file>>

Next ==
    \/ Dispose \/ DisposeResolves \/ DisposeTimesOut
    \/ \E c \in Calls :
        \/ Run(c) \/ Abort(c) \/ TimerFires(c) \/ StreamFails(c) \/ Close(c)
        \/ HelperStep(c) \/ HelperFails(c) \/ Die(c) \/ Stall(c)

\* Timers fire, SIGKILL takes effect and close events arrive; a helper itself is
\* not assumed to make progress.
Fairness ==
    /\ WF_vars(DisposeResolves \/ DisposeTimesOut)
    /\ \A c \in Calls : WF_vars(TimerFires(c)) /\ WF_vars(Die(c)) /\ WF_vars(Close(c))

Spec == Init /\ [][Next]_vars
FairSpec == Spec /\ Fairness

-----------------------------------------------------------------------------
(* Properties.                                                             *)

TypeOK ==
    /\ closed \in BOOLEAN /\ root \in BOOLEAN
    /\ active \subseteq Calls /\ jobs \subseteq Calls
    /\ disposal \in {"idle", "waiting", "resolved", "rejected"}
    /\ kind \in [Calls -> Kinds]
    /\ promise \in [Calls -> {"idle", "pending", "resolved", "rejected"}]
    /\ stopped \in [Calls -> BOOLEAN]
    /\ failure \in [Calls -> {"undefined", "null", "abort", "aborted", "refused", "spawn",
                              "timeout", "stream", "disposed", "errno"}]
    /\ helper \in [Calls -> {"none", "input", "open", "truncate", "write", "read", "end", "dead"}]
    /\ code \in [Calls -> {"none", "zero", "error", "signal"}]
    /\ killed \in [Calls -> BOOLEAN] /\ stalled \in [Calls -> BOOLEAN]
    /\ file \in {"absent", "old", "cut", "whole"} \X (Calls \cup {Nobody})

\* A write that was acknowledged is not cut off (linux-filesystem.ts lines 122
\* and 139-149, file-access.c lines 175-177): a helper killed between its
\* truncation and its last write is never reported as a success, whatever stopped
\* it, for a falsy abort reason too.
AckedWriteWhole ==
    \A c \in Calls : promise[c] = "resolved" => code[c] = "zero" /\ file # <<"cut", c>>

\* "At most four helpers run per handle" (line 113): killed helpers that are not
\* gone yet count.
HelpersBounded == Cardinality({c \in Calls : Alive(c)}) <= MaxActive

\* Once dispose() resolved no helper runs and nothing was admitted behind its
\* back (lines 154-166).
DisposedMeansQuiet == disposal = "resolved" => \A c \in Calls : ~Alive(c)

\* Disposal settles, also over a helper that hangs in the kernel (lines 162-165).
FileDisposeSettles == closed ~> disposal \in {"resolved", "rejected"}

\* An operation settles within its timer (line 126), unless its helper hangs in
\* the kernel, however little the helper does.
OperationSettles ==
    \A c \in Calls : promise[c] = "pending" ~> promise[c] # "pending" \/ stalled[c]
=============================================================================
