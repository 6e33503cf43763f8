---------------------------- MODULE RequestLedger ----------------------------
(***************************************************************************)
(* What packages/openclaw-core/src/request-state.mjs promises its callers,  *)
(* with no files in it: a session runs its turns one at a time, a turn is    *)
(* over only when the next one is durable, and a turn that was interrupted   *)
(* keeps the session closed until an operator has looked at it.              *)
(***************************************************************************)
EXTENDS Integers

CONSTANTS Requests, MaxTurn, None

VARIABLES
    holder,     \* who has the session
    next,       \* the turn the session expects
    durable     \* the turns a power loss may set the session to

ledgerVars == <<holder, next, durable>>

Free == [status |-> "free", request |-> None, turn |-> 0]
Interrupted == [status |-> "interrupted", request |-> None, turn |-> 0]
Running(r, t) == [status |-> "running", request |-> r, turn |-> t]

Init == holder = Free /\ next = 0 /\ durable = {0}

\* A request is admitted to the turn the session durably expects.
Admit(r) ==
    /\ holder = Free
    /\ durable = {next}
    /\ holder' = Running(r, next)
    /\ UNCHANGED <<next, durable>>

\* The holder publishes the turn after its own, once.
Publish(r) ==
    /\ holder = Running(r, next)
    /\ next' = next + 1
    /\ durable' = durable \cup {next + 1}
    /\ UNCHANGED holder

\* Any request, admitted or not, may make the session's state durable.
Settle ==
    /\ durable' = {next}
    /\ UNCHANGED <<holder, next>>

\* The holder leaves when its successor is durable, not before.
Release(r, t) ==
    /\ holder = Running(r, t)
    /\ next = t + 1
    /\ durable = {t + 1}
    /\ holder' = Free
    /\ UNCHANGED <<next, durable>>

\* The holder crashed, or an I/O error ended its only commit.
Interrupt(r, t) ==
    /\ holder = Running(r, t)
    /\ holder' = Interrupted
    /\ UNCHANGED <<next, durable>>

\* A power loss never frees a session that was held.
PowerLoss ==
    /\ next' \in durable
    /\ durable' = {next'}
    /\ \/ holder' = Interrupted
       \/ holder = Free /\ UNCHANGED holder

Recover ==
    /\ holder = Interrupted
    /\ holder' = Free
    /\ UNCHANGED <<next, durable>>

Next ==
    \/ \E r \in Requests : Admit(r) \/ Publish(r)
    \/ \E r \in Requests, t \in 0 .. MaxTurn : Release(r, t) \/ Interrupt(r, t)
    \/ Settle \/ PowerLoss \/ Recover

Spec == Init /\ [][Next]_ledgerVars
=============================================================================
