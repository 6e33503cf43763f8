------------------------ MODULE NativeProcessProofs ------------------------
(***************************************************************************)
(* Proofs about NativeProcess, for any set of calls, any limits and both     *)
(* backends.  Liveness is left to TLC.                                       *)
(***************************************************************************)
EXTENDS NativeProcess, FiniteSetTheorems, TLAPS

\* A call that has not launched has no child, no verdict and no record.
Fresh ==
    \A c \in Calls : pc[c] \in {"idle", "resolving", "preparing"} =>
        leader[c] = "none" /\ exit[c] = "none" /\ c \notin records

\* An exit event was delivered over a child that ended, and its group was killed.
Seen ==
    \A c \in exitSeen :
        /\ leader[c] \in {"code", "signal"}
        /\ ~Linux /\ kid[c] = "group" => c \in killed

\* A child with a verdict had its exit event first.
Finished == \A c \in Calls : exit[c] # "none" /\ leader[c] # "none" => c \in exitSeen

\* Disposal does not lose sight of a child without a verdict.
Tracked ==
    \A c \in Calls : Live(c) =>
        /\ disposal \in {"open", "draining", "racing"} => c \in records
        /\ disposal = "racing" => c \in awaited
        /\ disposal # "resolved"

\* Disposal waits for every spawn that was pending when it began.
Draining ==
    /\ disposal = "draining" => Pending \subseteq awaited
    /\ disposal \in {"racing", "resolved", "rejected"} => Pending = {}

\* #inFlight is the number of pending spawns.
Counted == inFlight = Cardinality(Pending)

\* The inductive invariant, but for the limit.
Control == TypeOK /\ Counted /\ Fresh /\ Seen /\ Finished /\ Tracked /\ Draining

\* Only finished records are evicted.
LEMMA EvictedFinished ==
    ASSUME NEW recs, NEW ex, NEW order
    PROVE  Evicted(recs, ex, order) \subseteq {c \in recs : ex[c] # "none"}
BY DEF Evicted

\* Sets of calls are finite.
LEMMA PendingFinite == IsFiniteSet(Pending)
BY CallsAssumption, FS_Subset DEF Pending

\* Inside the try #inFlight counts the caller.
LEMMA PendingCounted ==
    ASSUME Counted, NEW c \in Pending
    PROVE  inFlight \in Nat /\ inFlight # 0
BY PendingFinite, FS_CardinalityType, FS_EmptySet DEF Counted

\* A spawn that leaves its try is counted down.
LEMMA LeaveCounted ==
    ASSUME TypeOK, Counted, NEW c \in Pending, NEW how, how \notin InTry, Leave(c, how)
    PROVE  Counted'
<1>1. Pending' = Pending \ {c}
  BY DEF Leave, Pending, TypeOK
<1>2. Cardinality(Pending \ {c}) = Cardinality(Pending) - 1
  BY PendingFinite, FS_RemoveElement
<1> QED BY <1>1, <1>2 DEF Counted, Leave

\* A spawn that goes from one await to the next stays counted.
LEMMA StayCounted ==
    ASSUME TypeOK, Counted, NEW c \in Pending, NEW at \in InTry,
           pc' = [pc EXCEPT ![c] = at], inFlight' = inFlight
    PROVE  Counted'
<1>1. Pending' = Pending
  BY DEF Pending, TypeOK
<1> QED BY <1>1 DEF Counted

\* Nothing else changes the count.
LEMMA SameCounted ==
    ASSUME Counted, pc' = pc, inFlight' = inFlight
    PROVE  Counted'
BY DEF Counted, Pending

\* The invariant holds of a new handle.
LEMMA ControlInit == Init => Control
<1> SUFFICES ASSUME Init PROVE Control
    OBVIOUS
<1>1. Pending = {}
  BY DEF Init, Pending, InTry
<1>2. Counted
  BY <1>1, FS_EmptySet DEF Init, Counted
<1>3. TypeOK /\ Fresh /\ Seen /\ Finished /\ Tracked /\ Draining
  BY <1>1 DEF Init, TypeOK, Fresh, Seen, Finished, Tracked, Draining, Live, InTry
<1> QED BY <1>2, <1>3 DEF Control

\* Launching a child from either await, on an open handle.
LEMMA LaunchStep ==
    ASSUME Control, NEW c \in Calls, pc[c] \in {"resolving", "preparing"}, ~Closed,
           Launch(c), UNCHANGED <<disposal, awaited>>
    PROVE  Control'
<1> USE DEF Control
<1>0. c \in Pending
  BY DEF Pending, InTry
<1>1. CASE /\ Leave(c, "threw")
           /\ UNCHANGED <<records, pid, next, recordVars, hostVars>>
  <2>1. TypeOK'
    BY <1>0, PendingCounted, <1>1 DEF Leave, handleVars, recordVars, hostVars, TypeOK, InTry, Closed
  <2>2. Counted'
    BY <1>0, <1>1, LeaveCounted DEF InTry
  <2>3. Fresh'
    BY <1>1 DEF Leave, handleVars, recordVars, hostVars, TypeOK, Fresh, Closed
  <2>4. Seen'
    BY <1>1 DEF Leave, handleVars, recordVars, hostVars, TypeOK, Seen, Live, Closed
  <2>5. Finished'
    BY <1>1 DEF Leave, handleVars, recordVars, hostVars, TypeOK, Fresh, Seen, Finished, Live, Closed
  <2>6. Tracked'
    BY <1>1 DEF Leave, handleVars, recordVars, hostVars, TypeOK, Fresh, Seen, Finished, Tracked, Live, Pending, InTry, Closed, Draining
  <2>7. Draining'
    BY <1>1 DEF Leave, handleVars, recordVars, hostVars, TypeOK, Draining, Pending, InTry, Closed
  <2> QED BY <2>1, <2>2, <2>3, <2>4, <2>5, <2>6, <2>7
<1>2. CASE /\ pid' = [pid EXCEPT ![c] = next] /\ next' = next + 1
           /\ Finish(c, records \cup {c}, pid', "signalled")
           /\ Leave(c, "threw")
           /\ UNCHANGED <<failure, timedOut, aborted, hostVars>>
  <2>0. /\ records' \subseteq records \cup {c}
        /\ \A d \in records : exit[d] = "none" /\ d # c => d \in records'
        /\ exit' = [exit EXCEPT ![c] = "signalled"]
    <3>1. Evicted(records \cup {c}, exit', pid') \subseteq {d \in records \cup {c} : exit'[d] # "none"}
      BY EvictedFinished
    <3> QED BY <1>2, <3>1 DEF Finish, TypeOK
  <2>1. TypeOK'
    BY <1>0, PendingCounted, <2>0, <1>2 DEF Leave, Finish, handleVars, recordVars, hostVars, TypeOK, InTry, Closed
  <2>2. Counted'
    BY <1>0, <1>2, LeaveCounted DEF InTry
  <2>3. Fresh'
    BY <2>0, <1>2 DEF Leave, Finish, handleVars, recordVars, hostVars, TypeOK, Fresh, Closed
  <2>4. Seen'
    BY <2>0, <1>2 DEF Leave, Finish, handleVars, recordVars, hostVars, TypeOK, Seen, Live, Closed
  <2>5. Finished'
    BY <2>0, <1>2 DEF Leave, Finish, handleVars, recordVars, hostVars, TypeOK, Fresh, Seen, Finished, Live, Closed
  <2>6. Tracked'
    BY <2>0, <1>2 DEF Leave, Finish, handleVars, recordVars, hostVars, TypeOK, Fresh, Seen, Finished, Tracked, Live, Pending, InTry, Closed, Draining
  <2>7. Draining'
    BY <2>0, <1>2 DEF Leave, Finish, handleVars, recordVars, hostVars, TypeOK, Draining, Pending, InTry, Closed
  <2> QED BY <2>1, <2>2, <2>3, <2>4, <2>5, <2>6, <2>7
<1>3. CASE /\ pid' = [pid EXCEPT ![c] = next] /\ next' = next + 1
           /\ records' = records \cup {c}
           /\ \E timeout \in Maybe("timeout") : timer' = [timer EXCEPT ![c] = timeout]
           /\ leader' = [leader EXCEPT ![c] = "running"]
           /\ \E stdin \in Maybe("stdin") :
                IF Linux \/ stdin
                THEN /\ pc' = [pc EXCEPT ![c] = IF Linux THEN "starting" ELSE "writing"]
                     /\ UNCHANGED inFlight
                ELSE Leave(c, "returned")
           /\ UNCHANGED <<exit, failure, timedOut, aborted, kid, holds, killed, exitSeen>>
  <2>0. /\ \/ pc' = [pc EXCEPT ![c] = "returned"] /\ inFlight' = inFlight - 1
           \/ pc' = [pc EXCEPT ![c] = "starting"] /\ inFlight' = inFlight
           \/ pc' = [pc EXCEPT ![c] = "writing"] /\ inFlight' = inFlight
        /\ \E timeout \in BOOLEAN : timer' = [timer EXCEPT ![c] = timeout]
    <3>1. Maybe("stdin") \subseteq BOOLEAN /\ Maybe("timeout") \subseteq BOOLEAN
      BY DEF Maybe
    <3>2. PICK stdin \in Maybe("stdin") :
             IF Linux \/ stdin
             THEN /\ pc' = [pc EXCEPT ![c] = IF Linux THEN "starting" ELSE "writing"]
                  /\ UNCHANGED inFlight
             ELSE Leave(c, "returned")
      BY <1>3
    <3>3. PICK timeout \in Maybe("timeout") : timer' = [timer EXCEPT ![c] = timeout]
      BY <1>3
    <3>4. CASE Linux
      BY <3>1, <3>2, <3>3, <3>4 DEF Leave
    <3>5. CASE ~Linux /\ stdin
      BY <3>1, <3>2, <3>3, <3>5 DEF Leave
    <3>6. CASE ~Linux /\ ~stdin
      BY <3>1, <3>2, <3>3, <3>6 DEF Leave
    <3> QED BY <3>4, <3>5, <3>6
  <2>a. timer' \in [Calls -> BOOLEAN]
    BY <2>0 DEF TypeOK
  <2>b. /\ pid' = [pid EXCEPT ![c] = next] /\ next' = next + 1
        /\ records' = records \cup {c}
        /\ leader' = [leader EXCEPT ![c] = "running"]
        /\ UNCHANGED <<exit, failure, timedOut, aborted, kid, holds, killed, exitSeen>>
    BY <1>3
  <2>1. TypeOK'
    BY <1>0, PendingCounted, <2>0, <2>a, <2>b DEF TypeOK, InTry, Closed
  <2>2. Counted'
    <3>1. CASE Leave(c, "returned")
      BY <1>0, <3>1, LeaveCounted DEF InTry
    <3>2. CASE pc' = [pc EXCEPT ![c] = IF Linux THEN "starting" ELSE "writing"] /\ inFlight' = inFlight
      BY <1>0, <3>2, StayCounted DEF InTry
    <3> QED BY <1>3, <3>1, <3>2
  <2>3. Fresh'
    BY <2>0, <2>a, <2>b DEF TypeOK, Fresh, Closed
  <2>4. Seen'
    BY <2>0, <2>a, <2>b DEF TypeOK, Seen, Live, Closed, Fresh
  <2>5. Finished'
    BY <2>0, <2>a, <2>b DEF TypeOK, Fresh, Seen, Finished, Live, Closed
  <2>6. Tracked'
    BY <2>0, <2>a, <2>b DEF TypeOK, Fresh, Seen, Finished, Tracked, Live, Pending, InTry, Closed, Draining
  <2>7. Draining'
    BY <2>0, <2>a, <2>b DEF TypeOK, Draining, Pending, InTry, Closed
  <2> QED BY <2>1, <2>2, <2>3, <2>4, <2>5, <2>6, <2>7
<1> QED BY <1>1, <1>2, <1>3 DEF Launch

\* Every step of a call, of its child and of disposal preserves it.
LEMMA ControlStep == Control /\ [Next]_vars => Control'
<1> SUFFICES ASSUME Control, [Next]_vars
             PROVE  Control'
    OBVIOUS
<1> USE DEF Control
<1>1. ASSUME NEW c \in Calls, Spawn(c)
      PROVE  Control'
  <2>1. TypeOK'
    BY <1>1 DEF Spawn, AtLimit, Closed, handleVars, recordVars, hostVars, TypeOK, InTry
  <2>2. Counted'
    <3>1. CASE pc' = [pc EXCEPT ![c] = "resolving"] /\ inFlight' = inFlight + 1
      <4>1. Pending' = Pending \cup {c} /\ c \notin Pending
        BY <1>1, <3>1 DEF Spawn, Pending, InTry, TypeOK
      <4>2. Cardinality(Pending \cup {c}) = Cardinality(Pending) + 1
        BY <4>1, PendingFinite, FS_AddElement
      <4> QED BY <3>1, <4>1, <4>2 DEF Counted
    <3>2. CASE inFlight' = inFlight /\ \E how \in {"threw", "limited"} : pc' = [pc EXCEPT ![c] = how]
      <4>1. Pending' = Pending
        BY <1>1, <3>2 DEF Spawn, Pending, InTry, TypeOK
      <4> QED BY <3>2, <4>1 DEF Counted
    <3> QED BY <1>1, <3>1, <3>2 DEF Spawn
  <2>3. Fresh'
    BY <1>1 DEF Spawn, AtLimit, Closed, handleVars, recordVars, hostVars, TypeOK, Fresh
  <2>4. Seen'
    BY <1>1 DEF Spawn, AtLimit, Closed, handleVars, recordVars, hostVars, TypeOK, Seen, Live
  <2>5. Finished'
    BY <1>1 DEF Spawn, AtLimit, Closed, handleVars, recordVars, hostVars, TypeOK, Fresh, Seen, Finished, Live
  <2>6. Tracked'
    BY <1>1 DEF Spawn, AtLimit, Closed, handleVars, recordVars, hostVars, TypeOK, Fresh, Seen, Finished, Tracked, Live, Pending, InTry, Closed, Draining
  <2>7. Draining'
    BY <1>1 DEF Spawn, AtLimit, Closed, handleVars, recordVars, hostVars, TypeOK, Draining, Pending, InTry, Closed
  <2> QED BY <2>1, <2>2, <2>3, <2>4, <2>5, <2>6, <2>7
<1>2. ASSUME NEW c \in Calls, Resolved(c)
      PROVE  Control'
  <2>0. c \in Pending
    BY <1>2 DEF Resolved, Pending, InTry
  <2>1. CASE Leave(c, "threw") /\ UNCHANGED <<records, pid, next, recordVars, hostVars>>
    <3>1. TypeOK'
      BY <2>0, PendingCounted, <1>2, <2>1 DEF Resolved, Leave, handleVars, recordVars, hostVars, TypeOK, InTry
    <3>2. Counted'
      BY <2>0, <2>1, LeaveCounted DEF InTry
    <3>3. Fresh'
      BY <1>2, <2>1 DEF Resolved, Leave, handleVars, recordVars, hostVars, TypeOK, Fresh
    <3>4. Seen'
      BY <1>2, <2>1 DEF Resolved, Leave, handleVars, recordVars, hostVars, TypeOK, Seen, Live
    <3>5. Finished'
      BY <1>2, <2>1 DEF Resolved, Leave, handleVars, recordVars, hostVars, TypeOK, Fresh, Seen, Finished, Live
    <3>6. Tracked'
      BY <1>2, <2>1 DEF Resolved, Leave, handleVars, recordVars, hostVars, TypeOK, Fresh, Seen, Finished, Tracked, Live, Pending, InTry, Closed, Draining
    <3>7. Draining'
      BY <1>2, <2>1 DEF Resolved, Leave, handleVars, recordVars, hostVars, TypeOK, Draining, Pending, InTry, Closed
    <3> QED BY <3>1, <3>2, <3>3, <3>4, <3>5, <3>6, <3>7
  <2>2. CASE ~Refused(c) /\ Launch(c)
    BY <1>2, <2>2, LaunchStep DEF Resolved, Refused
  <2>3. CASE /\ pc' = [pc EXCEPT ![c] = "preparing"]
             /\ UNCHANGED <<inFlight, records, pid, next, recordVars, hostVars>>
    <3>1. TypeOK'
      BY <1>2, <2>3 DEF Resolved, handleVars, recordVars, hostVars, TypeOK, InTry
    <3>2. Counted'
      BY <2>0, <2>3, StayCounted DEF InTry
    <3>3. Fresh'
      BY <1>2, <2>3 DEF Resolved, handleVars, recordVars, hostVars, TypeOK, Fresh
    <3>4. Seen'
      BY <1>2, <2>3 DEF Resolved, handleVars, recordVars, hostVars, TypeOK, Seen, Live
    <3>5. Finished'
      BY <1>2, <2>3 DEF Resolved, handleVars, recordVars, hostVars, TypeOK, Fresh, Seen, Finished, Live
    <3>6. Tracked'
      BY <1>2, <2>3 DEF Resolved, handleVars, recordVars, hostVars, TypeOK, Fresh, Seen, Finished, Tracked, Live, Pending, InTry, Closed, Draining
    <3>7. Draining'
      BY <1>2, <2>3 DEF Resolved, handleVars, recordVars, hostVars, TypeOK, Draining, Pending, InTry, Closed
    <3> QED BY <3>1, <3>2, <3>3, <3>4, <3>5, <3>6, <3>7
  <2> QED BY <1>2, <2>1, <2>2, <2>3 DEF Resolved
<1>3. ASSUME NEW c \in Calls, Prepared(c)
      PROVE  Control'
  <2>0. c \in Pending
    BY <1>3 DEF Prepared, Pending, InTry
  <2>1. CASE Leave(c, "threw") /\ UNCHANGED <<records, pid, next, recordVars, hostVars>>
    <3>1. TypeOK'
      BY <2>0, PendingCounted, <1>3, <2>1 DEF Prepared, Leave, handleVars, recordVars, hostVars, TypeOK, InTry
    <3>2. Counted'
      BY <2>0, <2>1, LeaveCounted DEF InTry
    <3>3. Fresh'
      BY <1>3, <2>1 DEF Prepared, Leave, handleVars, recordVars, hostVars, TypeOK, Fresh
    <3>4. Seen'
      BY <1>3, <2>1 DEF Prepared, Leave, handleVars, recordVars, hostVars, TypeOK, Seen, Live
    <3>5. Finished'
      BY <1>3, <2>1 DEF Prepared, Leave, handleVars, recordVars, hostVars, TypeOK, Fresh, Seen, Finished, Live
    <3>6. Tracked'
      BY <1>3, <2>1 DEF Prepared, Leave, handleVars, recordVars, hostVars, TypeOK, Fresh, Seen, Finished, Tracked, Live, Pending, InTry, Closed, Draining
    <3>7. Draining'
      BY <1>3, <2>1 DEF Prepared, Leave, handleVars, recordVars, hostVars, TypeOK, Draining, Pending, InTry, Closed
    <3> QED BY <3>1, <3>2, <3>3, <3>4, <3>5, <3>6, <3>7
  <2>2. CASE ~Refused(c) /\ Launch(c)
    BY <1>3, <2>2, LaunchStep DEF Prepared, Refused
  <2> QED BY <1>3, <2>1, <2>2 DEF Prepared
<1>4. ASSUME NEW c \in Calls, Ready(c)
      PROVE  Control'
  <2>0. c \in Pending
    BY <1>4 DEF Ready, Pending, InTry
  <2>1. TypeOK'
    BY PendingCounted, <2>0, <1>4 DEF Ready, Leave, Kill, Closed, handleVars, recordVars, hostVars, TypeOK, InTry
  <2>2. Counted'
    <3>1. CASE \E how \in {"returned", "threw"} : Leave(c, how)
      BY <2>0, <3>1, LeaveCounted DEF InTry
    <3>2. CASE pc' = [pc EXCEPT ![c] = "writing"] /\ inFlight' = inFlight
      BY <2>0, <3>2, StayCounted DEF InTry
    <3> QED BY <1>4, <3>1, <3>2 DEF Ready
  <2>3. Fresh'
    BY <1>4 DEF Ready, Leave, Kill, Closed, handleVars, recordVars, hostVars, TypeOK, Fresh
  <2>4. Seen'
    BY <1>4 DEF Ready, Leave, Kill, Closed, handleVars, recordVars, hostVars, TypeOK, Seen, Live
  <2>5. Finished'
    BY <1>4 DEF Ready, Leave, Kill, Closed, handleVars, recordVars, hostVars, TypeOK, Fresh, Seen, Finished, Live
  <2>6. Tracked'
    BY <1>4 DEF Ready, Leave, Kill, Closed, handleVars, recordVars, hostVars, TypeOK, Fresh, Seen, Finished, Tracked, Live, Pending, InTry, Closed, Draining
  <2>7. Draining'
    BY <1>4 DEF Ready, Leave, Kill, Closed, handleVars, recordVars, hostVars, TypeOK, Draining, Pending, InTry, Closed
  <2> QED BY <2>1, <2>2, <2>3, <2>4, <2>5, <2>6, <2>7
<1>5. ASSUME NEW c \in Calls, Written(c)
      PROVE  Control'
  <2>0. c \in Pending
    BY <1>5 DEF Written, Pending, InTry
  <2>1. TypeOK'
    BY PendingCounted, <2>0, <1>5 DEF Written, Leave, Kill, Closed, handleVars, recordVars, hostVars, TypeOK, InTry
  <2>2. Counted'
    <3>1. CASE \E how \in {"returned", "threw"} : Leave(c, how)
      BY <2>0, <3>1, LeaveCounted DEF InTry
    <3>2. CASE pc' = [pc EXCEPT ![c] = "ending"] /\ inFlight' = inFlight
      BY <2>0, <3>2, StayCounted DEF InTry
    <3> QED BY <1>5, <3>1, <3>2 DEF Written
  <2>3. Fresh'
    BY <1>5 DEF Written, Leave, Kill, Closed, handleVars, recordVars, hostVars, TypeOK, Fresh
  <2>4. Seen'
    BY <1>5 DEF Written, Leave, Kill, Closed, handleVars, recordVars, hostVars, TypeOK, Seen, Live
  <2>5. Finished'
    BY <1>5 DEF Written, Leave, Kill, Closed, handleVars, recordVars, hostVars, TypeOK, Fresh, Seen, Finished, Live
  <2>6. Tracked'
    BY <1>5 DEF Written, Leave, Kill, Closed, handleVars, recordVars, hostVars, TypeOK, Fresh, Seen, Finished, Tracked, Live, Pending, InTry, Closed, Draining
  <2>7. Draining'
    BY <1>5 DEF Written, Leave, Kill, Closed, handleVars, recordVars, hostVars, TypeOK, Draining, Pending, InTry, Closed
  <2> QED BY <2>1, <2>2, <2>3, <2>4, <2>5, <2>6, <2>7
<1>6. ASSUME NEW c \in Calls, Ended(c)
      PROVE  Control'
  <2>0. c \in Pending
    BY <1>6 DEF Ended, Pending, InTry
  <2>1. TypeOK'
    BY PendingCounted, <2>0, <1>6 DEF Ended, Leave, handleVars, recordVars, hostVars, TypeOK, InTry
  <2>2. Counted'
    BY <1>6, <2>0, LeaveCounted DEF Ended, InTry
  <2>3. Fresh'
    BY <1>6 DEF Ended, Leave, handleVars, recordVars, hostVars, TypeOK, Fresh
  <2>4. Seen'
    BY <1>6 DEF Ended, Leave, handleVars, recordVars, hostVars, TypeOK, Seen, Live
  <2>5. Finished'
    BY <1>6 DEF Ended, Leave, handleVars, recordVars, hostVars, TypeOK, Fresh, Seen, Finished, Live
  <2>6. Tracked'
    BY <1>6 DEF Ended, Leave, handleVars, recordVars, hostVars, TypeOK, Fresh, Seen, Finished, Tracked, Live, Pending, InTry, Closed, Draining
  <2>7. Draining'
    BY <1>6 DEF Ended, Leave, handleVars, recordVars, hostVars, TypeOK, Draining, Pending, InTry, Closed
  <2> QED BY <2>1, <2>2, <2>3, <2>4, <2>5, <2>6, <2>7
<1>7. ASSUME NEW c \in Calls, StdinFails(c)
      PROVE  Control'
  <2>0. c \in Pending
    BY <1>7 DEF StdinFails, Pending, InTry
  <2>1. TypeOK'
    BY PendingCounted, <2>0, <1>7 DEF StdinFails, Leave, Kill, handleVars, recordVars, hostVars, TypeOK, InTry
  <2>2. Counted'
    BY <1>7, <2>0, LeaveCounted DEF StdinFails, InTry
  <2>3. Fresh'
    BY <1>7 DEF StdinFails, Leave, Kill, handleVars, recordVars, hostVars, TypeOK, Fresh
  <2>4. Seen'
    BY <1>7 DEF StdinFails, Leave, Kill, handleVars, recordVars, hostVars, TypeOK, Seen, Live
  <2>5. Finished'
    BY <1>7 DEF StdinFails, Leave, Kill, handleVars, recordVars, hostVars, TypeOK, Fresh, Seen, Finished, Live
  <2>6. Tracked'
    BY <1>7 DEF StdinFails, Leave, Kill, handleVars, recordVars, hostVars, TypeOK, Fresh, Seen, Finished, Tracked, Live, Pending, InTry, Closed, Draining
  <2>7. Draining'
    BY <1>7 DEF StdinFails, Leave, Kill, handleVars, recordVars, hostVars, TypeOK, Draining, Pending, InTry, Closed
  <2> QED BY <2>1, <2>2, <2>3, <2>4, <2>5, <2>6, <2>7
<1>8. ASSUME NEW c \in Calls, TimerFires(c)
      PROVE  Control'
  <2>1. TypeOK'
    BY <1>8 DEF TimerFires, Kill, handleVars, recordVars, hostVars, TypeOK, InTry
  <2>2. Counted'
    BY <1>8, SameCounted DEF TimerFires, handleVars, recordVars, hostVars
  <2>3. Fresh'
    BY <1>8 DEF TimerFires, Kill, handleVars, recordVars, hostVars, TypeOK, Fresh
  <2>4. Seen'
    BY <1>8 DEF TimerFires, Kill, handleVars, recordVars, hostVars, TypeOK, Seen, Live
  <2>5. Finished'
    BY <1>8 DEF TimerFires, Kill, handleVars, recordVars, hostVars, TypeOK, Fresh, Seen, Finished, Live
  <2>6. Tracked'
    BY <1>8 DEF TimerFires, Kill, handleVars, recordVars, hostVars, TypeOK, Fresh, Seen, Finished, Tracked, Live, Pending, InTry, Closed, Draining
  <2>7. Draining'
    BY <1>8 DEF TimerFires, Kill, handleVars, recordVars, hostVars, TypeOK, Draining, Pending, InTry, Closed
  <2> QED BY <2>1, <2>2, <2>3, <2>4, <2>5, <2>6, <2>7
<1>9. ASSUME NEW c \in Calls, Abort(c)
      PROVE  Control'
  <2>1. TypeOK'
    <3>1. aborted' \in [Calls -> BOOLEAN]
      BY <1>9 DEF Abort, TypeOK
    <3>2. failure' \in [Calls -> BOOLEAN] /\ killed' \subseteq Calls
      <4>1. CASE failure' = [failure EXCEPT ![c] = TRUE] /\ Kill({c})
        BY <4>1 DEF Kill, TypeOK
      <4>2. CASE UNCHANGED <<failure, killed>>
        BY <4>2 DEF TypeOK
      <4> QED BY <1>9, <4>1, <4>2 DEF Abort
    <3>3. UNCHANGED <<handleVars, exit, timedOut, timer, leader, kid, holds, exitSeen>>
      BY <1>9 DEF Abort
    <3> QED BY <3>1, <3>2, <3>3 DEF handleVars, TypeOK
  <2>2. Counted'
    BY <1>9, SameCounted DEF Abort, handleVars, recordVars, hostVars
  <2>3. Fresh'
    BY <1>9 DEF Abort, Kill, handleVars, recordVars, hostVars, TypeOK, Fresh
  <2>4. Seen'
    BY <1>9 DEF Abort, Kill, handleVars, recordVars, hostVars, TypeOK, Seen, Live
  <2>5. Finished'
    BY <1>9 DEF Abort, Kill, handleVars, recordVars, hostVars, TypeOK, Fresh, Seen, Finished, Live
  <2>6. Tracked'
    BY <1>9 DEF Abort, Kill, handleVars, recordVars, hostVars, TypeOK, Fresh, Seen, Finished, Tracked, Live, Pending, InTry, Closed, Draining
  <2>7. Draining'
    BY <1>9 DEF Abort, Kill, handleVars, recordVars, hostVars, TypeOK, Draining, Pending, InTry, Closed
  <2> QED BY <2>1, <2>2, <2>3, <2>4, <2>5, <2>6, <2>7
<1>10. ASSUME NEW c \in Calls, Overrun(c)
      PROVE  Control'
  <2>1. TypeOK'
    BY <1>10 DEF Overrun, Kill, handleVars, recordVars, hostVars, TypeOK, InTry
  <2>2. Counted'
    BY <1>10, SameCounted DEF Overrun, handleVars, recordVars, hostVars
  <2>3. Fresh'
    BY <1>10 DEF Overrun, Kill, handleVars, recordVars, hostVars, TypeOK, Fresh
  <2>4. Seen'
    BY <1>10 DEF Overrun, Kill, handleVars, recordVars, hostVars, TypeOK, Seen, Live
  <2>5. Finished'
    BY <1>10 DEF Overrun, Kill, handleVars, recordVars, hostVars, TypeOK, Fresh, Seen, Finished, Live
  <2>6. Tracked'
    BY <1>10 DEF Overrun, Kill, handleVars, recordVars, hostVars, TypeOK, Fresh, Seen, Finished, Tracked, Live, Pending, InTry, Closed, Draining
  <2>7. Draining'
    BY <1>10 DEF Overrun, Kill, handleVars, recordVars, hostVars, TypeOK, Draining, Pending, InTry, Closed
  <2> QED BY <2>1, <2>2, <2>3, <2>4, <2>5, <2>6, <2>7
<1>11. ASSUME NEW c \in Calls, StdinError(c)
      PROVE  Control'
  <2>1. TypeOK'
    BY <1>11 DEF StdinError, handleVars, recordVars, hostVars, TypeOK, InTry
  <2>2. Counted'
    BY <1>11, SameCounted DEF StdinError, handleVars, recordVars, hostVars
  <2>3. Fresh'
    BY <1>11 DEF StdinError, handleVars, recordVars, hostVars, TypeOK, Fresh
  <2>4. Seen'
    BY <1>11 DEF StdinError, handleVars, recordVars, hostVars, TypeOK, Seen, Live
  <2>5. Finished'
    BY <1>11 DEF StdinError, handleVars, recordVars, hostVars, TypeOK, Fresh, Seen, Finished, Live
  <2>6. Tracked'
    BY <1>11 DEF StdinError, handleVars, recordVars, hostVars, TypeOK, Fresh, Seen, Finished, Tracked, Live, Pending, InTry, Closed, Draining
  <2>7. Draining'
    BY <1>11 DEF StdinError, handleVars, recordVars, hostVars, TypeOK, Draining, Pending, InTry, Closed
  <2> QED BY <2>1, <2>2, <2>3, <2>4, <2>5, <2>6, <2>7
<1>12. ASSUME NEW c \in Calls, KillCall(c)
      PROVE  Control'
  <2>1. TypeOK'
    BY <1>12 DEF KillCall, Kill, Closed, handleVars, recordVars, hostVars, TypeOK, InTry
  <2>2. Counted'
    BY <1>12, SameCounted DEF KillCall, handleVars, recordVars, hostVars
  <2>3. Fresh'
    BY <1>12 DEF KillCall, Kill, Closed, handleVars, recordVars, hostVars, TypeOK, Fresh
  <2>4. Seen'
    BY <1>12 DEF KillCall, Kill, Closed, handleVars, recordVars, hostVars, TypeOK, Seen, Live
  <2>5. Finished'
    BY <1>12 DEF KillCall, Kill, Closed, handleVars, recordVars, hostVars, TypeOK, Fresh, Seen, Finished, Live
  <2>6. Tracked'
    BY <1>12 DEF KillCall, Kill, Closed, handleVars, recordVars, hostVars, TypeOK, Fresh, Seen, Finished, Tracked, Live, Pending, InTry, Closed, Draining
  <2>7. Draining'
    BY <1>12 DEF KillCall, Kill, Closed, handleVars, recordVars, hostVars, TypeOK, Draining, Pending, InTry, Closed
  <2> QED BY <2>1, <2>2, <2>3, <2>4, <2>5, <2>6, <2>7
<1>13. ASSUME NEW c \in Calls, ExitEvent(c)
      PROVE  Control'
  <2>1. TypeOK'
    BY <1>13 DEF ExitEvent, Kill, handleVars, recordVars, hostVars, TypeOK, InTry
  <2>2. Counted'
    BY <1>13, SameCounted DEF ExitEvent, handleVars, recordVars, hostVars
  <2>3. Fresh'
    BY <1>13 DEF ExitEvent, Kill, handleVars, recordVars, hostVars, TypeOK, Fresh
  <2>4. Seen'
    BY <1>13 DEF ExitEvent, Kill, handleVars, recordVars, hostVars, TypeOK, Seen, Live, Finished
  <2>5. Finished'
    BY <1>13 DEF ExitEvent, Kill, handleVars, recordVars, hostVars, TypeOK, Fresh, Seen, Finished, Live
  <2>6. Tracked'
    BY <1>13 DEF ExitEvent, Kill, handleVars, recordVars, hostVars, TypeOK, Fresh, Seen, Finished, Tracked, Live, Pending, InTry, Closed, Draining
  <2>7. Draining'
    BY <1>13 DEF ExitEvent, Kill, handleVars, recordVars, hostVars, TypeOK, Draining, Pending, InTry, Closed
  <2> QED BY <2>1, <2>2, <2>3, <2>4, <2>5, <2>6, <2>7
<1>14. ASSUME NEW c \in Calls, CloseEvent(c)
      PROVE  Control'
  <2>0. /\ records' \subseteq records
        /\ \A d \in records : exit'[d] = "none" => d \in records'
        /\ \E how \in {"exited", "signalled", "timed_out"} : exit' = [exit EXCEPT ![c] = how]
    BY <1>14, EvictedFinished DEF CloseEvent, Finish, Outcome
  <2>1. TypeOK'
    BY <2>0, <1>14 DEF CloseEvent, Finish, Outcome, handleVars, recordVars, hostVars, TypeOK, InTry
  <2>2. Counted'
    BY <1>14, SameCounted DEF CloseEvent, handleVars, recordVars, hostVars, Finish
  <2>3. Fresh'
    BY <2>0, <1>14 DEF CloseEvent, Finish, Outcome, handleVars, recordVars, hostVars, TypeOK, Fresh, Live
  <2>4. Seen'
    BY <2>0, <1>14 DEF CloseEvent, Finish, Outcome, handleVars, recordVars, hostVars, TypeOK, Seen, Live
  <2>5. Finished'
    BY <2>0, <1>14 DEF CloseEvent, Finish, Outcome, handleVars, recordVars, hostVars, TypeOK, Fresh, Seen, Finished, Live
  <2>6. Tracked'
    BY <2>0, <1>14 DEF CloseEvent, Finish, Outcome, handleVars, recordVars, hostVars, TypeOK, Fresh, Seen, Finished, Tracked, Live, Pending, InTry, Closed, Draining
  <2>7. Draining'
    BY <2>0, <1>14 DEF CloseEvent, Finish, Outcome, handleVars, recordVars, hostVars, TypeOK, Draining, Pending, InTry, Closed
  <2> QED BY <2>1, <2>2, <2>3, <2>4, <2>5, <2>6, <2>7
<1>15. ASSUME NEW c \in Calls, Fork(c)
      PROVE  Control'
  <2>1. TypeOK'
    BY <1>15 DEF Fork, handleVars, recordVars, hostVars, TypeOK, InTry
  <2>2. Counted'
    BY <1>15, SameCounted DEF Fork, handleVars, recordVars, hostVars
  <2>3. Fresh'
    BY <1>15 DEF Fork, handleVars, recordVars, hostVars, TypeOK, Fresh
  <2>4. Seen'
    BY <1>15 DEF Fork, handleVars, recordVars, hostVars, TypeOK, Seen, Live
  <2>5. Finished'
    BY <1>15 DEF Fork, handleVars, recordVars, hostVars, TypeOK, Fresh, Seen, Finished, Live
  <2>6. Tracked'
    BY <1>15 DEF Fork, handleVars, recordVars, hostVars, TypeOK, Fresh, Seen, Finished, Tracked, Live, Pending, InTry, Closed, Draining
  <2>7. Draining'
    BY <1>15 DEF Fork, handleVars, recordVars, hostVars, TypeOK, Draining, Pending, InTry, Closed
  <2> QED BY <2>1, <2>2, <2>3, <2>4, <2>5, <2>6, <2>7
<1>16. ASSUME NEW c \in Calls, LeaderEnds(c)
      PROVE  Control'
  <2>1. TypeOK'
    BY <1>16 DEF LeaderEnds, handleVars, recordVars, hostVars, TypeOK, InTry
  <2>2. Counted'
    BY <1>16, SameCounted DEF LeaderEnds, handleVars, recordVars, hostVars
  <2>3. Fresh'
    BY <1>16 DEF LeaderEnds, handleVars, recordVars, hostVars, TypeOK, Fresh
  <2>4. Seen'
    BY <1>16 DEF LeaderEnds, handleVars, recordVars, hostVars, TypeOK, Seen, Live
  <2>5. Finished'
    BY <1>16 DEF LeaderEnds, handleVars, recordVars, hostVars, TypeOK, Fresh, Seen, Finished, Live
  <2>6. Tracked'
    BY <1>16 DEF LeaderEnds, handleVars, recordVars, hostVars, TypeOK, Fresh, Seen, Finished, Tracked, Live, Pending, InTry, Closed, Draining
  <2>7. Draining'
    BY <1>16 DEF LeaderEnds, handleVars, recordVars, hostVars, TypeOK, Draining, Pending, InTry, Closed
  <2> QED BY <2>1, <2>2, <2>3, <2>4, <2>5, <2>6, <2>7
<1>17. ASSUME NEW c \in Calls, Die(c)
      PROVE  Control'
  <2>1. TypeOK'
    BY <1>17 DEF Die, Reached, handleVars, recordVars, hostVars, TypeOK, InTry
  <2>2. Counted'
    BY <1>17, SameCounted DEF Die, handleVars, recordVars, hostVars
  <2>3. Fresh'
    BY <1>17 DEF Die, Reached, handleVars, recordVars, hostVars, TypeOK, Fresh
  <2>4. Seen'
    BY <1>17 DEF Die, Reached, handleVars, recordVars, hostVars, TypeOK, Seen, Live
  <2>5. Finished'
    BY <1>17 DEF Die, Reached, handleVars, recordVars, hostVars, TypeOK, Fresh, Seen, Finished, Live
  <2>6. Tracked'
    BY <1>17 DEF Die, Reached, handleVars, recordVars, hostVars, TypeOK, Fresh, Seen, Finished, Tracked, Live, Pending, InTry, Closed, Draining
  <2>7. Draining'
    BY <1>17 DEF Die, Reached, handleVars, recordVars, hostVars, TypeOK, Draining, Pending, InTry, Closed
  <2> QED BY <2>1, <2>2, <2>3, <2>4, <2>5, <2>6, <2>7
<1>18. CASE Dispose
  <2>1. TypeOK'
    BY <1>18 DEF Dispose, Closed, handleVars, recordVars, hostVars, TypeOK, InTry, Pending
  <2>2. Counted'
    BY <1>18, SameCounted DEF Dispose, handleVars, recordVars, hostVars
  <2>3. Fresh'
    BY <1>18 DEF Dispose, Closed, handleVars, recordVars, hostVars, TypeOK, Fresh
  <2>4. Seen'
    BY <1>18 DEF Dispose, Closed, handleVars, recordVars, hostVars, TypeOK, Seen, Live
  <2>5. Finished'
    BY <1>18 DEF Dispose, Closed, handleVars, recordVars, hostVars, TypeOK, Fresh, Seen, Finished, Live
  <2>6. Tracked'
    BY <1>18 DEF Dispose, Closed, handleVars, recordVars, hostVars, TypeOK, Fresh, Seen, Finished, Tracked, Live, Pending, InTry, Closed, Draining
  <2>7. Draining'
    BY <1>18 DEF Dispose, Closed, handleVars, recordVars, hostVars, TypeOK, Draining, Pending, InTry, Closed
  <2> QED BY <2>1, <2>2, <2>3, <2>4, <2>5, <2>6, <2>7
<1>19. CASE DisposeKill
  <2>1. TypeOK'
    BY <1>19 DEF DisposeKill, Kill, handleVars, recordVars, hostVars, TypeOK, InTry
  <2>2. Counted'
    BY <1>19, SameCounted DEF DisposeKill, handleVars, recordVars, hostVars
  <2>3. Fresh'
    BY <1>19 DEF DisposeKill, Kill, handleVars, recordVars, hostVars, TypeOK, Fresh
  <2>4. Seen'
    BY <1>19 DEF DisposeKill, Kill, handleVars, recordVars, hostVars, TypeOK, Seen, Live
  <2>5. Finished'
    BY <1>19 DEF DisposeKill, Kill, handleVars, recordVars, hostVars, TypeOK, Fresh, Seen, Finished, Live
  <2>6. Tracked'
    BY <1>19 DEF DisposeKill, Kill, handleVars, recordVars, hostVars, TypeOK, Fresh, Seen, Finished, Tracked, Live, Pending, InTry, Closed, Draining
  <2>7. Draining'
    BY <1>19 DEF DisposeKill, Kill, handleVars, recordVars, hostVars, TypeOK, Draining, Pending, InTry, Closed
  <2> QED BY <2>1, <2>2, <2>3, <2>4, <2>5, <2>6, <2>7
<1>20. CASE DisposeResolve
  <2>1. TypeOK'
    BY <1>20 DEF DisposeResolve, AllDone, handleVars, recordVars, hostVars, TypeOK, InTry
  <2>2. Counted'
    BY <1>20, SameCounted DEF DisposeResolve, handleVars, recordVars, hostVars
  <2>3. Fresh'
    BY <1>20 DEF DisposeResolve, AllDone, handleVars, recordVars, hostVars, TypeOK, Fresh
  <2>4. Seen'
    BY <1>20 DEF DisposeResolve, AllDone, handleVars, recordVars, hostVars, TypeOK, Seen, Live
  <2>5. Finished'
    BY <1>20 DEF DisposeResolve, AllDone, handleVars, recordVars, hostVars, TypeOK, Fresh, Seen, Finished, Live
  <2>6. Tracked'
    BY <1>20 DEF DisposeResolve, AllDone, handleVars, recordVars, hostVars, TypeOK, Fresh, Seen, Finished, Tracked, Live, Pending, InTry, Closed, Draining
  <2>7. Draining'
    BY <1>20 DEF DisposeResolve, AllDone, handleVars, recordVars, hostVars, TypeOK, Draining, Pending, InTry, Closed
  <2> QED BY <2>1, <2>2, <2>3, <2>4, <2>5, <2>6, <2>7
<1>21. CASE DisposeTimeout
  <2>1. TypeOK'
    BY <1>21 DEF DisposeTimeout, AllDone, handleVars, recordVars, hostVars, TypeOK, InTry
  <2>2. Counted'
    BY <1>21, SameCounted DEF DisposeTimeout, handleVars, recordVars, hostVars
  <2>3. Fresh'
    BY <1>21 DEF DisposeTimeout, AllDone, handleVars, recordVars, hostVars, TypeOK, Fresh
  <2>4. Seen'
    BY <1>21 DEF DisposeTimeout, AllDone, handleVars, recordVars, hostVars, TypeOK, Seen, Live
  <2>5. Finished'
    BY <1>21 DEF DisposeTimeout, AllDone, handleVars, recordVars, hostVars, TypeOK, Fresh, Seen, Finished, Live
  <2>6. Tracked'
    BY <1>21 DEF DisposeTimeout, AllDone, handleVars, recordVars, hostVars, TypeOK, Fresh, Seen, Finished, Tracked, Live, Pending, InTry, Closed, Draining
  <2>7. Draining'
    BY <1>21 DEF DisposeTimeout, AllDone, handleVars, recordVars, hostVars, TypeOK, Draining, Pending, InTry, Closed
  <2> QED BY <2>1, <2>2, <2>3, <2>4, <2>5, <2>6, <2>7
<1>22. CASE UNCHANGED vars
  BY <1>22 DEF vars, handleVars, recordVars, hostVars, TypeOK, Counted, Fresh, Seen, Finished, Tracked, Draining, Live, Pending
<1> QED BY <1>1, <1>2, <1>3, <1>4, <1>5, <1>6, <1>7, <1>8, <1>9, <1>10, <1>11, <1>12, <1>13, <1>14, <1>15, <1>16, <1>17, <1>18, <1>19, <1>20, <1>21, <1>22 DEF Next, CallStep, DisposeStep

-----------------------------------------------------------------------------
(* The limit.                                                              *)

\* The managed calls are finitely many.
LEMMA ManagedFinite == TypeOK => IsFiniteSet(Managed) /\ Managed \subseteq Calls
BY CallsAssumption, FS_Subset DEF Managed, Pending, Unfinished, TypeOK

\* A step that adds no managed call keeps the limit.
LEMMA Shrinks ==
    ASSUME TypeOK, ManagedBound, Managed' \subseteq Managed
    PROVE  ManagedBound'
<1>1. Cardinality(Managed') <= Cardinality(Managed)
  BY ManagedFinite, FS_Subset
<1>2. Cardinality(Managed') \in Nat /\ Cardinality(Managed) \in Nat
  BY ManagedFinite, FS_Subset, FS_CardinalityType
<1> QED BY <1>1, <1>2, LimitAssumption DEF ManagedBound

\* Admission is the only step that adds a managed call; it finds room for it, as
\* its count is never below the number of managed calls.
LEMMA Admits ==
    ASSUME Control, NEW c \in Calls, ~AtLimit,
           pc[c] = "idle", pc' = [pc EXCEPT ![c] = "resolving"],
           UNCHANGED <<records, exit>>
    PROVE  ManagedBound'
<1>1. Managed' = Managed \cup {c}
  BY DEF Managed, Pending, Unfinished, Control, TypeOK, InTry
<1>2. IsFiniteSet(Pending) /\ IsFiniteSet(Unfinished) /\ IsFiniteSet(Managed)
  BY CallsAssumption, FS_Subset, ManagedFinite DEF Pending, Unfinished, Control, TypeOK
<1>3. Cardinality(Managed) <= Cardinality(Pending) + Cardinality(Unfinished)
  <2>1. Cardinality(Pending \cup Unfinished)
          = Cardinality(Pending) + Cardinality(Unfinished) - Cardinality(Pending \cap Unfinished)
    BY <1>2, FS_Union
  <2>2. Cardinality(Pending \cap Unfinished) \in Nat
    BY <1>2, FS_Intersection, FS_CardinalityType
  <2>3. Cardinality(Pending) \in Nat /\ Cardinality(Unfinished) \in Nat
    BY <1>2, FS_CardinalityType
  <2> QED BY <2>1, <2>2, <2>3 DEF Managed
<1>4. Cardinality(Managed \cup {c}) <= Cardinality(Managed) + 1
  <2>1. Cardinality(Managed) \in Nat
    BY <1>2, FS_CardinalityType
  <2>2. Cardinality(Managed \cup {c})
          = IF c \in Managed THEN Cardinality(Managed) ELSE Cardinality(Managed) + 1
    BY <1>2, FS_AddElement, Zenon
  <2> QED BY <2>1, <2>2
<1>5. /\ Cardinality(Managed) \in Nat /\ Cardinality(Managed \cup {c}) \in Nat
      /\ Cardinality(Pending) \in Nat /\ Cardinality(Unfinished) \in Nat
  BY <1>2, FS_CardinalityType, FS_AddElement
<1> QED BY <1>1, <1>3, <1>4, <1>5, LimitAssumption DEF AtLimit, Control, Counted, ManagedBound

\* Every step keeps the limit.
LEMMA LimitStep == Control /\ ManagedBound /\ [Next]_vars => ManagedBound'
<1> SUFFICES ASSUME Control, ManagedBound, [Next]_vars
             PROVE  ManagedBound'
    OBVIOUS
<1> USE DEF Control
<1>0. TypeOK
  OBVIOUS
<1>1. ASSUME NEW c \in Calls, Spawn(c)
      PROVE  ManagedBound'
  <2>1. CASE ~AtLimit /\ pc' = [pc EXCEPT ![c] = "resolving"]
    BY <1>1, <2>1, Admits DEF Spawn, recordVars
  <2>2. CASE \E how \in {"threw", "limited"} : pc' = [pc EXCEPT ![c] = how]
    <3>1. Managed' \subseteq Managed
      BY <1>1, <2>2 DEF Spawn, recordVars, Managed, Pending, Unfinished, InTry, TypeOK
    <3> QED BY <3>1, Shrinks
  <2> QED BY <1>1, <2>1, <2>2 DEF Spawn
<1>2. ASSUME NEW c \in Calls, Resolved(c) \/ Prepared(c)
      PROVE  ManagedBound'
  <2>0. c \in Pending
    BY <1>2 DEF Resolved, Prepared, Pending, InTry
  <2>1. /\ \A d \in Calls : d # c => pc'[d] = pc[d] /\ exit'[d] = exit[d]
        /\ records' \subseteq records \cup {c}
    <3>1. CASE Leave(c, "threw") /\ UNCHANGED <<records, pid, next, recordVars, hostVars>>
      BY <3>1 DEF Leave, recordVars, TypeOK
    <3>2. CASE Launch(c)
      <4>1. CASE Leave(c, "threw") /\ UNCHANGED <<records, pid, next, recordVars, hostVars>>
        BY <4>1 DEF Leave, recordVars, TypeOK
      <4>2. CASE Finish(c, records \cup {c}, pid', "signalled") /\ Leave(c, "threw")
        BY <4>2 DEF Finish, Leave, TypeOK
      <4>3. CASE /\ records' = records \cup {c}
                 /\ \E stdin \in Maybe("stdin") :
                      IF Linux \/ stdin
                      THEN /\ pc' = [pc EXCEPT ![c] = IF Linux THEN "starting" ELSE "writing"]
                           /\ UNCHANGED inFlight
                      ELSE Leave(c, "returned")
                 /\ UNCHANGED exit
        <5>1. \E at : pc' = [pc EXCEPT ![c] = at]
          BY <4>3, Zenon DEF Leave
        <5> QED BY <4>3, <5>1 DEF TypeOK
      <4> QED BY <3>2, <4>1, <4>2, <4>3 DEF Launch
    <3>3. CASE /\ pc' = [pc EXCEPT ![c] = "preparing"]
               /\ UNCHANGED <<inFlight, records, pid, next, recordVars, hostVars>>
      BY <3>3 DEF recordVars, TypeOK
    <3> QED BY <1>2, <3>1, <3>2, <3>3 DEF Resolved, Prepared
  <2>2. Managed' \subseteq Managed
    BY <2>0, <2>1 DEF Managed, Pending, Unfinished, TypeOK
  <2> QED BY <2>2, Shrinks
<1>3. ASSUME NEW c \in Calls, Ready(c) \/ Written(c) \/ Ended(c) \/ StdinFails(c)
      PROVE  ManagedBound'
  <2>0. c \in Pending
    BY <1>3 DEF Ready, Written, Ended, StdinFails, Pending, InTry
  <2>1. (\E at : pc' = [pc EXCEPT ![c] = at]) /\ UNCHANGED <<records, exit>>
    BY <1>3 DEF Ready, Written, Ended, StdinFails, Leave, recordVars
  <2>2. Managed' \subseteq Managed
    BY <2>0, <2>1 DEF Managed, Pending, Unfinished, TypeOK
  <2> QED BY <2>2, Shrinks
<1>4. ASSUME NEW c \in Calls, CloseEvent(c)
      PROVE  ManagedBound'
  <2>1. /\ pc' = pc /\ records' \subseteq records
        /\ \E how : how # "none" /\ exit' = [exit EXCEPT ![c] = how]
    BY <1>4 DEF CloseEvent, Finish, Outcome
  <2>2. Managed' \subseteq Managed
    BY <2>1 DEF Managed, Pending, Unfinished, TypeOK
  <2> QED BY <2>2, Shrinks
<1>5. ASSUME pc' = pc, exit' = exit, records' \subseteq records
      PROVE  ManagedBound'
  <2>1. Managed' \subseteq Managed
    BY <1>5 DEF Managed, Pending, Unfinished
  <2> QED BY <2>1, Shrinks
<1>6. ASSUME NEW c \in Calls,
             \/ TimerFires(c) \/ Abort(c) \/ Overrun(c) \/ StdinError(c) \/ KillCall(c)
             \/ ExitEvent(c) \/ Fork(c) \/ LeaderEnds(c) \/ Die(c)
      PROVE  ManagedBound'
  BY <1>5, <1>6 DEF TimerFires, Abort, Overrun, StdinError, KillCall, ExitEvent, Fork,
                    LeaderEnds, Die, handleVars, recordVars
<1>7. CASE DisposeStep
  BY <1>5, <1>7 DEF DisposeStep, Dispose, DisposeKill, DisposeResolve, DisposeTimeout, recordVars
<1>8. CASE UNCHANGED vars
  BY <1>5, <1>8 DEF vars, handleVars, recordVars
<1> QED BY <1>1, <1>2, <1>3, <1>4, <1>6, <1>7, <1>8 DEF Next, CallStep

-----------------------------------------------------------------------------
(* History.                                                                *)

\* Records have pids of their own, all below #next.
Pids ==
    /\ \A c \in Calls : pid[c] < next
    /\ \A c, d \in records : pid[c] = pid[d] => c = d

\* Eviction leaves at most MaxRetained finished records: how many newer ones there
\* are tells the records that are kept apart, and is below MaxRetained.
LEMMA EvictionBound ==
    ASSUME NEW recs \in SUBSET Calls, NEW ex, NEW order \in [Calls -> Nat],
           \A c, d \in recs : order[c] = order[d] => c = d
    PROVE  Cardinality({c \in recs \ Evicted(recs, ex, order) : ex[c] # "none"}) <= MaxRetained
<1> DEFINE finished == {c \in recs : ex[c] # "none"}
           newer(c) == {d \in finished : order[d] > order[c]}
           kept == {c \in recs \ Evicted(recs, ex, order) : ex[c] # "none"}
           ranks == 0 .. (MaxRetained - 1)
           rank == [c \in kept |-> Cardinality(newer(c))]
<1>1. kept \subseteq finished /\ finished \subseteq Calls /\ IsFiniteSet(finished) /\ IsFiniteSet(kept)
  <2>1. kept \subseteq finished /\ finished \subseteq Calls /\ kept \subseteq Calls
    OBVIOUS
  <2> QED BY <2>1, CallsAssumption, FS_Subset
<1>2. ASSUME NEW c \in kept PROVE Cardinality(newer(c)) \in ranks
  <2>1. IsFiniteSet(newer(c))
    BY <1>1, FS_Subset
  <2>2. Cardinality(newer(c)) \in Nat
    BY <2>1, FS_CardinalityType
  <2>3. ~(Cardinality(newer(c)) >= MaxRetained)
    BY <1>2 DEF Evicted
  <2> HIDE DEF newer
  <2> QED BY <2>2, <2>3, LimitAssumption
<1>3. IsFiniteSet(ranks) /\ Cardinality(ranks) = MaxRetained
  <2>1. MaxRetained \in Nat /\ MaxRetained >= 1 /\ 0 \in Int /\ MaxRetained - 1 \in Int
    BY LimitAssumption
  <2>2. IsFiniteSet(ranks) /\ Cardinality(ranks) = IF 0 > MaxRetained - 1 THEN 0 ELSE (MaxRetained - 1) - 0 + 1
    BY <2>1, FS_Interval
  <2> QED BY <2>1, <2>2
<1>4. ASSUME NEW c \in kept, NEW d \in kept, order[c] < order[d]
      PROVE  Cardinality(newer(c)) # Cardinality(newer(d))
  <2>1. c \in Calls /\ d \in finished /\ order[c] \in Nat /\ order[d] \in Nat
    BY <1>1
  <2>2. \A e \in finished : order[e] \in Nat
    BY <1>1
  <2>3. newer(d) \subseteq newer(c) /\ d \in newer(c) /\ d \notin newer(d)
    BY <1>4, <2>1, <2>2
  <2>4. IsFiniteSet(newer(c))
    BY <1>1, FS_Subset
  <2> HIDE DEF newer
  <2> QED BY <2>3, <2>4, FS_Subset
<1>5. rank \in [kept -> ranks] /\ \A c \in kept : rank[c] = Cardinality(newer(c))
  BY <1>2
<1>6. \A c, d \in kept : order[c] \in Nat /\ order[d] \in Nat /\ (order[c] = order[d] => c = d)
  OBVIOUS
<1> HIDE DEF kept, newer, ranks, rank
<1>7. ASSUME NEW c \in kept, NEW d \in kept, rank[c] = rank[d] PROVE c = d
  <2>1. ~(order[c] < order[d]) /\ ~(order[d] < order[c])
    BY <1>4, <1>5, <1>7
  <2> QED BY <1>6, <2>1
<1>8. ~(Cardinality(ranks) < Cardinality(kept))
  BY <1>1, <1>3, <1>5, <1>7, FS_PigeonHole
<1>9. Cardinality(kept) \in Nat
  BY <1>1, FS_CardinalityType
<1>10. Cardinality(kept) <= MaxRetained
  BY <1>3, <1>8, <1>9, LimitAssumption
<1> QED BY <1>10 DEF kept

\* A record that finishes gives way to newer ones, or makes older ones give way.
LEMMA FinishRetains ==
    ASSUME NEW c, NEW recs \in SUBSET Calls, NEW order \in [Calls -> Nat], NEW outcome,
           \A a, b \in recs : order[a] = order[b] => a = b,
           Finish(c, recs, order, outcome)
    PROVE  RetainedBound' /\ records' \subseteq recs
<1>1. Cardinality({a \in recs \ Evicted(recs, exit', order) : exit'[a] # "none"}) <= MaxRetained
  BY EvictionBound
<1> QED BY <1>1 DEF Finish, RetainedBound

\* A launch takes the next pid, and its record is not finished or trims history.
LEMMA LaunchRetains ==
    ASSUME Control, Pids, RetainedBound, NEW c \in Calls, pc[c] \in {"resolving", "preparing"}, Launch(c)
    PROVE  Pids' /\ RetainedBound'
<1>0. TypeOK /\ Fresh
  BY DEF Control
<1>1. CASE UNCHANGED <<records, pid, next, recordVars>>
  BY <1>1 DEF Pids, RetainedBound, recordVars
<1>2. CASE pid' = [pid EXCEPT ![c] = next] /\ next' = next + 1
  <2>1. records \subseteq Calls /\ pid \in [Calls -> Nat] /\ next \in Nat /\ pid' \in [Calls -> Nat]
    BY <1>0, <1>2 DEF TypeOK
  <2>2. \A d \in Calls : pid'[d] < next'
    BY <1>2, <2>1 DEF Pids
  <2>3. \A a, b \in records \cup {c} : pid'[a] = pid'[b] => a = b
    BY <1>2, <2>1 DEF Pids
  <2>4. CASE Finish(c, records \cup {c}, pid', "signalled")
    <3>1. RetainedBound' /\ records' \subseteq records \cup {c}
      BY <2>1, <2>3, <2>4, FinishRetains
    <3> QED BY <2>2, <2>3, <3>1 DEF Pids
  <2>5. CASE records' = records \cup {c} /\ exit' = exit
    <3>1. exit[c] = "none"
      BY <1>0 DEF Fresh
    <3>2. {d \in records' : exit'[d] # "none"} = {d \in records : exit[d] # "none"}
      BY <2>5, <3>1
    <3> QED BY <2>2, <2>3, <2>5, <3>2 DEF Pids, RetainedBound
  <2> QED BY <1>2, <2>4, <2>5 DEF Launch, recordVars
<1> QED BY <1>1, <1>2 DEF Launch

\* Every step keeps history within its bound.
LEMMA HistoryStep == Control /\ Pids /\ RetainedBound /\ [Next]_vars => Pids' /\ RetainedBound'
<1> SUFFICES ASSUME Control, Pids, RetainedBound, [Next]_vars
             PROVE  Pids' /\ RetainedBound'
    OBVIOUS
<1>0. records \subseteq Calls /\ pid \in [Calls -> Nat]
  BY DEF Control, TypeOK
<1>1. ASSUME UNCHANGED <<records, pid, next, exit>> PROVE Pids' /\ RetainedBound'
  BY <1>1 DEF Pids, RetainedBound
<1>2. ASSUME NEW c \in Calls, Resolved(c) \/ Prepared(c)
      PROVE  Pids' /\ RetainedBound'
  <2>1. CASE Launch(c)
    BY <1>2, <2>1, LaunchRetains DEF Resolved, Prepared
  <2>2. CASE UNCHANGED <<records, pid, next, recordVars>>
    BY <1>1, <2>2 DEF recordVars
  <2> QED BY <1>2, <2>1, <2>2 DEF Resolved, Prepared
<1>3. ASSUME NEW c \in Calls, CloseEvent(c)
      PROVE  Pids' /\ RetainedBound'
  <2>1. PICK outcome : Finish(c, records, pid, outcome) /\ pid' = pid /\ next' = next
    BY <1>3 DEF CloseEvent
  <2>2. RetainedBound' /\ records' \subseteq records
    BY <1>0, <2>1, FinishRetains DEF Pids
  <2> QED BY <2>1, <2>2 DEF Pids
<1>4. ASSUME NEW c \in Calls,
             \/ Spawn(c) \/ Ready(c) \/ Written(c) \/ Ended(c) \/ StdinFails(c)
             \/ TimerFires(c) \/ Abort(c) \/ Overrun(c) \/ StdinError(c) \/ KillCall(c)
             \/ ExitEvent(c) \/ Fork(c) \/ LeaderEnds(c) \/ Die(c)
      PROVE  Pids' /\ RetainedBound'
  <2>1. UNCHANGED <<records, pid, next, exit>>
    BY <1>4 DEF Spawn, Ready, Written, Ended, StdinFails, TimerFires, Abort, Overrun, StdinError,
                KillCall, ExitEvent, Fork, LeaderEnds, Die, handleVars, recordVars
  <2> QED BY <1>1, <2>1
<1>5. CASE DisposeStep
  <2>1. CASE UNCHANGED <<records, pid, next, exit>>
    BY <1>1, <2>1
  <2>2. CASE records' = {} /\ UNCHANGED <<pid, next>>
    <3>1. {c \in records' : exit'[c] # "none"} = {}
      BY <2>2
    <3>2. Cardinality({c \in records' : exit'[c] # "none"}) = 0
      BY <3>1, FS_EmptySet
    <3>3. RetainedBound'
      BY <3>2, LimitAssumption DEF RetainedBound
    <3> QED BY <2>2, <3>3 DEF Pids
  <2> QED BY <1>5, <2>1, <2>2
          DEF DisposeStep, Dispose, DisposeKill, DisposeResolve, DisposeTimeout, recordVars
<1>6. CASE UNCHANGED vars
  BY <1>1, <1>6 DEF vars, handleVars, recordVars
<1> QED BY <1>2, <1>3, <1>4, <1>5, <1>6 DEF Next, CallStep

-----------------------------------------------------------------------------
(* Theorems.                                                               *)

\* Both invariants hold in every behaviour.
LEMMA Invariant == Spec => [](Control /\ ManagedBound)
<1>1. Init => ManagedBound
  <2>1. Init => Managed = {}
    BY DEF Init, Managed, Pending, Unfinished, InTry
  <2> QED BY <2>1, FS_EmptySet, LimitAssumption DEF ManagedBound
<1> QED BY <1>1, ControlInit, ControlStep, LimitStep, PTL DEF Spec

\* Every variable keeps its type; in particular #inFlight never goes below zero.
THEOREM NativeTyping == Spec => []TypeOK
BY Invariant, PTL DEF Control

\* managedProcessLimit holds for every number of concurrent spawns (native.ts
\* lines 111-112 and 169).
THEOREM Limit == Spec => []ManagedBound
BY Invariant, PTL

\* retainedProcessLimit bounds the finished records (native.ts lines 139-140),
\* whatever order the processes finish in.
THEOREM History == Spec => []RetainedBound
<1>1. Init => Pids /\ RetainedBound
  <2>1. Init => {c \in records : exit[c] # "none"} = {}
    BY DEF Init
  <2>2. Init => RetainedBound
    BY <2>1, FS_EmptySet, LimitAssumption DEF RetainedBound
  <2> QED BY <2>2 DEF Init, Pids
<1> QED BY <1>1, ControlInit, ControlStep, HistoryStep, PTL DEF Spec

\* A finished process has ended and its group was killed (line 153).
THEOREM GroupKilled == Spec => []FinishedGroupIsKilled
<1>1. Control => FinishedGroupIsKilled
  BY DEF Control, Seen, Finished, FinishedGroupIsKilled
<1> QED BY <1>1, Invariant, PTL

\* dispose() goes on only when no spawn is pending any more (line 199).
THEOREM WaitsForSpawns == Spec => []DisposeWaitsForSpawns
<1>1. Control => DisposeWaitsForSpawns
  BY DEF Control, Draining, DisposeWaitsForSpawns
<1> QED BY <1>1, Invariant, PTL

\* A dispose() that resolves leaves no child running (lines 199-204).
THEOREM DisposedDead == Spec => []DisposedMeansDead
<1>1. Control => DisposedMeansDead
  BY DEF Control, Tracked, Seen, Finished, Live, DisposedMeansDead
<1> QED BY <1>1, Invariant, PTL

\* No child is born once dispose() was called (lines 117 and 123).
THEOREM NoLaunch == Spec => NoLaunchAfterDispose
<1>1. Control /\ [Next]_vars =>
        [Closed => \A c \in Calls : leader[c] = "none" => leader'[c] = "none"]_vars
  <2> SUFFICES ASSUME Control, Next, Closed, NEW d \in Calls, leader[d] = "none"
               PROVE  leader'[d] = "none"
      BY DEF vars
  <2> USE DEF Control
  <2>1. ASSUME NEW c \in Calls, Resolved(c) \/ Prepared(c)
        PROVE  leader' = leader
    BY <2>1 DEF Resolved, Prepared, Refused, Leave, hostVars
  <2>2. ASSUME NEW c \in Calls, LeaderEnds(c) \/ Die(c)
        PROVE  leader'[d] = "none"
    BY <2>2 DEF LeaderEnds, Die, TypeOK
  <2>3. ASSUME NEW c \in Calls,
               \/ Spawn(c) \/ Ready(c) \/ Written(c) \/ Ended(c) \/ StdinFails(c)
               \/ TimerFires(c) \/ Abort(c) \/ Overrun(c) \/ StdinError(c) \/ KillCall(c)
               \/ ExitEvent(c) \/ CloseEvent(c) \/ Fork(c)
        PROVE  leader' = leader
    BY <2>3 DEF Spawn, Ready, Written, Ended, StdinFails, TimerFires, Abort, Overrun,
                StdinError, KillCall, ExitEvent, CloseEvent, Fork, hostVars
  <2>4. CASE DisposeStep
    BY <2>4 DEF DisposeStep, Dispose, DisposeKill, DisposeResolve, DisposeTimeout, hostVars
  <2> QED BY <2>1, <2>2, <2>3, <2>4 DEF Next, CallStep
<1> QED BY <1>1, Invariant, PTL DEF Spec, NoLaunchAfterDispose
=============================================================================
