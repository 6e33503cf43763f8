------------------------- MODULE RequestStateProofs -------------------------
(***************************************************************************)
(* Proofs about RequestState, for every set of requests and commit() calls  *)
(* and every MaxTurn: Inv is inductive, the safety properties follow from   *)
(* it, and the file protocol implements RequestLedger.                      *)
(***************************************************************************)
EXTENDS RequestState, TLAPS

USE TurnAssumption, NoneAssumption

\* What an update of one commit() call's entry does to cpc and temp, whose
\* entries are indexed by request and then by call.
LEMMA NestedUpdate ==
    ASSUME NEW S, NEW f \in [Requests -> [Calls -> S]],
           NEW r \in Requests, NEW c \in Calls, NEW v \in S
    PROVE  LET g == [f EXCEPT ![r][c] = v]
           IN  /\ g \in [Requests -> [Calls -> S]]
               /\ \A s \in Requests, d \in Calls :
                     g[s][d] = IF s = r /\ d = c THEN v ELSE f[s][d]
OBVIOUS

\* A commit() call that moves on keeps cpc typed and moves no other call.
LEMMA GotoCallEffect ==
    ASSUME TypeOK, NEW r \in Requests, NEW c \in Calls,
           NEW label \in CallStates, GotoCall(r, c, label)
    PROVE  /\ cpc' \in [Requests -> [Calls -> CallStates]]
           /\ \A s \in Requests, d \in Calls :
                 cpc'[s][d] = IF s = r /\ d = c THEN label ELSE cpc[s][d]
BY NestedUpdate DEF TypeOK, GotoCall

\* The same for the temporary file of one commit() call.
LEMMA TempEffect ==
    ASSUME TypeOK, NEW r \in Requests, NEW c \in Calls,
           NEW v \in TempStates, temp' = [temp EXCEPT ![r][c] = v]
    PROVE  /\ temp' \in [Requests -> [Calls -> TempStates]]
           /\ \A s \in Requests, d \in Calls :
                 temp'[s][d] = IF s = r /\ d = c THEN v ELSE temp[s][d]
BY NestedUpdate DEF TypeOK

\* A process that dies loses its commit() calls in progress and no other.
LEMMA LostEffect ==
    ASSUME NEW calls \in [Calls -> CallStates]
    PROVE  /\ Lost(calls) \in [Calls -> CallStates]
           /\ \A c \in Calls : Lost(calls)[c] =
                 IF calls[c] \in InProgress THEN "lost" ELSE calls[c]
BY DEF Lost, CallStates


\* Every step of commit() moves its own call to some label, and its temporary
\* file to some state.
LEMMA CommitStepEffect ==
    ASSUME TypeOK, NEW r \in Requests, NEW c \in Calls, CommitStep(r, c)
    PROVE  /\ pc' = pc /\ turn' = turn /\ historyVars' = historyVars
           /\ cpc' \in [Requests -> [Calls -> CallStates]]
           /\ temp' \in [Requests -> [Calls -> TempStates]]
           /\ \A s \in Requests, d \in Calls :
                 ~(s = r /\ d = c) => cpc'[s][d] = cpc[s][d] /\ temp'[s][d] = temp[s][d]
<1>1. \E label \in CallStates : GotoCall(r, c, label)
  BY DEF CommitStep, CallCommit, CreateTemp, FlushTemp, PublishCheckpoint,
         SettleCheckpoint, ReleaseMarker, ConfirmRelease, CleanupTemp, Fail,
         CallStates, NotStarted, InProgress, BeforeRelease
<1>2. \/ temp' = temp
      \/ \E v \in TempStates : temp' = [temp EXCEPT ![r][c] = v]
  BY DEF CommitStep, CallCommit, CreateTemp, FlushTemp, PublishCheckpoint, Rename,
         SettleCheckpoint, ReleaseMarker, ConfirmRelease, CleanupTemp, Fail, TempStates
<1>3. pc' = pc /\ turn' = turn /\ historyVars' = historyVars
  BY DEF CommitStep, CallCommit, CreateTemp, FlushTemp, PublishCheckpoint,
         SettleCheckpoint, ReleaseMarker, ConfirmRelease, CleanupTemp
<1>4. /\ cpc' \in [Requests -> [Calls -> CallStates]]
      /\ \A s \in Requests, d \in Calls : ~(s = r /\ d = c) => cpc'[s][d] = cpc[s][d]
  BY <1>1, GotoCallEffect
<1>5. /\ temp' \in [Requests -> [Calls -> TempStates]]
      /\ \A s \in Requests, d \in Calls : ~(s = r /\ d = c) => temp'[s][d] = temp[s][d]
  BY <1>2, TempEffect DEF TypeOK
<1> QED
  BY <1>3, <1>4, <1>5

\* Every step of beginRequest, of commit() and of the environment keeps each
\* variable in its range.
LEMMA TypeStep == TypeOK /\ [Next]_vars => TypeOK'
<1> SUFFICES ASSUME TypeOK, [Next]_vars PROVE TypeOK'
  OBVIOUS
<1>1. ASSUME NEW r \in Requests, BeginStep(r) PROVE TypeOK'
  <2> USE DEF TypeOK, handleVars, nameVars, historyVars, At, Goto,
              SetPending, SyncDirectory, Live, Beginning
  <2>1. CASE OpenMarker(r)
    <3>1. PICK t \in Turns : turn' = [turn EXCEPT ![r] = t]
      BY <2>1 DEF OpenMarker
    <3>2. turn' \in [Requests -> Turns]
      BY <3>1
    <3>3. pc' \in [Requests -> Live \cup {"idle", "refused", "dead"}]
      BY <2>1 DEF OpenMarker
    <3> QED
      BY <2>1, <3>2, <3>3 DEF OpenMarker
  <2>2. CASE WriteMarker(r) \/ SyncMarker(r) \/ LoadCheckpoint(r) \/ AbortBegin(r)
    BY <2>2 DEF WriteMarker, SyncMarker, LoadCheckpoint, AbortBegin
  <2> QED
    BY <1>1, <2>1, <2>2 DEF BeginStep
<1>2. ASSUME NEW r \in Requests, NEW c \in Calls, CommitStep(r, c) PROVE TypeOK'
  <2>1. /\ checkpoint' \in Torn .. MaxTurn + 1
        /\ diskCheckpoint' \in SUBSET (Torn .. MaxTurn + 1)
        /\ pending' \in Requests \cup {None}
        /\ diskPending' \in SUBSET (Requests \cup {None})
    <3>1. UNCHANGED nameVars \/ Rename(r, c) \/ SyncDirectory \/ SetPending(None)
      BY <1>2 DEF CommitStep, CallCommit, CreateTemp, FlushTemp, PublishCheckpoint,
                  SettleCheckpoint, ReleaseMarker, ConfirmRelease, CleanupTemp, Fail
    <3>2. CASE Rename(r, c)
      <4>1. turn[r] + 1 \in Torn .. MaxTurn + 1 /\ Torn \in Torn .. MaxTurn + 1
        BY DEF TypeOK, Turns, Torn
      <4> QED
        BY <3>2, <4>1 DEF Rename, TypeOK
    <3>3. CASE UNCHANGED nameVars \/ SyncDirectory \/ SetPending(None)
      BY <3>3 DEF nameVars, SyncDirectory, SetPending, TypeOK
    <3> QED
      BY <3>1, <3>2, <3>3
  <2>2. committing' \in SUBSET Requests /\ committed' \in SUBSET Requests
    <3>1. CASE CallCommit(r, c) \/ ConfirmRelease(r, c)
      BY <3>1 DEF CallCommit, ConfirmRelease, TypeOK
    <3>2. CASE ~CallCommit(r, c) /\ ~ConfirmRelease(r, c)
      BY <1>2, <3>2 DEF CommitStep, CreateTemp, FlushTemp, PublishCheckpoint,
                        SettleCheckpoint, ReleaseMarker, CleanupTemp, TypeOK
    <3> QED
      BY <3>1, <3>2
  <2> QED
    BY <1>2, <2>1, <2>2, CommitStepEffect DEF TypeOK, historyVars
<1>3. ASSUME NEW r \in Requests, Crash(r) PROVE TypeOK'
  <2>1. cpc' \in [Requests -> [Calls -> CallStates]]
    BY <1>3, LostEffect DEF Crash, TypeOK
  <2> QED
    BY <1>3, <2>1 DEF Crash, TypeOK, Goto, nameVars, historyVars, Live
<1>4. CASE PowerLoss
  <2>1. cpc' \in [Requests -> [Calls -> CallStates]]
    BY <1>4, LostEffect DEF PowerLoss, TypeOK
  <2> QED
    BY <1>4, <2>1 DEF PowerLoss, TypeOK, historyVars
<1>5. CASE Recover
  BY <1>5 DEF Recover, TypeOK, SetPending, handleVars
<1>6. CASE UNCHANGED vars
  BY <1>6 DEF vars, handleVars, nameVars, historyVars, TypeOK
<1> QED
  BY <1>1, <1>2, <1>3, <1>4, <1>5, <1>6 DEF Next

\* The specification's variables are well typed.
THEOREM Typing == Spec => []TypeOK
<1>1. Init => TypeOK
  BY DEF Init, TypeOK, Turns, Torn, Live, Beginning, NotStarted, CallStates, TempStates
<1>2. TypeOK /\ [Next]_vars => TypeOK'
  BY TypeStep
<1> QED
  BY <1>1, <1>2, PTL DEF Spec

\* Where a request goes, no other request goes.
LEMMA GotoEffect ==
    ASSUME TypeOK, NEW r \in Requests, NEW label, Goto(r, label)
    PROVE  \A s \in Requests : pc'[s] = IF s = r THEN label ELSE pc[s]
BY DEF TypeOK, Goto

\* Two requests never own the session at once: the marker has one name.
LEMMA InvInit == Init => Inv
BY DEF Init, Inv, TypeOK, OneCommit, Begun, BeginOwns, HandleOwns,
       AdmittedMarkerDurable, CheckpointNeverTorn, InterruptedTurnFenced,
       NoSilentReplay, CommitDurable, Unsettled, At, Turns, Torn, Live, Beginning,
       NotStarted, CallStates, TempStates

\* Taking the marker: only when it is free, so no unsettled turn is overtaken.
\* Taking the marker: only when it is free, so no unsettled turn is overtaken.
\* Taking the marker: only when it is free, so no unsettled turn is overtaken.
\* Taking the marker: only when it is free, so no unsettled turn is overtaken.
\* Taking the marker: only when it is free, so no unsettled turn is overtaken.
\* Taking the marker: only when it is free, so no unsettled turn is overtaken.
\* Taking the marker: only when it is free, so no unsettled turn is overtaken.
\* Taking the marker: only when it is free, so no unsettled turn is overtaken.
\* Taking the marker: only when it is free, so no unsettled turn is overtaken.
\* Taking the marker: only when it is free, so no unsettled turn is overtaken.
LEMMA OpenMarkerInv ==
    ASSUME Inv, TypeOK', NEW r \in Requests, OpenMarker(r) PROVE Inv'
<1> USE DEF Inv
<1>1. PICK t \in Turns : turn' = [turn EXCEPT ![r] = t]
  BY DEF OpenMarker
<1>2. \A s \in Requests : s # r => turn'[s] = turn[s]
  BY <1>1 DEF TypeOK
<1>3. PICK label \in {"marking", "refused"} :
      /\ Goto(r, label)
      /\ \/ pending = None /\ SetPending(r) /\ label = "marking"
         \/ label = "refused" /\ UNCHANGED nameVars
  BY DEF OpenMarker
<1>4. \A s \in Requests : pc'[s] = IF s = r THEN label ELSE pc[s]
  BY <1>3, GotoEffect
<1>5. /\ checkpoint' = checkpoint /\ diskCheckpoint' = diskCheckpoint
      /\ admitted' = admitted /\ acknowledged' = acknowledged
      /\ committing' = committing /\ committed' = committed
      /\ cpc' = cpc /\ temp' = temp
  BY DEF OpenMarker, SetPending, nameVars, historyVars
<1>6. /\ pc[r] = "idle" /\ r \notin admitted
      /\ r \notin committing /\ r \notin committed
  BY DEF OpenMarker, At, Begun, OneCommit
<1>7. \/ pending = None /\ pending' = r /\ diskPending' = diskPending \cup {r} /\ label = "marking"
      \/ label = "refused" /\ pending' = pending /\ diskPending' = diskPending
  BY <1>3 DEF SetPending, nameVars
<1>8. OneCommit'
  BY <1>1, <1>2, <1>3, <1>4, <1>5, <1>6, <1>7 DEF OneCommit, NotStarted, BeforeRelease
<1>9. Begun'
  BY <1>1, <1>2, <1>3, <1>4, <1>5, <1>6, <1>7 DEF Begun, Beginning
<1>10. BeginOwns'
  BY <1>1, <1>2, <1>3, <1>4, <1>5, <1>6, <1>7 DEF BeginOwns, Beginning
<1>11. HandleOwns'
  BY <1>1, <1>2, <1>3, <1>4, <1>5, <1>6, <1>7 DEF HandleOwns, NotStarted, At
<1>12. AdmittedMarkerDurable'
  BY <1>1, <1>2, <1>3, <1>4, <1>5, <1>6, <1>7 DEF AdmittedMarkerDurable
<1>13. CheckpointNeverTorn'
  BY <1>1, <1>2, <1>3, <1>4, <1>5, <1>6, <1>7 DEF CheckpointNeverTorn
<1>14. InterruptedTurnFenced'
  BY <1>1, <1>2, <1>3, <1>4, <1>5, <1>6, <1>7 DEF InterruptedTurnFenced, Unsettled
<1>15. NoSilentReplay'
  BY <1>1, <1>2, <1>3, <1>4, <1>5, <1>6, <1>7 DEF NoSilentReplay
<1>16. CommitDurable'
  BY <1>1, <1>2, <1>3, <1>4, <1>5, <1>6, <1>7 DEF CommitDurable
<1> QED
  BY <1>8, <1>9, <1>10, <1>11, <1>12, <1>13, <1>14, <1>15, <1>16

\* Writing the marker's contents changes no name.
LEMMA WriteMarkerInv ==
    ASSUME Inv, TypeOK', NEW r \in Requests, WriteMarker(r) PROVE Inv'
<1> USE DEF Inv
<1>1. PICK label \in {"syncing", "aborting"} : Goto(r, label)
  BY DEF WriteMarker
<1>2. \A s \in Requests : pc'[s] = IF s = r THEN label ELSE pc[s]
  BY <1>1, GotoEffect
<1>3. /\ turn' = turn /\ committing' = committing /\ committed' = committed
      /\ cpc' = cpc /\ temp' = temp
      /\ pending' = pending /\ checkpoint' = checkpoint
      /\ diskPending' = diskPending /\ diskCheckpoint' = diskCheckpoint
      /\ admitted' = admitted /\ acknowledged' = acknowledged
  BY DEF WriteMarker, handleVars, nameVars, historyVars
<1>4. pc[r] = "marking" /\ r \notin admitted /\ r \notin committing /\ r \notin committed
  BY DEF WriteMarker, At, Begun, OneCommit, Beginning
<1>5. OneCommit'
  BY <1>1, <1>2, <1>3, <1>4 DEF OneCommit, NotStarted, BeforeRelease
<1>6. Begun'
  BY <1>1, <1>2, <1>3, <1>4 DEF Begun, Beginning
<1>7. BeginOwns'
  BY <1>1, <1>2, <1>3, <1>4 DEF BeginOwns, Beginning
<1>8. HandleOwns'
  BY <1>1, <1>2, <1>3, <1>4 DEF HandleOwns, NotStarted, At
<1>9. AdmittedMarkerDurable'
  BY <1>1, <1>2, <1>3, <1>4 DEF AdmittedMarkerDurable
<1>10. CheckpointNeverTorn'
  BY <1>1, <1>2, <1>3, <1>4 DEF CheckpointNeverTorn
<1>11. InterruptedTurnFenced'
  BY <1>1, <1>2, <1>3, <1>4 DEF InterruptedTurnFenced, Unsettled
<1>12. NoSilentReplay'
  BY <1>1, <1>2, <1>3, <1>4 DEF NoSilentReplay
<1>13. CommitDurable'
  BY <1>1, <1>2, <1>3, <1>4 DEF CommitDurable
<1> QED
  BY <1>5, <1>6, <1>7, <1>8, <1>9, <1>10, <1>11, <1>12, <1>13

\* The directory sync makes the marker, and the checkpoint it guards, durable.
LEMMA SyncMarkerInv ==
    ASSUME Inv, TypeOK', NEW r \in Requests, SyncMarker(r) PROVE Inv'
<1> USE DEF Inv
<1>1. PICK label \in {"loading", "aborting"} : Goto(r, label)
  BY DEF SyncMarker
<1>2. \A s \in Requests : pc'[s] = IF s = r THEN label ELSE pc[s]
  BY <1>1, GotoEffect
<1>3. /\ turn' = turn /\ committing' = committing /\ committed' = committed
      /\ cpc' = cpc /\ temp' = temp
      /\ admitted' = admitted /\ acknowledged' = acknowledged
      /\ pending' = pending /\ checkpoint' = checkpoint
  BY DEF SyncMarker, handleVars, historyVars, nameVars, SyncDirectory
<1>4. pc[r] = "syncing" /\ r \notin admitted /\ r \notin committing /\ r \notin committed /\ pending = r
  BY DEF SyncMarker, At, Begun, BeginOwns, OneCommit, Beginning
<1>5. \/ diskPending' = {r} /\ diskCheckpoint' = {checkpoint}
      \/ /\ diskPending' = diskPending /\ diskCheckpoint' = diskCheckpoint
         /\ pc'[r] = "aborting"
  BY <1>4 DEF SyncMarker, SyncDirectory, nameVars, TypeOK, Goto
<1>6. diskCheckpoint' \subseteq diskCheckpoint
  BY <1>5 DEF Begun
<1>7. OneCommit'
  BY <1>1, <1>2, <1>3, <1>4, <1>5, <1>6 DEF OneCommit, NotStarted, BeforeRelease
<1>8. Begun'
  BY <1>1, <1>2, <1>3, <1>4, <1>5, <1>6 DEF Begun, Beginning
<1>9. BeginOwns'
  BY <1>1, <1>2, <1>3, <1>4, <1>5, <1>6 DEF BeginOwns, Beginning
<1>10. HandleOwns'
  BY <1>1, <1>2, <1>3, <1>4, <1>5, <1>6 DEF HandleOwns, NotStarted, At
<1>11. AdmittedMarkerDurable'
  BY <1>1, <1>2, <1>3, <1>4, <1>5, <1>6 DEF AdmittedMarkerDurable
<1>12. CheckpointNeverTorn'
  BY <1>1, <1>2, <1>3, <1>4, <1>5, <1>6 DEF CheckpointNeverTorn
<1>13. InterruptedTurnFenced'
  BY <1>1, <1>2, <1>3, <1>4, <1>5, <1>6 DEF InterruptedTurnFenced, Unsettled
<1>14. NoSilentReplay'
  BY <1>1, <1>2, <1>3, <1>4, <1>5, <1>6 DEF NoSilentReplay
<1>15. CommitDurable'
  BY <1>1, <1>2, <1>3, <1>4, <1>5, <1>6 DEF CommitDurable
<1> QED
  BY <1>7, <1>8, <1>9, <1>10, <1>11, <1>12, <1>13, <1>14, <1>15

\* Admission under the durable marker: a turn with an unsettled request would
\* have its own marker in place of r's.
LEMMA LoadCheckpointInv ==
    ASSUME Inv, TypeOK', NEW r \in Requests, LoadCheckpoint(r) PROVE Inv'
<1> USE DEF Inv
<1>1. PICK label \in {"open", "aborting"} : Goto(r, label)
  BY DEF LoadCheckpoint
<1>2. \A s \in Requests : pc'[s] = IF s = r THEN label ELSE pc[s]
  BY <1>1, GotoEffect
<1>3. /\ turn' = turn /\ committing' = committing /\ committed' = committed
      /\ cpc' = cpc /\ temp' = temp
      /\ pending' = pending /\ checkpoint' = checkpoint
      /\ diskPending' = diskPending /\ diskCheckpoint' = diskCheckpoint
      /\ acknowledged' = acknowledged
  BY DEF LoadCheckpoint, handleVars, nameVars
<1>4. /\ pc[r] = "loading" /\ r \notin admitted /\ r \notin committing /\ r \notin committed
      /\ pending = r /\ diskPending = {r} /\ diskCheckpoint = {checkpoint}
  BY DEF LoadCheckpoint, At, Begun, BeginOwns, OneCommit, Beginning
<1>5. \/ admitted' = admitted \cup {r} /\ checkpoint = turn[r] /\ pc'[r] = "open"
      \/ admitted' = admitted /\ pc'[r] = "aborting"
  BY DEF LoadCheckpoint, TypeOK, Goto
<1>6. OneCommit'
  BY <1>1, <1>2, <1>3, <1>4, <1>5 DEF OneCommit, NotStarted, BeforeRelease
<1>7. Begun'
  BY <1>1, <1>2, <1>3, <1>4, <1>5 DEF Begun, Beginning
<1>8. BeginOwns'
  BY <1>1, <1>2, <1>3, <1>4, <1>5 DEF BeginOwns, Beginning
<1>9. HandleOwns'
  BY <1>1, <1>2, <1>3, <1>4, <1>5 DEF HandleOwns, NotStarted, At, OneCommit
<1>10. AdmittedMarkerDurable'
  BY <1>1, <1>2, <1>3, <1>4, <1>5 DEF AdmittedMarkerDurable
<1>11. CheckpointNeverTorn'
  BY <1>1, <1>2, <1>3, <1>4, <1>5 DEF CheckpointNeverTorn
<1>12. InterruptedTurnFenced'
  BY <1>1, <1>2, <1>3, <1>4, <1>5 DEF InterruptedTurnFenced, Unsettled
<1>13. NoSilentReplay'
  BY <1>1, <1>2, <1>3, <1>4, <1>5 DEF NoSilentReplay, InterruptedTurnFenced, Unsettled, TypeOK, Turns
<1>14. CommitDurable'
  BY <1>1, <1>2, <1>3, <1>4, <1>5 DEF CommitDurable
<1> QED
  BY <1>6, <1>7, <1>8, <1>9, <1>10, <1>11, <1>12, <1>13, <1>14

\* The refused request owns the marker it removes.
LEMMA AbortBeginInv ==
    ASSUME Inv, TypeOK', NEW r \in Requests, AbortBegin(r) PROVE Inv'
<1> USE DEF Inv
<1>1. Goto(r, "refused")
  BY DEF AbortBegin
<1>2. \A s \in Requests : pc'[s] = IF s = r THEN "refused" ELSE pc[s]
  BY <1>1, GotoEffect
<1>3. /\ turn' = turn /\ committing' = committing /\ committed' = committed
      /\ cpc' = cpc /\ temp' = temp
      /\ admitted' = admitted /\ acknowledged' = acknowledged
      /\ checkpoint' = checkpoint /\ diskCheckpoint' = diskCheckpoint
  BY DEF AbortBegin, handleVars, historyVars, nameVars, SetPending
<1>4. pc[r] = "aborting" /\ r \notin admitted /\ r \notin committing /\ r \notin committed /\ pending = r
  BY DEF AbortBegin, At, Begun, BeginOwns, OneCommit, Beginning
<1>5. \/ pending' = None /\ diskPending' = diskPending \cup {None}
      \/ pending' = pending /\ diskPending' = diskPending
  BY DEF AbortBegin, SetPending, nameVars
<1>6. OneCommit'
  BY <1>1, <1>2, <1>3, <1>4, <1>5 DEF OneCommit, NotStarted, BeforeRelease
<1>7. Begun'
  BY <1>1, <1>2, <1>3, <1>4, <1>5 DEF Begun, Beginning, TypeOK
<1>8. BeginOwns'
  BY <1>1, <1>2, <1>3, <1>4, <1>5 DEF BeginOwns, Beginning
<1>9. HandleOwns'
  BY <1>1, <1>2, <1>3, <1>4, <1>5 DEF HandleOwns, NotStarted, At
<1>10. AdmittedMarkerDurable'
  BY <1>1, <1>2, <1>3, <1>4, <1>5 DEF AdmittedMarkerDurable, TypeOK
<1>11. CheckpointNeverTorn'
  BY <1>1, <1>2, <1>3, <1>4, <1>5 DEF CheckpointNeverTorn
<1>12. InterruptedTurnFenced'
  BY <1>1, <1>2, <1>3, <1>4, <1>5 DEF InterruptedTurnFenced, Unsettled
<1>13. NoSilentReplay'
  BY <1>1, <1>2, <1>3, <1>4, <1>5 DEF NoSilentReplay
<1>14. CommitDurable'
  BY <1>1, <1>2, <1>3, <1>4, <1>5 DEF CommitDurable
<1> QED
  BY <1>6, <1>7, <1>8, <1>9, <1>10, <1>11, <1>12, <1>13, <1>14

\* The guards of commit(): the first call past them is the only one.
LEMMA CallCommitInv ==
    ASSUME Inv, TypeOK', NEW r \in Requests, NEW c \in Calls, CallCommit(r, c) PROVE Inv'
<1> USE DEF Inv
<1>1. PICK label \in {"create", "rejected"} :
      /\ GotoCall(r, c, label)
      /\ \/ label = "create" /\ MayCommit(r) /\ committing' = committing \cup {r}
         \/ label = "rejected" /\ committing' = committing
  BY DEF CallCommit
<1>2. \A s \in Requests, d \in Calls : cpc'[s][d] = IF s = r /\ d = c THEN label ELSE cpc[s][d]
  BY <1>1, GotoCallEffect DEF CallStates, InProgress, NotStarted, BeforeRelease
<1>3. /\ pc' = pc /\ turn' = turn
      /\ admitted' = admitted /\ acknowledged' = acknowledged
      /\ pending' = pending /\ checkpoint' = checkpoint
      /\ diskPending' = diskPending /\ diskCheckpoint' = diskCheckpoint
      /\ committed' = committed /\ temp' = temp
  BY DEF CallCommit, nameVars, historyVars
<1>4. pc[r] = "open" /\ cpc[r][c] = "idle" /\ r \in admitted
  BY DEF CallCommit, AtCall, At, Begun
<1>5. label = "create" => r \notin committing /\ r \notin committed
  BY <1>1 DEF MayCommit
<1>6. OneCommit'
  BY <1>1, <1>2, <1>3, <1>4, <1>5 DEF OneCommit, NotStarted, BeforeRelease
<1>7. Begun'
  BY <1>1, <1>2, <1>3, <1>4, <1>5 DEF Begun, Beginning
<1>8. BeginOwns'
  BY <1>1, <1>2, <1>3, <1>4, <1>5 DEF BeginOwns, Beginning
<1>9. HandleOwns'
  BY <1>1, <1>2, <1>3, <1>4, <1>5 DEF HandleOwns, NotStarted, At
<1>10. AdmittedMarkerDurable'
  BY <1>1, <1>2, <1>3, <1>4, <1>5 DEF AdmittedMarkerDurable
<1>11. CheckpointNeverTorn'
  BY <1>1, <1>2, <1>3, <1>4, <1>5 DEF CheckpointNeverTorn
<1>12. InterruptedTurnFenced'
  BY <1>1, <1>2, <1>3, <1>4, <1>5 DEF InterruptedTurnFenced, Unsettled
<1>13. NoSilentReplay'
  BY <1>1, <1>2, <1>3, <1>4, <1>5 DEF NoSilentReplay
<1>14. CommitDurable'
  BY <1>1, <1>2, <1>3, <1>4, <1>5 DEF CommitDurable
<1> QED
  BY <1>6, <1>7, <1>8, <1>9, <1>10, <1>11, <1>12, <1>13, <1>14

\* A rejected await leaves names and flags as they are.
LEMMA FailInv ==
    ASSUME Inv, TypeOK', NEW r \in Requests, NEW c \in Calls, cpc[r][c] \in InProgress,
           Fail(r, c), pc' = pc, turn' = turn, admitted' = admitted,
           acknowledged' = acknowledged, committing' = committing, committed' = committed PROVE Inv'
<1> USE DEF Inv
<1>1. GotoCall(r, c, "cleanup")
  BY DEF Fail
<1>2. \A s \in Requests, d \in Calls : cpc'[s][d] = IF s = r /\ d = c THEN "cleanup" ELSE cpc[s][d]
  BY <1>1, GotoCallEffect DEF CallStates, InProgress, NotStarted, BeforeRelease
<1>3. /\ pc' = pc /\ turn' = turn
      /\ admitted' = admitted /\ acknowledged' = acknowledged
      /\ pending' = pending /\ checkpoint' = checkpoint
      /\ diskPending' = diskPending /\ diskCheckpoint' = diskCheckpoint
      /\ committing' = committing /\ committed' = committed
      /\ temp' = temp
  BY DEF Fail, nameVars
<1>4. OneCommit'
  BY <1>1, <1>2, <1>3 DEF OneCommit, NotStarted, BeforeRelease, InProgress
<1>5. Begun'
  BY <1>1, <1>2, <1>3 DEF Begun, Beginning
<1>6. BeginOwns'
  BY <1>1, <1>2, <1>3 DEF BeginOwns, Beginning
<1>7. HandleOwns'
  BY <1>1, <1>2, <1>3 DEF HandleOwns, NotStarted, At
<1>8. AdmittedMarkerDurable'
  BY <1>1, <1>2, <1>3 DEF AdmittedMarkerDurable
<1>9. CheckpointNeverTorn'
  BY <1>1, <1>2, <1>3 DEF CheckpointNeverTorn
<1>10. InterruptedTurnFenced'
  BY <1>1, <1>2, <1>3 DEF InterruptedTurnFenced, Unsettled
<1>11. NoSilentReplay'
  BY <1>1, <1>2, <1>3 DEF NoSilentReplay
<1>12. CommitDurable'
  BY <1>1, <1>2, <1>3 DEF CommitDurable
<1> QED
  BY <1>4, <1>5, <1>6, <1>7, <1>8, <1>9, <1>10, <1>11, <1>12

\* Writing or syncing the temporary file changes no name.
LEMMA WriteTempInv ==
    ASSUME Inv, TypeOK', NEW r \in Requests, NEW c \in Calls, pc[r] = "open",
           \/ /\ cpc[r][c] = "create" /\ GotoCall(r, c, "flush")
              /\ temp' = [temp EXCEPT ![r][c] = "dirty"]
           \/ /\ cpc[r][c] = "flush" /\ GotoCall(r, c, "publish")
              /\ temp' = [temp EXCEPT ![r][c] = "clean"],
           pc' = pc, turn' = turn, UNCHANGED nameVars, admitted' = admitted,
           acknowledged' = acknowledged, committing' = committing, committed' = committed PROVE Inv'
<1> USE DEF Inv
<1>1. PICK label \in {"flush", "publish"}, v \in TempStates :
      /\ GotoCall(r, c, label)
      /\ temp' = [temp EXCEPT ![r][c] = v]
      /\ label = "publish" => v = "clean"
  BY DEF TempStates
<1>2. \A s \in Requests, d \in Calls : cpc'[s][d] = IF s = r /\ d = c THEN label ELSE cpc[s][d]
  BY <1>1, GotoCallEffect DEF CallStates, InProgress, NotStarted, BeforeRelease
<1>3. \A s \in Requests, d \in Calls : temp'[s][d] = IF s = r /\ d = c THEN v ELSE temp[s][d]
  BY <1>1, TempEffect
<1>4. /\ pc' = pc /\ turn' = turn
      /\ admitted' = admitted /\ acknowledged' = acknowledged
      /\ pending' = pending /\ checkpoint' = checkpoint
      /\ diskPending' = diskPending /\ diskCheckpoint' = diskCheckpoint
      /\ committing' = committing /\ committed' = committed
  BY DEF nameVars
<1>5. pc[r] = "open" /\ cpc[r][c] \in {"create", "flush"}
  OBVIOUS
<1>6. OneCommit'
  BY <1>1, <1>2, <1>3, <1>4, <1>5 DEF OneCommit, NotStarted, BeforeRelease
<1>7. Begun'
  BY <1>1, <1>2, <1>3, <1>4, <1>5 DEF Begun, Beginning
<1>8. BeginOwns'
  BY <1>1, <1>2, <1>3, <1>4, <1>5 DEF BeginOwns, Beginning
<1>9. HandleOwns'
  BY <1>1, <1>2, <1>3, <1>4, <1>5 DEF HandleOwns, NotStarted, At
<1>10. AdmittedMarkerDurable'
  BY <1>1, <1>2, <1>3, <1>4, <1>5 DEF AdmittedMarkerDurable
<1>11. CheckpointNeverTorn'
  BY <1>1, <1>2, <1>3, <1>4, <1>5 DEF CheckpointNeverTorn
<1>12. InterruptedTurnFenced'
  BY <1>1, <1>2, <1>3, <1>4, <1>5 DEF InterruptedTurnFenced, Unsettled
<1>13. NoSilentReplay'
  BY <1>1, <1>2, <1>3, <1>4, <1>5 DEF NoSilentReplay
<1>14. CommitDurable'
  BY <1>1, <1>2, <1>3, <1>4, <1>5 DEF CommitDurable
<1> QED
  BY <1>6, <1>7, <1>8, <1>9, <1>10, <1>11, <1>12, <1>13, <1>14

\* Publishing: the holder's turn is the only checkpoint there was, so the new
\* one is its successor and settles no other turn's doubt.
LEMMA RenameInv ==
    ASSUME Inv, TypeOK', NEW r \in Requests, NEW c \in Calls, pc[r] = "open", cpc[r][c] = "publish",
           Rename(r, c), GotoCall(r, c, "settle"), pc' = pc, turn' = turn, admitted' = admitted,
           acknowledged' = acknowledged, committing' = committing, committed' = committed PROVE Inv'
<1> USE DEF Inv
<1>1. \A s \in Requests, d \in Calls : cpc'[s][d] = IF s = r /\ d = c THEN "settle" ELSE cpc[s][d]
  BY GotoCallEffect DEF CallStates, InProgress, NotStarted, BeforeRelease
<1>2. \A s \in Requests, d \in Calls : temp'[s][d] = IF s = r /\ d = c THEN "none" ELSE temp[s][d]
  BY TempEffect DEF Rename, TempStates
<1>3. \A d \in Calls : cpc[r][d] \in NotStarted \cup {"publish"}
  BY DEF OneCommit, NotStarted
<1>4. /\ pending = r /\ diskPending = {r} /\ diskCheckpoint = {turn[r]} /\ checkpoint = turn[r]
      /\ temp[r][c] = "clean" /\ r \in admitted /\ turn[r] \in Nat /\ r \notin committed
  BY <1>3 DEF HandleOwns, At, Begun, TypeOK, Turns, OneCommit, BeforeRelease
<1>5. /\ checkpoint' = turn[r] + 1 /\ diskCheckpoint' = {turn[r], turn[r] + 1}
      /\ pending' = r /\ diskPending' = {r}
  BY <1>4 DEF Rename
<1>6. /\ pc' = pc /\ turn' = turn
      /\ admitted' = admitted /\ acknowledged' = acknowledged
      /\ committing' = committing /\ committed' = committed
  OBVIOUS
<1>7. \A s \in Requests : turn[s] \in Nat
  BY DEF TypeOK, Turns
<1>8. OneCommit'
  BY <1>1, <1>2, <1>3, <1>4, <1>5, <1>6, <1>7 DEF OneCommit, NotStarted, BeforeRelease
<1>9. Begun'
  BY <1>1, <1>2, <1>3, <1>4, <1>5, <1>6, <1>7 DEF Begun, Beginning
<1>10. BeginOwns'
  BY <1>1, <1>2, <1>3, <1>4, <1>5, <1>6, <1>7 DEF BeginOwns, Beginning
<1>11. HandleOwns'
  BY <1>1, <1>2, <1>3, <1>4, <1>5, <1>6, <1>7 DEF HandleOwns, NotStarted, At, Torn
<1>12. AdmittedMarkerDurable'
  BY <1>1, <1>2, <1>3, <1>4, <1>5, <1>6, <1>7 DEF AdmittedMarkerDurable
<1>13. CheckpointNeverTorn'
  BY <1>1, <1>2, <1>3, <1>4, <1>5, <1>6, <1>7 DEF CheckpointNeverTorn, Torn
<1>14. InterruptedTurnFenced'
  BY <1>1, <1>2, <1>3, <1>4, <1>5, <1>6, <1>7 DEF InterruptedTurnFenced, Unsettled
<1>15. NoSilentReplay'
  BY <1>1, <1>2, <1>3, <1>4, <1>5, <1>6, <1>7 DEF NoSilentReplay
<1>16. CommitDurable'
  BY <1>1, <1>2, <1>3, <1>4, <1>5, <1>6, <1>7 DEF CommitDurable
<1> QED
  BY <1>8, <1>9, <1>10, <1>11, <1>12, <1>13, <1>14, <1>15, <1>16

\* The directory sync after the rename leaves the successor as the only
\* checkpoint a power loss can leave.
LEMMA SettleInv ==
    ASSUME Inv, TypeOK', NEW r \in Requests, NEW c \in Calls, pc[r] = "open", cpc[r][c] = "settle",
           SyncDirectory, GotoCall(r, c, "release"), pc' = pc, turn' = turn, admitted' = admitted,
           acknowledged' = acknowledged, committing' = committing, committed' = committed,
           temp' = temp PROVE Inv'
<1> USE DEF Inv
<1>1. \A s \in Requests, d \in Calls : cpc'[s][d] = IF s = r /\ d = c THEN "release" ELSE cpc[s][d]
  BY GotoCallEffect DEF CallStates, InProgress, NotStarted, BeforeRelease
<1>2. /\ pending = r /\ diskPending = {r} /\ checkpoint = turn[r] + 1
      /\ r \in admitted /\ r \notin committed /\ checkpoint \in diskCheckpoint
  BY DEF HandleOwns, At, Begun, OneCommit, BeforeRelease
<1>3. /\ checkpoint' = checkpoint /\ diskCheckpoint' = {turn[r] + 1} /\ diskCheckpoint' \subseteq diskCheckpoint
      /\ pending' = r /\ diskPending' = {r}
  BY <1>2 DEF SyncDirectory
<1>4. /\ pc' = pc /\ turn' = turn
      /\ admitted' = admitted /\ acknowledged' = acknowledged
      /\ committing' = committing /\ committed' = committed
  OBVIOUS
<1>5. \A s \in Requests : turn[s] \in Nat
  BY DEF TypeOK, Turns
<1>6. OneCommit'
  BY <1>1, <1>2, <1>3, <1>4, <1>5 DEF OneCommit, NotStarted, BeforeRelease
<1>7. Begun'
  BY <1>1, <1>2, <1>3, <1>4, <1>5 DEF Begun, Beginning
<1>8. BeginOwns'
  BY <1>1, <1>2, <1>3, <1>4, <1>5 DEF BeginOwns, Beginning
<1>9. HandleOwns'
  BY <1>1, <1>2, <1>3, <1>4, <1>5 DEF HandleOwns, NotStarted, At, OneCommit
<1>10. AdmittedMarkerDurable'
  BY <1>1, <1>2, <1>3, <1>4, <1>5 DEF AdmittedMarkerDurable
<1>11. CheckpointNeverTorn'
  BY <1>1, <1>2, <1>3, <1>4, <1>5 DEF CheckpointNeverTorn
<1>12. InterruptedTurnFenced'
  BY <1>1, <1>2, <1>3, <1>4, <1>5 DEF InterruptedTurnFenced, Unsettled
<1>13. NoSilentReplay'
  BY <1>1, <1>2, <1>3, <1>4, <1>5 DEF NoSilentReplay
<1>14. CommitDurable'
  BY <1>1, <1>2, <1>3, <1>4, <1>5 DEF CommitDurable
<1> QED
  BY <1>6, <1>7, <1>8, <1>9, <1>10, <1>11, <1>12, <1>13, <1>14

\* The marker is removed by its owner, when no power loss can undo its turn.
LEMMA ReleaseInv ==
    ASSUME Inv, TypeOK', NEW r \in Requests, NEW c \in Calls, pc[r] = "open", cpc[r][c] = "release",
           SetPending(None), GotoCall(r, c, "confirm"), pc' = pc, turn' = turn, admitted' = admitted,
           acknowledged' = acknowledged, committing' = committing, committed' = committed,
           temp' = temp PROVE Inv'
<1> USE DEF Inv
<1>1. \A s \in Requests, d \in Calls : cpc'[s][d] = IF s = r /\ d = c THEN "confirm" ELSE cpc[s][d]
  BY GotoCallEffect DEF CallStates, InProgress, NotStarted, BeforeRelease
<1>2. /\ pending = r /\ diskPending = {r} /\ diskCheckpoint = {turn[r] + 1}
      /\ r \in admitted /\ r \notin committed
  BY DEF HandleOwns, At, Begun, OneCommit, BeforeRelease
<1>3. /\ checkpoint' = checkpoint /\ diskCheckpoint' = diskCheckpoint
      /\ pending' = None /\ diskPending' = {r, None}
  BY <1>2 DEF SetPending
<1>4. /\ pc' = pc /\ turn' = turn
      /\ admitted' = admitted /\ acknowledged' = acknowledged
      /\ committing' = committing /\ committed' = committed
  OBVIOUS
<1>5. \A s \in Requests : turn[s] \in Nat
  BY DEF TypeOK, Turns
<1>6. OneCommit'
  BY <1>1, <1>2, <1>3, <1>4, <1>5 DEF OneCommit, NotStarted, BeforeRelease
<1>7. Begun'
  BY <1>1, <1>2, <1>3, <1>4, <1>5 DEF Begun, Beginning
<1>8. BeginOwns'
  BY <1>1, <1>2, <1>3, <1>4, <1>5 DEF BeginOwns, Beginning
<1>9. HandleOwns'
  BY <1>1, <1>2, <1>3, <1>4, <1>5 DEF HandleOwns, NotStarted, At, OneCommit
<1>10. AdmittedMarkerDurable'
  BY <1>1, <1>2, <1>3, <1>4, <1>5 DEF AdmittedMarkerDurable, TypeOK
<1>11. CheckpointNeverTorn'
  BY <1>1, <1>2, <1>3, <1>4, <1>5 DEF CheckpointNeverTorn
<1>12. InterruptedTurnFenced'
  BY <1>1, <1>2, <1>3, <1>4, <1>5 DEF InterruptedTurnFenced, Unsettled
<1>13. NoSilentReplay'
  BY <1>1, <1>2, <1>3, <1>4, <1>5 DEF NoSilentReplay
<1>14. CommitDurable'
  BY <1>1, <1>2, <1>3, <1>4, <1>5 DEF CommitDurable
<1> QED
  BY <1>6, <1>7, <1>8, <1>9, <1>10, <1>11, <1>12, <1>13, <1>14

\* The second directory sync, also when another request has begun since.
LEMMA ConfirmInv ==
    ASSUME Inv, TypeOK', NEW r \in Requests, NEW c \in Calls, pc[r] = "open", cpc[r][c] = "confirm",
           SyncDirectory, GotoCall(r, c, "cleanup"), pc' = pc, turn' = turn, admitted' = admitted,
           acknowledged' = acknowledged, committing' = committing,
           committed' = committed \cup {r}, temp' = temp PROVE Inv'
<1> USE DEF Inv
<1>1. \A s \in Requests, d \in Calls : cpc'[s][d] = IF s = r /\ d = c THEN "cleanup" ELSE cpc[s][d]
  BY GotoCallEffect DEF CallStates, InProgress, NotStarted, BeforeRelease
<1>2. /\ \A v \in diskCheckpoint : v > turn[r]
      /\ pending \in diskPending /\ checkpoint \in diskCheckpoint /\ r \in admitted
  BY DEF HandleOwns, At, Begun
<1>3. /\ checkpoint' = checkpoint /\ pending' = pending
      /\ diskCheckpoint' = {checkpoint} /\ diskPending' = {pending}
      /\ diskCheckpoint' \subseteq diskCheckpoint /\ diskPending' \subseteq diskPending
  BY <1>2 DEF SyncDirectory
<1>4. /\ pc' = pc /\ turn' = turn
      /\ admitted' = admitted /\ acknowledged' = acknowledged
      /\ committing' = committing /\ committed' = committed \cup {r} /\ temp' = temp
  OBVIOUS
<1>5. OneCommit'
  BY <1>1, <1>2, <1>3, <1>4 DEF OneCommit, NotStarted, BeforeRelease
<1>6. Begun'
  BY <1>1, <1>2, <1>3, <1>4 DEF Begun, Beginning
<1>7. BeginOwns'
  BY <1>1, <1>2, <1>3, <1>4 DEF BeginOwns, Beginning
<1>8. HandleOwns'
  BY <1>1, <1>2, <1>3, <1>4 DEF HandleOwns, NotStarted, At, OneCommit
<1>9. AdmittedMarkerDurable'
  BY <1>1, <1>2, <1>3, <1>4 DEF AdmittedMarkerDurable
<1>10. CheckpointNeverTorn'
  BY <1>1, <1>2, <1>3, <1>4 DEF CheckpointNeverTorn
<1>11. InterruptedTurnFenced'
  BY <1>1, <1>2, <1>3, <1>4 DEF InterruptedTurnFenced, Unsettled
<1>12. NoSilentReplay'
  BY <1>1, <1>2, <1>3, <1>4 DEF NoSilentReplay
<1>13. CommitDurable'
  BY <1>1, <1>2, <1>3, <1>4 DEF CommitDurable
<1> QED
  BY <1>5, <1>6, <1>7, <1>8, <1>9, <1>10, <1>11, <1>12, <1>13

\* The finally block: no name and no flag changes.
LEMMA CleanupInv ==
    ASSUME Inv, TypeOK', NEW r \in Requests, NEW c \in Calls, CleanupTemp(r, c) PROVE Inv'
<1> USE DEF Inv
<1>1. PICK label \in {"resolved", "failed"} : GotoCall(r, c, label)
  BY DEF CleanupTemp
<1>2. \A s \in Requests, d \in Calls : cpc'[s][d] = IF s = r /\ d = c THEN label ELSE cpc[s][d]
  BY <1>1, GotoCallEffect DEF CallStates, InProgress, NotStarted, BeforeRelease
<1>3. \A s \in Requests, d \in Calls : ~(s = r /\ d = c) => temp'[s][d] = temp[s][d]
  BY CommitStepEffect DEF CommitStep
<1>4. /\ pc' = pc /\ turn' = turn
      /\ admitted' = admitted /\ acknowledged' = acknowledged
      /\ pending' = pending /\ checkpoint' = checkpoint
      /\ diskPending' = diskPending /\ diskCheckpoint' = diskCheckpoint
      /\ committing' = committing /\ committed' = committed
  BY DEF CleanupTemp, nameVars, historyVars
<1>5. pc[r] = "open" /\ cpc[r][c] = "cleanup"
  BY DEF CleanupTemp, AtCall, At
<1>6. OneCommit'
  BY <1>1, <1>2, <1>3, <1>4, <1>5 DEF OneCommit, NotStarted, BeforeRelease
<1>7. Begun'
  BY <1>1, <1>2, <1>3, <1>4, <1>5 DEF Begun, Beginning
<1>8. BeginOwns'
  BY <1>1, <1>2, <1>3, <1>4, <1>5 DEF BeginOwns, Beginning
<1>9. HandleOwns'
  BY <1>1, <1>2, <1>3, <1>4, <1>5 DEF HandleOwns, NotStarted, At
<1>10. AdmittedMarkerDurable'
  BY <1>1, <1>2, <1>3, <1>4, <1>5 DEF AdmittedMarkerDurable
<1>11. CheckpointNeverTorn'
  BY <1>1, <1>2, <1>3, <1>4, <1>5 DEF CheckpointNeverTorn
<1>12. InterruptedTurnFenced'
  BY <1>1, <1>2, <1>3, <1>4, <1>5 DEF InterruptedTurnFenced, Unsettled
<1>13. NoSilentReplay'
  BY <1>1, <1>2, <1>3, <1>4, <1>5 DEF NoSilentReplay
<1>14. CommitDurable'
  BY <1>1, <1>2, <1>3, <1>4, <1>5 DEF CommitDurable
<1> QED
  BY <1>6, <1>7, <1>8, <1>9, <1>10, <1>11, <1>12, <1>13, <1>14

\* A killed process leaves every name as it was.
LEMMA CrashInv ==
    ASSUME Inv, TypeOK', NEW r \in Requests, Crash(r) PROVE Inv'
<1> USE DEF Inv
<1>1. \A s \in Requests : pc'[s] = IF s = r THEN "dead" ELSE pc[s]
  BY GotoEffect DEF Crash
<1>2. /\ \A s \in Requests : s # r => cpc'[s] = cpc[s]
      /\ \A d \in Calls : cpc'[r][d] = IF cpc[r][d] \in InProgress THEN "lost" ELSE cpc[r][d]
  BY LostEffect DEF Crash, TypeOK
<1>3. /\ turn' = turn /\ committing' = committing /\ committed' = committed /\ temp' = temp
      /\ pending' = pending /\ checkpoint' = checkpoint
      /\ diskPending' = diskPending /\ diskCheckpoint' = diskCheckpoint
      /\ admitted' = admitted /\ acknowledged' = acknowledged
  BY DEF Crash, nameVars, historyVars
<1>4. pc[r] \in Beginning \cup {"open"}
  BY DEF Crash, Live
<1>5. OneCommit'
  BY <1>1, <1>2, <1>3, <1>4 DEF OneCommit, NotStarted, BeforeRelease, InProgress
<1>6. Begun'
  BY <1>1, <1>2, <1>3, <1>4 DEF Begun, Beginning
<1>7. BeginOwns'
  BY <1>1, <1>2, <1>3, <1>4 DEF BeginOwns, Beginning
<1>8. HandleOwns'
  BY <1>1, <1>2, <1>3, <1>4 DEF HandleOwns, NotStarted, At, InProgress
<1>9. AdmittedMarkerDurable'
  BY <1>1, <1>2, <1>3, <1>4 DEF AdmittedMarkerDurable
<1>10. CheckpointNeverTorn'
  BY <1>1, <1>2, <1>3, <1>4 DEF CheckpointNeverTorn
<1>11. InterruptedTurnFenced'
  BY <1>1, <1>2, <1>3, <1>4 DEF InterruptedTurnFenced, Unsettled
<1>12. NoSilentReplay'
  BY <1>1, <1>2, <1>3, <1>4 DEF NoSilentReplay
<1>13. CommitDurable'
  BY <1>1, <1>2, <1>3, <1>4 DEF CommitDurable
<1> QED
  BY <1>5, <1>6, <1>7, <1>8, <1>9, <1>10, <1>11, <1>12, <1>13

\* A power loss leaves one of the values each name could have, so what holds of
\* every such value still holds.
LEMMA PowerLossInv ==
    ASSUME Inv, TypeOK', PowerLoss PROVE Inv'
<1> USE DEF Inv
<1>1. \A s \in Requests : pc'[s] = IF pc[s] \in Live THEN "dead" ELSE pc[s]
  BY DEF PowerLoss
<1>2. \A s \in Requests, d \in Calls :
        cpc'[s][d] = IF cpc[s][d] \in InProgress THEN "lost" ELSE cpc[s][d]
  BY LostEffect DEF PowerLoss, TypeOK
<1>3. /\ turn' = turn /\ committing' = committing /\ committed' = committed /\ temp' = temp
      /\ admitted' = admitted /\ acknowledged' = acknowledged
  BY DEF PowerLoss, historyVars
<1>4. /\ pending' \in diskPending /\ checkpoint' \in diskCheckpoint
      /\ diskPending' = {pending'} /\ diskCheckpoint' = {checkpoint'}
      /\ diskPending' \subseteq diskPending /\ diskCheckpoint' \subseteq diskCheckpoint
  BY DEF PowerLoss
<1>5. OneCommit'
  BY <1>1, <1>2, <1>3, <1>4 DEF OneCommit, NotStarted, BeforeRelease, InProgress, Live, Beginning
<1>6. Begun'
  BY <1>1, <1>2, <1>3, <1>4 DEF Begun, Beginning, Live
<1>7. BeginOwns'
  BY <1>1, <1>2, <1>3, <1>4 DEF BeginOwns, Beginning, Live
<1>8. HandleOwns'
  BY <1>1, <1>2, <1>3, <1>4 DEF HandleOwns, NotStarted, At, Live, Beginning
<1>9. AdmittedMarkerDurable'
  BY <1>1, <1>2, <1>3, <1>4 DEF AdmittedMarkerDurable
<1>10. CheckpointNeverTorn'
  BY <1>1, <1>2, <1>3, <1>4 DEF CheckpointNeverTorn
<1>11. InterruptedTurnFenced'
  BY <1>1, <1>2, <1>3, <1>4 DEF InterruptedTurnFenced, Unsettled
<1>12. NoSilentReplay'
  BY <1>1, <1>2, <1>3, <1>4 DEF NoSilentReplay
<1>13. CommitDurable'
  BY <1>1, <1>2, <1>3, <1>4 DEF CommitDurable
<1> QED
  BY <1>5, <1>6, <1>7, <1>8, <1>9, <1>10, <1>11, <1>12, <1>13

\* The operator removes the marker of a request that can no longer commit.
LEMMA RecoverInv ==
    ASSUME Inv, TypeOK', Recover PROVE Inv'
<1> USE DEF Inv
<1>1. /\ pc' = pc /\ turn' = turn /\ committing' = committing /\ committed' = committed
      /\ cpc' = cpc /\ temp' = temp /\ admitted' = admitted
      /\ checkpoint' = checkpoint /\ diskCheckpoint' = diskCheckpoint
  BY DEF Recover, handleVars, SetPending
<1>2. /\ pending \in Requests /\ pending' = None /\ diskPending' = diskPending \cup {None}
      /\ acknowledged' = acknowledged \cup {pending}
  BY DEF Recover, SetPending, TypeOK
<1>3. \/ pc[pending] \in {"dead", "refused"}
      \/ /\ \E c \in Calls : cpc[pending][c] = "failed"
         /\ \A c \in Calls : cpc[pending][c] \notin InProgress
  BY DEF Recover, Quiet
<1>4. OneCommit'
  BY <1>1, <1>2, <1>3 DEF OneCommit, NotStarted, BeforeRelease
<1>5. Begun'
  BY <1>1, <1>2, <1>3 DEF Begun, Beginning, TypeOK
<1>6. BeginOwns'
  BY <1>1, <1>2, <1>3 DEF BeginOwns, Beginning, OneCommit, NotStarted
<1>7. HandleOwns'
  BY <1>1, <1>2, <1>3 DEF HandleOwns, NotStarted, At, OneCommit, InProgress, BeforeRelease
<1>8. AdmittedMarkerDurable'
  BY <1>1, <1>2, <1>3 DEF AdmittedMarkerDurable, TypeOK
<1>9. CheckpointNeverTorn'
  BY <1>1, <1>2, <1>3 DEF CheckpointNeverTorn
<1>10. InterruptedTurnFenced'
  BY <1>1, <1>2, <1>3 DEF InterruptedTurnFenced, Unsettled
<1>11. NoSilentReplay'
  BY <1>1, <1>2, <1>3 DEF NoSilentReplay
<1>12. CommitDurable'
  BY <1>1, <1>2, <1>3 DEF CommitDurable
<1> QED
  BY <1>4, <1>5, <1>6, <1>7, <1>8, <1>9, <1>10, <1>11, <1>12

\* Inv is inductive: one case per action.
LEMMA InvStep == Inv /\ [Next]_vars => Inv'
<1> SUFFICES ASSUME Inv, [Next]_vars PROVE Inv'
  OBVIOUS
<1>0. TypeOK /\ TypeOK'
  BY TypeStep DEF Inv
<1>1. ASSUME NEW r \in Requests, BeginStep(r) PROVE Inv'
  BY <1>0, <1>1, OpenMarkerInv, WriteMarkerInv, SyncMarkerInv, LoadCheckpointInv,
     AbortBeginInv DEF BeginStep
<1>2. ASSUME NEW r \in Requests, NEW c \in Calls, CommitStep(r, c) PROVE Inv'
  <2> USE DEF AtCall, At
  <2>0. pc' = pc /\ turn' = turn /\ admitted' = admitted /\ acknowledged' = acknowledged
    BY <1>0, <1>2, CommitStepEffect DEF historyVars
  <2>1. CASE CallCommit(r, c)
    BY <1>0, <2>1, CallCommitInv
  <2>2. CASE CreateTemp(r, c) \/ FlushTemp(r, c)
    BY <1>0, <2>0, <2>2, WriteTempInv, FailInv
       DEF CreateTemp, FlushTemp, InProgress, BeforeRelease
  <2>3. CASE PublishCheckpoint(r, c)
    BY <1>0, <2>0, <2>3, RenameInv, FailInv DEF PublishCheckpoint, InProgress, BeforeRelease
  <2>4. CASE SettleCheckpoint(r, c)
    BY <1>0, <2>0, <2>4, SettleInv, FailInv DEF SettleCheckpoint, InProgress, BeforeRelease
  <2>5. CASE ReleaseMarker(r, c)
    BY <1>0, <2>0, <2>5, ReleaseInv, FailInv DEF ReleaseMarker, InProgress, BeforeRelease
  <2>6. CASE ConfirmRelease(r, c)
    BY <1>0, <2>0, <2>6, ConfirmInv, FailInv DEF ConfirmRelease, InProgress
  <2>7. CASE CleanupTemp(r, c)
    BY <1>0, <2>7, CleanupInv
  <2> QED
    BY <1>2, <2>1, <2>2, <2>3, <2>4, <2>5, <2>6, <2>7 DEF CommitStep
<1>3. ASSUME NEW r \in Requests, Crash(r) PROVE Inv'
  BY <1>0, <1>3, CrashInv
<1>4. CASE PowerLoss
  BY <1>0, <1>4, PowerLossInv
<1>5. CASE Recover
  BY <1>0, <1>5, RecoverInv
<1>6. CASE UNCHANGED vars
  BY <1>6 DEF vars, handleVars, nameVars, historyVars, Inv, TypeOK, OneCommit, Begun,
              BeginOwns, HandleOwns, AdmittedMarkerDurable, CheckpointNeverTorn,
              InterruptedTurnFenced, Unsettled, NoSilentReplay, CommitDurable, At
<1> QED
  BY <1>1, <1>2, <1>3, <1>4, <1>5, <1>6 DEF Next

\* The inductive invariant holds in every reachable state.
THEOREM Invariance == Spec => []Inv
BY InvInit, InvStep, PTL DEF Spec

\* While an admitted turn's successor is not safe on disk, the turn's marker is
\* the only one a power loss can leave: no request silently replays it.
THEOREM Fencing == Spec => []InterruptedTurnFenced
<1>1. Inv => InterruptedTurnFenced
  BY DEF Inv
<1> QED
  BY <1>1, Invariance, PTL

\* Two requests are admitted to one turn only across an operator's recovery.
THEOREM NoReplay == Spec => []NoSilentReplay
<1>1. Inv => NoSilentReplay
  BY DEF Inv
<1> QED
  BY <1>1, Invariance, PTL

\* A commit that set committed survives every power loss, and no power loss
\* leaves half a checkpoint.
THEOREM Durability == Spec => [](CommitDurable /\ CheckpointNeverTorn)
<1>1. Inv => CommitDurable /\ CheckpointNeverTorn
  BY DEF Inv
<1> QED
  BY <1>1, Invariance, PTL

\* The unlink of line 51 removes no other request's marker.
THEOREM Ownership == Spec => []HolderOwnsMarker
<1>1. Inv => HolderOwnsMarker
  <2> SUFFICES ASSUME Inv, NEW r \in Requests, At(r, "open"),
                      \/ \A c \in Calls : cpc[r][c] \in NotStarted
                      \/ \E c \in Calls : cpc[r][c] \in BeforeRelease
               PROVE  pending = r
    BY DEF HolderOwnsMarker
  <2>1. CASE \A c \in Calls : cpc[r][c] \in NotStarted
    BY <2>1 DEF Inv, HandleOwns
  <2>2. ASSUME NEW c \in Calls, cpc[r][c] \in BeforeRelease PROVE pending = r
    <3>1. \A d \in Calls : d # c => cpc[r][d] \in NotStarted
      BY <2>2 DEF Inv, OneCommit, BeforeRelease, NotStarted
    <3> QED
      BY <2>2, <3>1 DEF Inv, HandleOwns, BeforeRelease
  <2> QED
    BY <2>1, <2>2
<1> QED
  BY <1>1, Invariance, PTL

\* Outside a power loss the checkpoint moves only from the admitted turn to the
\* next one.
THEOREM AdvancesByOne == Spec => CheckpointAdvancesByOne
<1> DEFINE Advance == checkpoint' # checkpoint =>
                         checkpoint' = checkpoint + 1 \/ checkpoint' \in diskCheckpoint
<1>1. Inv /\ [Next]_vars => [Advance]_vars
  <2> SUFFICES ASSUME Inv, Next PROVE Advance
    OBVIOUS
  <2>1. ASSUME NEW r \in Requests, BeginStep(r) \/ Crash(r) PROVE Advance
    BY <2>1 DEF BeginStep, OpenMarker, WriteMarker, SyncMarker, LoadCheckpoint, AbortBegin,
                Crash, SetPending, SyncDirectory, nameVars
  <2>2. ASSUME NEW r \in Requests, NEW c \in Calls, CommitStep(r, c) PROVE Advance
    <3>1. CASE PublishCheckpoint(r, c)
      <4>1. pc[r] = "open" /\ cpc[r][c] = "publish"
        BY <3>1 DEF PublishCheckpoint, AtCall, At
      <4>2. \A d \in Calls : cpc[r][d] \in NotStarted \cup {"publish"}
        BY <4>1 DEF Inv, OneCommit, NotStarted
      <4>3. diskCheckpoint = {turn[r]} /\ checkpoint = turn[r]
        BY <4>1, <4>2 DEF Inv, HandleOwns, At, Begun
      <4> QED
        BY <3>1, <4>3 DEF PublishCheckpoint, Rename, Fail, nameVars
    <3>2. CASE ~PublishCheckpoint(r, c)
      BY <2>2, <3>2 DEF CommitStep, CallCommit, CreateTemp, FlushTemp, SettleCheckpoint,
                        ReleaseMarker, ConfirmRelease, CleanupTemp, Fail, SetPending,
                        SyncDirectory, nameVars
    <3> QED
      BY <3>1, <3>2
  <2>3. CASE PowerLoss \/ Recover
    BY <2>3 DEF PowerLoss, Recover, SetPending
  <2> QED
    BY <2>1, <2>2, <2>3 DEF Next
<1> QED
  BY <1>1, Invariance, PTL DEF Spec, CheckpointAdvancesByOne

-----------------------------------------------------------------------------
(* The file protocol implements RequestLedger.                             *)

\* The three readings of the marker.
LEMMA HolderReading ==
    /\ pending \notin admitted => Holder = Ledger!Free
    /\ pending \in admitted /\ pc[pending] = "open"
          /\ (\A c \in Calls : cpc[pending][c] \in NotStarted \cup BeforeRelease)
          => Holder = Ledger!Running(pending, turn[pending])
    /\ pending \in admitted
          /\ (pc[pending] # "open"
                \/ \E c \in Calls : cpc[pending][c] \notin NotStarted \cup BeforeRelease)
          => Holder = Ledger!Interrupted
BY DEF Holder, HolderStatus, At, Ledger!Free, Ledger!Running, Ledger!Interrupted

\* The same readings after a step.
LEMMA HolderReadingNext ==
    /\ pending' \notin admitted' => Holder' = Ledger!Free
    /\ pending' \in admitted' /\ pc'[pending'] = "open"
          /\ (\A c \in Calls : cpc'[pending'][c] \in NotStarted \cup BeforeRelease)
          => Holder' = Ledger!Running(pending', turn'[pending'])
    /\ pending' \in admitted'
          /\ (pc'[pending'] # "open"
                \/ \E c \in Calls : cpc'[pending'][c] \notin NotStarted \cup BeforeRelease)
          => Holder' = Ledger!Interrupted
BY DEF Holder, HolderStatus, At, Ledger!Free, Ledger!Running, Ledger!Interrupted

\* A step that moves no call of an admitted marker's request in or out of its
\* turn leaves the holder as it is.
LEMMA HolderSame ==
    ASSUME pending' = pending, pending \in admitted <=> pending \in admitted',
           pending \in admitted =>
              /\ pc'[pending] = pc[pending] /\ turn'[pending] = turn[pending]
              /\ \A c \in Calls : cpc'[pending][c] \in NotStarted \cup BeforeRelease
                                    <=> cpc[pending][c] \in NotStarted \cup BeforeRelease
    PROVE  Holder' = Holder
BY HolderReading, HolderReadingNext

\* A rejected await of a commit() call interrupts the turn, or changes nothing
\* when the call had already released the marker.
LEMMA FailRefines ==
    ASSUME Inv, NEW r \in Requests, NEW c \in Calls, pc[r] = "open",
           cpc[r][c] \in BeforeRelease \cup {"confirm"}, Fail(r, c),
           pc' = pc, turn' = turn, admitted' = admitted
    PROVE  Ledger!Next \/ UNCHANGED Ledger!ledgerVars
<1>1. \A s \in Requests, d \in Calls :
         cpc'[s][d] = IF s = r /\ d = c THEN "cleanup" ELSE cpc[s][d]
  BY GotoCallEffect DEF Fail, Inv, CallStates, InProgress
<1>2. pending' = pending /\ checkpoint' = checkpoint /\ diskCheckpoint' = diskCheckpoint
  BY DEF Fail, nameVars
<1>3. "cleanup" \notin NotStarted \cup BeforeRelease
      /\ "confirm" \notin NotStarted \cup BeforeRelease
  BY DEF NotStarted, BeforeRelease
<1>4. admitted \in SUBSET Requests /\ \A s \in Requests : turn[s] \in 0 .. MaxTurn
  BY DEF Inv, TypeOK, Turns
<1>5. CASE pending = r /\ \A d \in Calls : cpc[r][d] \in NotStarted \cup BeforeRelease
  <2>1. r \in admitted
    BY DEF Inv, Begun
  <2>2. Holder = Ledger!Running(r, turn[r]) /\ Holder' = Ledger!Interrupted
    BY <1>1, <1>2, <1>3, <1>5, <2>1, HolderReading, HolderReadingNext
  <2> QED
    BY <1>2, <1>4, <2>2 DEF Ledger!Next, Ledger!Interrupt
<1>6. CASE pending = r /\ ~(\A d \in Calls : cpc[r][d] \in NotStarted \cup BeforeRelease)
  <2>1. \E d \in Calls : cpc'[r][d] \notin NotStarted \cup BeforeRelease
    BY <1>1, <1>3
  <2>2. Holder' = Holder
    BY <1>2, <1>6, <2>1, HolderReading, HolderReadingNext
  <2> QED
    BY <1>2, <2>2 DEF Ledger!ledgerVars
<1>7. CASE pending # r
  <2>1. Holder' = Holder
    BY <1>1, <1>2, <1>4, <1>7, HolderSame
  <2> QED
    BY <1>2, <2>1 DEF Ledger!ledgerVars
<1> QED
  BY <1>5, <1>6, <1>7

\* Every step of beginRequest is a step of the ledger or none.
LEMMA BeginRefines ==
    ASSUME Inv, NEW r \in Requests, BeginStep(r)
    PROVE  Ledger!Next \/ UNCHANGED Ledger!ledgerVars
<1> USE DEF Goto, At
<1>0. pc[r] \in {"idle", "marking", "syncing", "loading", "aborting"}
  BY DEF BeginStep, OpenMarker, WriteMarker, SyncMarker, LoadCheckpoint, AbortBegin
<1>1. /\ r \notin admitted /\ None \notin admitted
      /\ admitted \in SUBSET Requests /\ turn \in [Requests -> Turns]
      /\ \A s \in Requests : s # r => pc'[s] = pc[s] /\ turn'[s] = turn[s]
      /\ cpc' = cpc
  <2>1. r \notin admitted /\ None \notin admitted /\ admitted \in SUBSET Requests
          /\ turn \in [Requests -> Turns]
    BY <1>0 DEF Inv, Begun, Beginning, TypeOK
  <2>2. cpc' = cpc
    BY DEF BeginStep, OpenMarker, WriteMarker, SyncMarker, LoadCheckpoint, AbortBegin, handleVars
  <2>3. \A s \in Requests : s # r => pc'[s] = pc[s]
    BY DEF BeginStep, OpenMarker, WriteMarker, SyncMarker, LoadCheckpoint, AbortBegin,
           Inv, TypeOK
  <2>4. \A s \in Requests : s # r => turn'[s] = turn[s]
    BY DEF BeginStep, OpenMarker, WriteMarker, SyncMarker, LoadCheckpoint, AbortBegin,
           Inv, TypeOK, handleVars
  <2> QED
    BY <2>1, <2>2, <2>3, <2>4
<1>2. CASE OpenMarker(r) \/ WriteMarker(r) \/ AbortBegin(r)
  <2>1. /\ admitted' = admitted /\ checkpoint' = checkpoint /\ diskCheckpoint' = diskCheckpoint
        /\ \/ pending' = pending
           \/ pending \in {r, None} /\ pending' \in {r, None}
    BY <1>2 DEF OpenMarker, WriteMarker, AbortBegin, SetPending, nameVars, historyVars,
                Inv, BeginOwns, Beginning
  <2>2. Holder' = Holder
    BY <1>1, <2>1, HolderSame, HolderReading, HolderReadingNext
  <2> QED
    BY <2>1, <2>2 DEF Ledger!ledgerVars
<1>3. CASE SyncMarker(r)
  <2>1. /\ admitted' = admitted /\ checkpoint' = checkpoint /\ pending' = pending
        /\ diskCheckpoint' = {checkpoint} \/ diskCheckpoint' = diskCheckpoint
    BY <1>3 DEF SyncMarker, SyncDirectory, nameVars, historyVars
  <2>2. Holder' = Holder
    BY <1>1, <2>1, HolderSame
  <2> QED
    BY <2>1, <2>2 DEF Ledger!ledgerVars, Ledger!Next, Ledger!Settle
<1>4. CASE LoadCheckpoint(r)
  <2>1. /\ checkpoint' = checkpoint /\ pending' = pending /\ diskCheckpoint' = diskCheckpoint
        /\ turn' = turn /\ pending = r /\ diskCheckpoint = {checkpoint}
    BY <1>4 DEF LoadCheckpoint, handleVars, nameVars, Inv, BeginOwns, Beginning
  <2>2. Holder = Ledger!Free
    BY <1>1, <2>1, HolderReading
  <2>3. CASE checkpoint = turn[r] /\ Goto(r, "open") /\ admitted' = admitted \cup {r}
    <3>1. pc'[r] = "open"
      BY <2>3 DEF Inv, TypeOK
    <3>2. \A c \in Calls : cpc'[r][c] \in NotStarted \cup BeforeRelease
      BY <1>0, <1>1 DEF Inv, OneCommit
    <3>3. Holder' = Ledger!Running(r, checkpoint)
      BY <2>1, <2>3, <3>1, <3>2, HolderReadingNext
    <3> QED
      BY <2>1, <2>2, <3>3 DEF Ledger!Next, Ledger!Admit
  <2>4. CASE admitted' = admitted
    BY <1>1, <2>1, <2>2, <2>4, HolderReadingNext DEF Ledger!ledgerVars
  <2> QED
    BY <1>4, <2>3, <2>4 DEF LoadCheckpoint
<1> QED
  BY <1>2, <1>3, <1>4 DEF BeginStep

\* Every step of commit() is a step of the ledger or none: rename publishes,
\* the first directory sync settles, unlink releases.
LEMMA CommitRefines ==
    ASSUME Inv, NEW r \in Requests, NEW c \in Calls, CommitStep(r, c)
    PROVE  Ledger!Next \/ UNCHANGED Ledger!ledgerVars
<1> USE DEF AtCall, At
<1>1. /\ pc' = pc /\ turn' = turn /\ admitted' = admitted
      /\ \A s \in Requests, d \in Calls : ~(s = r /\ d = c) => cpc'[s][d] = cpc[s][d]
  BY CommitStepEffect DEF Inv, historyVars
<1>2. /\ admitted \in SUBSET Requests /\ turn[r] \in 0 .. MaxTurn
      /\ pc[r] = "open" /\ r \in admitted
  BY DEF CommitStep, CallCommit, CreateTemp, FlushTemp, PublishCheckpoint, SettleCheckpoint,
         ReleaseMarker, ConfirmRelease, CleanupTemp, Inv, TypeOK, Turns, Begun
<1>3. ASSUME NEW label \in CallStates, GotoCall(r, c, label)
      PROVE  /\ cpc'[r][c] = label
             /\ \A s \in Requests, d \in Calls : ~(s = r /\ d = c) => cpc'[s][d] = cpc[s][d]
  BY <1>3, GotoCallEffect DEF Inv
<1> USE DEF CallStates, InProgress, NotStarted, BeforeRelease
<1>4. CASE Fail(r, c)
  <2>1. cpc[r][c] \in BeforeRelease \cup {"confirm"}
        \/ (CleanupTemp(r, c) /\ cpc[r][c] = "cleanup")
        \/ (CallCommit(r, c) /\ cpc[r][c] = "idle")
    BY DEF CommitStep, CallCommit, CreateTemp, FlushTemp, PublishCheckpoint, SettleCheckpoint,
           ReleaseMarker, ConfirmRelease, CleanupTemp
  <2>2. cpc'[r][c] = "cleanup"
    BY <1>3, <1>4 DEF Fail
  <2>3. CASE cpc[r][c] \in BeforeRelease \cup {"confirm"}
    BY <1>1, <1>2, <1>4, <2>3, FailRefines
  <2>4. CASE CleanupTemp(r, c) /\ cpc[r][c] = "cleanup"
    <3>1. cpc'[r][c] \in {"resolved", "failed"}
      BY <1>3, <2>4 DEF CleanupTemp
    <3> QED
      BY <2>2, <3>1
  <2>5. CASE CallCommit(r, c) /\ cpc[r][c] = "idle"
    <3>1. cpc'[r][c] \in {"create", "rejected"}
      BY <1>3, <2>5 DEF CallCommit
    <3> QED
      BY <2>2, <3>1
  <2> QED
    BY <2>1, <2>3, <2>4, <2>5
<1>5. CASE ~Fail(r, c)
  <2>1. CASE CallCommit(r, c) \/ CreateTemp(r, c) \/ FlushTemp(r, c) \/ CleanupTemp(r, c)
    <3>1. pending' = pending /\ checkpoint' = checkpoint /\ diskCheckpoint' = diskCheckpoint
      BY <1>5, <2>1 DEF CallCommit, CreateTemp, FlushTemp, CleanupTemp, nameVars
    <3>2. cpc'[r][c] \in NotStarted \cup BeforeRelease <=> cpc[r][c] \in NotStarted \cup BeforeRelease
      BY <1>3, <1>5, <2>1 DEF CallCommit, CreateTemp, FlushTemp, CleanupTemp
    <3>3. Holder' = Holder
      BY <1>1, <1>2, <3>1, <3>2, HolderSame
    <3> QED
      BY <3>1, <3>3 DEF Ledger!ledgerVars
  <2>2. CASE PublishCheckpoint(r, c)
    <3>1. Rename(r, c) /\ cpc[r][c] = "publish" /\ cpc'[r][c] = "settle"
      BY <1>3, <1>5, <2>2 DEF PublishCheckpoint
    <3>2. \A d \in Calls : d # c => cpc[r][d] \in NotStarted
      BY <3>1 DEF Inv, OneCommit
    <3>3. pending = r /\ diskCheckpoint = {turn[r]} /\ checkpoint = turn[r] /\ temp[r][c] = "clean"
      BY <1>2, <3>1, <3>2 DEF Inv, HandleOwns, Begun
    <3>4. pending' = r /\ checkpoint' = checkpoint + 1
          /\ diskCheckpoint' = diskCheckpoint \cup {checkpoint + 1}
      BY <3>1, <3>3 DEF Rename
    <3>5. Holder = Ledger!Running(r, checkpoint) /\ Holder' = Holder
      BY <1>1, <1>2, <3>1, <3>2, <3>3, <3>4, HolderReading, HolderReadingNext
    <3> QED
      BY <3>4, <3>5 DEF Ledger!Next, Ledger!Publish
  <2>3. CASE SettleCheckpoint(r, c) \/ ConfirmRelease(r, c)
    <3>1. /\ pending' = pending /\ checkpoint' = checkpoint /\ diskCheckpoint' = {checkpoint}
          /\ cpc'[r][c] \in NotStarted \cup BeforeRelease <=> cpc[r][c] \in NotStarted \cup BeforeRelease
      BY <1>3, <1>5, <2>3 DEF SettleCheckpoint, ConfirmRelease, SyncDirectory
    <3>2. Holder' = Holder
      BY <1>1, <1>2, <3>1, HolderSame
    <3> QED
      BY <3>1, <3>2 DEF Ledger!Next, Ledger!Settle
  <2>4. CASE ReleaseMarker(r, c)
    <3>1. SetPending(None) /\ cpc[r][c] = "release"
      BY <1>5, <2>4 DEF ReleaseMarker
    <3>2. \A d \in Calls : d # c => cpc[r][d] \in NotStarted
      BY <3>1 DEF Inv, OneCommit
    <3>3. pending = r /\ diskCheckpoint = {turn[r] + 1} /\ checkpoint = turn[r] + 1
      BY <1>2, <3>1 DEF Inv, HandleOwns, Begun
    <3>4. Holder = Ledger!Running(r, turn[r])
      BY <1>2, <3>1, <3>2, <3>3, HolderReading
    <3>5. Holder' = Ledger!Free
      BY <1>1, <1>2, <3>1, HolderReadingNext DEF SetPending
    <3> QED
      BY <1>2, <3>1, <3>3, <3>4, <3>5 DEF Ledger!Next, Ledger!Release, SetPending
  <2> QED
    BY <2>1, <2>2, <2>3, <2>4 DEF CommitStep
<1> QED
  BY <1>4, <1>5

\* Crashes, power losses and recoveries are the ledger's interruptions, power
\* losses and recoveries.
LEMMA EnvironmentRefines ==
    ASSUME Inv, (\E r \in Requests : Crash(r)) \/ PowerLoss \/ Recover
    PROVE  Ledger!Next \/ UNCHANGED Ledger!ledgerVars
<1>0. admitted \in SUBSET Requests /\ turn \in [Requests -> 0 .. MaxTurn] /\ None \notin admitted
  BY DEF Inv, TypeOK, Turns
<1>1. ASSUME NEW r \in Requests, Crash(r) PROVE Ledger!Next \/ UNCHANGED Ledger!ledgerVars
  <2>1. /\ admitted' = admitted /\ turn' = turn
        /\ pending' = pending /\ checkpoint' = checkpoint /\ diskCheckpoint' = diskCheckpoint
        /\ pc'[r] = "dead" /\ \A s \in Requests : s # r => pc'[s] = pc[s] /\ cpc'[s] = cpc[s]
    BY <1>1 DEF Crash, Goto, nameVars, historyVars, Inv, TypeOK
  <2>2. CASE pending # r \/ r \notin admitted
    <3>1. Holder' = Holder
      BY <1>0, <2>1, <2>2, HolderSame
    <3> QED
      BY <2>1, <3>1 DEF Ledger!ledgerVars
  <2>3. CASE pending = r /\ r \in admitted
    <3>1. Holder' = Ledger!Interrupted
      BY <2>1, <2>3, HolderReadingNext
    <3>2. Holder = Ledger!Running(r, turn[r]) \/ Holder = Ledger!Interrupted
      BY <2>3, HolderReading
    <3> QED
      BY <1>0, <2>1, <3>1, <3>2 DEF Ledger!Next, Ledger!Interrupt, Ledger!ledgerVars
  <2> QED
    BY <2>2, <2>3
<1>2. CASE PowerLoss
  <2>1. /\ admitted' = admitted /\ pending' \in diskPending
        /\ checkpoint' \in diskCheckpoint /\ diskCheckpoint' = {checkpoint'}
        /\ \A s \in Requests : pc'[s] # "open"
    BY <1>2 DEF PowerLoss, historyVars, Live
  <2>2. CASE pending' \in admitted
    <3>1. Holder' = Ledger!Interrupted
      BY <1>0, <2>1, <2>2, HolderReadingNext
    <3> QED
      BY <2>1, <3>1 DEF Ledger!Next, Ledger!PowerLoss
  <2>3. CASE pending' \notin admitted
    <3>1. pending \notin admitted
      BY <2>1, <2>3 DEF Inv, AdmittedMarkerDurable
    <3>2. Holder = Ledger!Free /\ Holder' = Ledger!Free
      BY <2>1, <2>3, <3>1, HolderReading, HolderReadingNext
    <3> QED
      BY <2>1, <3>2 DEF Ledger!Next, Ledger!PowerLoss
  <2> QED
    BY <2>2, <2>3
<1>3. CASE Recover
  <2>1. /\ admitted' = admitted /\ checkpoint' = checkpoint /\ diskCheckpoint' = diskCheckpoint
        /\ pending' = None /\ Quiet(pending)
    BY <1>3 DEF Recover, SetPending
  <2>2. Holder' = Ledger!Free
    BY <1>0, <2>1, HolderReadingNext
  <2>3. CASE pending \in admitted
    <3>1. Holder = Ledger!Interrupted
      BY <2>1, <2>3, HolderReading DEF Quiet, NotStarted, BeforeRelease
    <3> QED
      BY <2>1, <2>2, <3>1 DEF Ledger!Next, Ledger!Recover
  <2>4. CASE pending \notin admitted
    BY <2>1, <2>2, <2>4, HolderReading DEF Ledger!ledgerVars
  <2> QED
    BY <2>3, <2>4
<1> QED
  BY <1>1, <1>2, <1>3

\* request-state.mjs implements the session ledger: what its callers may rely on
\* holds for every interleaving, I/O failure, crash and power loss.
THEOREM Refinement == Spec => ImplementsLedger
<1>1. Init => Ledger!Init
  BY HolderReading DEF Init, Ledger!Init
<1>2. Inv /\ [Next]_vars => [Ledger!Next]_(Ledger!ledgerVars)
  <2> SUFFICES ASSUME Inv, [Next]_vars PROVE Ledger!Next \/ UNCHANGED Ledger!ledgerVars
    BY DEF Ledger!ledgerVars
  <2>1. CASE Next
    BY <2>1, BeginRefines, CommitRefines, EnvironmentRefines DEF Next
  <2>2. CASE UNCHANGED vars
    <3>1. Holder' = Holder
      BY <2>2, HolderSame DEF vars, handleVars, nameVars, historyVars
    <3> QED
      BY <2>2, <3>1 DEF vars, nameVars, Ledger!ledgerVars
  <2> QED
    BY <2>1, <2>2
<1> QED
  BY <1>1, <1>2, Invariance, PTL DEF Spec, ImplementsLedger, Ledger!Spec
=============================================================================
