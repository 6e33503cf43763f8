------------------------ MODULE LinuxFileAccessProofs ------------------------
(***************************************************************************)
(* Proofs about LinuxFileAccess, for any number of operations and any limit. *)
(*                                                                         *)
(* A helper is alive only while its operation is in #active (Placed), which   *)
(* the limit bounds and which disposal takes a snapshot of.  A promise can    *)
(* only resolve over exit code zero, because a stopped operation rejects      *)
(* whatever its reason and the reasons of the others are known (Reasons); and *)
(* a helper that exits with zero has done its last write (Uncut).             *)
(***************************************************************************)
EXTENDS LinuxFileAccess, FiniteSetTheorems, TLAPS

\* Operations that have not run have done nothing.
Fresh ==
    \A c \in Calls : promise[c] = "idle" =>
        helper[c] = "none" /\ code[c] = "none" /\ failure[c] = "undefined" /\ ~stopped[c]

\* #active holds the pending operations, and every helper is one's.
Placed ==
    \A c \in Calls :
        /\ c \in active <=> promise[c] = "pending"
        /\ Alive(c) => c \in active

Bounded == IsFiniteSet(active) /\ Cardinality(active) <= MaxActive

\* Nothing joins #active behind disposal's back.
Snapshot ==
    /\ disposal # "idle" => closed
    /\ disposal = "waiting" => active \subseteq jobs
    /\ disposal = "resolved" => active = {}

Reasons ==
    \A c \in active : ~stopped[c] => failure[c] \in {"undefined", "spawn"}

\* What an operation leaves cut off, it has not finished.
Uncut ==
    \A c \in Calls :
        /\ code[c] = "zero" => helper[c] = "dead"
        /\ helper[c] \in {"none", "input", "open", "read", "end"} \/ code[c] = "zero"
            => file # <<"cut", c>>

Acked == \A c \in Calls : promise[c] = "resolved" => code[c] = "zero"

Inv == TypeOK /\ Fresh /\ Placed /\ Bounded /\ Snapshot /\ Reasons /\ Uncut /\ Acked

-----------------------------------------------------------------------------
(* Every step keeps the invariant.                                          *)

\* An admitted operation starts its helper; a refused one has none.
LEMMA RunKeeps ==
    ASSUME Inv, NEW c \in Calls, Run(c)
    PROVE  Inv'
<1>1. TypeOK'
  BY DEF Inv, TypeOK, Run, Admitted, handleVars
<1> USE DEF Inv, TypeOK, Run, Admitted, handleVars
<1>2. Fresh'
  BY DEF Fresh
<1>3. Placed'
  BY DEF Placed, Alive
<1>4. Bounded'
  <2>1. CASE active' = active
    BY <2>1 DEF Bounded
  <2>2. CASE Cardinality(active) < MaxActive /\ active' = active \cup {c}
    <3>1. IsFiniteSet(active')
      BY <2>2, FS_AddElement DEF Bounded
    <3>2. Cardinality(active') \in {Cardinality(active), Cardinality(active) + 1}
      BY <2>2, FS_AddElement DEF Bounded
    <3>3. Cardinality(active) \in Nat
      BY FS_CardinalityType DEF Bounded
    <3> QED BY <2>2, <3>1, <3>2, <3>3, LimitAssumption DEF Bounded
  <2> QED BY <2>1, <2>2
<1>5. Snapshot'
  BY DEF Snapshot
<1>6. Reasons'
  BY DEF Reasons, Fresh, Placed, Alive
<1>7. Uncut'
  BY DEF Uncut, Fresh
<1>8. Acked'
  BY DEF Acked
<1> QED BY <1>1, <1>2, <1>3, <1>4, <1>5, <1>6, <1>7, <1>8 DEF Inv

\* A stopped operation keeps its place until its helper is gone.
LEMMA StopKeeps ==
    ASSUME Inv, NEW c \in Calls, NEW reason \in {"null", "abort", "timeout", "stream"},
           Stop(c, reason), StopUnchanged
    PROVE  Inv'
<1>1. TypeOK'
  BY DEF Inv, TypeOK, Stop, StopUnchanged, handleVars
<1> USE DEF Inv, TypeOK, Stop, StopUnchanged, handleVars
<1>2. Placed' /\ Bounded' /\ Snapshot' /\ Uncut' /\ Acked'
  BY DEF Placed, Bounded, Snapshot, Uncut, Acked, Alive
<1>3. Fresh'
  BY DEF Fresh, Placed, Alive
<1>4. Reasons'
  BY DEF Reasons
<1> QED BY <1>1, <1>2, <1>3, <1>4 DEF Inv

\* A close event resolves only what was not stopped and exited with zero.
LEMMA CloseKeeps ==
    ASSUME Inv, NEW c \in Calls, Close(c)
    PROVE  Inv'
<1>1. TypeOK'
  BY DEF Inv, TypeOK, Close, Rejects, Verdict, Falsy, handleVars, helperVars
<1> USE DEF Inv, TypeOK, Close, Rejects, Verdict, Falsy, handleVars, helperVars
<1>2. Uncut'
  BY DEF Uncut
<1>3. Fresh'
  BY DEF Fresh
<1>4. Placed'
  BY DEF Placed, Alive
<1>5. Bounded'
  <2>1. active' = active \ {c}
    OBVIOUS
  <2>2. IsFiniteSet(active')
    BY <2>1, FS_RemoveElement DEF Bounded
  <2>3. Cardinality(active') \in {Cardinality(active), Cardinality(active) - 1}
    BY <2>1, FS_RemoveElement DEF Bounded
  <2>4. Cardinality(active) \in Nat
    BY FS_CardinalityType DEF Bounded
  <2> QED BY <2>2, <2>3, <2>4, LimitAssumption DEF Bounded
<1>6. Snapshot'
  BY DEF Snapshot
<1>7. Reasons'
  BY DEF Reasons
<1>8. Acked'
  BY DEF Acked, Reasons
<1> QED BY <1>1, <1>2, <1>3, <1>4, <1>5, <1>6, <1>7, <1>8 DEF Inv

\* The input is read before the file is touched.
LEMMA ReadInputKeeps ==
    ASSUME Inv, NEW c \in Calls, ReadInput(c)
    PROVE  Inv'
<1>1. TypeOK'
  BY DEF Inv, TypeOK, ReadInput, Step, HelperUnchanged, handleVars, promiseVars
<1> USE DEF Inv, TypeOK, ReadInput, Step, HelperUnchanged, handleVars, promiseVars
<1>2. Bounded' /\ Snapshot' /\ Reasons' /\ Acked'
  BY DEF Bounded, Snapshot, Reasons, Acked
<1>3. Fresh'
  BY DEF Fresh
<1>4. Placed'
  BY DEF Placed, Alive
<1>5. Uncut'
  BY DEF Uncut
<1> QED BY <1>1, <1>2, <1>3, <1>4, <1>5 DEF Inv

\* Opening may create the file, for a writer.
LEMMA OpenKeeps ==
    ASSUME Inv, NEW c \in Calls, Open(c)
    PROVE  Inv'
<1>1. TypeOK'
  BY DEF Inv, TypeOK, Open, Step, HelperUnchanged, handleVars, promiseVars
<1> USE DEF Inv, TypeOK, Open, Step, HelperUnchanged, handleVars, promiseVars
<1>2. Bounded' /\ Snapshot' /\ Reasons' /\ Acked'
  BY DEF Bounded, Snapshot, Reasons, Acked
<1>3. Fresh'
  BY DEF Fresh
<1>4. Placed'
  BY DEF Placed, Alive
<1>5. Uncut'
  BY DEF Uncut
<1> QED BY <1>1, <1>2, <1>3, <1>4, <1>5 DEF Inv

\* Truncation cuts the file off.
LEMMA TruncateKeeps ==
    ASSUME Inv, NEW c \in Calls, Truncate(c)
    PROVE  Inv'
<1>1. TypeOK'
  BY DEF Inv, TypeOK, Truncate, Step, HelperUnchanged, handleVars, promiseVars
<1> USE DEF Inv, TypeOK, Truncate, Step, HelperUnchanged, handleVars, promiseVars
<1>2. Bounded' /\ Snapshot' /\ Reasons' /\ Acked'
  BY DEF Bounded, Snapshot, Reasons, Acked
<1>3. Fresh'
  BY DEF Fresh
<1>4. Placed'
  BY DEF Placed, Alive
<1>5. Uncut'
  BY DEF Uncut
<1> QED BY <1>1, <1>2, <1>3, <1>4, <1>5 DEF Inv

\* The last write makes it whole.
LEMMA WriteKeeps ==
    ASSUME Inv, NEW c \in Calls, Write(c)
    PROVE  Inv'
<1>1. TypeOK'
  BY DEF Inv, TypeOK, Write, Step, HelperUnchanged, handleVars, promiseVars
<1> USE DEF Inv, TypeOK, Write, Step, HelperUnchanged, handleVars, promiseVars
<1>2. Bounded' /\ Snapshot' /\ Reasons' /\ Acked'
  BY DEF Bounded, Snapshot, Reasons, Acked
<1>3. Fresh'
  BY DEF Fresh
<1>4. Placed'
  BY DEF Placed, Alive
<1>5. Uncut'
  BY DEF Uncut
<1> QED BY <1>1, <1>2, <1>3, <1>4, <1>5 DEF Inv

\* A reader leaves the file alone.
LEMMA ReadKeeps ==
    ASSUME Inv, NEW c \in Calls, Read(c)
    PROVE  Inv'
<1>1. TypeOK'
  BY DEF Inv, TypeOK, Read, Step, HelperUnchanged, handleVars, promiseVars
<1> USE DEF Inv, TypeOK, Read, Step, HelperUnchanged, handleVars, promiseVars
<1>2. Bounded' /\ Snapshot' /\ Reasons' /\ Acked'
  BY DEF Bounded, Snapshot, Reasons, Acked
<1>3. Fresh'
  BY DEF Fresh
<1>4. Placed'
  BY DEF Placed, Alive
<1>5. Uncut'
  BY DEF Uncut
<1> QED BY <1>1, <1>2, <1>3, <1>4, <1>5 DEF Inv

\* Only a helper that has finished exits with zero.
LEMMA ExitKeeps ==
    ASSUME Inv, NEW c \in Calls, Exit(c)
    PROVE  Inv'
<1>1. TypeOK'
  BY DEF Inv, TypeOK, Exit, Step, HelperUnchanged, handleVars, promiseVars
<1> USE DEF Inv, TypeOK, Exit, Step, HelperUnchanged, handleVars, promiseVars
<1>2. Bounded' /\ Snapshot' /\ Reasons'
  BY DEF Bounded, Snapshot, Reasons
<1>3. Fresh'
  BY DEF Fresh
<1>4. Placed'
  BY DEF Placed, Alive
<1>5. Uncut'
  BY DEF Uncut
<1>6. Acked'
  BY DEF Acked
<1> QED BY <1>1, <1>2, <1>3, <1>4, <1>5, <1>6 DEF Inv

\* A helper that fails says so.
LEMMA HelperFailsKeeps ==
    ASSUME Inv, NEW c \in Calls, HelperFails(c)
    PROVE  Inv'
<1>1. TypeOK'
  BY DEF Inv, TypeOK, HelperFails, Alive, Step, HelperUnchanged, handleVars, promiseVars
<1> USE DEF Inv, TypeOK, HelperFails, Alive, Step, HelperUnchanged, handleVars, promiseVars
<1>2. Bounded' /\ Snapshot' /\ Reasons'
  BY DEF Bounded, Snapshot, Reasons
<1>3. Fresh'
  BY DEF Fresh
<1>4. Placed'
  BY DEF Placed, Alive
<1>5. Uncut'
  BY DEF Uncut
<1>6. Acked'
  BY DEF Acked, Uncut
<1> QED BY <1>1, <1>2, <1>3, <1>4, <1>5, <1>6 DEF Inv

\* A killed helper has a signal for its exit code.
LEMMA DieKeeps ==
    ASSUME Inv, NEW c \in Calls, Die(c)
    PROVE  Inv'
<1>1. TypeOK'
  BY DEF Inv, TypeOK, Die, Alive, handleVars, promiseVars
<1> USE DEF Inv, TypeOK, Die, Alive, handleVars, promiseVars
<1>2. Bounded' /\ Snapshot' /\ Reasons'
  BY DEF Bounded, Snapshot, Reasons
<1>3. Fresh'
  BY DEF Fresh
<1>4. Placed'
  BY DEF Placed
<1>5. Uncut'
  BY DEF Uncut
<1>6. Acked'
  BY DEF Acked, Uncut
<1> QED BY <1>1, <1>2, <1>3, <1>4, <1>5, <1>6 DEF Inv

\* A helper that hangs changes nothing.
LEMMA StallKeeps ==
    ASSUME Inv, NEW c \in Calls, Stall(c)
    PROVE  Inv'
<1>1. TypeOK'
  BY DEF Inv, TypeOK, Stall, handleVars, promiseVars
<1> USE DEF Inv, TypeOK, Stall, handleVars, promiseVars
<1>2. Fresh' /\ Placed' /\ Bounded' /\ Snapshot' /\ Reasons' /\ Uncut' /\ Acked'
  BY DEF Fresh, Placed, Bounded, Snapshot, Reasons, Uncut, Acked, Alive
<1> QED BY <1>1, <1>2 DEF Inv

\* Disposal takes its snapshot and closes admission in one step.
LEMMA DisposeKeeps ==
    ASSUME Inv, Dispose
    PROVE  Inv'
<1>1. TypeOK'
  BY DEF Inv, TypeOK, Dispose, promiseVars
<1> USE DEF Inv, TypeOK, Dispose, promiseVars
<1>2. Fresh' /\ Placed' /\ Bounded' /\ Reasons' /\ Uncut' /\ Acked'
  BY DEF Fresh, Placed, Bounded, Reasons, Uncut, Acked, Alive
<1>3. Snapshot'
  BY DEF Snapshot
<1> QED BY <1>1, <1>2, <1>3 DEF Inv

\* Disposal resolves when every operation of the snapshot has settled.
LEMMA DisposeResolvesKeeps ==
    ASSUME Inv, DisposeResolves
    PROVE  Inv'
<1>1. TypeOK'
  BY DEF Inv, TypeOK, DisposeResolves, Drained, promiseVars, helperVars
<1> USE DEF Inv, TypeOK, DisposeResolves, Drained, promiseVars, helperVars
<1>2. Fresh' /\ Placed' /\ Bounded' /\ Reasons' /\ Uncut' /\ Acked'
  BY DEF Fresh, Placed, Bounded, Reasons, Uncut, Acked, Alive
<1>3. Snapshot'
  BY DEF Snapshot, Placed, Alive
<1> QED BY <1>1, <1>2, <1>3 DEF Inv

\* Disposal that gives up does not resolve.
LEMMA DisposeTimesOutKeeps ==
    ASSUME Inv, DisposeTimesOut
    PROVE  Inv'
<1>1. TypeOK'
  BY DEF Inv, TypeOK, DisposeTimesOut, promiseVars, helperVars
<1> USE DEF Inv, TypeOK, DisposeTimesOut, promiseVars, helperVars
<1>2. Fresh' /\ Placed' /\ Bounded' /\ Reasons' /\ Uncut' /\ Acked'
  BY DEF Fresh, Placed, Bounded, Reasons, Uncut, Acked, Alive
<1>3. Snapshot'
  BY DEF Snapshot
<1> QED BY <1>1, <1>2, <1>3 DEF Inv

-----------------------------------------------------------------------------
(* The theorems.                                                           *)

\* Initially nothing runs and the file is nobody's.
LEMMA InitInv == Init => Inv
<1> SUFFICES ASSUME Init PROVE Inv
  OBVIOUS
<1>1. TypeOK
  BY DEF Init, TypeOK
<1>2. Fresh /\ Placed /\ Reasons /\ Acked
  BY DEF Init, Fresh, Placed, Alive, Reasons, Acked
<1>3. Bounded
  BY FS_EmptySet, LimitAssumption DEF Init, Bounded
<1>4. Snapshot
  BY DEF Init, Snapshot
<1>5. Uncut
  BY DEF Init, Uncut
<1> QED BY <1>1, <1>2, <1>3, <1>4, <1>5 DEF Inv

\* A stuttering step changes nothing the invariant reads.
LEMMA StutterKeeps == Inv /\ UNCHANGED vars => Inv'
BY DEF vars, handleVars, promiseVars, helperVars, Inv, TypeOK, Fresh, Placed, Alive, Bounded,
       Snapshot, Reasons, Uncut, Acked

\* Every step of an operation, a helper or disposal keeps the invariant.
LEMMA NextKeeps == Inv /\ [Next]_vars => Inv'
<1> SUFFICES ASSUME Inv, [Next]_vars PROVE Inv'
  OBVIOUS
<1>1. CASE Dispose \/ DisposeResolves \/ DisposeTimesOut
  BY <1>1, DisposeKeeps, DisposeResolvesKeeps, DisposeTimesOutKeeps
<1>2. ASSUME NEW c \in Calls, Run(c) \/ Close(c) PROVE Inv'
  BY <1>2, RunKeeps, CloseKeeps
<1>3. ASSUME NEW c \in Calls, Abort(c) \/ TimerFires(c) \/ StreamFails(c) PROVE Inv'
  BY <1>3, StopKeeps DEF Abort, TimerFires, StreamFails
<1>4. ASSUME NEW c \in Calls, HelperStep(c) PROVE Inv'
  BY <1>4, ReadInputKeeps, OpenKeeps, TruncateKeeps, WriteKeeps, ReadKeeps, ExitKeeps
     DEF HelperStep
<1>5. ASSUME NEW c \in Calls, HelperFails(c) \/ Die(c) \/ Stall(c) PROVE Inv'
  BY <1>5, HelperFailsKeeps, DieKeeps, StallKeeps
<1>6. CASE UNCHANGED vars
  BY <1>6, StutterKeeps
<1> QED BY <1>1, <1>2, <1>3, <1>4, <1>5, <1>6 DEF Next

\* The invariant is inductive.
THEOREM FileInvariance == Spec => []Inv
BY InitInv, NextKeeps, PTL DEF Spec

\* An operation resolves only over exit code zero, and a write that resolved is
\* not cut off, whatever stopped, killed or disposed of it meanwhile.
THEOREM AckedWhole == Spec => []AckedWriteWhole
<1>1. Inv => AckedWriteWhole
  BY DEF Inv, Acked, Uncut, AckedWriteWhole
<1> QED BY <1>1, FileInvariance, PTL

\* No more than MaxActive helpers are alive, killed ones that are not gone included.
THEOREM HelperLimit == Spec => []HelpersBounded
<1>1. Inv => HelpersBounded
  <2> SUFFICES ASSUME Inv PROVE Cardinality({c \in Calls : Alive(c)}) <= MaxActive
    BY DEF HelpersBounded
  <2>1. {c \in Calls : Alive(c)} \subseteq active
    BY DEF Inv, Placed
  <2>2. IsFiniteSet(active)
    BY DEF Inv, Bounded
  <2>3. Cardinality({c \in Calls : Alive(c)}) <= Cardinality(active)
    BY <2>1, <2>2, FS_Subset
  <2>4. Cardinality(active) \in Nat /\ Cardinality({c \in Calls : Alive(c)}) \in Nat
    BY <2>1, <2>2, FS_Subset, FS_CardinalityType
  <2> QED BY <2>3, <2>4, LimitAssumption DEF Inv, Bounded
<1> QED BY <1>1, FileInvariance, PTL

\* A dispose() that resolved leaves no helper.
THEOREM DisposedQuiet == Spec => []DisposedMeansQuiet
<1>1. Inv => DisposedMeansQuiet
  BY DEF Inv, Snapshot, Placed, DisposedMeansQuiet
<1> QED BY <1>1, FileInvariance, PTL
=============================================================================
