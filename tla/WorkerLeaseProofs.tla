-------------------------- MODULE WorkerLeaseProofs --------------------------
(***************************************************************************)
(* Proofs about WorkerLease, for any number of calls, machines and faults.   *)
(*                                                                         *)
(* The argument is the queue's: the call that is not idle holds it            *)
(* (QueueOk), so whoever creates, keeps or releases a VM does so alone.  A    *)
(* provision only runs while the record says provisioning (ProvisionOk), and  *)
(* a task only leaves that state with the answer of a call that is over       *)
(* (RecordOk), so a call that outlived its caller cannot meet a record that   *)
(* went on.  A record that ends without a teardown has a rejected profile,   *)
(* for which no VM was ever created (ProfileOk).                             *)
(***************************************************************************)
EXTENDS WorkerLease, TLAPS

QueueOk == \A c \in Calls : pc[c] # "idle" <=> holder = c

\* The lease's VM is up; a VM is in a hand only on its way to dispose().
MapOk ==
    /\ leases # NoVm => vm[leases] = "up"
    /\ \A c \in Calls :
        IF pc[c] = "dispose" THEN leases = NoVm ELSE hand[c] = NoVm

\* What a call knows of the lease over its awaits.
CallOk ==
    \A c \in Calls :
        /\ pc[c] = "create" => leases = NoVm
        /\ pc[c] \in {"install", "device"} => kept[c] = leases /\ leases # NoVm
        /\ pc[c] = "done" /\ kind[c] = "destroy" /\ result[c] = "ok" => leases = NoVm

\* Where a call can be says of which kind it is.
KindOk ==
    \A c \in Calls :
        /\ pc[c] \in {"provision", "create", "begin", "enroll", "install", "device", "catch"}
            => kind[c] = "provision"
        /\ pc[c] = "resolve" => kind[c] = "resolve"

ProvisionOk ==
    \A c \in Calls : pc[c] # "idle" /\ kind[c] = "provision" => envState = "provisioning"

\* The task awaits the call that holds the queue, or that call lost its task.
AwaitOk ==
    /\ task = "await" => holder \in Calls
    /\ \A c \in Calls :
        /\ pc[c] = "idle" => ~late[c]
        /\ pc[c] # "idle" /\ task # "await" => late[c]
        /\ pc[c] # "idle" /\ task = "await" => ~late[c] /\ kind[c] = want

\* What the record says of the task, the queue and the map.
RecordOk ==
    /\ task \in {"wait", "await"} /\ want = "provision" => envState = "provisioning"
    /\ task \in {"wait", "await"} /\ want \in {"destroy", "inspect"} => leased
    /\ task \in {"bundle", "abandon"} => envState = "provisioning" /\ holder = NoCall
    /\ task = "proven" => leased /\ holder = NoCall /\ leases = NoVm
    /\ envState \in {"requested", "provisioning"} => ~leased
    /\ envState = "requested" => ~destroyRequested
    /\ envState = "ready" => leased
    /\ envState \in {"requested", "destroyed", "failed"} =>
        task = "idle" /\ holder = NoCall /\ leases = NoVm

\* A profile the provider rejects is rejected before anything is allocated.
ProfileOk ==
    /\ leases # NoVm => profile # "rejected"
    /\ \A c \in Calls :
        /\ pc[c] = "create" => profile # "rejected"
        /\ pc[c] = "done" /\ result[c] = "rejected" => profile = "rejected"

Inv ==
    /\ TypeOK
    /\ QueueOk /\ MapOk /\ CallOk /\ KindOk /\ ProvisionOk /\ AwaitOk /\ RecordOk /\ ProfileOk
    /\ NoOrphanVm

USE IdentityAssumption, FaultAssumption

-----------------------------------------------------------------------------
(* Every step keeps the invariant.                                          *)

\* A first or repeated create only starts a provision in a record without a lease.
LEMMA CreateKeeps ==
    ASSUME Inv, Create
    PROVE  Inv'
<1>1. TypeOK'
  BY DEF Inv, TypeOK, Create, ResumeProvision, Call, Rest, Fault, callVars, driverVars, Kinds
<1> USE DEF Inv, TypeOK, Create, ResumeProvision, Call, Rest, Fault, callVars, driverVars
<1>2. QueueOk' /\ MapOk' /\ CallOk' /\ KindOk' /\ NoOrphanVm'
  BY DEF QueueOk, MapOk, CallOk, KindOk, NoOrphanVm, Up
<1>3. ProvisionOk'
  BY DEF ProvisionOk
<1>4. AwaitOk'
  BY DEF AwaitOk
<1>5. RecordOk'
  BY DEF RecordOk
<1>6. ProfileOk'
  BY DEF ProfileOk
<1> QED BY <1>1, <1>2, <1>3, <1>4, <1>5, <1>6 DEF Inv

\* A destroy request ends a record for which nothing was allocated, or starts the
\* teardown.
LEMMA DestroyKeeps ==
    ASSUME Inv, Destroy
    PROVE  Inv'
<1>1. TypeOK'
  BY DEF Inv, TypeOK, Destroy, Rest, Terminal, callVars, driverVars, Kinds
<1> USE DEF Inv, TypeOK, Destroy, Rest, Terminal, callVars, driverVars
<1>2. QueueOk' /\ MapOk' /\ CallOk' /\ KindOk' /\ NoOrphanVm'
  BY DEF QueueOk, MapOk, CallOk, KindOk, NoOrphanVm, Up
<1>3. ProvisionOk'
  BY DEF ProvisionOk
<1>4. AwaitOk'
  BY DEF AwaitOk
<1>5. RecordOk'
  BY DEF RecordOk
<1>6. ProfileOk'
  BY DEF ProfileOk
<1> QED BY <1>1, <1>2, <1>3, <1>4, <1>5, <1>6 DEF Inv

\* Reconciliation inspects a lease, resumes a teardown or resumes a provision.
LEMMA ReconcileKeeps ==
    ASSUME Inv, Reconcile
    PROVE  Inv'
<1>1. TypeOK'
   BY DEF Inv, TypeOK, Reconcile, ResumeProvision, Call, Rest, Fault, Terminal, callVars,
         driverVars, Kinds
<1> USE DEF Inv, TypeOK, Reconcile, ResumeProvision, Call, Rest, Fault, Terminal, callVars,
        driverVars
<1>2. QueueOk' /\ MapOk' /\ CallOk' /\ KindOk' /\ NoOrphanVm'
  BY DEF QueueOk, MapOk, CallOk, KindOk, NoOrphanVm, Up
<1>3. ProvisionOk'
  BY DEF ProvisionOk
<1>4. AwaitOk'
  BY DEF AwaitOk
<1>5. RecordOk'
  BY DEF RecordOk
<1>6. ProfileOk'
  BY DEF ProfileOk
<1> QED BY <1>1, <1>2, <1>3, <1>4, <1>5, <1>6 DEF Inv

\* A teardown goes on with a recorded lease or asks for its identity.
LEMMA StopOwnerKeeps ==
    ASSUME Inv, StopOwner
    PROVE  Inv'
<1>1. TypeOK'
  <2>1. leased' \in BOOLEAN
    BY Zenon DEF Inv, TypeOK, StopOwner
  <2> QED BY <2>1 DEF Inv, TypeOK, StopOwner, Call, Rest, Fault, callVars, driverVars, Kinds
<1> USE DEF Inv, TypeOK, StopOwner, Call, Rest, Fault, callVars, driverVars
<1>2. QueueOk' /\ MapOk' /\ CallOk' /\ KindOk' /\ NoOrphanVm'
  BY DEF QueueOk, MapOk, CallOk, KindOk, NoOrphanVm, Up
<1>3. ProvisionOk'
  BY DEF ProvisionOk, QueueOk, RecordOk
<1>4. AwaitOk'
  BY DEF AwaitOk
<1>5. RecordOk'
  BY DEF RecordOk
<1>6. ProfileOk'
  BY DEF ProfileOk
<1> QED BY <1>1, <1>2, <1>3, <1>4, <1>5, <1>6 DEF Inv

\* Only a provision that is over makes a record ready.
LEMMA BundleKeeps ==
    ASSUME Inv, Bundle
    PROVE  Inv'
<1>1. TypeOK'
  <2>1. leased' \in BOOLEAN /\ destroyRequested' \in BOOLEAN /\ failing' \in BOOLEAN
    BY Zenon DEF Inv, TypeOK, Bundle
  <2> QED BY <2>1 DEF Inv, TypeOK, Bundle, Rest, Fault, callVars, driverVars, Kinds
<1> USE DEF Inv, TypeOK, Bundle, Rest, Fault, callVars, driverVars
<1>2. QueueOk' /\ MapOk' /\ CallOk' /\ KindOk' /\ NoOrphanVm'
  BY DEF QueueOk, MapOk, CallOk, KindOk, NoOrphanVm, Up
<1>3. ProvisionOk'
  BY DEF ProvisionOk, QueueOk, RecordOk
<1>4. AwaitOk'
  BY DEF AwaitOk
<1>5. RecordOk'
  BY DEF RecordOk
<1>6. ProfileOk'
  BY DEF ProfileOk
<1> QED BY <1>1, <1>2, <1>3, <1>4, <1>5, <1>6 DEF Inv

\* Only a destroy that is over ends a record.
LEMMA FinishProvenDestroyKeeps ==
    ASSUME Inv, FinishProvenDestroy
    PROVE  Inv'
<1>1. TypeOK'
  <2>1. leased' \in BOOLEAN
    BY Zenon DEF Inv, TypeOK, FinishProvenDestroy
  <2> QED BY <2>1 DEF Inv, TypeOK, FinishProvenDestroy, Rest, Fault, callVars, driverVars, Kinds
<1> USE DEF Inv, TypeOK, FinishProvenDestroy, Rest, Fault, callVars, driverVars
<1>2. QueueOk' /\ MapOk' /\ CallOk' /\ KindOk' /\ NoOrphanVm'
  BY DEF QueueOk, MapOk, CallOk, KindOk, NoOrphanVm, Up
<1>3. ProvisionOk'
  BY DEF ProvisionOk, RecordOk
<1>4. AwaitOk'
  BY DEF AwaitOk
<1>5. RecordOk'
  BY DEF RecordOk
<1>6. ProfileOk'
  BY DEF ProfileOk
<1> QED BY <1>1, <1>2, <1>3, <1>4, <1>5, <1>6 DEF Inv

\* A call starts over an idle queue.
LEMMA CallStartKeeps ==
    ASSUME Inv, NEW c \in Calls, CallStart(c)
    PROVE  Inv'
<1>1. TypeOK'
  BY DEF Inv, TypeOK, CallStart, Entry, Kinds, recordVars, driverVars
<1> USE DEF Inv, TypeOK, CallStart, Entry, Kinds, recordVars, driverVars
<1>2. NoOrphanVm'
  BY DEF NoOrphanVm, Up
<1>3. QueueOk'
  BY DEF QueueOk
<1>4. MapOk'
  BY DEF MapOk
<1>5. CallOk'
  BY DEF CallOk
<1>6. KindOk'
  BY DEF KindOk
<1>7. ProvisionOk'
  BY DEF ProvisionOk, RecordOk
<1>8. AwaitOk'
  BY DEF AwaitOk, QueueOk
<1>9. RecordOk'
  BY DEF RecordOk
<1>10. ProfileOk'
  BY DEF ProfileOk
<1> QED BY <1>1, <1>2, <1>3, <1>4, <1>5, <1>6, <1>7, <1>8, <1>9, <1>10 DEF Inv

\* A call that is over frees the queue, and only an awaited answer moves the record.
LEMMA CallReturnKeeps ==
    ASSUME Inv, NEW c \in Calls, CallReturn(c)
    PROVE  Inv'
<1>1. TypeOK'
  <2>1. leased' \in BOOLEAN /\ destroyRequested' \in BOOLEAN /\ failing' \in BOOLEAN
    BY Zenon DEF Inv, TypeOK, CallReturn, Continue, ProvisionAnswered,
      DestroyAnswered, InspectAnswered, recordVars
   <2> QED BY <2>1 DEF Inv, TypeOK, CallReturn, Awaited, Continue, ProvisionAnswered,
         DestroyAnswered, InspectAnswered, TeardownExpected, Call, Rest, recordVars, taskVars, driverVars, Kinds
<1> USE DEF Inv, TypeOK, CallReturn, Awaited, Continue, ProvisionAnswered, DestroyAnswered,
        InspectAnswered, TeardownExpected, Call, Rest,
        recordVars, taskVars, driverVars
<1>2. NoOrphanVm'
  BY DEF NoOrphanVm, Up
<1>3. QueueOk'
  BY DEF QueueOk
<1>4. MapOk'
  BY DEF MapOk
<1>5. CallOk'
  BY DEF CallOk
<1>6. KindOk'
  BY DEF KindOk
<1>7. ProvisionOk'
  BY DEF ProvisionOk, QueueOk
<1>8. AwaitOk'
  BY DEF AwaitOk, QueueOk
<1>9. RecordOk'
  BY DEF RecordOk, QueueOk, CallOk, AwaitOk, ProfileOk
<1>10. ProfileOk'
  BY DEF ProfileOk
<1> QED BY <1>1, <1>2, <1>3, <1>4, <1>5, <1>6, <1>7, <1>8, <1>9, <1>10 DEF Inv

\* A timeout leaves the queue with the call.
LEMMA TimeoutKeeps ==
    ASSUME Inv, NEW c \in Calls, Timeout(c)
    PROVE  Inv'
<1>1. TypeOK'
  BY DEF Inv, TypeOK, Timeout, Awaited, Rest, Fault, recordVars, driverVars, Kinds
<1> USE DEF Inv, TypeOK, Timeout, Awaited, Rest, Fault, recordVars, driverVars
<1>2. QueueOk' /\ MapOk' /\ CallOk' /\ KindOk' /\ NoOrphanVm'
  BY DEF QueueOk, MapOk, CallOk, KindOk, NoOrphanVm, Up
<1>3. ProvisionOk'
  BY DEF ProvisionOk
<1>4. AwaitOk'
  BY DEF AwaitOk, QueueOk
<1>5. RecordOk'
  BY DEF RecordOk
<1>6. ProfileOk'
  BY DEF ProfileOk
<1> QED BY <1>1, <1>2, <1>3, <1>4, <1>5, <1>6 DEF Inv

\* A provision looks for the VM of the lease first.
LEMMA ProvisionKeeps ==
    ASSUME Inv, NEW c \in Calls, Provision(c)
    PROVE  Inv'
<1>1. TypeOK'
  BY DEF Inv, TypeOK, Provision, Go, End, recordVars, taskVars, driverVars, Kinds
<1> USE DEF Inv, TypeOK, Provision, Go, End, recordVars, taskVars, driverVars
<1>2. RecordOk' /\ NoOrphanVm'
  BY DEF RecordOk, NoOrphanVm, Up
<1>3. QueueOk'
  BY DEF QueueOk
<1>4. MapOk'
  BY DEF MapOk
<1>5. CallOk'
  BY DEF CallOk
<1>6. KindOk'
  BY DEF KindOk
<1>7. ProvisionOk'
  BY DEF ProvisionOk
<1>8. AwaitOk'
  BY DEF AwaitOk
<1>9. ProfileOk'
  BY DEF ProfileOk
<1> QED BY <1>1, <1>2, <1>3, <1>4, <1>5, <1>6, <1>7, <1>8, <1>9 DEF Inv

\* A VM is created for a lease that has none.
LEMMA CreateVmKeeps ==
    ASSUME Inv, NEW c \in Calls, NEW v \in VMs, CreateVm(c, v)
    PROVE  Inv'
<1>1. TypeOK'
  BY DEF Inv, TypeOK, CreateVm, Go, End, Fault, recordVars, taskVars, driverVars, Kinds
<1> USE DEF Inv, TypeOK, CreateVm, Go, End, Fault, recordVars, taskVars, driverVars
<1>2. QueueOk'
  BY DEF QueueOk
<1>3. MapOk'
  BY DEF MapOk, QueueOk
<1>4. CallOk'
  BY DEF CallOk, QueueOk
<1>5. KindOk'
  BY DEF KindOk
<1>6. ProvisionOk'
  BY DEF ProvisionOk
<1>7. AwaitOk'
  BY DEF AwaitOk
<1>8. RecordOk'
  BY DEF RecordOk, KindOk, ProvisionOk
<1>9. NoOrphanVm'
  BY DEF NoOrphanVm, CallOk, Up
<1>10. ProfileOk'
  BY DEF ProfileOk
<1> QED BY <1>1, <1>2, <1>3, <1>4, <1>5, <1>6, <1>7, <1>8, <1>9, <1>10 DEF Inv

\* An enrollment begins or its provision ends.
LEMMA BeginEnrollmentKeeps ==
    ASSUME Inv, NEW c \in Calls, BeginEnrollment(c)
    PROVE  Inv'
<1>1. TypeOK'
  BY DEF Inv, TypeOK, BeginEnrollment, Go, End, Fault, recordVars, taskVars, driverVars, Kinds
<1> USE DEF Inv, TypeOK, BeginEnrollment, Go, End, Fault, recordVars, taskVars, driverVars
<1>2. RecordOk' /\ NoOrphanVm'
  BY DEF RecordOk, NoOrphanVm, Up
<1>3. QueueOk'
  BY DEF QueueOk
<1>4. MapOk'
  BY DEF MapOk
<1>5. CallOk'
  BY DEF CallOk
<1>6. KindOk'
  BY DEF KindOk
<1>7. ProvisionOk'
  BY DEF ProvisionOk
<1>8. AwaitOk'
  BY DEF AwaitOk
<1>9. ProfileOk'
  BY DEF ProfileOk
<1> QED BY <1>1, <1>2, <1>3, <1>4, <1>5, <1>6, <1>7, <1>8, <1>9 DEF Inv

\* enrollNode reads the lease it holds the queue of.
LEMMA EnrollNodeKeeps ==
    ASSUME Inv, NEW c \in Calls, EnrollNode(c)
    PROVE  Inv'
<1>1. TypeOK'
  BY DEF Inv, TypeOK, EnrollNode, Go, recordVars, taskVars, driverVars, Kinds
<1> USE DEF Inv, TypeOK, EnrollNode, Go, recordVars, taskVars, driverVars
<1>2. RecordOk' /\ NoOrphanVm'
  BY DEF RecordOk, NoOrphanVm, Up
<1>3. QueueOk'
  BY DEF QueueOk
<1>4. MapOk'
  BY DEF MapOk
<1>5. CallOk'
  BY DEF CallOk
<1>6. KindOk'
  BY DEF KindOk
<1>7. ProvisionOk'
  BY DEF ProvisionOk
<1>8. AwaitOk'
  BY DEF AwaitOk
<1>9. ProfileOk'
  BY DEF ProfileOk
<1> QED BY <1>1, <1>2, <1>3, <1>4, <1>5, <1>6, <1>7, <1>8, <1>9 DEF Inv

\* The installation works on that VM.
LEMMA InstallKeeps ==
    ASSUME Inv, NEW c \in Calls, Install(c)
    PROVE  Inv'
<1>1. TypeOK'
  BY DEF Inv, TypeOK, Install, Go, Fault, recordVars, taskVars, Kinds
<1> USE DEF Inv, TypeOK, Install, Go, Fault, recordVars, taskVars
<1>2. RecordOk' /\ NoOrphanVm'
  BY DEF RecordOk, NoOrphanVm, Up
<1>3. QueueOk'
  BY DEF QueueOk
<1>4. MapOk'
  BY DEF MapOk
<1>5. CallOk'
  BY DEF CallOk
<1>6. KindOk'
  BY DEF KindOk
<1>7. ProvisionOk'
  BY DEF ProvisionOk
<1>8. AwaitOk'
  BY DEF AwaitOk
<1>9. ProfileOk'
  BY DEF ProfileOk
<1> QED BY <1>1, <1>2, <1>3, <1>4, <1>5, <1>6, <1>7, <1>8, <1>9 DEF Inv

\* The wait for the node ends the provision or gives it up.
LEMMA WaitForDeviceKeeps ==
    ASSUME Inv, NEW c \in Calls, WaitForDevice(c)
    PROVE  Inv'
<1>1. TypeOK'
  BY DEF Inv, TypeOK, WaitForDevice, Go, End, Fault, recordVars, taskVars, driverVars, Kinds
<1> USE DEF Inv, TypeOK, WaitForDevice, Go, End, Fault, recordVars, taskVars, driverVars
<1>2. RecordOk' /\ NoOrphanVm'
  BY DEF RecordOk, NoOrphanVm, Up
<1>3. QueueOk'
  BY DEF QueueOk
<1>4. MapOk'
  BY DEF MapOk
<1>5. CallOk'
  BY DEF CallOk, KindOk
<1>6. KindOk'
  BY DEF KindOk
<1>7. ProvisionOk'
  BY DEF ProvisionOk
<1>8. AwaitOk'
  BY DEF AwaitOk
<1>9. ProfileOk'
  BY DEF ProfileOk
<1> QED BY <1>1, <1>2, <1>3, <1>4, <1>5, <1>6, <1>7, <1>8, <1>9 DEF Inv

\* The catch block keeps or releases the VM.
LEMMA CatchKeeps ==
    ASSUME Inv, NEW c \in Calls, Catch(c)
    PROVE  Inv'
<1>1. TypeOK'
  BY DEF Inv, TypeOK, Catch, Go, End, recordVars, taskVars, driverVars, Kinds
<1> USE DEF Inv, TypeOK, Catch, Go, End, recordVars, taskVars, driverVars
<1>2. RecordOk' /\ NoOrphanVm'
  BY DEF RecordOk, NoOrphanVm, Up
<1>3. QueueOk'
  BY DEF QueueOk
<1>4. MapOk'
  BY DEF MapOk
<1>5. CallOk'
  BY DEF CallOk
<1>6. KindOk'
  BY DEF KindOk
<1>7. ProvisionOk'
  BY DEF ProvisionOk
<1>8. AwaitOk'
  BY DEF AwaitOk
<1>9. ProfileOk'
  BY DEF ProfileOk
<1> QED BY <1>1, <1>2, <1>3, <1>4, <1>5, <1>6, <1>7, <1>8, <1>9 DEF Inv

\* A release moves the VM from the map to the hand of its call.
LEMMA ReleaseKeeps ==
    ASSUME Inv, NEW c \in Calls, Release(c)
    PROVE  Inv'
<1>1. TypeOK'
  BY DEF Inv, TypeOK, Release, Released, Go, End, recordVars, taskVars, Kinds
<1> USE DEF Inv, TypeOK, Release, Released, Go, End, recordVars, taskVars
<1>2. QueueOk'
  BY DEF QueueOk
<1>3. MapOk'
  BY DEF MapOk
<1>4. CallOk'
  BY DEF CallOk, QueueOk
<1>5. KindOk'
  BY DEF KindOk
<1>6. ProvisionOk'
  BY DEF ProvisionOk
<1>7. AwaitOk'
  BY DEF AwaitOk
<1>8. RecordOk'
  BY DEF RecordOk
<1>9. NoOrphanVm'
  BY DEF NoOrphanVm, MapOk, Up
<1>10. ProfileOk'
  BY DEF ProfileOk
<1> QED BY <1>1, <1>2, <1>3, <1>4, <1>5, <1>6, <1>7, <1>8, <1>9, <1>10 DEF Inv

\* dispose() takes down the VM in the hand.
LEMMA DisposeVmKeeps ==
    ASSUME Inv, NEW c \in Calls, DisposeVm(c)
    PROVE  Inv'
<1>1. TypeOK'
  <2>1. leaked' \in BOOLEAN
    BY Zenon DEF Inv, TypeOK, DisposeVm
  <2>2. budget' \in 0 .. MaxFaults
    BY DEF Inv, TypeOK, DisposeVm, Fault
  <2>3. /\ vm' \in [VMs -> {"none", "up"}]
        /\ node' \in [VMs -> {"none", "running", "exited"}]
    BY DEF Inv, TypeOK, DisposeVm
  <2>4. hand' \in [Calls -> VMs \cup {NoVm}]
    BY DEF Inv, TypeOK, DisposeVm
  <2>5. /\ pc' = [pc EXCEPT ![c] = "done"]
        /\ \E how \in {"ok", "error", "indeterminate"} :
              result' = [result EXCEPT ![c] = how]
    BY DEF Inv, TypeOK, DisposeVm, End, Released
  <2>6. UNCHANGED <<recordVars, taskVars, holder, kind, late, kept, leases>>
    BY DEF DisposeVm
  <2> QED BY <2>1, <2>2, <2>3, <2>4, <2>5, <2>6 DEF Inv, TypeOK, recordVars, taskVars
<1> USE DEF Inv, TypeOK, DisposeVm, Released, End, Fault, recordVars, taskVars
<1>2. RecordOk'
  BY DEF RecordOk
<1>3. QueueOk'
  BY DEF QueueOk
<1>4. MapOk'
  BY DEF MapOk
<1>5. CallOk'
  BY DEF CallOk, MapOk
<1>6. KindOk'
  BY DEF KindOk
<1>7. ProvisionOk'
  BY DEF ProvisionOk
<1>8. AwaitOk'
  BY DEF AwaitOk
<1>9. NoOrphanVm'
  BY DEF NoOrphanVm, Up
<1>10. ProfileOk'
  BY DEF ProfileOk
<1> QED BY <1>1, <1>2, <1>3, <1>4, <1>5, <1>6, <1>7, <1>8, <1>9, <1>10 DEF Inv

\* resolveAllocation changes nothing.
LEMMA ResolveAllocationKeeps ==
    ASSUME Inv, NEW c \in Calls, ResolveAllocation(c)
    PROVE  Inv'
<1>1. TypeOK'
  BY DEF Inv, TypeOK, ResolveAllocation, End, recordVars, taskVars, driverVars, Kinds
<1> USE DEF Inv, TypeOK, ResolveAllocation, End, recordVars, taskVars, driverVars
<1>2. RecordOk' /\ NoOrphanVm'
  BY DEF RecordOk, NoOrphanVm, Up
<1>3. QueueOk'
  BY DEF QueueOk
<1>4. MapOk'
  BY DEF MapOk
<1>5. CallOk'
  BY DEF CallOk, KindOk
<1>6. KindOk'
  BY DEF KindOk
<1>7. ProvisionOk'
  BY DEF ProvisionOk
<1>8. AwaitOk'
  BY DEF AwaitOk
<1>9. ProfileOk'
  BY DEF ProfileOk
<1> QED BY <1>1, <1>2, <1>3, <1>4, <1>5, <1>6, <1>7, <1>8, <1>9 DEF Inv

\* inspect changes nothing.
LEMMA InspectKeeps ==
    ASSUME Inv, NEW c \in Calls, Inspect(c)
    PROVE  Inv'
<1>1. TypeOK'
  BY DEF Inv, TypeOK, Inspect, End, recordVars, taskVars, driverVars, Kinds
<1> USE DEF Inv, TypeOK, Inspect, End, recordVars, taskVars, driverVars
<1>2. RecordOk' /\ NoOrphanVm'
  BY DEF RecordOk, NoOrphanVm, Up
<1>3. QueueOk'
  BY DEF QueueOk
<1>4. MapOk'
  BY DEF MapOk
<1>5. CallOk'
  BY DEF CallOk
<1>6. KindOk'
  BY DEF KindOk
<1>7. ProvisionOk'
  BY DEF ProvisionOk
<1>8. AwaitOk'
  BY DEF AwaitOk
<1>9. ProfileOk'
  BY DEF ProfileOk
<1> QED BY <1>1, <1>2, <1>3, <1>4, <1>5, <1>6, <1>7, <1>8, <1>9 DEF Inv

\* A node that exits leaves its VM up.
LEMMA NodeExitsKeeps ==
    ASSUME Inv, NEW v \in VMs, NodeExits(v)
    PROVE  Inv'
<1>1. TypeOK'
  BY DEF Inv, TypeOK, NodeExits, recordVars, taskVars, callVars
<1> USE DEF Inv, TypeOK, NodeExits, recordVars, taskVars, callVars
<1>2. QueueOk' /\ MapOk' /\ CallOk' /\ KindOk' /\ ProvisionOk'
      /\ AwaitOk' /\ RecordOk' /\ ProfileOk' /\ NoOrphanVm'
  BY DEF QueueOk, MapOk, CallOk, KindOk, ProvisionOk, AwaitOk, RecordOk, ProfileOk, NoOrphanVm, Up
<1> QED BY <1>1, <1>2 DEF Inv

-----------------------------------------------------------------------------
(* The theorems.                                                           *)

\* Initially nothing was requested, called or allocated.
LEMMA InitInv == Init => Inv
<1> SUFFICES ASSUME Init PROVE Inv
  OBVIOUS
<1>1. TypeOK
  <2>1. leased \in BOOLEAN /\ destroyRequested \in BOOLEAN /\ failing \in BOOLEAN /\ leaked \in BOOLEAN
    BY Zenon DEF Init
  <2>2. late \in [Calls -> BOOLEAN]
    BY Zenon DEF Init
  <2> QED BY <2>1, <2>2 DEF Init, TypeOK, Kinds, Profiles
<1>2. QueueOk /\ KindOk /\ ProvisionOk
  BY DEF Init, QueueOk, KindOk, ProvisionOk
<1>3. MapOk /\ CallOk /\ NoOrphanVm
  BY DEF Init, MapOk, CallOk, NoOrphanVm, Up
<1>4. AwaitOk /\ RecordOk
  BY DEF Init, AwaitOk, RecordOk
<1>5. ProfileOk
  BY DEF Init, ProfileOk
<1> QED BY <1>1, <1>2, <1>3, <1>4, <1>5 DEF Inv

\* A stuttering step changes nothing the invariant reads.
LEMMA StutterKeeps == Inv /\ UNCHANGED vars => Inv'
BY DEF vars, recordVars, taskVars, callVars, driverVars, Inv, TypeOK, QueueOk, MapOk, CallOk,
       KindOk, ProvisionOk, AwaitOk, RecordOk, ProfileOk, NoOrphanVm, Up

\* Every step of the gateway, the provider or a node keeps the invariant.
LEMMA NextKeeps == Inv /\ [Next]_vars => Inv'
<1> SUFFICES ASSUME Inv, [Next]_vars PROVE Inv'
  OBVIOUS
<1>1. CASE Create
  BY <1>1, CreateKeeps
<1>2. CASE Destroy
  BY <1>2, DestroyKeeps
<1>3. CASE Reconcile
  BY <1>3, ReconcileKeeps
<1>4. CASE TaskStep
  BY <1>4, StopOwnerKeeps, BundleKeeps, FinishProvenDestroyKeeps DEF TaskStep
<1>5. CASE \E c \in Calls : CallStart(c) \/ CallReturn(c) \/ Timeout(c)
  BY <1>5, CallStartKeeps, CallReturnKeeps, TimeoutKeeps
<1>6. CASE \E c \in Calls : ProviderStep(c)
  <2>1. PICK c \in Calls : ProviderStep(c)
    BY <1>6
  <2>2. CASE \E v \in VMs : CreateVm(c, v)
    BY <2>2, CreateVmKeeps
  <2>3. CASE Provision(c) \/ BeginEnrollment(c) \/ EnrollNode(c) \/ Install(c) \/ WaitForDevice(c)
    BY <2>3, ProvisionKeeps, BeginEnrollmentKeeps, EnrollNodeKeeps, InstallKeeps,
       WaitForDeviceKeeps
  <2>4. CASE Catch(c) \/ Release(c) \/ DisposeVm(c) \/ ResolveAllocation(c) \/ Inspect(c)
    BY <2>4, CatchKeeps, ReleaseKeeps, DisposeVmKeeps, ResolveAllocationKeeps, InspectKeeps
  <2> QED BY <2>1, <2>2, <2>3, <2>4 DEF ProviderStep
<1>7. CASE \E v \in VMs : NodeExits(v)
  BY <1>7, NodeExitsKeeps
<1>8. CASE UNCHANGED vars
  BY <1>8, StutterKeeps
<1> QED BY <1>1, <1>2, <1>3, <1>4, <1>5, <1>6, <1>7, <1>8 DEF Next

\* The invariant is inductive: provider calls exclude each other, and a record
\* only moves on with the answer of a call that is over.
THEOREM LeaseInvariance == Spec => []Inv
BY InitInv, NextKeeps, PTL DEF Spec

\* Every VM that is up is in the driver's map or in the hand of a release() that
\* still runs, whatever timed out before.
THEOREM NoOrphan == Spec => []NoOrphanVm
<1>1. Inv => NoOrphanVm
  BY DEF Inv
<1> QED BY <1>1, LeaseInvariance, PTL

\* A destroyed or failed record leaves no VM that was not disposed of.
THEOREM LeaseReleased == Spec => []TerminalMeansReleased
<1>1. Inv => TerminalMeansReleased
  <2> SUFFICES ASSUME Inv, Terminal, NEW v \in Up PROVE FALSE
    BY DEF TerminalMeansReleased
  <2>1. leases = NoVm /\ holder = NoCall
    BY DEF Inv, RecordOk, Terminal
  <2>2. \A c \in Calls : pc[c] = "idle"
    BY <2>1 DEF Inv, QueueOk
  <2>3. \A c \in Calls : hand[c] = NoVm
    BY <2>2 DEF Inv, MapOk
  <2> QED BY <2>1, <2>3 DEF Inv, NoOrphanVm, Up
<1> QED BY <1>1, LeaseInvariance, PTL

\* enrollNode installs into and waits for the VM of the lease, which is up.
THEOREM EnrollsLeased == Spec => []EnrollsLeasedVm
<1>1. Inv => EnrollsLeasedVm
  BY DEF Inv, TypeOK, CallOk, MapOk, EnrollsLeasedVm, Up
<1> QED BY <1>1, LeaseInvariance, PTL

\* No provision releases the VM of a record that became ready.
THEOREM ReadyKept == Spec => ReadyKeepsVm
<1>1. Inv => \A c \in Calls :
        ~(envState = "ready" /\ kind[c] = "provision" /\ pc[c] = "release")
  BY DEF Inv, ProvisionOk
<1>2. Inv /\ [Next]_vars =>
        [\A c \in Calls :
            envState = "ready" /\ kind[c] = "provision" /\ pc[c] = "release" => pc'[c] = pc[c]]_vars
  BY <1>1
<1> QED BY <1>2, LeaseInvariance, PTL DEF Spec, ReadyKeepsVm
=============================================================================
