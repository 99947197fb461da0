---------------------------- MODULE ICSVMProofs ----------------------------
(***************************************************************************)
(* What ICSVMController guarantees for every number of tasks and faults.   *)
(***************************************************************************)
EXTENDS ICSVMController, TLAPS

(***************************************************************************)
(* Typing facts about the helpers.                                         *)
(***************************************************************************)

\* The identifiers: 0 stands for none, and a task number names a task.
LEMMA IdFacts ==
  /\ 0 \in IdOr0
  /\ \A t \in IdOr0 : t # 0 => t \in Ids
  /\ \A t \in Ids : t \in IdOr0
  BY BoundsAssumption DEF Ids, IdOr0

\* The fields of an ICSVM.
LEMMA FieldTypes ==
  ASSUME NEW r \in ICSVM
  PROVE  /\ r.exists \in BOOLEAN /\ r.deleting \in BOOLEAN /\ r.fin \in BOOLEAN
         /\ r.ips \in BOOLEAN /\ r.addrs \in BOOLEAN /\ r.ready \in BOOLEAN
         /\ r.uid \in IdOr0 /\ r.bios \in IdOr0 /\ r.taskRef \in IdOr0
  BY DEF ICSVM

\* The assignments of the controller keep an ICSVM an ICSVM: the finalizer,
LEMMA SetFin ==
  ASSUME NEW r \in ICSVM, NEW f \in BOOLEAN
  PROVE  [r EXCEPT !.fin = f] \in ICSVM
  BY DEF ICSVM

\* Status.TaskRef,
LEMMA SetTaskRef ==
  ASSUME NEW r \in ICSVM, NEW t \in IdOr0
  PROVE  [r EXCEPT !.taskRef = t] \in ICSVM
  BY DEF ICSVM

\* the two identifiers that Cleanup resets,
LEMMA SetIdentity ==
  ASSUME NEW r \in ICSVM, NEW u \in IdOr0, NEW b \in IdOr0
  PROVE  [r EXCEPT !.uid = u, !.bios = b] \in ICSVM
  BY DEF ICSVM

\* the addresses that reconcileNetworkStatus stores,
LEMMA SetAddrs ==
  ASSUME NEW r \in ICSVM, NEW f \in BOOLEAN
  PROVE  [r EXCEPT !.addrs = @ \/ f] \in ICSVM
  BY DEF ICSVM

\* and what the tail of reconcileNormal stores.
LEMMA SetReady ==
  ASSUME NEW r \in ICSVM, NEW u \in IdOr0, NEW f \in BOOLEAN
  PROVE  [r EXCEPT !.bios = u, !.addrs = f, !.ready = @ \/ f] \in ICSVM
  BY DEF ICSVM

\* A new ICSVM is an ICSVM.
LEMMA FreshType == \A i \in BOOLEAN : Fresh(i) \in ICSVM
  BY IdFacts DEF ICSVM, Fresh

\* A fault keeps the fault counter within its bound.
LEMMA FaultType ==
  ASSUME seen \in FaultCount, NEW k, Fault(k)
  PROVE  seen' \in FaultCount
  BY BoundsAssumption DEF Fault, FaultCount

\* VMContext.Patch writes an ICSVM, whatever part of it is refused.
LEMMA PatchedType ==
  ASSUME obj \in ICSVM, before \in ICSVM, icsvm \in ICSVM,
         NEW a \in BOOLEAN, NEW b \in BOOLEAN
  PROVE  Patched(a, b) \in ICSVM
<1>1. ASSUME NEW o \in ICSVM PROVE SpecPatched(o) \in ICSVM
  <2> DEFINE f == Written(icsvm.fin, before.fin, o.fin)
             u == Written(icsvm.uid, before.uid, o.uid)
             w == Written(icsvm.bios, before.bios, o.bios)
             e == ~(o.deleting /\ ~f)
  <2>1. f \in BOOLEAN /\ u \in IdOr0 /\ w \in IdOr0
    BY FieldTypes DEF Written
  <2>2. e \in BOOLEAN
    OBVIOUS
  <2>3. SpecPatched(o) = [o EXCEPT !.fin = f, !.uid = u, !.bios = w, !.exists = e]
    BY DEF SpecPatched
  <2> HIDE DEF f, u, w, e
  <2> QED BY <2>1, <2>2, <2>3 DEF ICSVM
<1>2. ASSUME NEW o \in ICSVM PROVE StatusPatched(o) \in ICSVM
  <2> DEFINE t == Written(icsvm.taskRef, before.taskRef, o.taskRef)
             d == Written(icsvm.addrs, before.addrs, o.addrs)
             y == Written(icsvm.ready, before.ready, o.ready)
  <2>1. t \in IdOr0 /\ d \in BOOLEAN /\ y \in BOOLEAN
    BY FieldTypes DEF Written
  <2>2. StatusPatched(o) = [o EXCEPT !.taskRef = t, !.addrs = d, !.ready = y]
    BY DEF StatusPatched
  <2> HIDE DEF t, d, y
  <2> QED BY <2>1, <2>2 DEF ICSVM
<1> DEFINE o1 == IF obj.exists /\ a THEN SpecPatched(obj) ELSE obj
<1>3. o1 \in ICSVM
  BY <1>1
<1>4. Patched(a, b) = IF o1.exists /\ b THEN StatusPatched(o1) ELSE o1
  BY DEF Patched
<1> HIDE DEF o1
<1> QED
  BY <1>2, <1>3, <1>4

\* The tasks that the controller submits.
TaskKinds == {"create", "set", "blank", "on", "off", "del"}

\* A submitted task is a task, and the counter follows it.
LEMMA SubmitType ==
  ASSUME ntask \in IdOr0, tasks \in [Ids -> Task],
         NEW kind \in TaskKinds, NEW v \in IdOr0, Submit(kind, v)
  PROVE  /\ tasks' \in [Ids -> Task] /\ ntask' \in IdOr0 /\ ntask' = ntask + 1
         /\ ntask + 1 \in Ids /\ vms' = vms
  BY BoundsAssumption, IdFacts DEF Submit, Task, TaskKinds, Ids, IdOr0

\* A pass that ends leaves blank locals.
LEMMA EndPassType ==
  ASSUME EndPass
  PROVE  /\ pc' = "idle" /\ mode' = "normal" /\ before' \in ICSVM /\ icsvm' \in ICSVM
         /\ ref' \in IdOr0 /\ uuid' \in IdOr0 /\ net' \in BOOLEAN /\ net2' \in BOOLEAN
         /\ ret' = "nil"
  BY IdFacts, FreshType DEF EndPass, Blank

(***************************************************************************)
(* Type correctness.                                                       *)
(***************************************************************************)

\* The initial state is well typed.
LEMMA InitType == Init => TypeOK
<1> SUFFICES ASSUME Init PROVE TypeOK OBVIOUS
<1>1. NoTask \in Task /\ NoVM \in VM
  BY IdFacts DEF NoTask, NoVM, Task, VM
<1>2. obj \in ICSVM /\ cache \in ICSVM /\ before \in ICSVM /\ icsvm \in ICSVM
  BY FreshType DEF Init, Blank
<1>3. tasks \in [Ids -> Task] /\ vms \in [Ids -> VM]
  BY <1>1 DEF Init
<1>4. ntask \in IdOr0 /\ ref \in IdOr0 /\ uuid \in IdOr0 /\ seen \in FaultCount
  BY IdFacts, BoundsAssumption DEF Init, FaultCount
<1> QED
  BY <1>2, <1>3, <1>4 DEF Init, TypeOK, PCs, NotReading

\* Every step of a reconcile pass keeps the types.
LEMMA PassType == TypeOK /\ Pass => TypeOK'
<1> SUFFICES ASSUME TypeOK, Pass PROVE TypeOK' OBVIOUS
<1> USE DEF TypeOK, PCs, passVars, icenterVars, NoFault, Return
<1>1. CASE SkipPass
  BY <1>1, FaultType DEF SkipPass
<1>2. CASE BeginPass
  BY <1>2, FieldTypes, SetFin DEF BeginPass
<1>3. CASE ConnectOK
  BY <1>3 DEF ConnectOK
<1>4. CASE ConnectFails
  BY <1>4, FaultType DEF ConnectFails
<1>5. CASE CheckTask
  <2>1. [icsvm EXCEPT !.taskRef = 0] \in ICSVM
    BY IdFacts, SetTaskRef
  <2> QED BY <1>5, <2>1, FaultType DEF CheckTask, ReturnOrCleanup
<1>6. CASE FindVM
  <2>1. \A v \in Findings : v \in IdOr0
    BY IdFacts, FieldTypes DEF Findings, Named
  <2> QED BY <1>6, <2>1 DEF FindVM, VMNotFound, VMFound
<1>7. CASE FindVMFails
  BY <1>7, FaultType, IdFacts DEF FindVMFails, Named, VMNotFound, VMFound, ReturnOrCleanup
<1>8. CASE CreateVM
  <2>1. ntask' \in IdOr0 /\ tasks' \in [Ids -> Task] /\ ntask + 1 \in Ids /\ vms' = vms
    BY <1>8, SubmitType, IdFacts DEF CreateVM, TaskKinds
  <2>2. icsvm' \in ICSVM
    BY <1>8, <2>1, IdFacts, SetTaskRef DEF CreateVM
  <2> QED BY <1>8, <2>1, <2>2, FlagsAssumption DEF CreateVM
<1>9. CASE CreateVMFails
  BY <1>9, FaultType, FlagsAssumption DEF CreateVMFails
<1>10. CASE EarlyPatch
  BY <1>10, FaultType, PatchedType DEF EarlyPatch, Patch
<1>11. CASE HookAndReturn
  BY <1>11, FaultType, FieldTypes, IdFacts DEF HookAndReturn, Hook
<1>12. CASE ReconcileUUID
  BY <1>12, FaultType, IdFacts DEF ReconcileUUID, GetVMFails
<1>13. CASE ReconcileNetworkStatus
  <2>1. ref \in Ids
    BY <1>13, IdFacts DEF ReconcileNetworkStatus, Exists
  <2>2. vms[ref].ip \in BOOLEAN
    BY <2>1 DEF VM
  <2> DEFINE found == [icsvm EXCEPT !.uid = ref, !.bios = ref]
  <2>3. found \in ICSVM
    BY SetIdentity
  <2>4. pc' \in PCs /\ icsvm' \in {found, [found EXCEPT !.addrs = @ \/ vms[ref].ip]}
    BY <1>13 DEF ReconcileNetworkStatus, ReportNetwork
  <2> HIDE DEF found
  <2>5. icsvm' \in ICSVM
    BY <2>2, <2>3, <2>4, SetAddrs
  <2> QED BY <1>13, <2>2, <2>4, <2>5 DEF ReconcileNetworkStatus
<1>25. CASE SetVM
  <2>1. PICK kind \in {"set", "blank"} : Submit(kind, ref) /\ net2' = (kind = "set")
    BY <1>25 DEF SetVM
  <2>2. ntask' \in IdOr0 /\ tasks' \in [Ids -> Task] /\ vms' = vms
    BY <2>1, SubmitType DEF TaskKinds
  <2> QED BY <1>25, <2>1, <2>2 DEF SetVM
<1>26. CASE SetVMFails \/ WaitSetVM
  <2>1. icsvm' = [icsvm EXCEPT !.addrs = @ \/ net] /\ pc' \in PCs
    BY <1>26 DEF SetVMFails, WaitSetVM, ReportNetwork
  <2>2. icsvm' \in ICSVM
    BY <2>1, SetAddrs
  <2> QED BY <1>26, <2>1, <2>2, FaultType DEF SetVMFails, WaitSetVM
<1>14. CASE ReconcileNetworkStatusFails
  BY <1>14, FaultType DEF ReconcileNetworkStatusFails, GetVMFails
<1>15. CASE PatchAddresses
  BY <1>15, FaultType, PatchedType DEF PatchAddresses, Patch
<1>16. CASE PowerOn
  <2>1. ntask' \in IdOr0 /\ tasks' \in [Ids -> Task] /\ ntask + 1 \in Ids /\ vms' = vms
    BY <1>16, SubmitType, IdFacts DEF PowerOn, TaskKinds
  <2>2. icsvm' \in ICSVM
    BY <1>16, <2>1, IdFacts, SetTaskRef DEF PowerOn
  <2> QED BY <1>16, <2>1, <2>2 DEF PowerOn
<1>17. CASE PowerStateFails
  BY <1>17, FaultType DEF PowerStateFails, GetVMFails, PoweringOnFailed
<1>18. CASE WaitPowerOn
  <2>1. icsvm.taskRef \in IdOr0 /\ \A t \in IdOr0 : {t} \ {0} \subseteq Ids
    BY FieldTypes, IdFacts
  <2> QED BY <1>18, <2>1, FaultType DEF WaitPowerOn, PoweringOnFailed, Hook
<1>19. CASE PoweredOn
  <2>1. icsvm.taskRef \in IdOr0 /\ \A t \in IdOr0 : {t} \ {0} \subseteq Ids
    BY FieldTypes, IdFacts
  <2>2. [icsvm EXCEPT !.bios = uuid, !.addrs = Addressed, !.ready = @ \/ Addressed] \in ICSVM
    BY SetReady DEF Addressed
  <2>3. icsvm' \in ICSVM
    BY <1>19, <2>2 DEF PoweredOn, NetworkOnline
  <2> QED BY <1>19, <2>1, <2>3, FaultType DEF PoweredOn, Hook, NetworkResult
<1>20. CASE Destroy
  <2>1. /\ ntask' \in IdOr0 /\ tasks' \in [Ids -> Task] /\ ntask' = ntask + 1
        /\ ntask + 1 \in Ids /\ vms' = vms
    BY <1>20, SubmitType, IdFacts DEF Destroy, TaskKinds
  <2>2. icsvm' \in ICSVM
    BY <1>20, <2>1, IdFacts, SetTaskRef DEF Destroy
  <2> QED BY <1>20, <2>1, <2>2, FaultType DEF Destroy, Hook, ReturnOrCleanup
<1>21. CASE DestroyFails
  BY <1>21, FaultType DEF DestroyFails, GetVMFails, ReturnOrCleanup
<1>22. CASE Cleanup
  <2>1. icsvm' \in ICSVM
    BY <1>22, IdFacts, SetIdentity DEF Cleanup
  <2> QED BY <1>22, <2>1, FaultType DEF Cleanup
<1>23. CASE ReleaseVM
  <2>1. icsvm' \in ICSVM
    BY <1>23, SetFin DEF ReleaseVM
  <2> QED BY <1>23, <2>1, FaultType DEF ReleaseVM
<1>24. CASE Finish
  BY <1>24, FaultType, PatchedType, EndPassType DEF Finish, Patch
<1> QED
  BY <1>1, <1>2, <1>3, <1>4, <1>5, <1>6, <1>7, <1>8, <1>9, <1>10, <1>11, <1>12, <1>13,
     <1>14, <1>15, <1>16, <1>17, <1>18, <1>19, <1>20, <1>21, <1>22, <1>23, <1>24, <1>25, <1>26
     DEF Pass

\* The tasks, events and outside activity around a pass keep the types.
LEMMA EnvironmentType == TypeOK /\ Environment => TypeOK'
<1> SUFFICES ASSUME TypeOK, Environment PROVE TypeOK' OBVIOUS
<1> USE DEF TypeOK, PCs, passVars, icenterVars, NoFault
<1>1. CASE WatchEvent
  BY <1>1 DEF WatchEvent
<1>2. CASE Resync \/ ClusterEvent
  BY <1>2 DEF Resync, ClusterEvent
<1>3. CASE Restart
  BY <1>3, FaultType, EndPassType DEF Restart, NotReading
<1>4. CASE DeleteICSVM
  <2>1. /\ [obj EXCEPT !.deleting = TRUE] \in ICSVM
        /\ [obj EXCEPT !.exists = FALSE] \in ICSVM
    BY DEF ICSVM
  <2> QED BY <1>4, <2>1 DEF DeleteICSVM
<1>5. CASE MachineReads
  BY <1>5, FieldTypes DEF MachineReads
<1>6. CASE MachineWrites
  <2> DEFINE b == Written(mread, cache.bios, obj.bios)
  <2>1. mread \in IdOr0
    BY <1>6 DEF MachineWrites, NotReading
  <2>2. b \in IdOr0
    BY <2>1, FieldTypes DEF Written
  <2>3. obj' = IF cache.exists /\ obj.exists THEN [obj EXCEPT !.bios = b, !.ips = TRUE] ELSE obj
    BY <1>6 DEF MachineWrites
  <2> HIDE DEF b
  <2>4. obj' \in ICSVM
    BY <2>2, <2>3 DEF ICSVM
  <2> QED BY <1>6, <2>4 DEF MachineWrites, NotReading
<1>7. ASSUME NEW t \in Ids, TaskEvent(t) PROVE TypeOK'
  BY <1>7, FaultType DEF TaskEvent
<1>12. ASSUME NEW t \in Ids, NetworkEvent(t) PROVE TypeOK'
  BY <1>12 DEF NetworkEvent
<1>8. ASSUME NEW t \in Ids, TaskFinishes(t) PROVE TypeOK'
  <2>1. \A st \in {"finished", "error"} : [tasks EXCEPT ![t].st = st] \in [Ids -> Task]
    BY DEF Task
  <2>2. tasks[t].vm \in IdOr0
    BY DEF Task
  <2>3. TaskEffect(t) \in [Ids -> VM]
    BY <2>2, FlagsAssumption DEF TaskEffect, VM, NoVM
  <2> QED BY <1>8, <2>1, <2>3 DEF TaskFinishes
<1>9. ASSUME NEW t \in Ids, TaskFails(t) PROVE TypeOK'
  <2>1. \A st \in {"canceled", "error"} : [tasks EXCEPT ![t].st = st] \in [Ids -> Task]
    BY DEF Task
  <2> QED BY <1>9, <2>1, FaultType DEF TaskFails
<1>10. ASSUME NEW v \in Ids, ReportIP(v) PROVE TypeOK'
  <2>1. [vms EXCEPT ![v].ip = TRUE] \in [Ids -> VM]
    BY DEF VM
  <2> QED BY <1>10, <2>1 DEF ReportIP
<1>11. ASSUME NEW v \in Ids, OutOfBand(v) PROVE TypeOK'
  <2>1. /\ \A p \in {"off", "susp"} : [vms EXCEPT ![v].power = p] \in [Ids -> VM]
        /\ [vms EXCEPT ![v] = NoVM] \in [Ids -> VM]
    BY DEF VM, NoVM
  <2> QED BY <1>11, <2>1, FaultType DEF OutOfBand
<1> QED
  BY <1>1, <1>2, <1>3, <1>4, <1>5, <1>6, <1>7, <1>8, <1>9, <1>10, <1>11, <1>12
     DEF Environment

\* Type correctness: whatever fails, the copies of the ICSVM that a pass reads,
\* changes and patches stay well-formed, and every task reference names a task
\* that was handed out or none.
THEOREM TypeCorrect == Spec => []TypeOK
<1>1. TypeOK /\ [Next]_vars => TypeOK'
  <2> SUFFICES ASSUME TypeOK, [Next]_vars PROVE TypeOK' OBVIOUS
  <2>1. CASE Next
    BY <2>1, PassType, EnvironmentType DEF Next
  <2>2. CASE UNCHANGED vars
    BY <2>2 DEF TypeOK, vars, passVars, icenterVars
  <2> QED BY <2>1, <2>2
<1> QED
  BY InitType, <1>1, PTL DEF Spec

(***************************************************************************)
(* One iCenter task at a time.                                             *)
(***************************************************************************)

\* Where the pass has seen that no task is in flight and may submit one.
SubmitPCs == {"find", "create", "uuid", "net", "setvm", "netpatch", "power", "destroy"}

\* Status.TaskRef tracks the task in flight: between passes the stored one, in a
\* pass the working copy's; and what the pass did not change is still stored.  Only SetVM's
\* task is in no Status.TaskRef: the pass itself waits for it, which needs a later one.
TaskTracked ==
  /\ obj.taskRef <= ntask /\ before.taskRef <= ntask /\ icsvm.taskRef <= ntask
  /\ OneTaskInFlight
  /\ pc = "idle" /\ obj.exists => InFlight \subseteq {obj.taskRef}
  /\ pc \notin {"idle", "setwait"} => InFlight \subseteq {icsvm.taskRef}
  /\ pc = "setwait" => InFlight \subseteq {ntask} /\ icsvm.taskRef < ntask
  /\ pc \in SubmitPCs => InFlight = {}
  /\ pc # "idle" /\ icsvm.taskRef \in InFlight /\ icsvm.taskRef = before.taskRef
       => obj.taskRef = icsvm.taskRef

\* The faults that make the controller lose sight of a task do not occur: a failed
\* GetTaskInfo, a refused patch, a restart, a pass on a lagging cache, and a wait for SetVM's
\* task that gives up, so that the pass goes on beside it.
TasksVisible == Faults \cap {"task", "patch", "crash", "stale", "setwait"} = {}

\* Submitting a task puts it, and nothing else, in flight.
LEMMA SubmitInFlight ==
  ASSUME TypeOK, NEW kind \in TaskKinds, NEW v \in IdOr0, Submit(kind, v)
  PROVE  InFlight' = InFlight \cup {ntask + 1} /\ ntask' = ntask + 1
<1>1. ntask + 1 \in Ids
  BY SubmitType DEF TypeOK
<1>2. ntask + 1 # 0
  BY <1>1, BoundsAssumption DEF Ids
<1>3. \A t \in Ids : t # 0
  BY BoundsAssumption DEF Ids
<1>4. \A t \in Ids : tasks'[t].st = IF t = ntask + 1 THEN "run" ELSE tasks[t].st
  BY <1>1 DEF Submit, TypeOK
<1> QED
  BY <1>1, <1>2, <1>3, <1>4, Zenon DEF InFlight, Running, Submit

\* Without a task step the tasks in flight stay.
LEMMA SameInFlight == UNCHANGED tasks => InFlight' = InFlight
  BY DEF InFlight, Running

\* The deferred patch, when nothing is refused: Status.TaskRef is stored if the
\* pass changed it, and an ICSVM that is left was there before.
LEMMA PatchedTaskRef ==
  ASSUME obj \in ICSVM, before \in ICSVM, icsvm \in ICSVM
  PROVE  LET p == Patched(TRUE, TRUE)
         IN /\ p.exists => obj.exists
            /\ p.taskRef \in {obj.taskRef, icsvm.taskRef}
            /\ icsvm.taskRef = before.taskRef => p.taskRef = obj.taskRef
            /\ p.exists /\ icsvm.taskRef # before.taskRef => p.taskRef = icsvm.taskRef
  BY DEF Patched, SpecPatched, StatusPatched, Written, ICSVM

\* With the visible faults only, both parts of a patch are stored.
LEMMA PatchStored ==
  ASSUME TasksVisible, NEW a \in BOOLEAN, NEW b \in BOOLEAN, Patch(a, b)
  PROVE  obj' = Patched(TRUE, TRUE)
<1>1. "patch" \notin Faults
  BY DEF TasksVisible
<1>2. a /\ b
  BY <1>1 DEF Patch, Fault
<1> QED
  BY <1>2 DEF Patch

\* The initial state: nothing is in flight.
LEMMA InitTracked == Init => TaskTracked
<1> SUFFICES ASSUME Init PROVE TaskTracked OBVIOUS
<1>1. InFlight = {}
  BY DEF Init, InFlight, Running, NoTask
<1>2. obj.taskRef = 0 /\ before.taskRef = 0 /\ icsvm.taskRef = 0 /\ ntask = 0
  BY DEF Init, Fresh, Blank
<1> QED
  BY <1>1, <1>2 DEF TaskTracked, OneTaskInFlight, Init, SubmitPCs

\* A step that submits, finishes and patches nothing and keeps the pass where no
\* new task may be submitted, or where one already might.
LEMMA QuietStep ==
  ASSUME TaskTracked, UNCHANGED <<obj, before, tasks, ntask>>, icsvm'.taskRef = icsvm.taskRef,
         pc \notin {"idle", "setwait"}, pc' \notin {"idle", "setwait"}, pc' \in SubmitPCs => pc \in SubmitPCs
  PROVE  TaskTracked'
<1>1. InFlight' = InFlight
  BY SameInFlight
<1> QED
  BY <1>1 DEF TaskTracked, OneTaskInFlight

\* A step that submits a task where none is in flight, and records it.
LEMMA SubmitStep ==
  ASSUME TypeOK, TaskTracked, UNCHANGED <<obj, before>>, pc \in SubmitPCs,
         pc' \notin SubmitPCs, pc' \notin {"idle", "setwait"},
         NEW kind \in TaskKinds, NEW v \in IdOr0, Submit(kind, v),
         icsvm'.taskRef = ntask + 1
  PROVE  TaskTracked'
<1>1. InFlight = {} /\ InFlight' = {ntask + 1} /\ ntask' = ntask + 1
  BY SubmitInFlight DEF TaskTracked
<1>2. ntask \in Nat /\ obj.taskRef \in Nat /\ before.taskRef \in Nat
  BY FieldTypes, BoundsAssumption DEF TypeOK, IdOr0
<1> HIDE DEF InFlight
<1>3. OneTaskInFlight'
  BY <1>1 DEF OneTaskInFlight
<1>4. before'.taskRef # ntask + 1 /\ before'.taskRef <= ntask' /\ obj'.taskRef <= ntask'
  BY <1>1, <1>2 DEF TaskTracked
<1>5. icsvm'.taskRef <= ntask'
  BY <1>1, <1>2
<1> QED
  BY <1>1, <1>3, <1>4, <1>5 DEF TaskTracked

\* A step that patches the ICSVM in the middle of a pass.
LEMMA PatchStep ==
  ASSUME TasksVisible, TypeOK, TaskTracked, UNCHANGED <<before, icsvm, tasks, ntask>>,
         NEW a \in BOOLEAN, NEW b \in BOOLEAN, Patch(a, b),
         pc \notin {"idle", "setwait"}, pc' \notin {"idle", "setwait"}, pc' \in SubmitPCs => pc \in SubmitPCs
  PROVE  TaskTracked'
<1>1. InFlight' = InFlight
  BY SameInFlight
<1>2. /\ obj'.taskRef \in {obj.taskRef, icsvm.taskRef}
      /\ icsvm.taskRef = before.taskRef => obj'.taskRef = obj.taskRef
  BY PatchStored, PatchedTaskRef DEF TypeOK
<1> QED
  BY <1>1, <1>2 DEF TaskTracked, OneTaskInFlight

\* Every step of a reconcile pass keeps the task in flight tracked.
LEMMA PassTracked ==
  ASSUME TasksVisible, TypeOK, TaskTracked, Pass
  PROVE  TaskTracked'
<1> DEFINE Still == UNCHANGED <<obj, before, tasks, ntask>>
<1> USE DEF passVars, icenterVars, SubmitPCs, Return
<1>0. icsvm \in ICSVM /\ ref \in IdOr0 /\ ntask \in Nat
  BY BoundsAssumption DEF TypeOK, IdOr0
<1>1. CASE SkipPass
  <2>1. InFlight' = InFlight
    BY <1>1, SameInFlight DEF SkipPass
  <2> QED BY <1>1, <2>1 DEF SkipPass, TaskTracked, OneTaskInFlight
<1>2. CASE BeginPass
  <2>1. InFlight' = InFlight
    BY <1>2, SameInFlight DEF BeginPass
  <2>2. cache = obj /\ obj.exists /\ cache \in ICSVM
    BY <1>2 DEF BeginPass, TasksVisible, TypeOK
  <2>3. before'.taskRef = obj.taskRef /\ icsvm'.taskRef = obj.taskRef
    BY <1>2, <2>2 DEF BeginPass, ICSVM
  <2> QED BY <1>2, <2>1, <2>2, <2>3 DEF BeginPass, TaskTracked, OneTaskInFlight
<1>3. CASE ConnectOK \/ ConnectFails
  <2>1. pc \notin {"idle", "setwait"} /\ pc' \notin {"idle", "setwait"} /\ pc' \notin SubmitPCs /\ Still /\ icsvm' = icsvm
    BY <1>3 DEF ConnectOK, ConnectFails
  <2> QED BY <2>1, QuietStep
<1>4. CASE CheckTask
  <2>1. pc = "task" /\ pc' \notin {"idle", "setwait"} /\ Still
    BY <1>4 DEF CheckTask, ReturnOrCleanup
  <2>2. \/ pc' \notin SubmitPCs /\ icsvm' = icsvm
        \/ ~TaskInFlight(icsvm.taskRef) /\ icsvm' = [icsvm EXCEPT !.taskRef = 0]
    BY <1>4 DEF CheckTask, ReturnOrCleanup, TasksVisible, Fault
  <2>3. CASE pc' \notin SubmitPCs /\ icsvm' = icsvm
    BY <2>1, <2>3, QuietStep
  <2>4. CASE ~TaskInFlight(icsvm.taskRef) /\ icsvm' = [icsvm EXCEPT !.taskRef = 0]
    <3>1. InFlight = {} /\ InFlight' = {}
      BY <2>1, <2>4, SameInFlight DEF TaskTracked, InFlight, TaskInFlight, Running
    <3>2. icsvm'.taskRef = 0
      BY <1>0, <2>4 DEF ICSVM
    <3> QED BY <1>0, <2>1, <3>1, <3>2 DEF TaskTracked, OneTaskInFlight
  <2> QED BY <2>2, <2>3, <2>4
<1>5. CASE FindVM \/ FindVMFails
  <2>1. pc = "find" /\ pc' \notin {"idle", "setwait"} /\ Still /\ icsvm' = icsvm
    BY <1>5 DEF FindVM, FindVMFails, VMFound, VMNotFound, ReturnOrCleanup
  <2> QED BY <2>1, QuietStep
<1>6. CASE CreateVM
  <2>1. icsvm'.taskRef = ntask + 1
    BY <1>0, <1>6 DEF CreateVM, ICSVM
  <2>2. /\ UNCHANGED <<obj, before>> /\ pc \in SubmitPCs /\ pc' \notin SubmitPCs
        /\ pc' \notin {"idle", "setwait"} /\ Submit("create", 0)
    BY <1>6 DEF CreateVM
  <2> QED BY <2>1, <2>2, SubmitStep, IdFacts DEF TaskKinds
<1>7. CASE CreateVMFails
  BY <1>7, QuietStep DEF CreateVMFails
<1>8. CASE EarlyPatch \/ PatchAddresses
  <2>1. /\ UNCHANGED <<before, icsvm, tasks, ntask>> /\ pc \notin {"idle", "setwait"} /\ pc' \notin {"idle", "setwait"}
        /\ pc' \in SubmitPCs => pc \in SubmitPCs
        /\ \E a, b \in BOOLEAN : Patch(a, b)
    BY <1>8 DEF EarlyPatch, PatchAddresses
  <2> QED BY <2>1, PatchStep
<1>9. CASE HookAndReturn
  BY <1>9, QuietStep DEF HookAndReturn
<1>10. CASE ReconcileUUID
  BY <1>10, QuietStep DEF ReconcileUUID
<1>11. CASE ReconcileNetworkStatus
  <2>1. icsvm'.taskRef = icsvm.taskRef /\ pc' \in {"setvm", "netpatch", "power"}
    BY <1>0, <1>11 DEF ReconcileNetworkStatus, ReportNetwork, ICSVM
  <2> QED BY <1>11, <2>1, QuietStep DEF ReconcileNetworkStatus
<1>21. CASE SetVM
  <2>1. PICK kind \in {"set", "blank"} : Submit(kind, ref)
    BY <1>21 DEF SetVM
  <2>2. pc = "setvm" /\ pc' = "setwait" /\ UNCHANGED <<obj, before, icsvm>>
    BY <1>21 DEF SetVM
  <2>3. InFlight = {} /\ InFlight' = {ntask + 1} /\ ntask' = ntask + 1
    BY <1>0, <2>1, <2>2, SubmitInFlight DEF TaskTracked, TaskKinds
  <2>4. /\ icsvm.taskRef \in Nat /\ obj.taskRef \in Nat /\ before.taskRef \in Nat
        /\ icsvm.taskRef <= ntask /\ obj.taskRef <= ntask /\ before.taskRef <= ntask
    BY FieldTypes, BoundsAssumption DEF TypeOK, IdOr0, TaskTracked
  <2> HIDE DEF InFlight
  <2>5. OneTaskInFlight'
    BY <2>3 DEF OneTaskInFlight
  <2> QED BY <1>0, <2>2, <2>3, <2>4, <2>5 DEF TaskTracked
<1>22. CASE SetVMFails
  <2>1. icsvm'.taskRef = icsvm.taskRef /\ pc' \in {"netpatch", "power"}
    BY <1>0, <1>22 DEF SetVMFails, ReportNetwork, ICSVM
  <2> QED BY <1>22, <2>1, QuietStep DEF SetVMFails
<1>23. CASE WaitSetVM
  <2>1. /\ icsvm'.taskRef = icsvm.taskRef /\ pc' \in {"netpatch", "power"} /\ pc = "setwait"
        /\ Still
    BY <1>0, <1>23 DEF WaitSetVM, ReportNetwork, ICSVM
  <2>2. ~Running(ntask)
    BY <1>23 DEF WaitSetVM, TasksVisible, Fault
  <2>3. InFlight = {} /\ InFlight' = {}
    BY <2>1, <2>2, SameInFlight DEF TaskTracked, InFlight
  <2> QED BY <2>1, <2>3 DEF TaskTracked, OneTaskInFlight
<1>12. CASE ReconcileNetworkStatusFails
  BY <1>12, QuietStep DEF ReconcileNetworkStatusFails
<1>13. CASE PowerOn
  <2>1. icsvm'.taskRef = ntask + 1
    BY <1>0, <1>13 DEF PowerOn, ICSVM
  <2>2. /\ UNCHANGED <<obj, before>> /\ pc \in SubmitPCs /\ pc' \notin SubmitPCs
        /\ pc' \notin {"idle", "setwait"} /\ Submit("on", ref)
    BY <1>13 DEF PowerOn
  <2> QED BY <1>0, <2>1, <2>2, SubmitStep DEF TaskKinds
<1>14. CASE PowerStateFails
  <2>1. pc = "power" /\ pc' \notin {"idle", "setwait"} /\ Still /\ icsvm' = icsvm
    BY <1>14 DEF PowerStateFails, PoweringOnFailed
  <2> QED BY <2>1, QuietStep
<1>15. CASE WaitPowerOn
  <2>1. pc = "waiton" /\ pc' \notin {"idle", "setwait"} /\ pc' \notin SubmitPCs /\ Still /\ icsvm' = icsvm
    BY <1>15 DEF WaitPowerOn, PoweringOnFailed
  <2> QED BY <2>1, QuietStep
<1>16. CASE PoweredOn
  <2>1. icsvm'.taskRef = icsvm.taskRef
    BY <1>0, <1>16 DEF PoweredOn, ICSVM
  <2>2. pc = "power" /\ pc' \notin {"idle", "setwait"} /\ Still
    BY <1>16 DEF PoweredOn
  <2> QED BY <2>1, <2>2, QuietStep
<1>17. CASE Destroy
  <2>1. icsvm'.taskRef = ntask + 1
    BY <1>0, <1>17 DEF Destroy, ICSVM
  <2>2. /\ UNCHANGED <<obj, before>> /\ pc \in SubmitPCs /\ pc' \notin SubmitPCs /\ pc' \notin {"idle", "setwait"}
    BY <1>17 DEF Destroy, ReturnOrCleanup
  <2>3. \E kind \in {"off", "del"} : Submit(kind, ref)
    BY <1>17 DEF Destroy
  <2> QED BY <1>0, <2>1, <2>2, <2>3, SubmitStep DEF TaskKinds
<1>18. CASE DestroyFails
  <2>1. pc = "destroy" /\ pc' \notin {"idle", "setwait"} /\ Still /\ icsvm' = icsvm
    BY <1>18 DEF DestroyFails, ReturnOrCleanup
  <2> QED BY <2>1, QuietStep
<1>19. CASE Cleanup \/ ReleaseVM
  <2>1. icsvm'.taskRef = icsvm.taskRef
    BY <1>0, <1>19 DEF Cleanup, ReleaseVM, ICSVM
  <2>2. pc \notin {"idle", "setwait"} /\ pc' = "finish" /\ Still
    BY <1>19 DEF Cleanup, ReleaseVM
  <2> QED BY <2>1, <2>2, QuietStep
<1>20. CASE Finish
  <2>1. InFlight' = InFlight /\ ntask' = ntask /\ pc = "finish" /\ pc' = "idle"
    BY <1>20, SameInFlight DEF Finish, EndPass
  <2>2. before'.taskRef = 0 /\ icsvm'.taskRef = 0
    BY <1>20 DEF Finish, EndPass, Blank, Fresh
  <2>3. obj' = Patched(TRUE, TRUE)
    BY <1>20, PatchStored DEF Finish
  <2>4. obj'.taskRef <= ntask
    BY <2>3, PatchedTaskRef DEF TypeOK, TaskTracked
  <2>5. ASSUME obj'.exists PROVE InFlight \subseteq {obj'.taskRef}
    <3>1. CASE icsvm.taskRef = before.taskRef
      <4>1. obj'.taskRef = obj.taskRef
        BY <2>3, <3>1, PatchedTaskRef DEF TypeOK
      <4> QED BY <2>1, <3>1, <4>1 DEF TaskTracked
    <3>2. CASE icsvm.taskRef # before.taskRef
      <4>1. obj'.taskRef = icsvm.taskRef
        BY <2>3, <2>5, <3>2, PatchedTaskRef DEF TypeOK
      <4> QED BY <2>1, <4>1 DEF TaskTracked
    <3> QED BY <3>1, <3>2
  <2> QED BY <1>0, <2>1, <2>2, <2>4, <2>5 DEF TaskTracked, OneTaskInFlight
<1> QED
  BY <1>1, <1>2, <1>3, <1>4, <1>5, <1>6, <1>7, <1>8, <1>9, <1>10, <1>11, <1>12, <1>13,
     <1>14, <1>15, <1>16, <1>17, <1>18, <1>19, <1>20, <1>21, <1>22, <1>23 DEF Pass

\* So do the tasks, events and outside activity around it.
LEMMA EnvironmentTracked ==
  ASSUME TasksVisible, TypeOK, TaskTracked, Environment
  PROVE  TaskTracked'
<1> USE DEF passVars, icenterVars
<1>1. ASSUME InFlight' \subseteq InFlight, UNCHANGED <<passVars, ntask>>,
             obj'.taskRef = obj.taskRef, obj'.exists => obj.exists
      PROVE  TaskTracked'
  BY <1>1 DEF TaskTracked, OneTaskInFlight
<1>2. CASE WatchEvent \/ Resync \/ ClusterEvent \/ MachineReads
  BY <1>1, <1>2, SameInFlight DEF WatchEvent, Resync, ClusterEvent, MachineReads
<1>3. CASE Restart
  BY <1>3 DEF Restart, Fault, TasksVisible
<1>4. CASE DeleteICSVM
  <2>1. obj'.taskRef = obj.taskRef /\ (obj'.exists => obj.exists)
    BY <1>4 DEF DeleteICSVM, TypeOK, ICSVM
  <2> QED BY <1>1, <1>4, <2>1, SameInFlight DEF DeleteICSVM
<1>5. CASE MachineWrites
  <2>1. obj'.taskRef = obj.taskRef /\ (obj'.exists => obj.exists)
    BY <1>5 DEF MachineWrites, TypeOK, ICSVM
  <2> QED BY <1>1, <1>5, <2>1, SameInFlight DEF MachineWrites
<1>6. ASSUME NEW t \in Ids, TaskEvent(t) \/ NetworkEvent(t) \/ ReportIP(t) \/ OutOfBand(t)
      PROVE  TaskTracked'
  BY <1>1, <1>6, SameInFlight DEF TaskEvent, NetworkEvent, ReportIP, OutOfBand
<1>7. ASSUME NEW t \in Ids, TaskFinishes(t) \/ TaskFails(t) PROVE TaskTracked'
  <2>1. PICK st \in {"finished", "error", "canceled"} : tasks' = [tasks EXCEPT ![t].st = st]
    BY <1>7 DEF TaskFinishes, TaskFails
  <2>2. \A s \in Ids : tasks'[s].st = "run" => tasks[s].st = "run"
    BY <2>1 DEF TypeOK, Task
  <2>3. InFlight' \subseteq InFlight
    BY <2>2, Zenon DEF InFlight, Running
  <2> QED BY <1>1, <1>7, <2>3 DEF TaskFinishes, TaskFails
<1> QED
  BY <1>2, <1>3, <1>4, <1>5, <1>6, <1>7 DEF Environment

LEMMA TrackedAlways == TasksVisible => (Spec => []TaskTracked)
<1> SUFFICES ASSUME TasksVisible PROVE Spec => []TaskTracked OBVIOUS
<1>1. TypeOK /\ TaskTracked /\ [Next]_vars => TaskTracked'
  <2> SUFFICES ASSUME TypeOK, TaskTracked, [Next]_vars PROVE TaskTracked' OBVIOUS
  <2>1. CASE Next
    BY <2>1, PassTracked, EnvironmentTracked DEF Next
  <2>2. CASE UNCHANGED vars
    BY <2>2 DEF TaskTracked, OneTaskInFlight, InFlight, Running, vars, passVars, icenterVars
  <2> QED BY <2>1, <2>2
<1> QED BY InitTracked, TypeCorrect, <1>1, PTL DEF Spec

\* reconcileInFlightTask and Status.TaskRef serialize the iCenter tasks of an
\* ICSVM, and the pass that edits the VM waits for that, for any number of tasks and of other
\* faults, as long as GetTaskInfo answers, patches are stored, the manager does not restart,
\* its cache is fresh and no wait for SetVM's task gives up.
THEOREM TasksSerialized == TasksVisible => (Spec => []OneTaskInFlight)
<1>1. TaskTracked => OneTaskInFlight
  BY DEF TaskTracked
<1> QED BY TrackedAlways, <1>1, PTL

(***************************************************************************)
(* The published fields: ICSVMController implements ICSVMContract.         *)
(***************************************************************************)

\* The way of a pass through ReconcileVM, DestroyVM and what follows them.
Route ==
  /\ pc \in {"create", "early", "hook", "uuid", "net", "setvm", "setwait", "netpatch", "power",
             "waiton"} => mode = "normal"
  /\ pc = "connect" => mode # "failed"
  /\ pc = "destroy" => mode # "normal"
  /\ pc = "cleanup" => mode = "failed"
  /\ pc = "release" => mode = "delete"

\* A VM with a BIOS UUID is found by it, and reported under it.
FoundVM ==
  /\ pc \in {"uuid", "net", "setvm", "setwait", "netpatch", "power"} => icsvm.bios \in {0, ref}
  /\ pc \in {"net", "setvm", "setwait", "netpatch", "power"} => uuid \in {0, ref}
  /\ pc \in {"setvm", "setwait", "netpatch", "power"} => icsvm.bios = ref /\ ref # 0

\* What the pass read, what it has made of it, and what is stored.  A pass names a VM only
\* where none was named, and drops one only after PoweringOnFailed; the addresses it read
\* are stored still; and Ready is set at the end of a pass, with UUID and address.
CopiesAgree ==
  /\ icsvm.bios # 0 => obj.bios \in {0, icsvm.bios}
  /\ mode # "failed" => before.bios \in {0, icsvm.bios} /\ obj.bios \in {before.bios, icsvm.bios}
  /\ before.addrs => obj.addrs
  /\ pc # "finish" /\ before.addrs => icsvm.addrs
  /\ obj.ready = before.ready
  /\ pc # "finish" => icsvm.ready = before.ready
  /\ before.ready => icsvm.ready
  /\ icsvm.ready /\ ~before.ready => mode = "normal" /\ icsvm.bios # 0 /\ icsvm.addrs

CopiesTracked == Route /\ FoundVM /\ (pc # "idle" => CopiesAgree)

\* Patches are stored whole, passes read a fresh cache, and no other controller writes
\* Spec.BiosUUID.
SoleWriter == Faults \cap {"patch", "stale", "machine"} = {}

LEMMA RouteStep == TypeOK /\ Route /\ Next => Route'
<1> SUFFICES ASSUME TypeOK, Route, Next PROVE Route' OBVIOUS
<1>0. mode \in {"normal", "delete", "failed"}
  BY DEF TypeOK
<1> USE DEF Route, passVars, icenterVars, Return
<1>1. CASE SkipPass \/ ConnectOK \/ ConnectFails
  BY <1>0, <1>1 DEF SkipPass, ConnectOK, ConnectFails
<1>10. CASE BeginPass
  BY <1>10, Zenon DEF BeginPass
<1>9. CASE CheckTask
  <2>1. mode' = mode /\ (pc' \in {"find", "finish"} \/ (mode = "failed" /\ pc' = "cleanup"))
    BY <1>9 DEF CheckTask, ReturnOrCleanup
  <2> QED BY <2>1
<1>2. CASE FindVM \/ FindVMFails
  BY <1>0, <1>2 DEF FindVM, FindVMFails, VMFound, VMNotFound, ReturnOrCleanup
<1>3. CASE CreateVM \/ CreateVMFails \/ EarlyPatch \/ HookAndReturn
  BY <1>3 DEF CreateVM, CreateVMFails, EarlyPatch, HookAndReturn
<1>4. CASE ReconcileUUID \/ ReconcileNetworkStatus \/ ReconcileNetworkStatusFails \/ PatchAddresses
  BY <1>4 DEF ReconcileUUID, ReconcileNetworkStatus, ReconcileNetworkStatusFails, PatchAddresses,
     ReportNetwork
<1>11. CASE SetVM \/ SetVMFails \/ WaitSetVM
  BY <1>11 DEF SetVM, SetVMFails, WaitSetVM, ReportNetwork
<1>5. CASE PowerOn \/ PowerStateFails \/ WaitPowerOn \/ PoweredOn
  BY <1>5 DEF PowerOn, PowerStateFails, WaitPowerOn, PoweredOn, PoweringOnFailed
<1>6. CASE Destroy \/ DestroyFails \/ Cleanup \/ ReleaseVM \/ Finish
  BY <1>6 DEF Destroy, DestroyFails, Cleanup, ReleaseVM, Finish, ReturnOrCleanup, EndPass
<1>7. CASE UNCHANGED passVars \/ EndPass
  BY <1>7 DEF EndPass
<1>8. CASE Environment
  BY <1>7, <1>8 DEF Environment, WatchEvent, Resync, ClusterEvent, Restart, DeleteICSVM,
     MachineReads, MachineWrites, TaskEvent, NetworkEvent, TaskFinishes, TaskFails, ReportIP,
     OutOfBand
<1> QED
  BY <1>1, <1>2, <1>3, <1>4, <1>5, <1>6, <1>8, <1>9, <1>10, <1>11 DEF Next, Pass

LEMMA FoundStep == TypeOK /\ FoundVM /\ Next => FoundVM'
<1> SUFFICES ASSUME TypeOK, FoundVM, Next PROVE FoundVM' OBVIOUS
<1> DEFINE FoundPCs == {"uuid", "net", "setvm", "setwait", "netpatch", "power"}
<1> USE DEF passVars, icenterVars, Return
<1>0. icsvm \in ICSVM
  BY DEF TypeOK
<1>1. CASE pc' \notin FoundPCs
  BY <1>1 DEF FoundVM
<1>2. CASE UNCHANGED passVars
  BY <1>2 DEF FoundVM
<1>3. CASE FindVM
  <2>1. PICK v \in Findings : IF v = 0 THEN VMNotFound ELSE VMFound(v)
    BY <1>3 DEF FindVM
  <2>2. CASE v = 0
    BY <1>1, <2>1, <2>2 DEF VMNotFound
  <2>3. CASE v # 0
    <3>1. icsvm.bios \in {0, v}
      BY <2>3 DEF Findings
    <3>2. ref' = v /\ pc' \in {"uuid", "destroy"} /\ icsvm' = icsvm
      BY <1>3, <2>1, <2>3 DEF FindVM, VMFound
    <3> QED BY <3>1, <3>2 DEF FoundVM
  <2> QED BY <2>2, <2>3
<1>4. CASE FindVMFails
  BY <1>4 DEF FindVMFails, FoundVM, VMFound, VMNotFound, ReturnOrCleanup
<1>5. CASE ReconcileUUID
  BY <1>5 DEF ReconcileUUID, FoundVM
<1>6. CASE ReconcileNetworkStatus
  <2>1. /\ icsvm'.bios = ref /\ ref # 0 /\ pc = "net" /\ pc' \in {"setvm", "netpatch", "power"}
        /\ ref' = ref /\ uuid' = uuid
    BY <1>0, <1>6 DEF ReconcileNetworkStatus, ReportNetwork, Exists, ICSVM
  <2> QED BY <2>1 DEF FoundVM
<1>15. CASE SetVM \/ SetVMFails \/ WaitSetVM
  <2>1. /\ icsvm'.bios = icsvm.bios /\ pc \in {"setvm", "setwait"}
        /\ pc' \in {"setwait", "netpatch", "power"} /\ ref' = ref /\ uuid' = uuid
    BY <1>0, <1>15 DEF SetVM, SetVMFails, WaitSetVM, ReportNetwork, ICSVM
  <2> QED BY <2>1 DEF FoundVM
<1>7. CASE PatchAddresses
  BY <1>7 DEF PatchAddresses, FoundVM
<1>8. CASE SkipPass \/ BeginPass \/ ConnectOK \/ ConnectFails
  BY <1>1, <1>2, <1>8 DEF SkipPass, BeginPass, ConnectOK, ConnectFails
<1>9. CASE CheckTask
  BY <1>1, <1>9 DEF CheckTask, ReturnOrCleanup
<1>10. CASE CreateVM \/ CreateVMFails \/ EarlyPatch \/ HookAndReturn
  BY <1>1, <1>10 DEF CreateVM, CreateVMFails, EarlyPatch, HookAndReturn
<1>11. CASE ReconcileNetworkStatusFails
  BY <1>1, <1>11 DEF ReconcileNetworkStatusFails
<1>12. CASE PowerOn \/ PowerStateFails \/ WaitPowerOn \/ PoweredOn
  BY <1>1, <1>12 DEF PowerOn, PowerStateFails, WaitPowerOn, PoweredOn, PoweringOnFailed
<1>13. CASE Destroy \/ DestroyFails \/ Cleanup \/ ReleaseVM \/ Finish
  BY <1>1, <1>13 DEF Destroy, DestroyFails, Cleanup, ReleaseVM, Finish, ReturnOrCleanup, EndPass
<1>14. CASE Environment
  BY <1>1, <1>2, <1>14 DEF Environment, WatchEvent, Resync, ClusterEvent, Restart, DeleteICSVM,
     MachineReads, MachineWrites, TaskEvent, NetworkEvent, TaskFinishes, TaskFails, ReportIP,
     OutOfBand, EndPass
<1> QED
  BY <1>3, <1>4, <1>5, <1>6, <1>7, <1>8, <1>9, <1>10, <1>11, <1>12, <1>13, <1>14, <1>15
     DEF Next, Pass

\* With a sole writer, both parts of a patch are stored.
LEMMA PatchWhole ==
  ASSUME SoleWriter, NEW a \in BOOLEAN, NEW b \in BOOLEAN, Patch(a, b)
  PROVE  obj' = Patched(TRUE, TRUE)
<1>1. "patch" \notin Faults
  BY DEF SoleWriter
<1>2. a /\ b
  BY <1>1 DEF Patch, Fault
<1> QED BY <1>2 DEF Patch

\* What a patch makes of the published fields: nothing once the ICSVM is gone; and Ready is
\* stored together with the other two.
LEMMA PatchedPublished ==
  ASSUME obj \in ICSVM, before \in ICSVM, icsvm \in ICSVM
  PROVE  LET p == Patched(TRUE, TRUE)
         IN /\ ~obj.exists => p = obj
            /\ obj.exists => p.bios = Written(icsvm.bios, before.bios, obj.bios)
            /\ p.exists => /\ p.addrs = Written(icsvm.addrs, before.addrs, obj.addrs)
                           /\ p.ready = Written(icsvm.ready, before.ready, obj.ready)
            /\ ~p.exists => p.addrs = obj.addrs /\ p.ready = obj.ready
  BY DEF Patched, SpecPatched, StatusPatched, Written, ICSVM

\* A step of a pass that changes none of the published fields, neither in the API server nor
\* in the working copy.
LEMMA QuietCopies ==
  ASSUME CopiesAgree, pc # "finish", mode' \in {mode, "failed"}, before' = before,
         obj'.bios = obj.bios, obj'.addrs = obj.addrs, obj'.ready = obj.ready,
         icsvm'.bios = icsvm.bios, icsvm'.addrs = icsvm.addrs, icsvm'.ready = icsvm.ready
  PROVE  CopiesAgree'
  BY Zenon DEF CopiesAgree

\* A patch in the middle of ReconcileVM.
LEMMA PatchCopies ==
  ASSUME SoleWriter, TypeOK, CopiesAgree, pc # "finish", mode = "normal",
         NEW a \in BOOLEAN, NEW b \in BOOLEAN, Patch(a, b),
         UNCHANGED <<before, icsvm, mode>>, pc' # "finish"
  PROVE  CopiesAgree'
<1>1. obj \in ICSVM /\ before \in ICSVM /\ icsvm \in ICSVM
  BY DEF TypeOK
<1>2. obj' = Patched(TRUE, TRUE)
  BY PatchWhole
<1>3. /\ obj'.bios \in {obj.bios, icsvm.bios}
      /\ obj'.addrs \in {obj.addrs, icsvm.addrs}
      /\ icsvm.ready = before.ready => obj'.ready = obj.ready
  BY <1>1, <1>2, PatchedPublished DEF Written
<1> QED BY <1>3 DEF CopiesAgree

LEMMA CopiesStep ==
  ASSUME SoleWriter, TypeOK, CopiesTracked, mread = NotReading, Next
  PROVE  pc' # "idle" => CopiesAgree'
<1> USE DEF passVars, icenterVars, Return
<1>0. obj \in ICSVM /\ icsvm \in ICSVM /\ Addressed \in BOOLEAN
  BY DEF TypeOK, Addressed
<1>1. ASSUME pc \notin {"idle", "finish"}, mode' \in {mode, "failed"}, UNCHANGED <<obj, before>>,
             icsvm'.bios = icsvm.bios, icsvm'.addrs = icsvm.addrs, icsvm'.ready = icsvm.ready
      PROVE  CopiesAgree'
  BY <1>1, QuietCopies DEF CopiesTracked
<1>2. CASE SkipPass
  BY <1>2 DEF SkipPass
<1>3. CASE BeginPass
  <2>1. before' = obj /\ obj' = obj /\ cache = obj
    BY <1>3 DEF BeginPass, SoleWriter
  <2>2. icsvm'.bios = obj.bios /\ icsvm'.addrs = obj.addrs /\ icsvm'.ready = obj.ready
    BY <1>0, <1>3, <2>1 DEF BeginPass, ICSVM
  <2> QED BY <2>1, <2>2 DEF CopiesAgree
<1>4. CASE ConnectOK \/ ConnectFails
  BY <1>1, <1>4 DEF ConnectOK, ConnectFails
<1>5. CASE CheckTask
  <2>1. icsvm' \in {icsvm, [icsvm EXCEPT !.taskRef = 0]}
    BY <1>5 DEF CheckTask
  <2>2. /\ icsvm'.bios = icsvm.bios /\ icsvm'.addrs = icsvm.addrs /\ icsvm'.ready = icsvm.ready
    BY <1>0, <2>1 DEF ICSVM
  <2>3. pc = "task" /\ mode' = mode /\ UNCHANGED <<obj, before>>
    BY <1>5 DEF CheckTask
  <2> QED BY <1>1, <2>2, <2>3
<1>6. CASE FindVM \/ FindVMFails
  BY <1>1, <1>6 DEF FindVM, FindVMFails
<1>7. CASE CreateVM \/ PowerOn \/ Destroy
  <2>1. icsvm' = [icsvm EXCEPT !.taskRef = ntask + 1]
    BY <1>7 DEF CreateVM, PowerOn, Destroy
  <2>2. /\ icsvm'.bios = icsvm.bios /\ icsvm'.addrs = icsvm.addrs /\ icsvm'.ready = icsvm.ready
    BY <1>0, <2>1 DEF ICSVM
  <2>3. pc \notin {"idle", "finish"} /\ mode' = mode /\ UNCHANGED <<obj, before>>
    BY <1>7 DEF CreateVM, PowerOn, Destroy
  <2> QED BY <1>1, <2>2, <2>3
<1>8. CASE CreateVMFails \/ HookAndReturn \/ ReconcileUUID \/ ReconcileNetworkStatusFails
  BY <1>1, <1>8 DEF CreateVMFails, HookAndReturn, ReconcileUUID, ReconcileNetworkStatusFails
<1>9. CASE EarlyPatch \/ PatchAddresses
  <2>1. /\ pc \in {"early", "netpatch"} /\ pc' \in {"hook", "power"}
        /\ UNCHANGED <<before, icsvm, mode>> /\ \E a, b \in BOOLEAN : Patch(a, b)
    BY <1>9 DEF EarlyPatch, PatchAddresses
  <2> QED BY <2>1, PatchCopies DEF CopiesTracked, Route
<1>10. CASE ReconcileNetworkStatus
  <2>1. /\ pc = "net" /\ mode = "normal" /\ UNCHANGED <<obj, before, mode>>
        /\ icsvm.bios \in {0, ref} /\ pc' \in {"setvm", "netpatch", "power"}
    BY <1>10 DEF ReconcileNetworkStatus, ReportNetwork, CopiesTracked, FoundVM, Route
  <2>2. /\ icsvm'.bios = ref /\ (icsvm.addrs => icsvm'.addrs) /\ icsvm'.ready = icsvm.ready
        /\ ref # 0
    BY <1>0, <1>10 DEF ReconcileNetworkStatus, ReportNetwork, ICSVM, Exists
  <2> QED BY <2>1, <2>2 DEF CopiesTracked, CopiesAgree
<1>19. CASE SetVM
  BY <1>1, <1>19 DEF SetVM
<1>20. CASE SetVMFails \/ WaitSetVM
  <2>1. /\ pc \in {"setvm", "setwait"} /\ mode = "normal" /\ UNCHANGED <<obj, before, mode>>
        /\ pc' \in {"netpatch", "power"}
    BY <1>20 DEF SetVMFails, WaitSetVM, ReportNetwork, CopiesTracked, Route
  <2>2. icsvm'.bios = icsvm.bios /\ (icsvm.addrs => icsvm'.addrs) /\ icsvm'.ready = icsvm.ready
    BY <1>0, <1>20 DEF SetVMFails, WaitSetVM, ReportNetwork, ICSVM
  <2> QED BY <2>1, <2>2 DEF CopiesTracked, CopiesAgree
<1>11. CASE PowerStateFails \/ WaitPowerOn \/ DestroyFails
  BY <1>1, <1>11 DEF PowerStateFails, WaitPowerOn, DestroyFails, PoweringOnFailed
<1>12. CASE PoweredOn
  <2>1. /\ pc = "power" /\ mode = "normal" /\ UNCHANGED <<obj, before, mode>>
        /\ icsvm.bios = ref /\ ref # 0 /\ uuid \in {0, ref} /\ pc' = "finish"
    BY <1>12 DEF PoweredOn, CopiesTracked, FoundVM, Route
  <2>2. CASE uuid = 0
    <3>1. icsvm' = icsvm
      BY <1>12, <2>2 DEF PoweredOn
    <3> QED BY <1>1, <2>1, <3>1
  <2>3. CASE uuid # 0
    <3>1. icsvm' = [icsvm EXCEPT !.bios = uuid, !.addrs = Addressed, !.ready = @ \/ Addressed]
      BY <1>12, <2>3 DEF PoweredOn, NetworkOnline
    <3>2. /\ icsvm'.bios = ref /\ icsvm'.addrs = Addressed
          /\ icsvm.ready => icsvm'.ready
          /\ icsvm'.ready /\ ~icsvm.ready => Addressed
      BY <1>0, <2>1, <2>3, <3>1 DEF ICSVM
    <3> QED BY <2>1, <3>2 DEF CopiesTracked, CopiesAgree
  <2> QED BY <2>2, <2>3
<1>13. CASE Cleanup
  <2>1. pc = "cleanup" /\ mode = "failed" /\ UNCHANGED <<obj, before, mode>> /\ pc' = "finish"
    BY <1>13 DEF Cleanup, CopiesTracked, Route
  <2>2. icsvm'.bios = 0 /\ icsvm'.addrs = icsvm.addrs /\ icsvm'.ready = icsvm.ready
    BY <1>0, <1>13 DEF Cleanup, ICSVM
  <2> QED BY <2>1, <2>2 DEF CopiesTracked, CopiesAgree
<1>14. CASE ReleaseVM
  <2>1. icsvm'.bios = icsvm.bios /\ icsvm'.addrs = icsvm.addrs /\ icsvm'.ready = icsvm.ready
    BY <1>0, <1>14 DEF ReleaseVM, ICSVM
  <2> QED BY <1>1, <1>14, <2>1 DEF ReleaseVM
<1>15. CASE Finish \/ Restart
  BY <1>15 DEF Finish, Restart, EndPass
<1>16. ASSUME UNCHANGED passVars,
              obj'.bios = obj.bios, obj'.addrs = obj.addrs, obj'.ready = obj.ready
       PROVE  pc' # "idle" => CopiesAgree'
  BY <1>16, Zenon DEF CopiesTracked, CopiesAgree
<1>17. CASE DeleteICSVM
  <2>1. obj'.bios = obj.bios /\ obj'.addrs = obj.addrs /\ obj'.ready = obj.ready
    BY <1>0, <1>17 DEF DeleteICSVM, ICSVM
  <2> QED BY <1>16, <1>17, <2>1 DEF DeleteICSVM
<1>18. CASE Environment /\ ~DeleteICSVM /\ ~Restart
  BY <1>16, <1>18 DEF Environment, WatchEvent, Resync, ClusterEvent,
     MachineReads, MachineWrites, TaskEvent, NetworkEvent, TaskFinishes, TaskFails, ReportIP,
     OutOfBand
<1> QED
  BY <1>2, <1>3, <1>4, <1>5, <1>6, <1>7, <1>8, <1>9, <1>10, <1>11, <1>12, <1>13, <1>14, <1>15,
     <1>17, <1>18, <1>19, <1>20 DEF Next, Pass

LEMMA CopiesAlways == SoleWriter => (Spec => [](CopiesTracked /\ mread = NotReading))
<1> SUFFICES ASSUME SoleWriter PROVE Spec => [](CopiesTracked /\ mread = NotReading) OBVIOUS
<1> DEFINE Inv == CopiesTracked /\ mread = NotReading
<1>1. Init => Inv
  BY DEF Init, CopiesTracked, Route, FoundVM
<1>2. TypeOK /\ Inv /\ [Next]_vars => Inv'
  <2> SUFFICES ASSUME TypeOK, Inv, [Next]_vars PROVE Inv' OBVIOUS
  <2>1. CASE Next
    <3>1. CopiesTracked'
      BY <2>1, RouteStep, FoundStep, CopiesStep DEF CopiesTracked
    <3>2. mread' \in {mread, NotReading}
      <4>1. "machine" \notin Faults
        BY DEF SoleWriter
      <4>2. CASE Pass
        BY <4>2 DEF Pass, SkipPass, BeginPass, ConnectOK, ConnectFails, CheckTask, FindVM,
           FindVMFails, CreateVM, CreateVMFails, EarlyPatch, HookAndReturn, ReconcileUUID,
           ReconcileNetworkStatus, ReconcileNetworkStatusFails, SetVM, SetVMFails, WaitSetVM,
           PatchAddresses, PowerOn, PowerStateFails, WaitPowerOn, PoweredOn, Destroy, DestroyFails, Cleanup, ReleaseVM,
           Finish
      <4>3. CASE Environment
        BY <4>1, <4>3 DEF Environment, WatchEvent, Resync, ClusterEvent, Restart, DeleteICSVM,
           MachineReads, MachineWrites, TaskEvent, NetworkEvent, TaskFinishes, TaskFails,
           ReportIP, OutOfBand
      <4> QED BY <2>1, <4>2, <4>3 DEF Next
    <3> QED BY <3>1, <3>2
  <2>2. CASE UNCHANGED vars
    BY <2>2, Zenon DEF CopiesTracked, Route, FoundVM, CopiesAgree, vars, passVars
  <2> QED BY <2>1, <2>2
<1> QED BY <1>1, <1>2, TypeCorrect, PTL DEF Spec

\* The fields as ICSVMContract sees them.
Pub == [bios |-> obj.bios, addrs |-> obj.addrs, ready |-> obj.ready]

\* A patch, in the middle of a pass or at its end, publishes by the contract.
LEMMA PatchPublishes ==
  ASSUME SoleWriter, TypeOK, CopiesAgree,
         NEW a \in BOOLEAN, NEW b \in BOOLEAN, Patch(a, b)
  PROVE  /\ obj.ready => obj'.ready
         /\ obj'.ready /\ ~obj.ready => obj'.bios # 0 /\ obj'.addrs
         /\ obj'.ready /\ ~obj.ready => obj'.bios = icsvm.bios /\ icsvm.ready /\ ~before.ready
         /\ obj'.bios # obj.bios => 0 \in {obj.bios, obj'.bios}
<1>1. obj \in ICSVM /\ before \in ICSVM /\ icsvm \in ICSVM
  BY DEF TypeOK
<1>2. obj' = Patched(TRUE, TRUE)
  BY PatchWhole
<1>3. obj'.bios \in {obj.bios, icsvm.bios}
  BY <1>1, <1>2, PatchedPublished DEF Written
<1>4. obj.ready => obj'.ready
  BY <1>1, <1>2, PatchedPublished DEF Written, CopiesAgree
<1>5. ASSUME obj'.ready, ~obj.ready
      PROVE  /\ obj'.bios = icsvm.bios /\ obj'.bios # 0 /\ obj'.addrs
             /\ icsvm.ready /\ ~before.ready
  <2>1. obj.exists /\ obj'.exists /\ icsvm.ready /\ ~before.ready
    BY <1>1, <1>2, <1>5, PatchedPublished DEF Written, CopiesAgree
  <2>2. mode = "normal" /\ icsvm.bios # 0 /\ icsvm.addrs
    BY <2>1 DEF CopiesAgree
  <2>3. obj'.bios = icsvm.bios
    BY <1>1, <1>2, <2>1, <2>2, PatchedPublished DEF Written, CopiesAgree
  <2>4. obj'.addrs
    BY <1>1, <1>2, <2>1, <2>2, PatchedPublished DEF Written, CopiesAgree
  <2> QED BY <2>1, <2>2, <2>3, <2>4
<1> QED BY <1>3, <1>4, <1>5 DEF CopiesAgree

\* Only patches, and the ICSMachine controller, change the published fields.
LEMMA PublishingSteps ==
  ASSUME TypeOK, mread = NotReading, Next
  PROVE  \/ Pub' = Pub
         \/ pc # "idle" /\ \E a, b \in BOOLEAN : Patch(a, b)
<1> USE DEF passVars, icenterVars
<1>1. CASE EarlyPatch \/ PatchAddresses \/ Finish
  BY <1>1 DEF EarlyPatch, PatchAddresses, Finish
<1>2. CASE DeleteICSVM
  <2>1. obj'.bios = obj.bios /\ obj'.addrs = obj.addrs /\ obj'.ready = obj.ready
    BY <1>2 DEF TypeOK, DeleteICSVM, ICSVM
  <2> QED BY <2>1 DEF Pub
<1>3. CASE obj' = obj
  BY <1>3 DEF Pub
<1>4. CASE Pass /\ ~(EarlyPatch \/ PatchAddresses \/ Finish)
  BY <1>3, <1>4 DEF Pass, SkipPass, BeginPass, ConnectOK, ConnectFails, CheckTask, FindVM,
     FindVMFails, CreateVM, CreateVMFails, HookAndReturn, ReconcileUUID, ReconcileNetworkStatus,
     ReconcileNetworkStatusFails, SetVM, SetVMFails, WaitSetVM, PowerOn, PowerStateFails,
     WaitPowerOn, PoweredOn, Destroy, DestroyFails, Cleanup, ReleaseVM
<1>5. CASE Environment /\ ~DeleteICSVM
  BY <1>3, <1>5 DEF Environment, WatchEvent, Resync, ClusterEvent, Restart, MachineReads,
     MachineWrites, TaskEvent, NetworkEvent, TaskFinishes, TaskFails, ReportIP, OutOfBand
<1> QED BY <1>1, <1>2, <1>4, <1>5 DEF Next

\* ICSVMController implements ICSVMContract, for control plane and worker machines and any
\* number of failures, restarts included, as long as patches are stored whole, passes read
\* a fresh cache and the ICSMachine controller does not write Spec.BiosUUID at the same time:
\* Ready is published with UUID and address and never taken back, and findVM, Cleanup and the
\* merge patch together never replace one UUID by another.
THEOREM ContractImplemented == SoleWriter => (Spec => PublishesByContract)
<1> SUFFICES ASSUME SoleWriter PROVE Spec => PublishesByContract OBVIOUS
<1>1. Init => Contract!Init
  BY DEF Init, Fresh, Contract!Init, Contract!Nothing
<1>2. TypeOK /\ TypeOK' /\ CopiesTracked /\ mread = NotReading /\ [Next]_vars
        => [Contract!Publish]_Pub
  <2> SUFFICES ASSUME TypeOK, TypeOK', CopiesTracked, mread = NotReading, [Next]_vars
               PROVE  Contract!Publish \/ Pub' = Pub
    OBVIOUS
  <2>1. CASE UNCHANGED vars
    BY <2>1 DEF vars, Pub
  <2>2. ASSUME pc # "idle", NEW a \in BOOLEAN, NEW b \in BOOLEAN, Patch(a, b)
        PROVE  Contract!Publish
    <3>1. /\ obj.ready => obj'.ready
          /\ obj'.ready /\ ~obj.ready => obj'.bios # 0 /\ obj'.addrs
          /\ obj'.bios # obj.bios => 0 \in {obj.bios, obj'.bios}
      BY <2>2, PatchPublishes DEF CopiesTracked, TypeOK
    <3>2. Pub' \in Contract!Published
      <4>1. obj'.bios \in Ids \cup {0} /\ obj'.addrs \in BOOLEAN /\ obj'.ready \in BOOLEAN
        BY FieldTypes, IdFacts DEF TypeOK, ICSVM
      <4> QED BY <4>1 DEF Contract!Published, Pub
    <3>3. Contract!ReadyRule(Pub, Pub') /\ Contract!UUIDRule(Pub, Pub')
      BY <3>1 DEF Contract!ReadyRule, Contract!UUIDRule, Pub
    <3> QED BY <3>2, <3>3 DEF Contract!Publish, Pub
  <2> QED BY <2>1, <2>2, PublishingSteps
<1>3. Spec => [](CopiesTracked /\ mread = NotReading)
  BY CopiesAlways
<1> QED
  BY <1>1, <1>2, <1>3, TypeCorrect, PTL DEF Spec, PublishesByContract, Contract!Spec, Pub

(***************************************************************************)
(* Ready is published of a VM that runs.                                   *)
(***************************************************************************)

\* Besides: nobody powers off or removes the VM in iCenter.
Undisturbed == TasksVisible /\ SoleWriter /\ "oob" \notin Faults

\* And SetVM does what it is asked to.
AddressesSet == Undisturbed /\ "set" \notin Faults

\* The task that the pass submitted to edit the VM it found: once it has ended, the further
\* NIC has the address that the pass will report.
EditedVM ==
  /\ ref \in Ids /\ tasks[ntask].vm = ref /\ tasks[ntask].kind \in {"set", "blank"}
  /\ net2 => tasks[ntask].kind = "set"
  /\ net2 /\ ~Running(ntask) => vms[ref].nic2 = "addr"

\* What the pass saw of the VM, or made of it, is so until it is published: no other task is
\* in flight that could change it.
ReadyTrue ==
  /\ pc \in {"setvm", "setwait"} => Exists(ref)
  /\ pc = "setwait" => EditedVM
  /\ pc \in {"setvm", "setwait", "netpatch", "power"} /\ net => vms[ref].ip
  /\ pc \in {"netpatch", "power"} /\ net2 => vms[ref].nic2 = "addr"
  /\ pc = "finish" /\ icsvm.ready /\ ~before.ready => InFlight = {} /\ NICHasAddress(icsvm.bios)

LEMMA ReadyTrueStep ==
  ASSUME AddressesSet, TypeOK, TaskTracked, CopiesTracked, ReadyTrue, Next
  PROVE  ReadyTrue'
<1> USE DEF passVars, icenterVars, Return
<1> DEFINE NetPCs == {"setvm", "setwait", "netpatch", "power"}
<1>0. icsvm \in ICSVM /\ before \in ICSVM /\ net \in BOOLEAN /\ net2 \in BOOLEAN
      /\ vms \in [Ids -> VM] /\ ref \in IdOr0
  BY DEF TypeOK
<1>1. CASE pc' \notin NetPCs \cup {"finish"}
  BY <1>1 DEF ReadyTrue
<1>2. ASSUME pc \notin {"idle", "finish"}, icsvm'.ready = icsvm.ready, before' = before,
             pc' \notin NetPCs
      PROVE  ReadyTrue'
  BY <1>2 DEF ReadyTrue, CopiesTracked, CopiesAgree
<1>3. CASE SkipPass \/ BeginPass
  BY <1>1, <1>3 DEF SkipPass, BeginPass
<1>4. CASE ConnectOK \/ ConnectFails
  BY <1>2, <1>4 DEF ConnectOK, ConnectFails
<1>5. CASE CheckTask
  <2>1. icsvm' \in {icsvm, [icsvm EXCEPT !.taskRef = 0]} /\ before' = before /\ pc = "task"
    BY <1>5 DEF CheckTask
  <2>2. pc' \in {"find", "finish", "cleanup"}
    BY <1>5 DEF CheckTask, ReturnOrCleanup
  <2>3. icsvm'.ready = icsvm.ready
    BY <1>0, <2>1 DEF ICSVM
  <2> QED BY <1>2, <2>1, <2>2, <2>3
<1>6. CASE FindVM \/ FindVMFails
  BY <1>2, <1>6 DEF FindVM, FindVMFails, VMFound, VMNotFound, ReturnOrCleanup
<1>7. CASE CreateVM \/ EarlyPatch \/ ReconcileUUID \/ PowerOn
  BY <1>1, <1>7 DEF CreateVM, EarlyPatch, ReconcileUUID, PowerOn
<1>8. CASE CreateVMFails \/ HookAndReturn \/ ReconcileNetworkStatusFails
  BY <1>2, <1>8 DEF CreateVMFails, HookAndReturn, ReconcileNetworkStatusFails
<1>9. CASE ReconcileNetworkStatus
  <2>1. /\ pc' \in {"setvm", "netpatch", "power"} /\ Exists(ref) /\ UNCHANGED <<vms, ref>>
        /\ net' = vms[ref].ip /\ net2' = (vms[ref].nic2 = "addr")
    BY <1>9 DEF ReconcileNetworkStatus, ReportNetwork
  <2> QED BY <2>1 DEF ReadyTrue, Exists
<1>22. CASE SetVM
  <2>1. /\ pc = "setvm" /\ pc' = "setwait" /\ UNCHANGED <<ref, net>> /\ Exists(ref)
    BY <1>22 DEF SetVM
  <2>2. PICK kind \in {"set", "blank"} : Submit(kind, ref) /\ net2' = (kind = "set")
    BY <1>22 DEF SetVM
  <2>3. ntask' = ntask + 1 /\ ntask + 1 \in Ids /\ vms' = vms
    BY <1>0, <2>2, SubmitType DEF TypeOK, TaskKinds
  <2>4. tasks'[ntask + 1] = [kind |-> kind, vm |-> ref, st |-> "run"]
    BY <2>2, <2>3 DEF Submit, TypeOK
  <2>5. ref \in Ids
    BY <1>0, <2>1, IdFacts DEF Exists
  <2>6. Running(ntask)'
    BY <2>3, <2>4, BoundsAssumption DEF Running, Ids
  <2>9. tasks'[ntask'].vm = ref' /\ tasks'[ntask'].kind = kind /\ ref' \in Ids
    BY <2>1, <2>3, <2>4, <2>5
  <2>7. EditedVM'
    BY <2>2, <2>6, <2>9, Zenon DEF EditedVM
  <2>8. Exists(ref)' /\ (net' => vms'[ref'].ip)
    BY <2>1, <2>3 DEF Exists, ReadyTrue
  <2> QED BY <2>1, <2>7, <2>8 DEF ReadyTrue
<1>23. CASE SetVMFails
  BY <1>23 DEF SetVMFails, ReadyTrue, Fault, AddressesSet
<1>24. CASE WaitSetVM
  <2>1. pc = "setwait" /\ pc' \in {"netpatch", "power"} /\ UNCHANGED <<ref, net, net2, vms>>
    BY <1>24 DEF WaitSetVM, ReportNetwork
  <2>2. ~Running(ntask)
    BY <1>24 DEF WaitSetVM, AddressesSet, Undisturbed, TasksVisible, Fault
  <2> QED BY <2>1, <2>2 DEF ReadyTrue, EditedVM
<1>10. CASE PatchAddresses
  BY <1>10 DEF PatchAddresses, ReadyTrue
<1>11. CASE PowerStateFails \/ WaitPowerOn \/ DestroyFails
  BY <1>2, <1>11 DEF PowerStateFails, WaitPowerOn, DestroyFails, PoweringOnFailed, ReturnOrCleanup
<1>12. CASE PoweredOn
  <2>1. /\ pc = "power" /\ pc' = "finish" /\ UNCHANGED <<before, tasks, vms>>
        /\ Exists(ref) /\ vms[ref].power = "on" /\ ref # 0
    BY <1>12 DEF PoweredOn, Exists
  <2>2. CASE uuid = 0
    <3>1. icsvm' = icsvm
      BY <1>12, <2>2 DEF PoweredOn
    <3> QED BY <1>2, <2>1, <3>1
  <2>3. CASE uuid # 0
    <3>1. icsvm' = [icsvm EXCEPT !.bios = uuid, !.addrs = Addressed, !.ready = @ \/ Addressed]
      BY <1>12, <2>3 DEF PoweredOn, NetworkOnline
    <3>2. icsvm'.bios = uuid /\ uuid = ref /\ (icsvm'.ready /\ ~icsvm.ready => Addressed)
      BY <1>0, <2>1, <2>3, <3>1 DEF ICSVM, CopiesTracked, FoundVM
    <3>3. InFlight' = {}
      BY <2>1, SameInFlight DEF TaskTracked, SubmitPCs
    <3>4. Addressed => NICHasAddress(ref)
      BY <2>1 DEF ReadyTrue, Addressed, NICHasAddress
    <3>5. icsvm.ready = before.ready
      BY <2>1 DEF CopiesTracked, CopiesAgree
    <3>6. NICHasAddress(icsvm.bios)' = NICHasAddress(ref)
      BY <2>1, <3>2 DEF NICHasAddress, Exists
    <3> QED BY <2>1, <3>2, <3>3, <3>4, <3>5, <3>6 DEF ReadyTrue
  <2> QED BY <2>2, <2>3
<1>13. CASE Destroy
  <2>1. icsvm'.ready = icsvm.ready
    BY <1>0, <1>13 DEF Destroy, ICSVM
  <2> QED BY <1>2, <1>13, <2>1 DEF Destroy, ReturnOrCleanup
<1>14. CASE Cleanup \/ ReleaseVM
  <2>1. icsvm'.ready = icsvm.ready
    BY <1>0, <1>14 DEF Cleanup, ReleaseVM, ICSVM
  <2> QED BY <1>2, <1>14, <2>1 DEF Cleanup, ReleaseVM
<1>15. CASE Finish \/ Restart
  BY <1>1, <1>15 DEF Finish, Restart, EndPass
<1>16. ASSUME UNCHANGED <<passVars, tasks, ntask, vms>> PROVE ReadyTrue'
  BY <1>16, SameInFlight DEF ReadyTrue, EditedVM, NICHasAddress, Exists, Running
<1>17. CASE WatchEvent \/ Resync \/ ClusterEvent \/ DeleteICSVM \/ MachineReads \/ MachineWrites
  BY <1>16, <1>17 DEF WatchEvent, Resync, ClusterEvent, DeleteICSVM, MachineReads, MachineWrites
<1>18. ASSUME NEW t \in Ids, TaskEvent(t) \/ NetworkEvent(t) PROVE ReadyTrue'
  BY <1>16, <1>18 DEF TaskEvent, NetworkEvent
<1>19. ASSUME NEW t \in Ids, TaskFinishes(t) \/ TaskFails(t) PROVE ReadyTrue'
  <2>1. t \in InFlight /\ UNCHANGED <<passVars, ntask>>
    BY <1>19 DEF TaskFinishes, TaskFails, InFlight
  <2>2. CASE pc # "setwait"
    BY <2>1, <2>2 DEF ReadyTrue, TaskTracked, SubmitPCs
  <2>3. CASE pc = "setwait"
    <3>1. t = ntask /\ Exists(ref) /\ EditedVM
      BY <2>1, <2>3 DEF TaskTracked, ReadyTrue
    <3>2. ~TaskFails(t)
      BY <3>1 DEF TaskFails, EditedVM, Fault, AddressesSet
    <3>3. tasks' = [tasks EXCEPT ![t].st = "finished"] /\ vms' = TaskEffect(t)
      BY <1>19, <3>1, <3>2 DEF TaskFinishes, EditedVM
    <3>4. /\ tasks'[t].kind = tasks[t].kind /\ tasks'[t].vm = tasks[t].vm
      BY <3>3 DEF TypeOK, Task
    <3>5. \/ tasks[t].kind = "set" /\ vms' = [vms EXCEPT ![ref].nic2 = "addr"]
          \/ tasks[t].kind = "blank" /\ vms' = [vms EXCEPT ![ref].nic2 = "blank"]
      BY <3>1, <3>3 DEF TaskEffect, EditedVM
    <3>6. /\ vms'[ref].power = vms[ref].power /\ vms'[ref].ip = vms[ref].ip
          /\ tasks[t].kind = "set" => vms'[ref].nic2 = "addr"
      BY <1>0, <3>1, <3>5 DEF EditedVM, VM
    <3>7. Exists(ref)'
      BY <2>1, <3>1, <3>6 DEF Exists
    <3>8. EditedVM'
      BY <2>1, <3>1, <3>4, <3>6 DEF EditedVM
    <3> QED BY <2>1, <2>3, <3>6, <3>7, <3>8 DEF ReadyTrue
  <2> QED BY <2>2, <2>3
<1>20. ASSUME NEW v \in Ids, ReportIP(v) PROVE ReadyTrue'
  <2>1. /\ UNCHANGED <<passVars, tasks, ntask>> /\ InFlight' = InFlight
        /\ vms' = [vms EXCEPT ![v].ip = TRUE]
    BY <1>20, SameInFlight DEF ReportIP
  <2>2. \A w \in Ids : /\ vms'[w].power = vms[w].power /\ vms'[w].nic2 = vms[w].nic2
                       /\ vms[w].ip => vms'[w].ip
    BY <1>0, <2>1 DEF VM
  <2>3. ref # 0 => ref \in Ids
    BY <1>0, IdFacts
  <2>4. pc = "finish" /\ icsvm.ready /\ ~before.ready => icsvm.bios \in Ids
    BY <1>0, FieldTypes, IdFacts DEF CopiesTracked, CopiesAgree
  <2>5. pc \in NetPCs => ref # 0
    BY DEF CopiesTracked, FoundVM
  <2>6. pc = "finish" /\ icsvm.ready /\ ~before.ready => NICHasAddress(icsvm.bios)'
    BY <2>1, <2>2, <2>4 DEF ReadyTrue, NICHasAddress, Exists
  <2>7. pc \in {"setvm", "setwait"} => Exists(ref)'
    BY <2>1, <2>2, <2>3 DEF ReadyTrue, Exists
  <2>8. pc = "setwait" => EditedVM'
    BY <2>1, <2>2 DEF ReadyTrue, EditedVM, Running
  <2> QED BY <2>1, <2>2, <2>3, <2>5, <2>6, <2>7, <2>8 DEF ReadyTrue
<1>21. ASSUME NEW v \in Ids, OutOfBand(v) PROVE ReadyTrue'
  BY <1>21 DEF OutOfBand, Fault, AddressesSet, Undisturbed
<1> QED
  BY <1>3, <1>4, <1>5, <1>6, <1>7, <1>8, <1>9, <1>10, <1>11, <1>12, <1>13, <1>14, <1>15, <1>17,
     <1>18, <1>19, <1>20, <1>21, <1>22, <1>23, <1>24 DEF Next, Pass, Environment

LEMMA ReadyTrueAlways == AddressesSet => (Spec => []ReadyTrue)
<1> SUFFICES ASSUME AddressesSet PROVE Spec => []ReadyTrue OBVIOUS
<1>1. Init => ReadyTrue
  BY DEF Init, ReadyTrue
<1>2. TypeOK /\ TaskTracked /\ CopiesTracked /\ ReadyTrue /\ [Next]_vars => ReadyTrue'
  <2> SUFFICES ASSUME TypeOK, TaskTracked, CopiesTracked, ReadyTrue, [Next]_vars
               PROVE  ReadyTrue'
    OBVIOUS
  <2>1. CASE UNCHANGED vars
    BY <2>1, SameInFlight DEF ReadyTrue, EditedVM, NICHasAddress, Exists, Running, vars,
       passVars, icenterVars
  <2> QED BY <2>1, ReadyTrueStep
<1>3. Spec => []TaskTracked /\ [](CopiesTracked /\ mread = NotReading)
  BY TrackedAlways, CopiesAlways DEF AddressesSet, Undisturbed
<1> QED BY <1>1, <1>2, <1>3, TypeCorrect, PTL DEF Spec

\* Ready is published only at a moment when the VM that Spec.BiosUUID names runs in iCenter
\* with an address, although the pass saw that several calls earlier: as long as no task is
\* lost sight of, patches are whole, nobody else writes the UUID, SetVM succeeds and nobody
\* touches the VM behind the controller's back.  Other failed lookups, tasks and calls do not
\* matter.
THEOREM ReadyHonest == AddressesSet => (Spec => ReadyIsHonest)
<1> SUFFICES ASSUME AddressesSet PROVE Spec => ReadyIsHonest OBVIOUS
<1> DEFINE Honest == obj'.ready /\ ~obj.ready
                     => obj'.bios # 0 /\ NICHasAddress(obj'.bios)
<1>1. /\ TypeOK /\ CopiesTracked /\ mread = NotReading /\ ReadyTrue /\ [Next]_vars
      => [Honest]_vars
  <2> SUFFICES ASSUME TypeOK, CopiesTracked, mread = NotReading, ReadyTrue, Next,
                      obj'.ready, ~obj.ready
               PROVE  obj'.bios # 0 /\ NICHasAddress(obj'.bios)
    OBVIOUS
  <2>1. PICK a \in BOOLEAN, b \in BOOLEAN : pc # "idle" /\ Patch(a, b)
    BY PublishingSteps DEF Pub
  <2>2. obj'.bios = icsvm.bios /\ icsvm.ready /\ ~before.ready /\ obj'.bios # 0
    BY <2>1, PatchPublishes DEF CopiesTracked, AddressesSet, Undisturbed
  <2>3. pc = "finish"
    BY <2>1, <2>2 DEF CopiesTracked, CopiesAgree
  <2> QED BY <2>2, <2>3 DEF ReadyTrue
<1>2. Spec => [](CopiesTracked /\ mread = NotReading) /\ []ReadyTrue
  BY CopiesAlways, ReadyTrueAlways DEF AddressesSet, Undisturbed
<1> QED BY <1>1, <1>2, TypeCorrect, PTL DEF Spec, ReadyIsHonest

(***************************************************************************)
(* One VM for an ICSVM.                                                    *)
(***************************************************************************)

\* Besides: no call of findVM fails, and no addresses are patched in the middle of a pass
\* that may have to take back the identifiers stored with them.
VMKnown == Undisturbed /\ "find" \notin Faults /\ ~ControlPlane

\* The task may remove its VM.
Removing(t) == tasks[t].kind \notin {"create", "set", "blank", "on", "off"}

\* Spec.BiosUUID names the VM if there is one; and if a task may remove that VM, it is named
\* no longer, or the ICSVM is being deleted, or the pass is about to drop the name.
NamesVM(o, m) == o.bios # 0 => Owned \subseteq {o.bios} /\ (m => Exists(o.bios))
Identified ==
  /\ \A t \in Ids : tasks[t].kind = "create" => tasks[t].vm = t
  /\ OneVM
  /\ pc = "idle" /\ obj.exists => NamesVM(obj, ~obj.deleting)
  /\ pc # "idle" => NamesVM(icsvm, mode = "normal")
  /\ pc # "idle" => obj.bios = before.bios
  /\ pc \in {"create", "early"} => icsvm.bios = 0
  /\ pc = "create" => Owned = {}
  /\ pc # "netpatch"
  /\ pc # "idle" /\ mode = "delete" /\ obj.exists => obj.deleting
  /\ pc = "finish" /\ mode = "failed" => icsvm.bios = 0
  /\ (\E t \in InFlight : Removing(t)) =>
       /\ pc = "idle" /\ obj.exists => obj.bios = 0 \/ obj.deleting
       /\ pc # "idle" /\ mode = "normal" => icsvm.bios = 0
       /\ pc # "idle" /\ mode = "failed" => pc \in {"cleanup", "finish"}

LEMMA SameVMs ==
  ASSUME UNCHANGED <<tasks, vms>>
  PROVE  /\ Owned' = Owned /\ InFlight' = InFlight
         /\ \A v : Exists(v)' = Exists(v)
         /\ \A t \in Ids : Removing(t)' = Removing(t)
  BY DEF Owned, InFlight, Running, Exists, Removing

\* A submitted task changes no VM; only a clone adds to those that the ICSVM owns.
LEMMA SubmitVMs ==
  ASSUME TypeOK, NEW kind \in TaskKinds, NEW v \in IdOr0, Submit(kind, v)
  PROVE  /\ Owned' \subseteq Owned \cup {ntask + 1}
         /\ kind # "create" => Owned' \subseteq Owned
         /\ \A w : Exists(w)' = Exists(w)
         /\ \A t \in Ids : tasks'[t] = IF t # ntask + 1 THEN tasks[t]
              ELSE [kind |-> kind, vm |-> IF kind = "create" THEN ntask + 1 ELSE v, st |-> "run"]
<1>1. ntask + 1 \in Ids /\ vms' = vms
  BY SubmitType DEF TypeOK
<1>2. \A t \in Ids : tasks'[t] = IF t # ntask + 1 THEN tasks[t]
        ELSE [kind |-> kind, vm |-> IF kind = "create" THEN ntask + 1 ELSE v, st |-> "run"]
  BY <1>1 DEF Submit, TypeOK
<1>3. \A w : Exists(w)' = Exists(w)
  BY <1>1 DEF Exists
<1>4. \A w \in Ids : w # ntask + 1 => tasks'[w] = tasks[w]
  BY <1>2
<1>5. kind # "create" => tasks'[ntask + 1].kind # "create"
  BY <1>1, <1>2
<1>6. ASSUME NEW w \in Owned', w # ntask + 1 \/ kind # "create" PROVE w \in Owned
  <2>1. w \in Ids /\ (Exists(w)' \/ (tasks'[w].kind = "create" /\ tasks'[w].st = "run"))
    BY <1>6 DEF Owned
  <2>2. CASE w # ntask + 1
    BY <1>3, <1>4, <2>1, <2>2 DEF Owned
  <2>3. CASE w = ntask + 1
    BY <1>3, <1>5, <1>6, <2>1, <2>3 DEF Owned
  <2> QED BY <2>2, <2>3
<1> QED BY <1>2, <1>3, <1>6

\* A task that ends: a clone becomes a VM, or not; only a removal takes one away.
LEMMA TaskEndsVMs ==
  ASSUME TypeOK, \A t \in Ids : tasks[t].kind = "create" => tasks[t].vm = t,
         NEW t \in Ids, TaskFinishes(t) \/ TaskFails(t)
  PROVE  /\ Owned' \subseteq Owned /\ InFlight' \subseteq InFlight /\ t \in InFlight
         /\ \A s \in Ids : tasks'[s].kind = tasks[s].kind /\ tasks'[s].vm = tasks[s].vm
         /\ ~Removing(t) => \A v \in Ids : Exists(v) => Exists(v)'
<1>0. tasks \in [Ids -> Task] /\ vms \in [Ids -> VM]
  BY DEF TypeOK
<1>1. PICK st \in {"finished", "error", "canceled"} : tasks' = [tasks EXCEPT ![t].st = st]
  BY DEF TaskFinishes, TaskFails
<1>2. \A s \in Ids : /\ tasks'[s].kind = tasks[s].kind /\ tasks'[s].vm = tasks[s].vm
                     /\ tasks'[s].st = IF s = t THEN st ELSE tasks[s].st
  BY <1>0, <1>1 DEF Task
<1>3. t \in InFlight /\ Running(t)
  BY DEF TaskFinishes, TaskFails, InFlight
<1>4. InFlight' \subseteq InFlight
  <2>1. \A s \in Ids : tasks'[s].st = "run" => tasks[s].st = "run"
    BY <1>2
  <2> QED BY <2>1, Zenon DEF InFlight, Running
<1>5. \/ vms' = vms
      \/ vms' = TaskEffect(t) /\ (tasks[t].kind = "create" \/ Exists(tasks[t].vm))
  BY DEF TaskFinishes, TaskFails
<1>6. \A v \in Ids : v # tasks[t].vm => Exists(v)' = Exists(v)
  <2>1. \A v \in Ids : v # tasks[t].vm => vms'[v] = vms[v]
    BY <1>0, <1>5 DEF TaskEffect
  <2> QED BY <2>1 DEF Exists
<1>7. \A v \in Ids : Exists(v)' => v \in Owned
  <2> TAKE v \in Ids
  <2>1. CASE v # tasks[t].vm \/ vms' = vms
    BY <1>6, <2>1 DEF Owned, Exists
  <2>2. CASE v = tasks[t].vm /\ vms' # vms
    <3>1. CASE Exists(v)
      BY <3>1 DEF Owned
    <3>2. CASE tasks[t].kind = "create"
      BY <1>3, <2>2, <3>2 DEF Owned, Running
    <3> QED BY <1>5, <2>2, <3>1, <3>2
  <2> QED BY <2>1, <2>2
<1>8. Owned' \subseteq Owned
  <2> SUFFICES ASSUME NEW v \in Owned' PROVE v \in Owned OBVIOUS
  <2>1. v \in Ids /\ (Exists(v)' \/ (tasks'[v].kind = "create" /\ tasks'[v].st = "run"))
    BY DEF Owned
  <2>2. tasks'[v].kind = "create" /\ tasks'[v].st = "run" => v \in Owned
    BY <1>2, <2>1 DEF Owned
  <2> QED BY <1>7, <2>1, <2>2
<1>9. ASSUME ~Removing(t), NEW v \in Ids, Exists(v) PROVE Exists(v)'
  <2>1. vms[v].power # "absent" /\ v # 0
    BY <1>9 DEF Exists
  <2>2. CASE v # tasks[t].vm \/ vms' = vms
    BY <1>6, <1>9, <2>2 DEF Exists
  <2>3. CASE v = tasks[t].vm /\ vms' = TaskEffect(t)
    <3>1. tasks[t].kind \in {"create", "set", "blank", "on", "off"}
      BY <1>9 DEF Removing
    <3>2. CASE tasks[t].kind = "create"
      BY <1>0, <2>1, <2>3, <3>2 DEF TaskEffect, NoVM, Exists
    <3>3. CASE tasks[t].kind \in {"set", "blank"}
      BY <1>0, <2>1, <2>3, <3>3 DEF TaskEffect, VM, Exists
    <3>4. CASE tasks[t].kind \in {"on", "off"}
      BY <1>0, <2>1, <2>3, <3>4 DEF TaskEffect, VM, Exists
    <3> QED BY <3>1, <3>2, <3>3, <3>4
  <2> QED BY <1>5, <2>2, <2>3
<1> QED BY <1>2, <1>3, <1>4, <1>8, <1>9

\* A step of a pass that neither names a VM nor touches one.
LEMMA QuietIdentity ==
  ASSUME Identified, pc # "idle", pc' \notin {"idle", "create", "early", "netpatch"},
         UNCHANGED <<obj, before, tasks, vms>>, icsvm'.bios = icsvm.bios,
         mode' \in {mode, "failed"},
         mode' = "failed" => pc' = "cleanup" \/ (InFlight = {} /\ pc' # "finish")
  PROVE  Identified'
<1>1. /\ Owned' = Owned /\ InFlight' = InFlight /\ Exists(icsvm.bios)' = Exists(icsvm.bios)
      /\ \A t \in Ids : Removing(t)' = Removing(t)
  BY SameVMs
<1>2. (\E t \in InFlight : Removing(t))' = (\E t \in InFlight : Removing(t))
  BY <1>1 DEF InFlight
<1>3. NamesVM(icsvm, mode = "normal")'
  BY <1>1 DEF Identified, NamesVM, Exists
<1>4. OneVM'
  BY <1>1 DEF Identified, OneVM
<1> QED BY <1>1, <1>2, <1>3, <1>4 DEF Identified

\* A step of a pass that submits a task other than a clone.
LEMMA SubmitIdentity ==
  ASSUME TypeOK, Identified, InFlight = {}, pc # "idle",
         pc' \notin {"idle", "create", "early", "netpatch"},
         UNCHANGED <<obj, before, mode>>, icsvm'.bios = icsvm.bios,
         NEW kind \in TaskKinds \ {"create"}, NEW v \in IdOr0, Submit(kind, v),
         mode = "failed" => pc' = "cleanup", mode = "normal" => kind # "del"
  PROVE  Identified'
<1>1. /\ Owned' \subseteq Owned /\ Exists(icsvm.bios)' = Exists(icsvm.bios)
      /\ \A t \in Ids : tasks'[t] = IF t # ntask + 1 THEN tasks[t]
              ELSE [kind |-> kind, vm |-> v, st |-> "run"]
  BY SubmitVMs
<1>2. InFlight' = {ntask + 1} /\ ntask + 1 \in Ids
  BY SubmitInFlight, SubmitType DEF TypeOK
<1>3. \A t \in Ids : tasks'[t].kind = "create" => tasks'[t].vm = t
  BY <1>1 DEF Identified
<1>4. tasks'[ntask + 1].kind = kind
  BY <1>1, <1>2
<1>5. ASSUME mode = "normal", NEW t \in InFlight' PROVE ~Removing(t)'
  BY <1>2, <1>4, <1>5 DEF Removing, TaskKinds
<1>6. NamesVM(icsvm, mode = "normal")'
  BY <1>1 DEF Identified, NamesVM, Exists
<1>7. OneVM'
  BY <1>1 DEF Identified, OneVM
<1>8. pc' # "create" /\ pc' # "early" /\ pc' # "idle" /\ pc' # "netpatch"
  OBVIOUS
<1> HIDE DEF InFlight, Removing
<1> QED BY <1>3, <1>5, <1>6, <1>7, <1>8 DEF Identified

\* A step around the pass that removes no VM that is named.
LEMMA OutsideIdentity ==
  ASSUME TypeOK, Identified, UNCHANGED passVars, Owned' \subseteq Owned,
         InFlight' \subseteq InFlight,
         \A t \in Ids : tasks'[t].kind = tasks[t].kind /\ tasks'[t].vm = tasks[t].vm,
         (\E t \in InFlight : Removing(t)) \/ (\A v \in Ids : Exists(v) => Exists(v)'),
         obj'.bios = obj.bios, obj'.exists => obj.exists, obj.deleting => obj'.deleting
  PROVE  Identified'
<1>1. UNCHANGED <<pc, mode, before, icsvm>>
  BY DEF passVars
<1>0. /\ obj.bios # 0 => obj.bios \in Ids
      /\ icsvm.bios # 0 => icsvm.bios \in Ids
  BY FieldTypes, IdFacts DEF TypeOK
<1>2. (\E t \in InFlight : Removing(t))' => \E t \in InFlight : Removing(t)
  BY DEF Removing, InFlight
<1>3. OneVM'
  BY DEF Identified, OneVM
<1>4. pc' = "idle" /\ obj'.exists => NamesVM(obj, ~obj.deleting)'
  <2> SUFFICES ASSUME pc' = "idle", obj'.exists, obj'.bios # 0
               PROVE  Owned' \subseteq {obj'.bios} /\ (~obj'.deleting => Exists(obj.bios)')
    BY DEF NamesVM, Exists
  <2>1. Owned \subseteq {obj.bios} /\ (~obj.deleting => Exists(obj.bios))
    BY <1>1 DEF Identified, NamesVM
  <2>2. CASE \E t \in InFlight : Removing(t)
    BY <1>1, <2>1, <2>2 DEF Identified
  <2>3. CASE \A v \in Ids : Exists(v) => Exists(v)'
    BY <1>0, <2>1, <2>3
  <2> QED BY <2>2, <2>3
<1>5. pc' # "idle" => NamesVM(icsvm, mode = "normal")'
  <2> SUFFICES ASSUME pc' # "idle", icsvm'.bios # 0
               PROVE  Owned' \subseteq {icsvm'.bios} /\ (mode' = "normal" => Exists(icsvm.bios)')
    BY DEF NamesVM, Exists
  <2>1. Owned \subseteq {icsvm.bios} /\ (mode = "normal" => Exists(icsvm.bios))
    BY <1>1 DEF Identified, NamesVM
  <2>2. CASE \E t \in InFlight : Removing(t)
    BY <1>1, <2>1, <2>2 DEF Identified
  <2>3. CASE \A v \in Ids : Exists(v) => Exists(v)'
    BY <1>0, <1>1, <2>1, <2>3 DEF Exists
  <2> QED BY <2>2, <2>3
<1>6. pc' = "create" => Owned' = {}
  BY <1>1 DEF Identified
<1>7. \A t \in Ids : tasks'[t].kind = "create" => tasks'[t].vm = t
  BY DEF Identified
<1> QED BY <1>1, <1>2, <1>3, <1>4, <1>5, <1>6, <1>7 DEF Identified

\* What a whole patch makes of the rest of the ICSVM: it goes only when it is being deleted
\* and its finalizer is removed.
LEMMA PatchedLife ==
  ASSUME obj \in ICSVM, before \in ICSVM, icsvm \in ICSVM
  PROVE  LET p == Patched(TRUE, TRUE)
         IN /\ p.exists => obj.exists
            /\ p.deleting = obj.deleting
            /\ obj.exists => p.fin = Written(icsvm.fin, before.fin, obj.fin)
            /\ obj.exists /\ ~p.exists => obj.deleting /\ ~p.fin
            /\ p.exists => ~(obj.deleting /\ ~p.fin)
  BY DEF Patched, SpecPatched, StatusPatched, Written, ICSVM

LEMMA PassIdentity ==
  ASSUME VMKnown, TypeOK, TaskTracked, CopiesTracked, Identified, Pass
  PROVE  Identified'
<1> USE DEF passVars, icenterVars, Return
<1>0. /\ obj \in ICSVM /\ icsvm \in ICSVM /\ before \in ICSVM /\ ref \in IdOr0
      /\ mode \in {"normal", "delete", "failed"}
  BY DEF TypeOK
<1>1. CASE SkipPass
  BY <1>1, SameVMs, OutsideIdentity DEF SkipPass
<1>2. CASE BeginPass
  <2>1. cache = obj /\ obj.exists /\ pc = "idle" /\ UNCHANGED <<obj, tasks, vms>>
    BY <1>2 DEF BeginPass, VMKnown, Undisturbed, SoleWriter
  <2>2. /\ before' = obj /\ pc' = "connect" /\ icsvm'.bios = obj.bios
        /\ mode' = IF obj.deleting THEN "delete" ELSE "normal"
    BY <1>0, <1>2, <2>1 DEF BeginPass, ICSVM
  <2>3. /\ Owned' = Owned /\ InFlight' = InFlight /\ Exists(obj.bios)' = Exists(obj.bios)
        /\ \A t \in Ids : Removing(t)' = Removing(t)
    BY <2>1, SameVMs
  <2>4. (\E t \in InFlight : Removing(t))' = (\E t \in InFlight : Removing(t))
    BY <2>3 DEF InFlight
  <2>5. NamesVM(icsvm, mode = "normal")'
    BY <2>1, <2>2, <2>3 DEF Identified, NamesVM, Exists
  <2>6. OneVM'
    BY <2>3 DEF Identified, OneVM
  <2> QED BY <2>1, <2>2, <2>4, <2>5, <2>6 DEF Identified
<1>3. CASE ConnectOK \/ ConnectFails
  <2>1. /\ pc = "connect" /\ pc' \in {"task", "finish", "release"} /\ mode' = mode
        /\ UNCHANGED <<obj, before, tasks, vms, icsvm>>
    BY <1>3 DEF ConnectOK, ConnectFails
  <2> QED BY <2>1, QuietIdentity DEF CopiesTracked, Route
<1>4. CASE CheckTask
  <2>1. /\ icsvm' \in {icsvm, [icsvm EXCEPT !.taskRef = 0]} /\ pc = "task" /\ mode' = mode
        /\ UNCHANGED <<obj, before, tasks, vms>>
    BY <1>4 DEF CheckTask
  <2>2. \/ pc' = "find" /\ ~TaskInFlight(icsvm.taskRef)
        \/ pc' = IF mode = "failed" THEN "cleanup" ELSE "finish"
    BY <1>4 DEF CheckTask, ReturnOrCleanup, VMKnown, Undisturbed, TasksVisible, Fault
  <2>3. ~TaskInFlight(icsvm.taskRef) => InFlight = {}
    BY <2>1 DEF TaskTracked, InFlight, TaskInFlight, Running
  <2>4. icsvm'.bios = icsvm.bios
    BY <1>0, <2>1 DEF ICSVM
  <2> QED BY <2>1, <2>2, <2>3, <2>4, QuietIdentity
<1>5. CASE FindVM
  <2>1. /\ pc = "find" /\ mode' = mode /\ UNCHANGED <<obj, before, tasks, vms, icsvm>>
        /\ InFlight = {}
    BY <1>5 DEF FindVM, TaskTracked, SubmitPCs
  <2>2. PICK v \in Findings : IF v = 0 THEN VMNotFound ELSE VMFound(v)
    BY <1>5 DEF FindVM
  <2>3. CASE v = 0 /\ mode = "normal"
    <3>1. icsvm.bios = 0 /\ Named = {}
      BY <2>1, <2>2, <2>3 DEF Identified, NamesVM, Findings, Named, Exists
    <3>2. Owned = {}
      <4>1. \A w \in Ids : ~Exists(w) /\ ~Running(w)
        BY <2>1, <3>1 DEF Named, InFlight
      <4>2. \A w \in Ids : w # 0
        BY BoundsAssumption DEF Ids
      <4> QED BY <4>1, <4>2 DEF Owned, Running
    <3>3. pc' = "create"
      BY <2>2, <2>3 DEF VMNotFound
    <3>4. Owned' = {} /\ InFlight' = {}
      BY <2>1, <3>2, SameVMs
    <3>5. NamesVM(icsvm, mode = "normal")'
      BY <2>1, <3>1 DEF NamesVM
    <3>6. OneVM'
      BY <3>4 DEF OneVM
    <3>7. \A t \in Ids : tasks'[t].kind = "create" => tasks'[t].vm = t
      BY <2>1 DEF Identified
    <3> QED BY <2>1, <2>3, <3>1, <3>3, <3>4, <3>5, <3>6, <3>7 DEF Identified
  <2>4. CASE v = 0 /\ mode # "normal"
    <3>1. pc' \in {"release", "cleanup"}
      BY <2>2, <2>4 DEF VMNotFound
    <3> QED BY <2>1, <3>1, QuietIdentity
  <2>5. CASE v # 0
    <3>1. pc' \in {"uuid", "destroy"}
      BY <2>2, <2>5 DEF VMFound
    <3> QED BY <2>1, <3>1, QuietIdentity
  <2> QED BY <2>3, <2>4, <2>5
<1>6. CASE FindVMFails
  BY <1>6 DEF FindVMFails, Fault, VMKnown
<1>7. CASE CreateVM
  <2>1. /\ pc = "create" /\ pc' = "early" /\ Submit("create", 0) /\ UNCHANGED <<obj, before, mode>>
        /\ mode = "normal" /\ icsvm.bios = 0 /\ Owned = {}
    BY <1>7 DEF CreateVM, CopiesTracked, Route, Identified
  <2>2. icsvm'.bios = 0
    BY <1>0, <1>7, <2>1 DEF CreateVM, ICSVM
  <2>3. /\ Owned' \subseteq {ntask + 1}
        /\ \A t \in Ids : tasks'[t] = IF t # ntask + 1 THEN tasks[t]
              ELSE [kind |-> "create", vm |-> ntask + 1, st |-> "run"]
    BY <2>1, IdFacts, SubmitVMs DEF TaskKinds
  <2>4. OneVM'
    BY <2>3 DEF OneVM
  <2>5. \A t \in Ids : tasks'[t].kind = "create" => tasks'[t].vm = t
    BY <2>3 DEF Identified
  <2>6. NamesVM(icsvm, mode = "normal")'
    BY <2>2 DEF NamesVM
  <2> QED BY <2>1, <2>2, <2>4, <2>5, <2>6 DEF Identified
<1>8. CASE CreateVMFails \/ HookAndReturn \/ ReconcileUUID \/ ReconcileNetworkStatusFails
  <2>1. /\ pc \in {"create", "hook", "uuid", "net"} /\ pc' \in {"finish", "net"} /\ mode' = mode
        /\ UNCHANGED <<obj, before, tasks, vms, icsvm>>
    BY <1>8 DEF CreateVMFails, HookAndReturn, ReconcileUUID, ReconcileNetworkStatusFails
  <2> QED BY <2>1, QuietIdentity DEF CopiesTracked, Route
<1>9. CASE EarlyPatch
  <2>1. /\ pc = "early" /\ pc' = "hook" /\ mode' = mode /\ mode = "normal"
        /\ UNCHANGED <<before, tasks, vms, icsvm>>
    BY <1>9 DEF EarlyPatch, CopiesTracked, Route
  <2>2. icsvm.bios = 0 /\ before.bios = 0 /\ obj.bios = 0
    BY <2>1 DEF Identified, CopiesTracked, CopiesAgree
  <2>3. obj' = Patched(TRUE, TRUE)
    BY <1>9, PatchWhole DEF EarlyPatch, VMKnown, Undisturbed
  <2>4. obj'.bios = 0
    BY <1>0, <2>2, <2>3, PatchedPublished DEF Written
  <2>5. Owned' = Owned
    BY <2>1, SameVMs
  <2>6. OneVM' /\ NamesVM(icsvm, mode = "normal")'
    BY <2>1, <2>2, <2>5 DEF Identified, OneVM, NamesVM
  <2> QED BY <2>1, <2>2, <2>4, <2>6 DEF Identified
<1>10. CASE ReconcileNetworkStatus
  <2>1. /\ pc = "net" /\ pc' \in {"setvm", "power"} /\ mode' = mode /\ mode = "normal"
        /\ UNCHANGED <<obj, before, tasks, vms, ref>> /\ Exists(ref) /\ InFlight = {}
    BY <1>10 DEF ReconcileNetworkStatus, ReportNetwork, CopiesTracked, Route, VMKnown,
       TaskTracked, SubmitPCs
  <2>2. icsvm'.bios = ref
    BY <1>0, <1>10 DEF ReconcileNetworkStatus, ReportNetwork, ICSVM
  <2>3. ref \in Owned
    BY <1>0, <2>1, IdFacts DEF Owned, Exists
  <2>4. Owned \subseteq {ref}
    BY <2>3 DEF Identified, OneVM
  <2>5. Owned' = Owned /\ InFlight' = {} /\ Exists(ref)' = Exists(ref)
    BY <2>1, SameVMs
  <2>6. OneVM' /\ NamesVM(icsvm, mode = "normal")'
    BY <2>1, <2>2, <2>4, <2>5 DEF Identified, OneVM, NamesVM, Exists
  <2> QED BY <2>1, <2>2, <2>5, <2>6 DEF Identified
<1>11. CASE PatchAddresses
  BY <1>11 DEF PatchAddresses, Identified
<1>21. CASE SetVM
  <2>1. /\ pc = "setvm" /\ pc' = "setwait" /\ UNCHANGED <<obj, before, mode, icsvm>>
        /\ InFlight = {} /\ mode = "normal"
    BY <1>21 DEF SetVM, TaskTracked, SubmitPCs, CopiesTracked, Route
  <2>2. PICK kind \in {"set", "blank"} : Submit(kind, ref)
    BY <1>21 DEF SetVM
  <2> QED BY <1>0, <2>1, <2>2, SubmitIdentity DEF TaskKinds
<1>22. CASE SetVMFails \/ WaitSetVM
  <2>1. /\ pc \in {"setvm", "setwait"} /\ pc' = "power" /\ UNCHANGED <<obj, before, tasks, vms, mode>>
        /\ mode = "normal"
    BY <1>22 DEF SetVMFails, WaitSetVM, ReportNetwork, CopiesTracked, Route, VMKnown
  <2>2. icsvm'.bios = icsvm.bios
    BY <1>0, <1>22 DEF SetVMFails, WaitSetVM, ReportNetwork, ICSVM
  <2> QED BY <2>1, <2>2, QuietIdentity
<1>12. CASE PowerOn
  <2>1. /\ pc = "power" /\ pc' = "waiton" /\ Submit("on", ref) /\ UNCHANGED <<obj, before, mode>>
        /\ InFlight = {} /\ mode = "normal"
    BY <1>12 DEF PowerOn, TaskTracked, SubmitPCs, CopiesTracked, Route
  <2>2. icsvm'.bios = icsvm.bios
    BY <1>0, <1>12 DEF PowerOn, ICSVM
  <2> QED BY <1>0, <2>1, <2>2, SubmitIdentity DEF TaskKinds
<1>13. CASE PowerStateFails
  <2>1. /\ pc = "power" /\ UNCHANGED <<obj, before, tasks, vms, icsvm>> /\ InFlight = {}
        /\ mode = "normal"
        /\ (pc' = "finish" /\ mode' = mode) \/ (pc' = "task" /\ mode' = "failed")
    BY <1>13 DEF PowerStateFails, PoweringOnFailed, TaskTracked, SubmitPCs, CopiesTracked, Route
  <2> QED BY <2>1, QuietIdentity
<1>14. CASE WaitPowerOn
  <2>1. /\ pc = "waiton" /\ UNCHANGED <<obj, before, tasks, vms, icsvm>> /\ mode = "normal"
        /\ \/ pc' = "hook" /\ mode' = mode
           \/ pc' = "task" /\ mode' = "failed" /\ ~Running(icsvm.taskRef)
    BY <1>14 DEF WaitPowerOn, PoweringOnFailed, CopiesTracked, Route
  <2>2. ~Running(icsvm.taskRef) => InFlight = {}
    BY <2>1 DEF TaskTracked, InFlight
  <2> QED BY <2>1, <2>2, QuietIdentity
<1>15. CASE PoweredOn
  <2>1. /\ pc = "power" /\ pc' = "finish" /\ UNCHANGED <<obj, before, tasks, vms, mode>>
        /\ mode = "normal" /\ icsvm.bios = ref /\ uuid \in {0, ref}
    BY <1>15 DEF PoweredOn, CopiesTracked, Route, FoundVM
  <2>2. icsvm'.bios = icsvm.bios
    BY <1>0, <1>15, <2>1 DEF PoweredOn, ICSVM
  <2> QED BY <2>1, <2>2, QuietIdentity
<1>16. CASE Destroy
  <2>1. /\ pc = "destroy" /\ mode # "normal" /\ UNCHANGED <<obj, before, mode>> /\ InFlight = {}
        /\ pc' = IF mode = "failed" THEN "cleanup" ELSE "finish"
    BY <1>16 DEF Destroy, ReturnOrCleanup, CopiesTracked, Route, TaskTracked, SubmitPCs
  <2>2. icsvm'.bios = icsvm.bios
    BY <1>0, <1>16 DEF Destroy, ICSVM
  <2>3. PICK kind \in {"off", "del"} : Submit(kind, ref)
    BY <1>16 DEF Destroy
  <2> QED BY <1>0, <2>1, <2>2, <2>3, SubmitIdentity DEF TaskKinds
<1>17. CASE DestroyFails
  <2>1. /\ pc = "destroy" /\ UNCHANGED <<obj, before, tasks, vms, icsvm, mode>>
        /\ pc' = IF mode = "failed" THEN "cleanup" ELSE "finish"
    BY <1>17 DEF DestroyFails, ReturnOrCleanup
  <2> QED BY <2>1, QuietIdentity
<1>18. CASE Cleanup
  <2>1. /\ pc = "cleanup" /\ pc' = "finish" /\ UNCHANGED <<obj, before, tasks, vms, mode>>
        /\ mode = "failed"
    BY <1>18 DEF Cleanup, CopiesTracked, Route
  <2>2. icsvm'.bios = 0
    BY <1>0, <1>18 DEF Cleanup, ICSVM
  <2>3. OneVM' /\ NamesVM(icsvm, mode = "normal")'
    BY <2>1, <2>2, SameVMs DEF Identified, OneVM, NamesVM
  <2> QED BY <2>1, <2>2, <2>3 DEF Identified
<1>19. CASE ReleaseVM
  <2>1. /\ pc = "release" /\ pc' = "finish" /\ UNCHANGED <<obj, before, tasks, vms, mode>>
        /\ mode = "delete"
    BY <1>19 DEF ReleaseVM, CopiesTracked, Route
  <2>2. icsvm'.bios = icsvm.bios
    BY <1>0, <1>19 DEF ReleaseVM, ICSVM
  <2> QED BY <2>1, <2>2, QuietIdentity
<1>20. CASE Finish
  <2>1. pc = "finish" /\ pc' = "idle" /\ UNCHANGED <<tasks, vms>>
    BY <1>20 DEF Finish, EndPass
  <2>2. obj' = Patched(TRUE, TRUE)
    BY <1>20, PatchWhole DEF Finish, VMKnown, Undisturbed
  <2>3. obj'.exists => obj.exists /\ obj'.bios = icsvm.bios /\ obj'.deleting = obj.deleting
    BY <1>0, <2>1, <2>2, PatchedPublished, PatchedLife DEF Written, Identified
  <2>4. /\ Owned' = Owned /\ InFlight' = InFlight /\ \A v : Exists(v)' = Exists(v)
        /\ \A t \in Ids : Removing(t)' = Removing(t)
    BY <2>1, SameVMs
  <2>5. (\E t \in InFlight : Removing(t))' = (\E t \in InFlight : Removing(t))
    BY <2>4 DEF InFlight
  <2>6. OneVM'
    BY <2>4 DEF Identified, OneVM
  <2>7. obj'.exists => NamesVM(obj, ~obj.deleting)'
    <3> SUFFICES ASSUME obj'.exists, obj'.bios # 0
                 PROVE  Owned' \subseteq {obj'.bios} /\ (~obj'.deleting => Exists(obj.bios)')
      BY DEF NamesVM
    <3>1. mode # "failed" /\ (mode = "delete" => obj.deleting)
      BY <2>1, <2>3 DEF Identified
    <3>2. Owned \subseteq {icsvm.bios} /\ (mode = "normal" => Exists(icsvm.bios))
      BY <2>1, <2>3 DEF Identified, NamesVM
    <3>3. Exists(obj.bios)' = Exists(icsvm.bios)
      BY <2>1, <2>3 DEF Exists
    <3> QED BY <1>0, <2>3, <2>4, <3>1, <3>2, <3>3
  <2>8. (\E t \in InFlight : Removing(t))' /\ obj'.exists => obj'.bios = 0 \/ obj'.deleting
    BY <1>0, <2>1, <2>3, <2>5 DEF Identified
  <2> QED BY <2>1, <2>6, <2>7, <2>8 DEF Identified
<1> QED
  BY <1>1, <1>2, <1>3, <1>4, <1>5, <1>6, <1>7, <1>8, <1>9, <1>10, <1>11, <1>12, <1>13, <1>14,
     <1>15, <1>16, <1>17, <1>18, <1>19, <1>20, <1>21, <1>22 DEF Pass

LEMMA EnvironmentIdentity ==
  ASSUME VMKnown, TypeOK, Identified, mread = NotReading, Environment
  PROVE  Identified'
<1> USE DEF icenterVars
<1>1. ASSUME UNCHANGED <<passVars, tasks, vms>>, obj'.bios = obj.bios, obj'.exists => obj.exists,
             obj.deleting => obj'.deleting
      PROVE  Identified'
  BY <1>1, SameVMs, OutsideIdentity
<1>2. CASE WatchEvent \/ Resync \/ ClusterEvent \/ MachineReads \/ MachineWrites
  BY <1>1, <1>2 DEF WatchEvent, Resync, ClusterEvent, MachineReads, MachineWrites
<1>3. CASE Restart
  BY <1>3 DEF Restart, Fault, VMKnown, Undisturbed, TasksVisible
<1>4. CASE DeleteICSVM
  <2>1. /\ obj'.bios = obj.bios /\ (obj'.exists => obj.exists)
        /\ obj.deleting => obj'.deleting
    BY <1>4 DEF DeleteICSVM, TypeOK, ICSVM
  <2> QED BY <1>1, <1>4, <2>1 DEF DeleteICSVM
<1>5. ASSUME NEW t \in Ids, TaskEvent(t) \/ NetworkEvent(t) PROVE Identified'
  BY <1>1, <1>5 DEF TaskEvent, NetworkEvent
<1>6. ASSUME NEW t \in Ids, TaskFinishes(t) \/ TaskFails(t) PROVE Identified'
  <2>1. UNCHANGED <<passVars, obj>>
    BY <1>6 DEF TaskFinishes, TaskFails
  <2> QED BY <1>6, <2>1, TaskEndsVMs, OutsideIdentity DEF Identified
<1>7. ASSUME NEW v \in Ids, ReportIP(v) PROVE Identified'
  <2>1. UNCHANGED <<passVars, obj, tasks>> /\ vms' = [vms EXCEPT ![v].ip = TRUE]
    BY <1>7 DEF ReportIP
  <2>2. \A w \in Ids : vms'[w].power = vms[w].power
    BY <2>1 DEF TypeOK, VM
  <2>3. \A w \in Ids : Exists(w)' = Exists(w)
    BY <2>2 DEF Exists
  <2>4. Owned' = Owned /\ InFlight' = InFlight
    BY <2>1, <2>3, SameInFlight DEF Owned
  <2> QED BY <2>1, <2>3, <2>4, OutsideIdentity
<1>8. ASSUME NEW v \in Ids, OutOfBand(v) PROVE Identified'
  BY <1>8 DEF OutOfBand, Fault, VMKnown, Undisturbed
<1> QED
  BY <1>2, <1>3, <1>4, <1>5, <1>6, <1>7, <1>8 DEF Environment

LEMMA IdentityAlways == VMKnown => (Spec => []Identified)
<1> SUFFICES ASSUME VMKnown PROVE Spec => []Identified OBVIOUS
<1>1. Init => Identified
  <2> SUFFICES ASSUME Init PROVE Identified OBVIOUS
  <2>1. Owned = {} /\ InFlight = {}
    BY DEF Init, Owned, InFlight, Running, Exists, NoTask, NoVM
  <2>2. obj.bios = 0 /\ pc = "idle" /\ \A t \in Ids : tasks[t].kind # "create"
    BY DEF Init, Fresh, NoTask
  <2> QED BY <2>1, <2>2 DEF Identified, OneVM, NamesVM
<1>2. /\ TypeOK /\ TaskTracked /\ CopiesTracked /\ mread = NotReading
      /\ Identified /\ [Next]_vars
      => Identified'
  <2> SUFFICES ASSUME TypeOK, TaskTracked, CopiesTracked, mread = NotReading, Identified,
                      [Next]_vars
               PROVE  Identified'
    OBVIOUS
  <2>1. CASE Next
    BY <2>1, PassIdentity, EnvironmentIdentity DEF Next
  <2>2. CASE UNCHANGED vars
    BY <2>2, SameVMs, OutsideIdentity DEF vars, icenterVars
  <2> QED BY <2>1, <2>2
<1>3. Spec => []TaskTracked /\ [](CopiesTracked /\ mread = NotReading)
  BY TrackedAlways, CopiesAlways DEF VMKnown, Undisturbed
<1> QED BY <1>1, <1>2, <1>3, TypeCorrect, PTL DEF Spec

\* ReconcileVM never clones a second VM for the ICSVM of a worker, after any sequence of
\* failed clones, power operations and removals, also when the ICSVM is deleted before its
\* finalizer is stored or iCenter cannot be reached: the UUID that findVM goes by names the
\* VM that there is, and a VM without one is found by its name.
THEOREM OneVMPerICSVM == VMKnown => (Spec => []OneVM)
<1>1. Identified => OneVM
  BY DEF Identified
<1> QED BY IdentityAlways, <1>1, PTL

(***************************************************************************)
(* The finalizer outlives the VM.                                          *)
(***************************************************************************)

\* Besides: iCenter can be reached, and the finalizer is stored before the ICSVM is deleted.
VMReleased == VMKnown /\ Faults \cap {"conn", "early"} = {}

\* The finalizer stays in the API server, and in the working copy, until the VM is gone.
FinalizerHeld ==
  /\ ~obj.exists => pc = "idle" /\ Owned = {}
  /\ obj.exists /\ obj.deleting => obj.fin
  /\ pc # "idle" /\ mode # "delete" => icsvm.fin
  /\ pc # "idle" /\ mode = "delete" => before.fin
  /\ pc # "idle" /\ before.fin => obj.fin
  /\ pc = "release" \/ (pc # "idle" /\ ~icsvm.fin) => Owned = {}

\* A step of a pass that writes no object, changes no finalizer and clones no VM.
LEMMA QuietFinalizer ==
  ASSUME FinalizerHeld, pc # "idle", pc' \notin {"idle", "release"}, UNCHANGED <<obj, before>>,
         icsvm'.fin = icsvm.fin, Owned' \subseteq Owned, mode' = "delete" <=> mode = "delete"
  PROVE  FinalizerHeld'
  BY DEF FinalizerHeld

\* A patch of a working copy that has its finalizer leaves the ICSVM and its finalizer.
LEMMA PatchFinalizer ==
  ASSUME VMReleased, TypeOK, FinalizerHeld, pc # "idle", icsvm.fin,
         NEW a \in BOOLEAN, NEW b \in BOOLEAN, Patch(a, b)
  PROVE  obj'.exists /\ obj'.fin
<1>1. obj \in ICSVM /\ before \in ICSVM /\ icsvm \in ICSVM
  BY DEF TypeOK
<1>2. obj' = Patched(TRUE, TRUE)
  BY PatchWhole DEF VMReleased, VMKnown, Undisturbed
<1>3. obj.exists /\ (before.fin => obj.fin)
  BY DEF FinalizerHeld
<1>4. obj'.fin = Written(icsvm.fin, before.fin, obj.fin)
  BY <1>1, <1>2, <1>3, PatchedLife
<1>5. obj'.fin
  BY <1>1, <1>3, <1>4 DEF Written, ICSVM
<1> QED BY <1>1, <1>2, <1>3, <1>5, PatchedLife

LEMMA PassFinalizer ==
  ASSUME VMReleased, TypeOK, TaskTracked, CopiesTracked, Identified, FinalizerHeld, Pass
  PROVE  FinalizerHeld'
<1> USE DEF passVars, icenterVars, Return
<1>0. /\ obj \in ICSVM /\ icsvm \in ICSVM /\ before \in ICSVM /\ ref \in IdOr0
      /\ mode \in {"normal", "delete", "failed"}
  BY DEF TypeOK
<1>1. CASE SkipPass
  BY <1>1, SameVMs DEF SkipPass, FinalizerHeld
<1>2. CASE BeginPass
  <2>1. cache = obj /\ obj.exists /\ obj' = obj
    BY <1>2 DEF BeginPass, VMReleased, VMKnown, Undisturbed, SoleWriter
  <2>2. /\ before' = obj /\ pc' = "connect"
        /\ mode' = IF obj.deleting THEN "delete" ELSE "normal"
        /\ icsvm' = [obj EXCEPT !.fin = IF obj.deleting THEN @ ELSE TRUE]
    BY <1>2, <2>1 DEF BeginPass
  <2>3. IF obj.deleting THEN icsvm'.fin = obj.fin ELSE icsvm'.fin
    BY <1>0, <2>2 DEF ICSVM
  <2> QED BY <2>1, <2>2, <2>3 DEF FinalizerHeld
<1>3. ASSUME pc # "idle", pc' \notin {"idle", "release"},
             UNCHANGED <<obj, before, tasks, vms, icsvm>>,
             mode' = mode \/ (mode = "normal" /\ mode' = "failed")
      PROVE  FinalizerHeld'
  BY <1>3, SameVMs, QuietFinalizer
<1>4. CASE ConnectOK
  BY <1>3, <1>4 DEF ConnectOK
<1>5. CASE ConnectFails \/ FindVMFails
  BY <1>5 DEF ConnectFails, FindVMFails, Fault, VMReleased, VMKnown
<1>6. CASE CheckTask
  <2>1. /\ icsvm' \in {icsvm, [icsvm EXCEPT !.taskRef = 0]} /\ pc = "task" /\ mode' = mode
        /\ UNCHANGED <<obj, before, tasks, vms>>
    BY <1>6 DEF CheckTask
  <2>2. pc' \in {"find", "cleanup", "finish"}
    BY <1>6 DEF CheckTask, ReturnOrCleanup
  <2>3. icsvm'.fin = icsvm.fin
    BY <1>0, <2>1 DEF ICSVM
  <2> QED BY <2>1, <2>2, <2>3, SameVMs, QuietFinalizer
<1>7. CASE FindVM
  <2>1. /\ pc = "find" /\ mode' = mode /\ UNCHANGED <<obj, before, tasks, vms, icsvm>>
        /\ InFlight = {}
    BY <1>7 DEF FindVM, TaskTracked, SubmitPCs
  <2>2. PICK v \in Findings : IF v = 0 THEN VMNotFound ELSE VMFound(v)
    BY <1>7 DEF FindVM
  <2>3. CASE v = 0 /\ mode = "delete"
    <3>1. \A w \in Ids : ~Running(w) /\ w # 0
      BY <2>1, BoundsAssumption DEF InFlight, Ids
    <3>2. Owned \subseteq Named
      BY <3>1 DEF Owned, Named, Running
    <3>3. CASE icsvm.bios # 0
      <4>1. Owned \subseteq {icsvm.bios} /\ ~Exists(icsvm.bios)
        BY <2>1, <2>2, <2>3, <3>3 DEF Identified, NamesVM, Findings
      <4> QED BY <2>1, <3>2, <4>1, <2>2, <2>3, SameVMs
              DEF FinalizerHeld, VMNotFound, Named
    <3>4. CASE icsvm.bios = 0
      <4>1. Named = {}
        BY <2>2, <2>3, <3>4 DEF Findings, Named, Exists
      <4> QED BY <2>1, <3>2, <4>1, <2>2, <2>3, SameVMs DEF FinalizerHeld, VMNotFound
    <3> QED BY <3>3, <3>4
  <2>4. CASE v = 0 /\ mode # "delete"
    <3>1. pc' \in {"create", "cleanup"}
      BY <2>2, <2>4 DEF VMNotFound
    <3> QED BY <1>3, <2>1, <3>1
  <2>5. CASE v # 0
    <3>1. pc' \in {"uuid", "destroy"}
      BY <2>2, <2>5 DEF VMFound
    <3> QED BY <1>3, <2>1, <3>1
  <2> QED BY <2>3, <2>4, <2>5
<1>8. CASE CreateVM
  <2>1. /\ pc = "create" /\ pc' = "early" /\ mode = "normal" /\ UNCHANGED <<obj, before, mode>>
    BY <1>8 DEF CreateVM, CopiesTracked, Route
  <2>2. icsvm'.fin = icsvm.fin
    BY <1>0, <1>8 DEF CreateVM, ICSVM
  <2> QED BY <2>1, <2>2 DEF FinalizerHeld
<1>9. CASE CreateVMFails \/ HookAndReturn \/ ReconcileUUID \/ ReconcileNetworkStatusFails
  BY <1>3, <1>9 DEF CreateVMFails, HookAndReturn, ReconcileUUID, ReconcileNetworkStatusFails
<1>10. CASE EarlyPatch \/ PatchAddresses
  <2>1. /\ pc \in {"early", "netpatch"} /\ pc' \in {"hook", "power"} /\ mode = "normal"
        /\ UNCHANGED <<before, icsvm, mode, tasks, vms>>
        /\ \E a, b \in BOOLEAN : Patch(a, b)
    BY <1>10 DEF EarlyPatch, PatchAddresses, CopiesTracked, Route
  <2>2. icsvm.fin /\ obj'.exists /\ obj'.fin
    BY <2>1, PatchFinalizer DEF FinalizerHeld
  <2> QED BY <2>1, <2>2 DEF FinalizerHeld
<1>11. CASE ReconcileNetworkStatus \/ SetVMFails \/ WaitSetVM \/ PoweredOn
  <2>1. icsvm'.fin = icsvm.fin
    BY <1>0, <1>11 DEF ReconcileNetworkStatus, SetVMFails, WaitSetVM, ReportNetwork, PoweredOn,
       ICSVM
  <2>2. /\ pc # "idle" /\ pc' \in {"setvm", "netpatch", "power", "finish"} /\ mode' = mode
        /\ UNCHANGED <<obj, before, tasks, vms>>
    BY <1>11 DEF ReconcileNetworkStatus, SetVMFails, WaitSetVM, ReportNetwork, PoweredOn
  <2> QED BY <2>1, <2>2, SameVMs, QuietFinalizer
<1>12. CASE SetVM \/ PowerOn \/ Destroy
  <2>1. icsvm'.fin = icsvm.fin
    BY <1>0, <1>12 DEF SetVM, PowerOn, Destroy, ICSVM
  <2>2. PICK kind \in TaskKinds \ {"create"} : Submit(kind, ref)
    BY <1>12 DEF SetVM, PowerOn, Destroy, TaskKinds
  <2>3. Owned' \subseteq Owned
    BY <1>0, <2>2, SubmitVMs
  <2>4. /\ pc # "idle" /\ pc' \in {"setwait", "waiton", "cleanup", "finish"} /\ mode' = mode
        /\ UNCHANGED <<obj, before>>
    BY <1>12 DEF SetVM, PowerOn, Destroy, ReturnOrCleanup
  <2> QED BY <2>1, <2>3, <2>4, QuietFinalizer
<1>13. CASE PowerStateFails \/ WaitPowerOn
  <2>1. pc \in {"power", "waiton"} /\ UNCHANGED <<obj, before, tasks, vms, icsvm>>
    BY <1>13 DEF PowerStateFails, WaitPowerOn
  <2>2. pc' \in {"finish", "hook", "task"} /\ mode' \in {mode, "failed"}
    BY <1>13 DEF PowerStateFails, WaitPowerOn, PoweringOnFailed
  <2> QED BY <1>3, <2>1, <2>2 DEF CopiesTracked, Route
<1>14. CASE DestroyFails
  BY <1>3, <1>14 DEF DestroyFails, ReturnOrCleanup
<1>15. CASE Cleanup
  <2>1. icsvm'.fin = icsvm.fin
    BY <1>0, <1>15 DEF Cleanup, ICSVM
  <2> QED BY <1>15, <2>1, SameVMs, QuietFinalizer DEF Cleanup
<1>16. CASE ReleaseVM
  <2>1. /\ pc = "release" /\ pc' = "finish" /\ mode = "delete" /\ UNCHANGED <<obj, before, mode>>
        /\ Owned' = {}
    BY <1>16, SameVMs DEF ReleaseVM, CopiesTracked, Route, FinalizerHeld
  <2> QED BY <2>1 DEF FinalizerHeld
<1>17. CASE Finish
  <2>1. pc = "finish" /\ pc' = "idle" /\ Owned' = Owned
    BY <1>17, SameVMs DEF Finish, EndPass
  <2>2. PICK a \in BOOLEAN, b \in BOOLEAN : Patch(a, b)
    BY <1>17 DEF Finish
  <2>3. CASE icsvm.fin
    BY <2>1, <2>2, <2>3, PatchFinalizer DEF FinalizerHeld
  <2>4. CASE ~icsvm.fin
    <3>1. Owned' = {}
      BY <2>1, <2>4 DEF FinalizerHeld
    <3>2. obj' = Patched(TRUE, TRUE)
      BY <2>2, PatchWhole DEF VMReleased, VMKnown, Undisturbed
    <3>3. obj'.exists /\ obj'.deleting => obj'.fin
      BY <1>0, <3>2, PatchedLife
    <3> QED BY <2>1, <3>1, <3>3 DEF FinalizerHeld
  <2> QED BY <2>3, <2>4
<1> QED
  BY <1>1, <1>2, <1>4, <1>5, <1>6, <1>7, <1>8, <1>9, <1>10, <1>11, <1>12, <1>13, <1>14,
     <1>15, <1>16, <1>17 DEF Pass

LEMMA EnvironmentFinalizer ==
  ASSUME VMReleased, TypeOK, Identified, FinalizerHeld, mread = NotReading, Environment
  PROVE  FinalizerHeld'
<1> USE DEF icenterVars
<1>0. obj \in ICSVM
  BY DEF TypeOK
<1>1. ASSUME UNCHANGED <<passVars, obj>>, Owned' \subseteq Owned PROVE FinalizerHeld'
  BY <1>1 DEF FinalizerHeld, passVars
<1>2. CASE WatchEvent \/ Resync \/ ClusterEvent \/ MachineReads \/ MachineWrites
  BY <1>1, <1>2, SameVMs DEF WatchEvent, Resync, ClusterEvent, MachineReads, MachineWrites
<1>3. CASE Restart
  BY <1>3 DEF Restart, Fault, VMReleased, VMKnown, Undisturbed, TasksVisible
<1>4. CASE DeleteICSVM
  <2>1. obj.fin /\ obj.exists /\ obj' = [obj EXCEPT !.deleting = TRUE]
    BY <1>4 DEF DeleteICSVM, VMReleased
  <2>2. obj'.fin /\ obj'.exists
    BY <1>0, <2>1 DEF ICSVM
  <2> QED BY <1>4, <2>2, SameVMs DEF DeleteICSVM, FinalizerHeld, passVars
<1>5. ASSUME NEW t \in Ids, TaskEvent(t) \/ NetworkEvent(t) PROVE FinalizerHeld'
  BY <1>1, <1>5, SameVMs DEF TaskEvent, NetworkEvent
<1>6. ASSUME NEW t \in Ids, TaskFinishes(t) \/ TaskFails(t) PROVE FinalizerHeld'
  <2>1. UNCHANGED <<passVars, obj>>
    BY <1>6 DEF TaskFinishes, TaskFails
  <2> QED BY <1>1, <1>6, <2>1, TaskEndsVMs DEF Identified
<1>7. ASSUME NEW v \in Ids, ReportIP(v) PROVE FinalizerHeld'
  <2>1. UNCHANGED <<passVars, obj, tasks>> /\ vms' = [vms EXCEPT ![v].ip = TRUE]
    BY <1>7 DEF ReportIP
  <2>2. \A w \in Ids : vms'[w].power = vms[w].power
    BY <2>1 DEF TypeOK, VM
  <2>3. Owned' \subseteq Owned
    BY <2>1, <2>2 DEF Owned, Exists
  <2> QED BY <1>1, <2>1, <2>3
<1>8. ASSUME NEW v \in Ids, OutOfBand(v) PROVE FinalizerHeld'
  BY <1>8 DEF OutOfBand, Fault, VMReleased, VMKnown, Undisturbed
<1> QED
  BY <1>2, <1>3, <1>4, <1>5, <1>6, <1>7, <1>8 DEF Environment

\* The finalizer of a worker's ICSVM outlives its VM: whenever the ICSVM leaves the API
\* server, iCenter holds no VM of it and no clone of one is in flight, however deletion,
\* clone, failed tasks and the passes of reconcileDelete interleave.  Each hypothesis is one
\* that reconcileDelete or findVM takes for granted; without it TLC finds an orphan.
THEOREM NoOrphanLeft == VMReleased => (Spec => []NoOrphan)
<1> SUFFICES ASSUME VMReleased PROVE Spec => []NoOrphan OBVIOUS
<1>1. Init => FinalizerHeld
  BY DEF Init, Fresh, FinalizerHeld
<1>2. /\ TypeOK /\ TaskTracked /\ CopiesTracked /\ mread = NotReading /\ Identified
      /\ FinalizerHeld /\ [Next]_vars
      => FinalizerHeld'
  <2> SUFFICES ASSUME TypeOK, TaskTracked, CopiesTracked, mread = NotReading, Identified,
                      FinalizerHeld, [Next]_vars
               PROVE  FinalizerHeld'
    OBVIOUS
  <2>1. CASE Next
    BY <2>1, PassFinalizer, EnvironmentFinalizer DEF Next
  <2>2. CASE UNCHANGED vars
    BY <2>2, SameVMs DEF FinalizerHeld, vars, passVars, icenterVars
  <2> QED BY <2>1, <2>2
<1>3. Spec => []TaskTracked /\ [](CopiesTracked /\ mread = NotReading) /\ []Identified
  BY TrackedAlways, CopiesAlways, IdentityAlways DEF VMReleased, VMKnown, Undisturbed
<1>4. FinalizerHeld => NoOrphan
  BY DEF FinalizerHeld, NoOrphan
<1> QED BY <1>1, <1>2, <1>3, <1>4, TypeCorrect, PTL DEF Spec
=============================================================================
