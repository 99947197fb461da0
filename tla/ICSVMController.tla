-------------------------- MODULE ICSVMController --------------------------
(***************************************************************************)
(* The ICSVM controller (controllers/icsvm_controller.go) and the VM       *)
(* service it drives (pkg/services/goclient), for one ICSVM resource.      *)
(*                                                                         *)
(* One reconcile pass is a sequence of calls to the API server and to      *)
(* iCenter; every call is a step of its own, so that iCenter tasks, the    *)
(* user, the ICSMachine controller and crashes interleave with the pass.   *)
(* A pass works on a copy of the resource (icsvm) read from the informer   *)
(* cache, and writes back only the fields that differ from the version it  *)
(* read (before): the merge patch of the patch helper.                     *)
(*                                                                         *)
(* iCenter identifies a VM by an ID and by a BIOS UUID, both fresh for     *)
(* every clone: the model names a VM by the number of the task that        *)
(* created it, and both identifiers by that number.  0 stands for "".      *)
(***************************************************************************)
EXTENDS Naturals, FiniteSets

CONSTANTS
  MaxTasks,      \* bound: iCenter tasks submitted in a behaviour
  MaxFaults,     \* bound: faults injected in a behaviour
  Faults,        \* the kinds of fault, and of outside activity, that occur
  ControlPlane,  \* IsControlPlaneMachine(ICSVM): patches addresses early
  StaticIP,      \* the first device has static IPAddrs (else DHCP)
  FurtherStatic  \* a device after the first has: the clone leaves its NIC unset

FaultKinds ==
  { "owner",    \* looking up the owner ICSMachine or ICSCluster fails, or paused
    "conn",     \* reconcileICenterConnectivity fails
    "task",     \* GetTaskInfo fails
    "unknown",  \* GetTaskInfo reports a state the code does not know
    "find",     \* GetVMByUUID, GetVM or GetVMByName fails in findVM
    "getvm",    \* a later GetVM fails
    "create",   \* bootstrap data, a lookup, the host or CreateVMByTemplate fails
    "template", \* the template or image is not found, without an error
    "host",     \* GetVM or GetHost fails before power on
    "mem",      \* the VM's host has too little free memory
    "call",     \* PowerOnVM, PowerOffVM or DeleteVM is refused
    "wait",     \* WaitForResult gives up
    "fail",     \* an iCenter task other than SetVM's ends in ERROR or CANCELED
    "set",      \* SetVM is refused, or its task ends in ERROR or CANCELED
    "setwait",  \* WaitForResult of SetVM's task gives up
    "patch",    \* the API server refuses a part of a patch
    "crash",    \* the manager restarts
    "oob",      \* somebody powers off, suspends or removes the VM in iCenter
    "stale",    \* a pass may read an informer cache that lags behind
    "early",    \* the ICSVM is deleted before its finalizer is stored
    "machine" } \* the ICSMachine controller patches the ICSVM concurrently

\* The faults after which no event need come.
SilentKinds == {"crash", "patch", "owner", "host", "wait", "task", "template"}

ASSUME BoundsAssumption == MaxTasks \in Nat /\ MaxFaults \in Nat
ASSUME FaultsAssumption == Faults \subseteq FaultKinds
ASSUME FlagsAssumption  ==
  ControlPlane \in BOOLEAN /\ StaticIP \in BOOLEAN /\ FurtherStatic \in BOOLEAN

Ids   == 1..MaxTasks
IdOr0 == 0..MaxTasks

VARIABLES
  obj,      \* the ICSVM in the API server
  cache,    \* the ICSVM in the manager's informer cache
  queued,   \* the key is in the controller's work queue
  pc,       \* where the reconcile pass stands ("idle": no pass)
  mode,     \* "normal" | "delete" | "failed" (DestroyVM after PoweringOnFailed)
  before,   \* the ICSVM as the pass read it (patch helper)
  icsvm,    \* ctx.ICSVM, the pass's working copy
  ref,      \* vmRef, the VM that findVM found
  uuid,     \* vm.BiosUUID of the VirtualMachine result
  net,      \* vm.Network carries an address of the first NIC
  net2,     \* vm.Network carries an address of a further NIC
  ret,      \* result of the pass: "nil" | "err" | "after" (RequeueAfter)
  waiters,  \* goroutines of reconcileICSVMOnTaskCompletion, by task
  tasks,    \* iCenter: the tasks submitted for this ICSVM
  ntask,    \* iCenter: how many
  vms,      \* iCenter: the VMs that carry the ICSVM's name
  mread,    \* Spec.BiosUUID as the ICSMachine controller read it (NotReading: not in a read)
  seen      \* the faults so far: how many, and whether one swallows a wake-up

passVars == <<pc, mode, before, icsvm, ref, uuid, net, net2, ret>>
icenterVars == <<tasks, ntask, vms>>
vars == <<obj, cache, queued, passVars, waiters, icenterVars, mread, seen>>

(***************************************************************************)
(* Types.                                                                  *)
(***************************************************************************)
ICSVM == [exists: BOOLEAN, deleting: BOOLEAN, fin: BOOLEAN, ips: BOOLEAN,
          uid: IdOr0, bios: IdOr0, taskRef: IdOr0, addrs: BOOLEAN, ready: BOOLEAN]
Task  == [kind: {"none", "create", "set", "blank", "on", "off", "del"}, vm: IdOr0,
          st: {"none", "run", "finished", "error", "canceled"}]
FaultCount == [n: 0..MaxFaults, silent: BOOLEAN]
VM    == [power: {"absent", "off", "on", "susp"}, ip: BOOLEAN, nic2: {"unset", "blank", "addr"}]

PCs == {"idle", "connect", "task", "find", "create", "early", "hook", "uuid", "net",
        "setvm", "setwait", "netpatch", "power", "waiton", "destroy", "cleanup", "release", "finish"}

\* Every variable stays in its type: one ICSVM record per copy, task and VM
\* tables indexed by the task numbers handed out so far.
TypeOK ==
  /\ obj \in ICSVM /\ cache \in ICSVM /\ before \in ICSVM /\ icsvm \in ICSVM
  /\ queued \in BOOLEAN
  /\ pc \in PCs /\ mode \in {"normal", "delete", "failed"}
  /\ ref \in IdOr0 /\ uuid \in IdOr0 /\ net \in BOOLEAN /\ net2 \in BOOLEAN
  /\ ret \in {"nil", "err", "after"}
  /\ waiters \subseteq Ids
  /\ tasks \in [Ids -> Task] /\ ntask \in IdOr0
  /\ vms \in [Ids -> VM]
  /\ mread \in IdOr0 \cup {MaxTasks + 1}
  /\ seen \in FaultCount

(***************************************************************************)
(* Helpers.                                                                *)
(***************************************************************************)
Fault(k) ==
  /\ k \in Faults /\ seen.n < MaxFaults
  /\ seen' = [n |-> seen.n + 1, silent |-> seen.silent \/ k \in SilentKinds]
NoFault  == UNCHANGED seen

Exists(v) == v # 0 /\ vms[v].power # "absent"
Running(t) == t # 0 /\ tasks[t].st = "run"

NoVM   == [power |-> "absent", ip |-> FALSE, nic2 |-> "unset"]
NoTask == [kind |-> "none", vm |-> 0, st |-> "none"]
Fresh(i) == [exists |-> TRUE, deleting |-> FALSE, fin |-> FALSE, ips |-> i, uid |-> 0,
             bios |-> 0, taskRef |-> 0, addrs |-> FALSE, ready |-> FALSE]
NotReading == MaxTasks + 1

\* A submitted task gets the next number; the VM a create task clones carries it too.
Submit(kind, v) ==
  /\ ntask < MaxTasks
  /\ ntask' = ntask + 1
  /\ tasks' = [tasks EXCEPT ![ntask + 1] =
                 [kind |-> kind, vm |-> IF kind = "create" THEN ntask + 1 ELSE v, st |-> "run"]]
  /\ UNCHANGED vms

\* reconcileICSVMOnTaskCompletion, deferred once the in-flight check has passed:
\* a goroutine waits for the task in ICSVM.Status.TaskRef, if getTask finds one.
HookNever(t)    == NoFault /\ UNCHANGED waiters              \* mutant: defer forgotten
HookUnchecked(t) == NoFault /\ waiters' = waiters \cup {t}  \* mutant: no nil check
Hook(t) ==
  \/ NoFault /\ waiters' = waiters \cup ({t} \ {0})
  \/ t # 0 /\ Fault("task") /\ UNCHANGED waiters

Return(r) == pc' = "finish" /\ ret' = r

\* The merge patch of VMContext.Patch: metadata and spec, then status, each only
\* where the working copy differs from the version the pass read.
Written(new, old, stored) == IF new # old THEN new ELSE stored
SpecPatched(o) ==
  LET fin == Written(icsvm.fin, before.fin, o.fin)
  IN [o EXCEPT !.fin = fin,
               !.uid = Written(icsvm.uid, before.uid, o.uid),
               !.bios = Written(icsvm.bios, before.bios, o.bios),
               !.exists = ~(o.deleting /\ ~fin)]
StatusPatched(o) ==
  [o EXCEPT !.taskRef = Written(icsvm.taskRef, before.taskRef, o.taskRef),
            !.addrs = Written(icsvm.addrs, before.addrs, o.addrs),
            !.ready = Written(icsvm.ready, before.ready, o.ready)]
Patched(specOK, statusOK) ==
  LET o1 == IF obj.exists /\ specOK THEN SpecPatched(obj) ELSE obj
  IN IF o1.exists /\ statusOK THEN StatusPatched(o1) ELSE o1

\* Patch: obj' is the stored result; a refused part costs a fault.
Patch(specOK, statusOK) ==
  /\ IF specOK /\ statusOK THEN NoFault ELSE Fault("patch")
  /\ obj' = Patched(specOK, statusOK)

(***************************************************************************)
(* Reconcile: from the work queue to the dispatch on DeletionTimestamp.    *)
(***************************************************************************)
\* The ICSVM is gone from the cache; or its owner, its ICSCluster or its pause
\* state says not to reconcile, and nothing is requeued; or a lookup returns its
\* error, which requeues.
SkipPass ==
  /\ pc = "idle" /\ queued
  /\ "stale" \in Faults \/ cache = obj
  /\ \/ ~cache.exists /\ NoFault /\ queued' = FALSE
     \/ cache.exists /\ Fault("owner") /\ queued' \in BOOLEAN
  /\ UNCHANGED <<obj, cache, passVars, waiters, icenterVars, mread>>

\* reconcileNormal first adds the finalizer, to the working copy only.
BeginPass ==
  /\ pc = "idle" /\ queued /\ cache.exists
  /\ "stale" \in Faults \/ cache = obj
  /\ queued' = FALSE
  /\ pc' = "connect"
  /\ mode' = IF cache.deleting THEN "delete" ELSE "normal"
  /\ before' = cache
  /\ icsvm' = [cache EXCEPT !.fin = IF cache.deleting THEN @ ELSE TRUE]
  /\ UNCHANGED <<obj, cache, ref, uuid, net, net2, ret, waiters, icenterVars, mread, seen>>

\* reconcileICenterConnectivity.  On failure reconcileNormal returns the error;
\* reconcileDelete skips DestroyVM and goes on to release the finalizer.
ConnectOK ==
  /\ pc = "connect"
  /\ IF mode = "normal" /\ ~icsvm.ips
       THEN Return("nil")               \* isWaitingForStaticIPAllocation
       ELSE pc' = "task" /\ UNCHANGED ret
  /\ UNCHANGED <<obj, cache, queued, mode, before, icsvm, ref, uuid, net, net2,
                 waiters, icenterVars, mread, seen>>

ConnectFails ==
  /\ pc = "connect"
  /\ Fault("conn")
  /\ IF mode = "normal" THEN Return("err") ELSE pc' = "release" /\ UNCHANGED ret
  /\ UNCHANGED <<obj, cache, queued, mode, before, icsvm, ref, uuid, net, net2,
                 waiters, icenterVars, mread>>

(***************************************************************************)
(* reconcileInFlightTask, at the head of ReconcileVM and of DestroyVM.     *)
(* The DestroyVM that follows PoweringOnFailed (mode "failed") ignores its *)
(* result: wherever it would return, the pass goes on to cleanup.          *)
(***************************************************************************)
\* Mutant: reconcileDelete does not wait for the VM to be "notfound".
ReleaseUnlessCleanup(r) ==
  pc' = (IF mode = "failed" THEN "cleanup" ELSE "release") /\ UNCHANGED ret

ReturnOrCleanup(r) ==
  IF mode = "failed" THEN pc' = "cleanup" /\ UNCHANGED ret ELSE Return(r)

\* The switch on the state of the task that Status.TaskRef names.
TaskEnded(t)    == FALSE    \* mutant: check dropped
TaskInFlight(t) == t # 0 /\ tasks[t].st = "run"

CheckTask ==
  /\ pc = "task"
  /\ LET clear == icsvm' = [icsvm EXCEPT !.taskRef = 0] /\ pc' = "find" /\ UNCHANGED ret
     IN \/ ~TaskInFlight(icsvm.taskRef) /\ clear /\ NoFault
        \/ TaskInFlight(icsvm.taskRef) /\ ReturnOrCleanup("nil") /\ UNCHANGED icsvm /\ NoFault
        \/ icsvm.taskRef # 0 /\ Fault("task") /\ clear
        \/ icsvm.taskRef # 0 /\ Fault("unknown") /\ ReturnOrCleanup("err") /\ UNCHANGED icsvm
  /\ UNCHANGED <<obj, cache, queued, mode, before, ref, uuid, net, net2,
                 waiters, icenterVars, mread>>

(***************************************************************************)
(* findVM: by BIOS UUID; else by ID, and failing that by name.             *)
(***************************************************************************)
Named == {v \in Ids : Exists(v)}

\* Mutant: no fallback to the name.
FindingsById ==
  {IF Exists(icsvm.bios) THEN icsvm.bios ELSE IF Exists(icsvm.uid) THEN icsvm.uid ELSE 0}

\* What findVM returns with every call answered: a VM, or 0 for errNotFound.
Findings ==
  IF icsvm.bios # 0 THEN {IF Exists(icsvm.bios) THEN icsvm.bios ELSE 0}
  ELSE IF Exists(icsvm.uid) THEN {icsvm.uid}
  ELSE IF Named # {} THEN Named
  ELSE {0}

VMFound(v) ==
  /\ ref' = v
  /\ pc' = IF mode = "normal" THEN "uuid" ELSE "destroy"
  /\ UNCHANGED ret

\* errNotFound: ReconcileVM creates the VM, DestroyVM reports NotFound.
VMNotFound ==
  /\ pc' = CASE mode = "normal" -> "create" [] mode = "delete" -> "release" [] OTHER -> "cleanup"
  /\ UNCHANGED <<ref, ret>>

FindVM ==
  /\ pc = "find"
  /\ NoFault
  /\ \E v \in Findings : IF v = 0 THEN VMNotFound ELSE VMFound(v)
  /\ UNCHANGED <<obj, cache, queued, mode, before, icsvm, uuid, net, net2,
                 waiters, icenterVars, mread>>

\* A call of findVM fails.  By BIOS UUID that is an error; by ID it is logged and
\* the name is tried; by name it is reported as errNotFound.  ReconcileVM treats
\* every error like a missing VM.
FindVMFails ==
  /\ pc = "find"
  /\ Fault("find")
  /\ IF icsvm.bios # 0
       THEN /\ IF mode = "normal" THEN pc' = "create" /\ UNCHANGED ret ELSE ReturnOrCleanup("err")
            /\ UNCHANGED ref
       ELSE \/ VMNotFound
            \/ Exists(icsvm.uid) /\ \E v \in Named : VMFound(v)
  /\ UNCHANGED <<obj, cache, queued, mode, before, icsvm, uuid, net, net2,
                 waiters, icenterVars, mread>>

(***************************************************************************)
(* ReconcileVM without a VM: CreateVM, which clones or imports it.  The    *)
(* address of a static device is taken before the clone is submitted: see  *)
(* IPPool.                                                                 *)
(***************************************************************************)
CreateVM ==
  /\ pc = "create"
  /\ Submit("create", 0)
  /\ icsvm' = [icsvm EXCEPT !.taskRef = ntask + 1]
  /\ pc' = "early"
  /\ UNCHANGED <<obj, cache, queued, mode, before, ref, uuid, net, net2, ret, waiters, mread, seen>>

\* A missing template or image is reported by Wrapf of a nil error, which is nil: the pass
\* ends as if a task had been submitted, and nothing is requeued.
CreateVMFails ==
  /\ pc = "create"
  /\ \/ Fault("create") /\ Return("err")
     \/ Fault("template") /\ Return("nil")
  /\ UNCHANGED <<obj, cache, queued, mode, before, icsvm, ref, uuid, net, net2,
                 waiters, icenterVars, mread>>

\* The early patch that records the clone task; its error is only logged.
EarlyPatch ==
  /\ pc = "early"
  /\ \E specOK, statusOK \in BOOLEAN : Patch(specOK, statusOK)
  /\ pc' = "hook"
  /\ UNCHANGED <<cache, queued, mode, before, icsvm, ref, uuid, net, net2, ret,
                 waiters, icenterVars, mread>>

\* The deferred reconcileICSVMOnTaskCompletion of a ReconcileVM that returns Pending.
HookAndReturn ==
  /\ pc = "hook"
  /\ Hook(icsvm.taskRef)
  /\ Return("nil")
  /\ UNCHANGED <<obj, cache, queued, mode, before, icsvm, ref, uuid, net, net2,
                 icenterVars, mread>>

(***************************************************************************)
(* ReconcileVM with a VM: reconcileUUID, reconcileNetworkStatus,           *)
(* reconcilePowerState.                                                    *)
(***************************************************************************)
\* GetVM for the VM found: absent by now, or the call fails.
GetVMFails(v) == (~Exists(v) /\ NoFault) \/ (Exists(v) /\ Fault("getvm"))

ReconcileUUID ==
  /\ pc = "uuid"
  /\ \/ Exists(ref) /\ uuid' = ref /\ NoFault
     \/ GetVMFails(ref) /\ uuid' = 0
  /\ pc' = "net"
  /\ UNCHANGED <<obj, cache, queued, mode, before, icsvm, ref, net, net2, ret,
                 waiters, icenterVars, mread>>

\* The rest of reconcileNetworkStatus, on the working copy c: the first addresses of the
\* first NIC are stored, and those of a control plane VM are patched at once.  syncIPPool
\* registers nothing: it lists by a field that no index serves, so that its List always
\* fails, and the error is only logged.
ReportNetwork(c, ip) ==
  /\ icsvm' = [c EXCEPT !.addrs = @ \/ ip]
  /\ pc' = IF ip /\ ~c.addrs /\ ControlPlane THEN "netpatch" ELSE "power"

\* GetNetworkStatus stores the VM's identifiers; further NICs that should be static and
\* are not send it into SetVM.
ReconcileNetworkStatus ==
  /\ pc = "net"
  /\ Exists(ref) /\ NoFault
  /\ LET found == [icsvm EXCEPT !.uid = ref, !.bios = ref]
     IN IF FurtherStatic /\ vms[ref].nic2 = "unset"
          THEN icsvm' = found /\ pc' = "setvm"
          ELSE ReportNetwork(found, vms[ref].ip)
  /\ net' = vms[ref].ip
  /\ net2' = (vms[ref].nic2 = "addr")
  /\ UNCHANGED <<obj, cache, queued, mode, before, ref, uuid, ret, waiters, icenterVars, mread>>

\* UpdateNicIPConfig takes an address for the NIC, or finds none left and makes it static
\* without one (IPPool); SetVM's task is not put into Status.TaskRef.
SetVM ==
  /\ pc = "setvm"
  /\ Exists(ref)
  /\ \E kind \in {"set", "blank"} : Submit(kind, ref) /\ net2' = (kind = "set")
  /\ pc' = "setwait"
  /\ UNCHANGED <<obj, cache, queued, mode, before, icsvm, ref, uuid, net, ret, waiters, mread, seen>>

\* A refused SetVM is only logged, and the address is reported all the same.
SetVMFails ==
  /\ pc = "setvm"
  /\ (~Exists(ref) /\ NoFault) \/ Fault("set")
  /\ net2' \in BOOLEAN
  /\ ReportNetwork(icsvm, net)
  /\ UNCHANGED <<obj, cache, queued, mode, before, ref, uuid, net, ret, waiters, icenterVars, mread>>

\* Whatever WaitForResult says of the task is ignored.
WaitSetVM ==
  /\ pc = "setwait"
  /\ (~Running(ntask) /\ NoFault) \/ Fault("setwait")
  /\ ReportNetwork(icsvm, net)
  /\ UNCHANGED <<obj, cache, queued, mode, before, ref, uuid, net, net2, ret, waiters, icenterVars,
                 mread>>

ReconcileNetworkStatusFails ==
  /\ pc = "net"
  /\ GetVMFails(ref)
  /\ Return("err")
  /\ UNCHANGED <<obj, cache, queued, mode, before, icsvm, ref, uuid, net, net2,
                 waiters, icenterVars, mread>>

PatchAddresses ==
  /\ pc = "netpatch"
  /\ \E specOK, statusOK \in BOOLEAN : Patch(specOK, statusOK)
  /\ pc' = "power"
  /\ UNCHANGED <<cache, queued, mode, before, icsvm, ref, uuid, net, net2, ret,
                 waiters, icenterVars, mread>>

\* PoweringOnFailed sends reconcileNormal into DestroyVM.
PoweringOnFailed == mode' = "failed" /\ pc' = "task" /\ UNCHANGED ret

PowerOn ==
  /\ pc = "power"
  /\ Exists(ref) /\ vms[ref].power = "off"
  /\ Submit("on", ref)
  /\ icsvm' = [icsvm EXCEPT !.taskRef = ntask + 1]
  /\ pc' = "waiton"
  /\ UNCHANGED <<obj, cache, queued, mode, before, ref, uuid, net, net2, ret,
                 waiters, mread, seen>>

\* Too little memory on the host; GetHost fails (nothing is requeued); the call,
\* or the GetVM that reads the state, fails; the VM is suspended.
PowerStateFails ==
  /\ pc = "power"
  /\ \/ GetVMFails(ref) /\ Return("err") /\ UNCHANGED mode
     \/ /\ Exists(ref) /\ vms[ref].power = "off"
        /\ \/ Fault("mem") /\ PoweringOnFailed
           \/ Fault("host") /\ Return("nil") /\ UNCHANGED mode
           \/ Fault("call") /\ Return("err") /\ UNCHANGED mode
     \/ Exists(ref) /\ vms[ref].power = "susp" /\ Return("err") /\ UNCHANGED mode /\ NoFault
  /\ UNCHANGED <<obj, cache, queued, before, icsvm, ref, uuid, net, net2,
                 waiters, icenterVars, mread>>

\* The pass blocks in WaitForResult until the power-on task ends, or the wait fails.
WaitPowerOn ==
  /\ pc = "waiton"
  /\ LET t == icsvm.taskRef
     IN \/ ~Running(t) /\ tasks[t].st = "error" /\ PoweringOnFailed
           /\ Hook(t)
        \/ ~Running(t) /\ tasks[t].st # "error" /\ pc' = "hook"
           /\ NoFault /\ UNCHANGED <<mode, ret, waiters>>
        \/ Fault("wait") /\ pc' = "hook" /\ UNCHANGED <<mode, ret, waiters>>
  /\ UNCHANGED <<obj, cache, queued, before, icsvm, ref, uuid, net, net2,
                 icenterVars, mread>>

\* UpdateNetworkInfo: the addresses of all NICs.
Addressed == net \/ net2

\* Mutant: a VM without addresses is not looked at again.
NetworkResultDone == "nil"
NetworkResult     == IF Addressed THEN "nil" ELSE "after"

\* Mutant: ready whatever the addresses.
NetworkOnlineAlways == TRUE
NetworkOnline       == Addressed

\* Powered on: the tail of reconcileNormal.
PoweredOn ==
  /\ pc = "power"
  /\ Exists(ref) /\ vms[ref].power = "on"
  /\ IF uuid = 0 THEN Return("err") /\ UNCHANGED icsvm
     ELSE /\ icsvm' = [icsvm EXCEPT !.bios = uuid, !.addrs = Addressed,
                                   !.ready = @ \/ NetworkOnline]
          /\ Return(NetworkResult)
  /\ Hook(icsvm.taskRef)
  /\ UNCHANGED <<obj, cache, queued, mode, before, ref, uuid, net, net2, icenterVars, mread>>

(***************************************************************************)
(* DestroyVM of a VM that was found.                                       *)
(***************************************************************************)
Destroy ==
  /\ pc = "destroy"
  /\ Exists(ref)
  /\ Submit(IF vms[ref].power = "on" THEN "off" ELSE "del", ref)
  /\ icsvm' = [icsvm EXCEPT !.taskRef = ntask + 1]
  /\ Hook(ntask + 1)
  /\ ReturnOrCleanup("nil")
  /\ UNCHANGED <<obj, cache, queued, mode, before, ref, uuid, net, net2, mread>>

DestroyFails ==
  /\ pc = "destroy"
  /\ GetVMFails(ref) \/ (Exists(ref) /\ Fault("call"))
  /\ ReturnOrCleanup("err")
  /\ UNCHANGED <<obj, cache, queued, mode, before, icsvm, ref, uuid, net, net2,
                 waiters, icenterVars, mread>>

\* The rest of the PoweringOnFailed branch: drop the addresses (IPPool) and identifiers.
Cleanup ==
  /\ pc = "cleanup"
  /\ icsvm' = [icsvm EXCEPT !.uid = 0, !.bios = 0]
  /\ Return("err")
  /\ UNCHANGED <<obj, cache, queued, mode, before, ref, uuid, net, net2, waiters, icenterVars, mread,
                 seen>>

\* The tail of reconcileDelete: drop the addresses (IPPool) and the finalizer.
ReleaseVM ==
  /\ pc = "release"
  /\ icsvm' = [icsvm EXCEPT !.fin = FALSE]
  /\ Return("nil")
  /\ UNCHANGED <<obj, cache, queued, mode, before, ref, uuid, net, net2, waiters, icenterVars, mread,
                 seen>>

\* The deferred patch of Reconcile.  An error, of the pass or of the patch,
\* requeues the key; so does RequeueAfter.  A change to a resource that no
\* longer exists is an error.
PatchErr(specOK, statusOK) ==
  \/ ~specOK \/ ~statusOK
  \/ icsvm # before /\ ~Patched(specOK, statusOK).exists
Blank == Fresh(TRUE)
EndPass ==
  /\ pc' = "idle" /\ mode' = "normal" /\ before' = Blank /\ icsvm' = Blank
  /\ ref' = 0 /\ uuid' = 0 /\ net' = FALSE /\ net2' = FALSE /\ ret' = "nil"

Finish ==
  /\ pc = "finish"
  /\ \E specOK, statusOK \in BOOLEAN :
       /\ Patch(specOK, statusOK)
       /\ queued' = (queued \/ ret # "nil" \/ PatchErr(specOK, statusOK))
  /\ EndPass
  /\ UNCHANGED <<cache, waiters, icenterVars, mread>>

Pass ==
  \/ SkipPass \/ BeginPass \/ ConnectOK \/ ConnectFails \/ CheckTask
  \/ FindVM \/ FindVMFails \/ CreateVM \/ CreateVMFails \/ EarlyPatch \/ HookAndReturn
  \/ ReconcileUUID \/ ReconcileNetworkStatus \/ ReconcileNetworkStatusFails
  \/ SetVM \/ SetVMFails \/ WaitSetVM \/ PatchAddresses
  \/ PowerOn \/ PowerStateFails \/ WaitPowerOn \/ PoweredOn
  \/ Destroy \/ DestroyFails \/ Cleanup \/ ReleaseVM \/ Finish

(***************************************************************************)
(* Around the pass: the goroutines, the informer, the manager.             *)
(***************************************************************************)
\* A completion goroutine sends its GenericEvent, or gives up waiting.
TaskEvent(t) ==
  /\ t \in waiters
  /\ waiters' = waiters \ {t}
  /\ \/ ~Running(t) /\ queued' = TRUE /\ NoFault
     \/ UNCHANGED queued /\ Fault("wait")
  /\ UNCHANGED <<obj, cache, passVars, icenterVars, mread>>

\* waitForIPAddresses looks at the NICs once: it may come too early to see an address.
NICHasAddress(v) ==
  Exists(v) /\ vms[v].power = "on" /\ (vms[v].ip \/ vms[v].nic2 = "addr")

\* reconcileICSVMWhenNetworkIsReady: a goroutine waits for the power-on task t, ...
NetworkIsReady(t) ==
  /\ tasks[t].kind = "on" /\ tasks[t].st = "finished"
  /\ NICHasAddress(tasks[t].vm)

\* ... and sends a GenericEvent for every address it saw, unless a call failed.
NetworkEvent(t) ==
  /\ NetworkIsReady(t) /\ ~queued
  /\ queued' = TRUE
  /\ UNCHANGED <<obj, cache, passVars, waiters, icenterVars, mread, seen>>

\* The watch delivers the latest ICSVM and enqueues its key.
WatchEvent ==
  /\ cache # obj
  /\ cache' = obj /\ queued' = TRUE
  /\ UNCHANGED <<obj, passVars, waiters, icenterVars, mread, seen>>

\* SyncPeriod: every cached resource is enqueued again.
Resync ==
  /\ cache.exists /\ ~queued
  /\ queued' = TRUE
  /\ UNCHANGED <<obj, cache, passVars, waiters, icenterVars, mread, seen>>

\* A Cluster that is no longer paused, or an ICSCluster with other cluster modules,
\* enqueues every ICSVM of the cluster.
ClusterEvent ==
  /\ cache.exists /\ ~queued
  /\ queued' = TRUE
  /\ UNCHANGED <<obj, cache, passVars, waiters, icenterVars, mread, seen>>

\* The manager stops and starts: the pass and the goroutines are lost, and the
\* new informer lists the resource.
Restart ==
  /\ Fault("crash")
  /\ EndPass
  /\ waiters' = {} /\ cache' = obj /\ queued' = TRUE /\ mread' = NotReading
  /\ UNCHANGED <<obj, icenterVars>>

(***************************************************************************)
(* iCenter, the user and the ICSMachine controller.                        *)
(***************************************************************************)
TaskEffect(t) ==
  LET v == tasks[t].vm
  IN CASE tasks[t].kind = "create" -> [vms EXCEPT ![v] = [NoVM EXCEPT !.power = "off", !.ip = StaticIP]]
       [] tasks[t].kind = "set"    -> [vms EXCEPT ![v].nic2 = "addr"]
       [] tasks[t].kind = "blank"  -> [vms EXCEPT ![v].nic2 = "blank"]
       [] tasks[t].kind = "on"     -> [vms EXCEPT ![v].power = "on"]
       [] tasks[t].kind = "off"    -> [vms EXCEPT ![v].power = "off"]
       [] OTHER                    -> [vms EXCEPT ![v] = NoVM]

\* A task on a VM that is gone can only fail.
TaskFinishes(t) ==
  /\ Running(t)
  /\ IF tasks[t].kind = "create" \/ Exists(tasks[t].vm)
       THEN tasks' = [tasks EXCEPT ![t].st = "finished"] /\ vms' = TaskEffect(t)
       ELSE tasks' = [tasks EXCEPT ![t].st = "error"] /\ UNCHANGED vms
  /\ UNCHANGED <<obj, cache, queued, passVars, waiters, ntask, mread, seen>>

TaskFails(t) ==
  /\ Running(t)
  /\ Fault(IF tasks[t].kind \in {"set", "blank"} THEN "set" ELSE "fail")
  /\ \E st \in {"error", "canceled"} : tasks' = [tasks EXCEPT ![t].st = st]
  /\ UNCHANGED <<obj, cache, queued, passVars, waiters, ntask, vms, mread>>

\* The guest tools report an address.
ReportIP(v) ==
  /\ Exists(v) /\ vms[v].power = "on" /\ ~vms[v].ip
  /\ vms' = [vms EXCEPT ![v].ip = TRUE]
  /\ UNCHANGED <<obj, cache, queued, passVars, waiters, tasks, ntask, mread, seen>>

OutOfBand(v) ==
  /\ Exists(v)
  /\ Fault("oob")
  /\ \E p \in {"off", "susp"} : vms' \in {[vms EXCEPT ![v].power = p], [vms EXCEPT ![v] = NoVM]}
  /\ UNCHANGED <<obj, cache, queued, passVars, waiters, tasks, ntask, mread>>

\* The ICSVM is deleted (by VimMachineService.ReconcileDelete or a user): the API
\* server removes it at once when no finalizer is stored.
DeleteICSVM ==
  /\ obj.exists /\ ~obj.deleting
  /\ obj.fin \/ "early" \in Faults
  /\ obj' = IF obj.fin THEN [obj EXCEPT !.deleting = TRUE] ELSE [obj EXCEPT !.exists = FALSE]
  /\ UNCHANGED <<cache, queued, passVars, waiters, icenterVars, mread, seen>>

\* VimMachineService.ReconcileNormal reads the ICSVM (getICSVm) ...
MachineReads ==
  /\ "machine" \in Faults /\ cache.exists /\ mread = NotReading
  /\ mread' = cache.bios
  /\ UNCHANGED <<obj, cache, queued, passVars, waiters, icenterVars, seen>>

\* ... and createOrPatchICSVM reads it again, copies the clone spec and the BIOS
\* UUID of the first read, and patches what differs from the second.
MachineWrites ==
  /\ mread # NotReading
  /\ mread' = NotReading
  /\ obj' = IF cache.exists /\ obj.exists
            THEN [obj EXCEPT !.bios = Written(mread, cache.bios, @), !.ips = TRUE]
            ELSE obj
  /\ UNCHANGED <<cache, queued, passVars, waiters, icenterVars, seen>>

Environment ==
  \/ WatchEvent \/ Resync \/ ClusterEvent \/ Restart \/ DeleteICSVM \/ MachineReads \/ MachineWrites
  \/ \E t \in Ids : TaskEvent(t) \/ NetworkEvent(t) \/ TaskFinishes(t) \/ TaskFails(t)
                    \/ ReportIP(t) \/ OutOfBand(t)

Init ==
  /\ \E i \in BOOLEAN : obj = Fresh(i) /\ cache = obj
  /\ queued = TRUE
  /\ pc = "idle" /\ mode = "normal" /\ before = Blank /\ icsvm = Blank
  /\ ref = 0 /\ uuid = 0 /\ net = FALSE /\ net2 = FALSE /\ ret = "nil"
  /\ waiters = {}
  /\ tasks = [t \in Ids |-> NoTask] /\ ntask = 0 /\ vms = [v \in Ids |-> NoVM]
  /\ mread = NotReading /\ seen = [n |-> 0, silent |-> FALSE]

Next == Pass \/ Environment

Spec == Init /\ [][Next]_vars

\* The work queue runs passes, the watch and the goroutines deliver events, and
\* iCenter finishes its tasks; the user need not delete and faults need not occur.
Fairness ==
  /\ WF_vars(Pass) /\ WF_vars(WatchEvent)
  /\ \A t \in Ids : WF_vars(TaskEvent(t)) /\ WF_vars(TaskFinishes(t)) /\ WF_vars(ReportIP(t))

\* Nobody counts on the resync unless a fault swallowed a wake-up.
FairSpec == Spec /\ Fairness /\ WF_vars(seen.silent /\ Resync)

(***************************************************************************)
(* Properties.                                                             *)
(***************************************************************************)
InFlight == {t \in Ids : Running(t)}

\* At most one iCenter task is in flight for the ICSVM: reconcileInFlightTask and
\* Status.TaskRef serialize clone, power and destroy operations across passes.
OneTaskInFlight == \A s, t \in InFlight : s = t

\* The VM a clone in flight will yield counts as existing.
Owned == {v \in Ids : Exists(v) \/ (tasks[v].kind = "create" /\ tasks[v].st = "run")}

\* ReconcileVM creates the VM only if it does not exist: one VM per ICSVM.
OneVM == \A v, w \in Owned : v = w

\* No two clones run at once ("this avoid situations of concurrent clones").
NoConcurrentClones ==
  \A s, t \in InFlight : tasks[s].kind = "create" /\ tasks[t].kind = "create" => s = t

\* Once the ICSVM has left the API server, iCenter holds no VM of it and will get none:
\* the finalizer outlives the VM.
NoOrphan == ~obj.exists => Owned = {}

\* Ready is only published for a VM that iCenter runs with an address on one of its NICs and
\* that is the one BiosUUID names.
ReadyIsHonest ==
  [][obj'.ready /\ ~obj.ready => obj'.bios # 0 /\ NICHasAddress(obj'.bios)]_vars

Contract == INSTANCE ICSVMContract WITH
  UUIDs <- Ids, NoUUID <- 0,
  pub <- [bios |-> obj.bios, addrs |-> obj.addrs, ready |-> obj.ready]

\* The fields that other controllers read change as ICSVMContract says: Ready comes with
\* UUID and address and stays, and one VM is dropped before another one is named.
PublishesByContract == Contract!Spec

\* A deleted ICSVM is eventually gone.
DeletionCompletes == obj.deleting ~> ~obj.exists

\* An ICSVM with its static addresses specified becomes ready, unless it is deleted.
BecomesReady == obj.ips ~> (obj.ready \/ obj.deleting \/ ~obj.exists)
====
