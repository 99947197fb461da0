------------------------ MODULE ICSMachineController ------------------------
(***************************************************************************)
(* How an ICSMachine that is wanted becomes ready: the ICSMachine          *)
(* controller (controllers/icsmachine_controller.go) with                  *)
(* VimMachineService (pkg/services/vimmachine.go), for one Machine.  It    *)
(* creates the ICSVM, and copies what the ICSVM controller publishes there *)
(* to the ICSMachine, where Cluster API reads it.  Deletion is in          *)
(* FinalizerChain.                                                         *)
(*                                                                         *)
(* Every read of a pass is a read of the informer caches, which lag behind *)
(* the API server and are brought up to date by watch events, one kind at  *)
(* a time.  Fields that both sides agree on from the start (labels, owner, *)
(* clone spec, bootstrap reference) are left out, and so is FailureReason, *)
(* which no code sets.                                                     *)
(***************************************************************************)
EXTENDS Naturals

CONSTANTS
  MaxVMs,      \* bound: VMs that the ICSVM controller names in a behaviour
  MaxFaults,   \* bound: faults in a behaviour
  Faults       \* the kinds of fault, and of outside activity, that occur

FaultKinds ==
  { "api",      \* a lookup fails and the pass returns the error
    "cluster",  \* the lookup of Cluster or ICSCluster fails, which is only logged
    "list",     \* getClusterToICSMachinesReq cannot list the ICSMachines
    "create",   \* CreateOrPatch of the ICSVM is refused
    "label",    \* the patch of the Machine's labels fails
    "patch",    \* the API server refuses the deferred patch ...
    "partial",  \* ... or only its metadata and spec, or only its status
    "crash",    \* the manager restarts
    "pause" }   \* the Cluster is paused

ASSUME BoundsAssumption == MaxVMs \in Nat /\ MaxFaults \in Nat
ASSUME FaultsAssumption == Faults \subseteq FaultKinds

VMIds  == 1..MaxVMs
NoUUID == 0

VARIABLES
  cl,       \* Cluster: infrastructure ready, paused
  mc,       \* Machine: bootstrap data available, label set
  im,       \* the ICSMachine
  exists,   \* the ICSVM exists
  pub,      \* what the ICSVM publishes
  cache,    \* the four objects in the informer caches
  queued,   \* the key is in the work queue
  pc,       \* where the pass stands
  before,   \* the ICSMachine as the pass read it (patch helper)
  go,       \* the Cluster and Machine that the pass read let it go on to the VM
  icsm,     \* ctx.ICSMachine, the working copy
  read,     \* Spec.BiosUUID as getICSVm read it (NotRead: no ICSVM)
  ret,      \* result of the pass: "nil" | "err" | "after" (RequeueAfter)
  nvm,      \* VMs named so far
  nfaults,  \* faults so far
  dropped   \* history: a wake-up was lost to a logged error

apiVars  == <<cl, mc, im, exists, pub>>
passVars == <<pc, before, go, icsm, read, ret>>
vars == <<apiVars, cache, queued, passVars, nvm, nfaults, dropped>>

\* The contract of the ICSVM controller.
VM == INSTANCE ICSVMContract WITH UUIDs <- VMIds

(***************************************************************************)
(* Types.                                                                  *)
(***************************************************************************)
ICSMachine == [owned: BOOLEAN, fin: BOOLEAN, provider: 0..MaxVMs, addrs: BOOLEAN, ready: BOOLEAN]
Cluster    == [infra: BOOLEAN, paused: BOOLEAN]
Machine    == [boot: BOOLEAN, label: BOOLEAN]
Objects    == [cl: Cluster, mc: Machine, im: ICSMachine, exists: BOOLEAN, pub: VM!Published]
NotRead    == MaxVMs + 1

NewICSMachine == [owned |-> FALSE, fin |-> FALSE, provider |-> NoUUID, addrs |-> FALSE, ready |-> FALSE]
NewObjects    == [cl |-> [infra |-> FALSE, paused |-> FALSE], mc |-> [boot |-> FALSE, label |-> FALSE],
                  im |-> NewICSMachine, exists |-> FALSE, pub |-> VM!Nothing]

\* Every variable stays in its type.
TypeOK ==
  /\ cl \in Cluster /\ mc \in Machine /\ im \in ICSMachine /\ exists \in BOOLEAN
  /\ pub \in VM!Published /\ cache \in Objects
  /\ before \in ICSMachine /\ icsm \in ICSMachine /\ go \in BOOLEAN
  /\ queued \in BOOLEAN /\ dropped \in BOOLEAN
  /\ pc \in {"idle", "sync", "get", "vm", "label", "finish"}
  /\ read \in 0..NotRead /\ ret \in {"nil", "err", "after"}
  /\ nvm \in 0..MaxVMs /\ nfaults \in 0..MaxFaults

Fault(k) == k \in Faults /\ nfaults < MaxFaults /\ nfaults' = nfaults + 1
NoFault  == UNCHANGED nfaults
Current  == [cl |-> cl, mc |-> mc, im |-> im, exists |-> exists, pub |-> pub]
Return(r) == pc' = "finish" /\ ret' = r

(***************************************************************************)
(* Reconcile.                                                              *)
(***************************************************************************)
\* No owner yet, or the Cluster is paused: the pass ends and nothing is requeued.
\* So it does when Cluster or ICSCluster cannot be read; other lookups return the error.
SkipPass ==
  /\ pc = "idle" /\ queued
  /\ \/ (~cache.im.owned \/ cache.cl.paused) /\ queued' = FALSE /\ NoFault /\ UNCHANGED dropped
     \/ Fault("cluster") /\ queued' = FALSE /\ dropped' = TRUE
     \/ Fault("api") /\ UNCHANGED <<queued, dropped>>
  /\ UNCHANGED <<apiVars, cache, passVars, nvm>>

\* The conditions under which reconcileNormal goes on to the VM.
CanProvision(o) == o.cl.infra /\ o.mc.boot

BeginPass ==
  /\ pc = "idle" /\ queued /\ cache.im.owned /\ ~cache.cl.paused
  /\ queued' = FALSE
  /\ pc' = "sync" /\ before' = cache.im /\ icsm' = cache.im /\ go' = CanProvision(cache)
  /\ UNCHANGED <<apiVars, cache, read, ret, nvm, nfaults, dropped>>

\* reconcileNormal: SyncFailureReason, the finalizer, the infrastructure and the
\* bootstrap data.
SyncFailureReason ==
  /\ pc = "sync"
  /\ \/ /\ NoFault
        /\ icsm' = [icsm EXCEPT !.fin = TRUE]
        /\ IF go THEN pc' = "get" /\ UNCHANGED ret ELSE Return("nil")
     \/ Fault("api") /\ Return("err") /\ UNCHANGED icsm
  /\ UNCHANGED <<apiVars, cache, queued, before, go, read, nvm, dropped>>

\* ReconcileNormal reads the ICSVM once ...
GetICSVM ==
  /\ pc = "get"
  /\ \/ NoFault /\ read' = (IF cache.exists THEN cache.pub.bios ELSE NotRead)
        /\ pc' = "vm" /\ UNCHANGED ret
     \/ Fault("api") /\ Return("err") /\ UNCHANGED read
  /\ UNCHANGED <<apiVars, cache, queued, before, go, icsm, nvm, dropped>>

\* ... and createOrPatchICSVM again.  The UUID of the first read goes into the
\* mutated object, so that a patch is sent only if the second read differs.
UUIDUnchecked(first, second) == first    \* mutant: no nil check
MutatedUUID(first, second) == IF first = NotRead THEN second ELSE first

\* Mutant: Ready does not wait for addresses.
AddressesOptional(addrs) == TRUE

\* The ICSVM is not ready, has no UUID or no address: another pass in 10 s.
Waiting == "after"

\* The ICSMachine has addresses.  status.addresses is absent from an ICSVM that has none,
\* so that an address once copied stays.
HasAddresses(addrs) == addrs

\* waitReadyState, reconcileProviderID, reconcileNetwork and Status.Ready.
CopyFromICSVM(vm) ==
  LET addrs == icsm.addrs \/ vm.addrs
  IN IF ~vm.ready \/ vm.bios = NoUUID THEN Return(Waiting) /\ UNCHANGED icsm
     ELSE /\ icsm' = [icsm EXCEPT !.provider = vm.bios, !.addrs = addrs,
                                 !.ready = @ \/ HasAddresses(addrs)]
          /\ IF HasAddresses(addrs) THEN pc' = "label" /\ UNCHANGED ret ELSE Return(Waiting)

CreateOrPatchICSVM ==
  /\ pc = "vm" /\ read' = NotRead
  /\ LET u == MutatedUUID(read, cache.pub.bios)
     IN \/ /\ ~cache.exists /\ ~exists /\ NoFault
           /\ exists' = TRUE /\ CopyFromICSVM(VM!Nothing) /\ UNCHANGED pub
        \/ /\ ~cache.exists /\ exists /\ NoFault     \* AlreadyExists
           /\ Return("err") /\ UNCHANGED <<exists, pub, icsm>>
        \/ /\ cache.exists /\ u = cache.pub.bios /\ NoFault
           /\ CopyFromICSVM(cache.pub) /\ UNCHANGED <<exists, pub>>
        \/ /\ cache.exists /\ u # cache.pub.bios /\ NoFault
           /\ pub' = [pub EXCEPT !.bios = u] /\ CopyFromICSVM([pub EXCEPT !.bios = u])
           /\ UNCHANGED exists
        \/ Fault("create") /\ Return("err") /\ UNCHANGED <<exists, pub, icsm>>
  /\ UNCHANGED <<cl, mc, im, cache, queued, before, go, nvm, dropped>>

\* patchMachineLabelsWithHostInfo.  Status.Host is never set, so that the label it
\* sets is always "".
PatchMachineLabels ==
  /\ pc = "label"
  /\ \/ NoFault /\ mc' = [mc EXCEPT !.label = TRUE] /\ Return("nil")
     \/ Fault("label") /\ Return("err") /\ UNCHANGED mc
  /\ UNCHANGED <<cl, im, exists, pub, cache, queued, before, go, icsm, read, nvm, dropped>>

\* The deferred patch: metadata and spec, then status, each only where the working
\* copy differs from the version the pass read.
Written(new, old, stored) == IF new # old THEN new ELSE stored
SpecPatched(o) ==
  [o EXCEPT !.fin = Written(icsm.fin, before.fin, @),
            !.provider = Written(icsm.provider, before.provider, @)]
StatusPatched(o) ==
  [o EXCEPT !.addrs = Written(icsm.addrs, before.addrs, @),
            !.ready = Written(icsm.ready, before.ready, @)]
Patched(specOK, statusOK) ==
  LET o == IF specOK THEN SpecPatched(im) ELSE im IN IF statusOK THEN StatusPatched(o) ELSE o

EndPass ==
  /\ pc' = "idle" /\ before' = NewICSMachine /\ go' = FALSE /\ icsm' = NewICSMachine
  /\ read' = NotRead /\ ret' = "nil"

Finish ==
  /\ pc = "finish"
  /\ \E specOK, statusOK \in BOOLEAN :
       /\ IF specOK /\ statusOK THEN NoFault
          ELSE Fault(IF specOK \/ statusOK THEN "partial" ELSE "patch")
       /\ im' = Patched(specOK, statusOK)
       /\ queued' = (queued \/ ret # "nil" \/ ~specOK \/ ~statusOK)
  /\ EndPass
  /\ UNCHANGED <<cl, mc, exists, pub, cache, nvm, dropped>>

Pass ==
  \/ SkipPass \/ BeginPass \/ SyncFailureReason \/ GetICSVM \/ CreateOrPatchICSVM
  \/ PatchMachineLabels \/ Finish

(***************************************************************************)
(* Informers and manager.                                                  *)
(***************************************************************************)
\* Mutant: create events of the ICSVM are the only ones handled.
OnlyCreateEvents(old, new) == ~old.exists

\* The predicate of the ICSVM watch: "ignore creation events".
ICSVMEvent(old, new) == old.exists

\* ClusterUnpausedAndInfrastructureReady.
ClusterEvent(old, new) == (old.paused /\ ~new.paused) \/ (~old.infra /\ new.infra)

WatchICSMachine ==
  /\ cache.im # im
  /\ cache' = [cache EXCEPT !.im = im] /\ queued' = TRUE
  /\ UNCHANGED <<apiVars, passVars, nvm, nfaults, dropped>>

WatchMachine ==
  /\ cache.mc # mc
  /\ cache' = [cache EXCEPT !.mc = mc] /\ queued' = TRUE
  /\ UNCHANGED <<apiVars, passVars, nvm, nfaults, dropped>>

WatchICSVM ==
  /\ cache.exists # exists \/ cache.pub # pub
  /\ cache' = [cache EXCEPT !.exists = exists, !.pub = pub]
  /\ queued' = (queued \/ ICSVMEvent(cache, cache'))
  /\ UNCHANGED <<apiVars, passVars, nvm, nfaults, dropped>>

\* getClusterToICSMachinesReq lists the cached ICSMachines by a label that comes with
\* the owner; an error loses the event.
WatchCluster ==
  /\ cache.cl # cl
  /\ cache' = [cache EXCEPT !.cl = cl]
  /\ \/ queued' = (queued \/ (cache.im.owned /\ ClusterEvent(cache.cl, cl))) /\ NoFault /\ UNCHANGED dropped
     \/ Fault("list") /\ dropped' = TRUE /\ UNCHANGED queued
  /\ UNCHANGED <<apiVars, passVars, nvm>>

\* SyncPeriod.
Resync ==
  /\ ~queued /\ queued' = TRUE
  /\ UNCHANGED <<apiVars, cache, passVars, nvm, nfaults, dropped>>

Restart ==
  /\ Fault("crash")
  /\ EndPass
  /\ cache' = Current /\ queued' = TRUE
  /\ UNCHANGED <<apiVars, nvm, dropped>>

(***************************************************************************)
(* Cluster API and the ICSVM controller.                                   *)
(***************************************************************************)
SetOwner ==
  /\ ~im.owned /\ im' = [im EXCEPT !.owned = TRUE]
  /\ UNCHANGED <<cl, mc, exists, pub, cache, queued, passVars, nvm, nfaults, dropped>>

InfrastructureReady ==
  /\ ~cl.infra /\ cl' = [cl EXCEPT !.infra = TRUE]
  /\ UNCHANGED <<mc, im, exists, pub, cache, queued, passVars, nvm, nfaults, dropped>>

BootstrapReady ==
  /\ ~mc.boot /\ mc' = [mc EXCEPT !.boot = TRUE]
  /\ UNCHANGED <<cl, im, exists, pub, cache, queued, passVars, nvm, nfaults, dropped>>

PauseCluster ==
  /\ \/ ~cl.paused /\ Fault("pause")
     \/ cl.paused /\ NoFault
  /\ cl' = [cl EXCEPT !.paused = ~@]
  /\ UNCHANGED <<mc, im, exists, pub, cache, queued, passVars, nvm, dropped>>

\* The ICSVM controller publishes what its contract allows; a VM it names is new,
\* or the one it named last.
PublishVM ==
  /\ exists
  /\ \E b \in {pub.bios, NoUUID, nvm, nvm + 1} \cap (VMIds \cup {NoUUID}), a, r \in BOOLEAN :
       /\ pub' = [bios |-> b, addrs |-> a, ready |-> r] /\ pub' # pub
       /\ nvm' = IF b = nvm + 1 THEN b ELSE nvm
  /\ VM!Publish
  /\ UNCHANGED <<cl, mc, im, exists, cache, queued, passVars, nfaults, dropped>>

Init ==
  /\ cl = NewObjects.cl /\ mc = NewObjects.mc /\ im = NewICSMachine
  /\ exists = FALSE /\ pub = VM!Nothing
  /\ cache = NewObjects /\ queued = TRUE
  /\ pc = "idle" /\ before = NewICSMachine /\ go = FALSE /\ icsm = NewICSMachine
  /\ read = NotRead /\ ret = "nil"
  /\ nvm = 0 /\ nfaults = 0 /\ dropped = FALSE

Watch == WatchICSMachine \/ WatchMachine \/ WatchICSVM \/ WatchCluster

Next ==
  \/ Pass \/ Watch \/ Resync \/ Restart
  \/ SetOwner \/ InfrastructureReady \/ BootstrapReady \/ PauseCluster \/ PublishVM

Spec == Init /\ [][Next]_vars

\* The work queue runs passes and every watch delivers.  Nobody counts on the resync
\* unless an error was logged that should have been returned.
Fairness ==
  /\ WF_vars(Pass) /\ WF_vars(WatchICSMachine) /\ WF_vars(WatchMachine)
  /\ WF_vars(WatchICSVM) /\ WF_vars(WatchCluster) /\ WF_vars(dropped /\ Resync)

FairSpec == Spec /\ Fairness

(***************************************************************************)
(* Properties.                                                             *)
(***************************************************************************)
\* Cluster API copies ProviderID and addresses from an ICSMachine that says Ready: a
\* ready ICSMachine has both, whatever the caches showed to the pass that said so.
ReadyIsComplete == im.ready => im.provider # NoUUID /\ im.addrs

\* The ICSMachine is to have a VM.
Wanted == im.owned /\ cl.infra /\ mc.boot /\ ~cl.paused

\* A wanted ICSMachine gets its ICSVM, and in the end it has the ProviderID of the VM
\* that the ICSVM settles on, is ready and its Machine is labelled: no event that a
\* predicate ignores and no return without requeue loses the last change.
Converges ==
  /\ <>[]Wanted => <>exists
  /\ \A v \in VMIds :
       <>[](Wanted /\ pub = [bios |-> v, addrs |-> TRUE, ready |-> TRUE])
         => <>[](im.provider = v /\ im.ready /\ mc.label)
====
