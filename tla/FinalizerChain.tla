--------------------------- MODULE FinalizerChain ---------------------------
(***************************************************************************)
(* How the finalizers of ICSCluster, ICSMachine and ICSVM keep the chain   *)
(* of owners alive until the VM in iCenter is gone.  It composes the       *)
(* ICSMachine controller (controllers/icsmachine_controller.go with        *)
(* VimMachineService), the deletion side of the ICSCluster controller, the *)
(* owner lookups of the ICSVM controller, Cluster API and the garbage      *)
(* collector.  What the ICSVM controller does once it reconciles is in     *)
(* ICSVMController; here a pass clones the VM and stores the finalizer,    *)
(* or destroys the VM and removes it.                                      *)
(*                                                                         *)
(* A pass may begin at any time: both delete branches ask for another pass *)
(* in 10 s, and the resync repeats the others.                             *)
(***************************************************************************)
EXTENDS Naturals

CONSTANTS
  Machines,   \* CAPI Machines; each names its ICSMachine and its ICSVM
  Faults,     \* the kinds of fault that occur
  MaxFaults   \* bound: faults in a behaviour

FaultKinds ==
  { "patch",   \* a write to the API server fails
    "conn",    \* a pass over the ICSVM does not reach iCenter
    "crash",   \* the manager restarts
    "stale" }  \* a pass may read informer caches that lag behind

\* The moments at which a chain of owners is cut although its VM is still there.
Cuts ==
  { "machine",  \* the ICSMachine is deleted before its finalizer is stored
    "vm",       \* the ICSVM is deleted before its finalizer is stored
    "conn",     \* the ICSVM's finalizer is removed with iCenter unreachable
    "release" } \* the Machine becomes owner while the ICSCluster releases the ICSMachine

ASSUME FaultsAssumption == Faults \subseteq FaultKinds /\ MaxFaults \in Nat

VARIABLES
  mach,    \* the CAPI Machines
  boot,    \* infrastructure ready and bootstrap data available
  ics,     \* the ICSCluster
  im,      \* the ICSMachines
  iv,      \* the ICSVMs
  vm,      \* iCenter holds the VM of the ICSVM
  cache,   \* ICSMachine and ICSVM as the informer caches hold them
  mpc,     \* where the ICSMachine pass stands
  vpc,     \* where the normal ICSVM pass stands
  cpc,     \* where the ICSCluster pass stands
  listed,  \* the ICSMachines as the ICSCluster's delete pass listed them ...
  todo,    \* ... and those of them it has still to look at
  unowned, \* the one whose finalizer it has just removed and which it deletes next
  cut,     \* history: how the chain of each Machine was cut
  seen     \* how many faults happened

vars == <<mach, boot, ics, im, iv, vm, cache, mpc, vpc, cpc, listed, todo, unowned, cut, seen>>

Object     == [exists: BOOLEAN, deleting: BOOLEAN, fin: BOOLEAN]
\* owned: has the Machine as owner; infra: has the ICSCluster as owner.
ICSMachine == [exists: BOOLEAN, deleting: BOOLEAN, fin: BOOLEAN, owned: BOOLEAN, infra: BOOLEAN]

\* Every variable stays in its type; the delete pass has still to look only at ICSMachines
\* that it has listed, and releases one at a time.
TypeOK ==
  /\ mach \in [Machines -> {"none", "live", "deleting", "gone"}]
  /\ boot \subseteq Machines
  /\ ics \in Object /\ im \in [Machines -> ICSMachine] /\ iv \in [Machines -> Object]
  /\ vm \in [Machines -> BOOLEAN]
  /\ cache \in [Machines -> [im: ICSMachine, iv: Object]]
  /\ mpc \in [Machines -> {"idle", "create", "addfin", "delete", "dropfin"}]
  /\ vpc \in [Machines -> {"idle", "clone", "patch"}]
  /\ cpc \in {"idle", "list", "delete", "dropfin"}
  /\ listed \in [Machines -> ICSMachine] /\ todo \subseteq {m \in Machines : listed[m].exists}
  /\ unowned \subseteq Machines \ todo /\ (\A m, n \in unowned : m = n)
  /\ unowned = {} \/ cpc = "delete"
  /\ cut \in [Machines -> SUBSET Cuts] /\ seen \in 0..MaxFaults

NoObject     == [exists |-> FALSE, deleting |-> FALSE, fin |-> FALSE]
NoICSMachine == [exists |-> FALSE, deleting |-> FALSE, fin |-> FALSE,
                 owned |-> FALSE, infra |-> FALSE]

\* The API server: a deleted object stays while it has a finalizer, and goes when
\* the last one is removed.
Deleted(o)   == IF o.fin THEN [o EXCEPT !.deleting = TRUE] ELSE [o EXCEPT !.exists = FALSE]
Finalized(o) == [o EXCEPT !.fin = o.fin \/ (o.exists /\ ~o.deleting)]
Released(o)  == [o EXCEPT !.fin = FALSE, !.exists = o.exists /\ ~o.deleting]

Current(m)  == [im |-> im[m], iv |-> iv[m]]
UpToDate(m) == "stale" \in Faults \/ cache[m] = Current(m)
Fault(k) == k \in Faults /\ seen < MaxFaults /\ seen' = seen + 1
NoFault  == UNCHANGED seen
HasMachine(m) == mach[m] \in {"live", "deleting"}
Cut(m, how, if) == cut' = [cut EXCEPT ![m] = IF if THEN @ \cup {how} ELSE @]

(***************************************************************************)
(* The ICSMachine controller.                                              *)
(***************************************************************************)
\* Reconcile: without ICSMachine or owner nothing happens; a deleted ICSMachine is
\* handled even without its ICSCluster, another one only with it.
BeginMachinePass(m) ==
  /\ mpc[m] = "idle" /\ UpToDate(m)
  /\ cache[m].im.exists /\ cache[m].im.owned /\ HasMachine(m)
  /\ cache[m].im.deleting \/ ics.exists
  /\ mpc' = [mpc EXCEPT ![m] = IF cache[m].im.deleting THEN "delete"
                               ELSE IF m \in boot THEN "create" ELSE "addfin"]
  /\ UNCHANGED <<mach, boot, ics, im, iv, vm, cache, vpc, cpc, listed, todo, unowned, cut, seen>>

\* createOrPatchICSVM; a Create that meets an ICSVM the cache does not show fails.
CreateICSVM(m) ==
  /\ mpc[m] = "create" /\ UpToDate(m)
  /\ mpc' = [mpc EXCEPT ![m] = "addfin"]
  /\ iv' = IF iv[m].exists \/ cache[m].iv.exists THEN iv
           ELSE [iv EXCEPT ![m] = [NoObject EXCEPT !.exists = TRUE]]
  /\ UNCHANGED <<mach, boot, ics, im, vm, cache, vpc, cpc, listed, todo, unowned, cut, seen>>

\* The deferred patch stores the finalizer that reconcileNormal has added.
PatchFinalizer(m) ==
  /\ mpc[m] = "addfin"
  /\ mpc' = [mpc EXCEPT ![m] = "idle"]
  /\ \/ im' = [im EXCEPT ![m] = Finalized(@)] /\ NoFault
     \/ Fault("patch") /\ UNCHANGED im
  /\ UNCHANGED <<mach, boot, ics, iv, vm, cache, vpc, cpc, listed, todo, unowned, cut>>

\* getICSVm answers NotFound.
ICSVMNotFound(o) == ~o.exists

\* The ICSVM is deleted.  Until its first pass has stored the finalizer, it goes at once,
\* whether or not that pass has a clone under way.
Unfinished(m) == ~iv[m].fin /\ (vm[m] \/ vpc[m] = "clone")

DeleteICSVM(m) ==
  /\ iv' = [iv EXCEPT ![m] = Deleted(@)]
  /\ Cut(m, "vm", Unfinished(m))

\* VimMachineService.ReconcileDelete: delete the ICSVM, or find it gone.
ReconcileDelete(m) ==
  /\ mpc[m] = "delete" /\ UpToDate(m)
  /\ LET o == cache[m].iv IN
     \/ /\ ICSVMNotFound(o)
        /\ mpc' = [mpc EXCEPT ![m] = "dropfin"] /\ UNCHANGED <<iv, cut>>
     \/ /\ ~ICSVMNotFound(o)
        /\ mpc' = [mpc EXCEPT ![m] = "idle"]
        /\ IF o.deleting THEN UNCHANGED <<iv, cut>> ELSE DeleteICSVM(m)
  /\ UNCHANGED <<mach, boot, ics, im, vm, cache, vpc, cpc, listed, todo, unowned, seen>>

ReleaseICSMachine(m) ==
  /\ mpc[m] = "dropfin"
  /\ mpc' = [mpc EXCEPT ![m] = "idle"]
  /\ (im' = [im EXCEPT ![m] = Released(@)] /\ NoFault) \/ (Fault("patch") /\ UNCHANGED im)
  /\ UNCHANGED <<mach, boot, ics, iv, vm, cache, vpc, cpc, listed, todo, unowned, cut>>

(***************************************************************************)
(* The ICSVM controller reconciles only with ICSMachine, ICSCluster and    *)
(* Machine at hand; otherwise it returns and does not requeue.             *)
(***************************************************************************)
OwnersFound(m) == cache[m].im.exists /\ ics.exists /\ HasMachine(m)

\* reconcileNormal adds the finalizer to the ICSVM in memory only.
BeginVMPass(m) ==
  /\ vpc[m] = "idle" /\ UpToDate(m) /\ OwnersFound(m)
  /\ cache[m].iv.exists /\ ~cache[m].iv.deleting
  /\ vpc' = [vpc EXCEPT ![m] = "clone"]
  /\ UNCHANGED <<mach, boot, ics, im, iv, vm, cache, mpc, cpc, listed, todo, unowned, cut, seen>>

\* ReconcileVM finds or clones the VM; the pass may also fail before.
CloneVM(m) ==
  /\ vpc[m] = "clone"
  /\ vpc' = [vpc EXCEPT ![m] = "patch"]
  /\ (vm' = [vm EXCEPT ![m] = TRUE] /\ NoFault) \/ (Fault("conn") /\ UNCHANGED vm)
  /\ UNCHANGED <<mach, boot, ics, im, iv, cache, mpc, cpc, listed, todo, unowned, cut>>

\* The patch after the clone request, or the deferred one, stores the finalizer.
PatchICSVM(m) ==
  /\ vpc[m] = "patch"
  /\ vpc' = [vpc EXCEPT ![m] = "idle"]
  /\ (iv' = [iv EXCEPT ![m] = Finalized(@)] /\ NoFault) \/ (Fault("patch") /\ UNCHANGED iv)
  /\ UNCHANGED <<mach, boot, ics, im, vm, cache, mpc, cpc, listed, todo, unowned, cut>>

VMPassNormal(m) == BeginVMPass(m) \/ CloneVM(m) \/ PatchICSVM(m)

\* reconcileDelete destroys the VM and then removes the finalizer; with iCenter out of
\* reach it removes the finalizer at once.
VMPassDelete(m) ==
  /\ vpc[m] = "idle" /\ UpToDate(m) /\ OwnersFound(m)
  /\ cache[m].iv.exists /\ cache[m].iv.deleting
  /\ \/ /\ vm' = [vm EXCEPT ![m] = FALSE] /\ UNCHANGED cut
        /\ (iv' = [iv EXCEPT ![m] = Released(@)] /\ NoFault) \/ (Fault("patch") /\ UNCHANGED iv)
     \/ /\ Fault("conn") /\ UNCHANGED vm /\ Cut(m, "conn", vm[m])
        /\ iv' = [iv EXCEPT ![m] = Released(@)]
  /\ UNCHANGED <<mach, boot, ics, im, cache, mpc, vpc, cpc, listed, todo, unowned>>

(***************************************************************************)
(* The ICSCluster controller.                                              *)
(***************************************************************************)
NoneListed == [m \in Machines |-> NoICSMachine]
ListedFrom(c) == [m \in Machines |-> IF c[m].im.exists THEN c[m].im ELSE NoICSMachine]

\* setOwnerRefsOnICSMachines, then the finalizer or reconcileDelete.
ClusterPass ==
  /\ cpc = "idle" /\ ics.exists /\ \A m \in Machines : UpToDate(m)
  /\ im' = [m \in Machines |-> [im[m] EXCEPT !.infra = @ \/ (cache[m].im.exists /\ im[m].exists)]]
  /\ IF ics.deleting THEN cpc' = "list" /\ UNCHANGED ics
                     ELSE ics' = Finalized(ics) /\ UNCHANGED cpc
  /\ UNCHANGED <<mach, boot, iv, vm, cache, mpc, vpc, listed, todo, unowned, cut, seen>>

ListICSMachines ==
  /\ cpc = "list" /\ \A m \in Machines : UpToDate(m)
  /\ cpc' = "delete"
  /\ listed' = ListedFrom(cache) /\ todo' = {m \in Machines : cache[m].im.exists}
  /\ UNCHANGED <<mach, boot, ics, im, iv, vm, cache, mpc, vpc, unowned, cut, seen>>

\* Mutant: the special case of the unowned ICSMachine is missing.
NoneUnowned(o) == FALSE

OwnedOnlyByICSCluster(o) == o.infra /\ ~o.owned

\* Mutant: the loop releases an ICSMachine and does not move on.
LookAtAgain(m) ==
  /\ cpc = "delete" /\ unowned = {} /\ m \in todo
  /\ IF OwnedOnlyByICSCluster(listed[m])
       THEN im' = [im EXCEPT ![m] = Released(@)] /\ unowned' = {m} /\ UNCHANGED todo
       ELSE todo' = todo \ {m} /\ UNCHANGED <<im, unowned>>
  /\ UNCHANGED <<mach, boot, ics, iv, vm, cache, mpc, vpc, cpc, listed, cut, seen>>

\* Mutant: the finalizer is removed with a patch, which nothing can refuse.
LookAtUnlocked(m) ==
  /\ cpc = "delete" /\ unowned = {} /\ m \in todo
  /\ IF OwnedOnlyByICSCluster(listed[m])
       THEN im' = [im EXCEPT ![m] = Released(@)] /\ unowned' = {m}
       ELSE UNCHANGED <<im, unowned>>
  /\ todo' = todo \ {m}
  /\ UNCHANGED <<mach, boot, ics, iv, vm, cache, mpc, vpc, cpc, listed, cut, seen>>

\* An ICSMachine that no Machine owns loses its finalizer; the Update is refused if the
\* ICSMachine has changed since it was listed, or fails, and the pass returns.
ReleaseUnowned(m) ==
  /\ im[m] = listed[m]
  /\ im' = [im EXCEPT ![m] = Released(@)]
  /\ unowned' = {m} /\ todo' = todo \ {m} /\ UNCHANGED <<cpc, listed>> /\ NoFault

UpdateRefused(m) ==
  /\ (im[m] # listed[m] /\ NoFault) \/ Fault("patch")
  /\ cpc' = "idle" /\ todo' = {} /\ listed' = NoneListed /\ UNCHANGED <<im, unowned>>

LookAt(m) ==
  /\ cpc = "delete" /\ unowned = {} /\ m \in todo
  /\ IF OwnedOnlyByICSCluster(listed[m])
       THEN ReleaseUnowned(m) \/ UpdateRefused(m)
       ELSE todo' = todo \ {m} /\ UNCHANGED <<im, cpc, listed, unowned>> /\ NoFault
  /\ UNCHANGED <<mach, boot, ics, iv, vm, cache, mpc, vpc, cut>>

\* Then it is deleted, by name, and counted as deleted whatever it has become since.  A
\* failed Delete is collected and ends the pass after the loop.
DeleteUnowned(m) ==
  /\ cpc = "delete" /\ m \in unowned
  /\ unowned' = {}
  /\ \/ /\ im' = [im EXCEPT ![m] = Deleted(@)] /\ NoFault
        /\ listed' = [listed EXCEPT ![m] = NoICSMachine]
     \/ Fault("patch") /\ UNCHANGED <<im, listed>>
  /\ UNCHANGED <<mach, boot, ics, iv, vm, cache, mpc, vpc, cpc, todo, cut>>

\* Mutant: the finalizer is removed while ICSMachines are left.
WaitsForNothing ==
  /\ cpc = "delete" /\ todo = {} /\ unowned = {}
  /\ cpc' = "dropfin" /\ listed' = NoneListed
  /\ UNCHANGED <<mach, boot, ics, im, iv, vm, cache, mpc, vpc, todo, unowned, cut, seen>>

\* Wait for the ICSMachines that are left, or go on.
WaitForICSMachines ==
  /\ cpc = "delete" /\ todo = {} /\ unowned = {}
  /\ cpc' = IF listed = NoneListed THEN "dropfin" ELSE "idle"
  /\ listed' = NoneListed
  /\ UNCHANGED <<mach, boot, ics, im, iv, vm, cache, mpc, vpc, todo, unowned, cut, seen>>

ReleaseICSCluster ==
  /\ cpc = "dropfin" /\ cpc' = "idle"
  /\ (ics' = Released(ics) /\ NoFault) \/ (Fault("patch") /\ UNCHANGED ics)
  /\ UNCHANGED <<mach, boot, im, iv, vm, cache, mpc, vpc, listed, todo, unowned, cut>>

(***************************************************************************)
(* Informers, manager, Cluster API and the garbage collector.              *)
(***************************************************************************)
\* ICSMachines and ICSVMs come through separate watches.
WatchEvent(m) ==
  /\ \/ cache[m].im # im[m] /\ cache' = [cache EXCEPT ![m].im = im[m]]
     \/ cache[m].iv # iv[m] /\ cache' = [cache EXCEPT ![m].iv = iv[m]]
  /\ UNCHANGED <<mach, boot, ics, im, iv, vm, mpc, vpc, cpc, listed, todo, unowned, cut, seen>>

Restart ==
  /\ Fault("crash")
  /\ mpc' = [m \in Machines |-> "idle"] /\ vpc' = [m \in Machines |-> "idle"]
  /\ cpc' = "idle" /\ listed' = NoneListed /\ todo' = {} /\ unowned' = {}
  /\ cache' = [m \in Machines |-> Current(m)]
  /\ UNCHANGED <<mach, boot, ics, im, iv, vm, cut>>

\* A Machine and its ICSMachine are created; the owner reference follows.
CreateMachine(m) ==
  /\ mach[m] = "none" /\ ics.exists /\ ~ics.deleting
  /\ mach' = [mach EXCEPT ![m] = "live"]
  /\ im' = [im EXCEPT ![m] = [NoICSMachine EXCEPT !.exists = TRUE]]
  /\ UNCHANGED <<boot, ics, iv, vm, cache, mpc, vpc, cpc, listed, todo, unowned, cut, seen>>

SetOwner(m) ==
  /\ HasMachine(m) /\ im[m].exists /\ ~im[m].owned
  /\ im' = [im EXCEPT ![m].owned = TRUE]
  /\ Cut(m, "release", m \in unowned)
  /\ UNCHANGED <<mach, boot, ics, iv, vm, cache, mpc, vpc, cpc, listed, todo, unowned, seen>>

BootstrapReady(m) ==
  /\ mach[m] = "live" /\ m \notin boot /\ ics.exists /\ ics.fin
  /\ boot' = boot \cup {m}
  /\ UNCHANGED <<mach, ics, im, iv, vm, cache, mpc, vpc, cpc, listed, todo, unowned, cut, seen>>

DeleteMachine(m) ==
  /\ mach[m] = "live"
  /\ mach' = [mach EXCEPT ![m] = "deleting"]
  /\ UNCHANGED <<boot, ics, im, iv, vm, cache, mpc, vpc, cpc, listed, todo, unowned, cut, seen>>

\* A Machine that never became owner of its ICSMachine goes away alone.
ForgetMachine(m) ==
  /\ mach[m] = "live" /\ im[m].exists /\ ~im[m].owned
  /\ mach' = [mach EXCEPT ![m] = "gone"]
  /\ UNCHANGED <<boot, ics, im, iv, vm, cache, mpc, vpc, cpc, listed, todo, unowned, cut, seen>>

\* The Machine controller deletes the ICSMachine and waits for it to go.
Protected(m) == im[m].fin \/ (mpc[m] = "idle" /\ ~iv[m].exists)

DeleteICSMachine(m) ==
  /\ mach[m] = "deleting" /\ im[m].exists /\ ~im[m].deleting
  /\ im' = [im EXCEPT ![m] = Deleted(@)]
  /\ Cut(m, "machine", ~Protected(m))
  /\ UNCHANGED <<mach, boot, ics, iv, vm, cache, mpc, vpc, cpc, listed, todo, unowned, seen>>

MachineGone(m) ==
  /\ mach[m] = "deleting" /\ ~im[m].exists
  /\ mach' = [mach EXCEPT ![m] = "gone"]
  /\ UNCHANGED <<boot, ics, im, iv, vm, cache, mpc, vpc, cpc, listed, todo, unowned, cut, seen>>

DeleteICSCluster ==
  /\ ics.exists /\ ~ics.deleting /\ ics.fin
  /\ ics' = Deleted(ics)
  /\ UNCHANGED <<mach, boot, im, iv, vm, cache, mpc, vpc, cpc, listed, todo, unowned, cut, seen>>

\* The garbage collector deletes an ICSVM whose owner is gone.
CollectGarbage(m) ==
  /\ iv[m].exists /\ ~iv[m].deleting /\ ~im[m].exists
  /\ DeleteICSVM(m)
  /\ UNCHANGED <<mach, boot, ics, im, vm, cache, mpc, vpc, cpc, listed, todo, unowned, seen>>

Init ==
  /\ mach = [m \in Machines |-> "none"] /\ boot = {}
  /\ ics = [NoObject EXCEPT !.exists = TRUE]
  /\ im = [m \in Machines |-> NoICSMachine] /\ iv = [m \in Machines |-> NoObject]
  /\ vm = [m \in Machines |-> FALSE]
  /\ cache = [m \in Machines |-> [im |-> NoICSMachine, iv |-> NoObject]]
  /\ mpc = [m \in Machines |-> "idle"] /\ vpc = [m \in Machines |-> "idle"]
  /\ cpc = "idle" /\ listed = NoneListed /\ todo = {} /\ unowned = {}
  /\ cut = [m \in Machines |-> {}] /\ seen = 0

MachinePass(m) ==
  \/ BeginMachinePass(m) \/ CreateICSVM(m) \/ PatchFinalizer(m)
  \/ ReconcileDelete(m) \/ ReleaseICSMachine(m)

ClusterStep ==
  \/ ClusterPass \/ ListICSMachines \/ WaitForICSMachines \/ ReleaseICSCluster
  \/ \E m \in Machines : LookAt(m) \/ DeleteUnowned(m)

Next ==
  \/ ClusterStep \/ Restart \/ DeleteICSCluster
  \/ \E m \in Machines :
       \/ MachinePass(m) \/ VMPassNormal(m) \/ VMPassDelete(m) \/ WatchEvent(m)
       \/ CreateMachine(m) \/ SetOwner(m) \/ BootstrapReady(m) \/ DeleteMachine(m)
       \/ ForgetMachine(m) \/ DeleteICSMachine(m) \/ MachineGone(m) \/ CollectGarbage(m)

Spec == Init /\ [][Next]_vars

\* A pass that has begun ends.  Deletion passes run again and again, watches deliver, Cluster
\* API and the garbage collector act; nobody has to create or delete anything.
Fairness ==
  /\ WF_vars(ClusterStep)
  /\ \A m \in Machines :
       /\ WF_vars(MachinePass(m)) /\ WF_vars(CloneVM(m) \/ PatchICSVM(m))
       /\ WF_vars(VMPassDelete(m)) /\ WF_vars(WatchEvent(m))
       /\ WF_vars(SetOwner(m)) /\ WF_vars(DeleteICSMachine(m)) /\ WF_vars(MachineGone(m))
       /\ WF_vars(CollectGarbage(m))

FairSpec == Spec /\ Fairness

(***************************************************************************)
(* Properties.                                                             *)
(***************************************************************************)
\* "MachineFinalizer allows ReconcileICSMachine to clean up ICS resources associated
\* with ICSMachine before removing it from the API Server": a VM outlives its ICSVM only
\* when that was deleted before its finalizer was stored or with iCenter unreachable; it
\* outlives its ICSMachine or the ICSCluster only after one of the four Cuts.
OwnersOutliveVM ==
  \A m \in Machines : vm[m] =>
    /\ iv[m].exists \/ cut[m] \cap {"vm", "conn"} # {}
    /\ (im[m].exists /\ ics.exists) \/ cut[m] # {}

\* A deleted Machine goes away, and its ICSMachine, its ICSVM and its VM with it: none of the
\* three controllers waits for an object that another has let go.  An ICSMachine deleted too
\* early leaves the ICSVM behind, any cut may leave the VM, and an ICSCluster that has
\* counted an owned ICSMachine as deleted may go first and leave everything.
MachineDeletionCompletes ==
  \A m \in Machines : mach[m] = "deleting" ~>
    \/ /\ mach[m] = "gone" /\ ~im[m].exists
       /\ ~iv[m].exists \/ "machine" \in cut[m]
       /\ ~vm[m] \/ cut[m] # {}
    \/ "release" \in cut[m]

\* A deleted ICSCluster goes away once no Machine is left to keep it.
ClusterDeletionCompletes ==
  (ics.deleting /\ \A m \in Machines : mach[m] # "live") ~> ~ics.exists
====
