--------------------------- MODULE FinalizerProofs --------------------------
(***************************************************************************)
(* Proofs about FinalizerChain, for any number of Machines and of faults,  *)
(* with informer caches that keep up.                                      *)
(*                                                                         *)
(* OwnersOutliveVM is not inductive: a pass acts on what it has read       *)
(* before.  Chain says what each pass may still rely on when it acts.      *)
(***************************************************************************)
EXTENDS FinalizerChain, TLAPS

(***************************************************************************)
(* Type correctness.                                                       *)
(***************************************************************************)
LEMMA ObjectTypes ==
  /\ NoObject \in Object /\ NoICSMachine \in ICSMachine
  /\ \A o \in Object : Deleted(o) \in Object /\ Finalized(o) \in Object /\ Released(o) \in Object
  /\ \A o \in ICSMachine : /\ Deleted(o) \in ICSMachine /\ Released(o) \in ICSMachine
                            /\ Finalized(o) \in ICSMachine
  BY DEF NoObject, NoICSMachine, Object, ICSMachine, Deleted, Finalized, Released

LEMMA FieldTypes ==
  ASSUME NEW o \in ICSMachine, NEW b \in BOOLEAN
  PROVE  [o EXCEPT !.owned = b] \in ICSMachine /\ [o EXCEPT !.infra = b] \in ICSMachine
  BY DEF ICSMachine

LEMMA FaultTyped == ASSUME TypeOK, NEW k, Fault(k) PROVE seen' \in 0..MaxFaults
  BY FaultsAssumption DEF TypeOK, Fault

\* The history of cuts only grows.
LEMMA CutGrows ==
  ASSUME TypeOK, NEW m \in Machines, NEW how \in Cuts, NEW b \in BOOLEAN, Cut(m, how, b)
  PROVE  /\ cut' \in [Machines -> SUBSET Cuts]
         /\ \A n \in Machines : cut[n] \subseteq cut'[n]
         /\ b => how \in cut'[m]
  <1>1. cut' = [cut EXCEPT ![m] = IF b THEN cut[m] \cup {how} ELSE cut[m]]
    BY DEF Cut
  <1> QED BY <1>1 DEF TypeOK

LEMMA ListedTyped == ASSUME TypeOK PROVE ListedFrom(cache) \in [Machines -> ICSMachine]
  BY ObjectTypes DEF TypeOK, ListedFrom

LEMMA DeletedTyped ==
  ASSUME TypeOK, NEW m \in Machines, DeleteICSVM(m)
  PROVE  iv' \in [Machines -> Object] /\ cut' \in [Machines -> SUBSET Cuts]
  <1>1. Unfinished(m) \in BOOLEAN /\ "vm" \in Cuts /\ Cut(m, "vm", Unfinished(m))
    BY DEF Unfinished, Cuts, DeleteICSVM
  <1>2. Deleted(iv[m]) \in Object
    BY ObjectTypes DEF TypeOK
  <1> QED BY <1>1, <1>2, CutGrows DEF DeleteICSVM, TypeOK

LEMMA MachineTypes ==
  ASSUME TypeOK, NEW m \in Machines, MachinePass(m)
  PROVE  TypeOK'
  <1> USE DEF TypeOK
  <1>1. CASE BeginMachinePass(m)
    BY <1>1 DEF BeginMachinePass
  <1>2. CASE CreateICSVM(m)
    BY <1>2 DEF CreateICSVM, NoObject, Object
  <1>3. CASE PatchFinalizer(m)
    <2>1. im' \in [Machines -> ICSMachine]
      BY <1>3, ObjectTypes DEF PatchFinalizer
    <2> QED BY <1>3, <2>1, FaultTyped DEF PatchFinalizer, NoFault
  <1>4. CASE ReconcileDelete(m)
    <2>1. iv' \in [Machines -> Object] /\ cut' \in [Machines -> SUBSET Cuts]
      <3>1. DeleteICSVM(m) \/ UNCHANGED <<iv, cut>>
        BY <1>4 DEF ReconcileDelete
      <3> QED BY <3>1, DeletedTyped
    <2> QED BY <1>4, <2>1 DEF ReconcileDelete
  <1>5. CASE ReleaseICSMachine(m)
    <2>1. im' \in [Machines -> ICSMachine]
      BY <1>5, ObjectTypes DEF ReleaseICSMachine
    <2> QED BY <1>5, <2>1, FaultTyped DEF ReleaseICSMachine, NoFault
  <1> QED BY <1>1, <1>2, <1>3, <1>4, <1>5 DEF MachinePass

LEMMA VMTypes ==
  ASSUME TypeOK, NEW m \in Machines, VMPassNormal(m) \/ VMPassDelete(m)
  PROVE  TypeOK'
  <1> USE DEF TypeOK
  <1>1. CASE BeginVMPass(m)
    BY <1>1 DEF BeginVMPass
  <1>2. CASE CloneVM(m)
    BY <1>2, FaultTyped DEF CloneVM, NoFault
  <1>3. CASE PatchICSVM(m)
    <2>1. iv' \in [Machines -> Object]
      BY <1>3, ObjectTypes DEF PatchICSVM
    <2> QED BY <1>3, <2>1, FaultTyped DEF PatchICSVM, NoFault
  <1>4. CASE VMPassDelete(m)
    <2>1. iv' \in [Machines -> Object] /\ vm' \in [Machines -> BOOLEAN]
      <3>1. Released(iv[m]) \in Object
        BY ObjectTypes
      <3>2. iv' = iv \/ iv' = [iv EXCEPT ![m] = Released(iv[m])]
        BY <1>4 DEF VMPassDelete
      <3>3. vm' = vm \/ vm' = [vm EXCEPT ![m] = FALSE]
        BY <1>4 DEF VMPassDelete
      <3>4. iv' \in [Machines -> Object]
        BY <3>1, <3>2
      <3>5. vm' \in [Machines -> BOOLEAN]
        BY <3>3
      <3> QED BY <3>4, <3>5
    <2>2. cut' \in [Machines -> SUBSET Cuts] /\ seen' \in 0..MaxFaults
      BY <1>4, CutGrows, FaultTyped DEF VMPassDelete, NoFault, Cuts
    <2> QED BY <1>4, <2>1, <2>2 DEF VMPassDelete
  <1> QED BY <1>1, <1>2, <1>3, <1>4 DEF VMPassNormal

LEMMA LookTypes ==
  ASSUME TypeOK, NEW m \in Machines, LookAt(m) \/ DeleteUnowned(m)
  PROVE  TypeOK'
  <1> USE DEF TypeOK
  <1>1. CASE LookAt(m)
    <2>1. im' \in [Machines -> ICSMachine]
      BY <1>1, ObjectTypes DEF LookAt, ReleaseUnowned, UpdateRefused
    <2>2. /\ listed' \in [Machines -> ICSMachine]
          /\ todo' \subseteq {n \in Machines : listed'[n].exists}
          /\ unowned' \subseteq Machines \ todo' /\ (\A k, n \in unowned' : k = n)
          /\ unowned' = {} \/ cpc' = "delete"
      BY <1>1, ObjectTypes DEF LookAt, ReleaseUnowned, UpdateRefused, NoneListed
    <2>3. seen' \in 0..MaxFaults
      BY <1>1, FaultTyped DEF LookAt, ReleaseUnowned, UpdateRefused, NoFault
    <2> QED BY <1>1, <2>1, <2>2, <2>3 DEF LookAt, ReleaseUnowned, UpdateRefused
  <1>2. CASE DeleteUnowned(m)
    <2>1. im' \in [Machines -> ICSMachine]
      BY <1>2, ObjectTypes DEF DeleteUnowned
    <2>2. /\ listed' \in [Machines -> ICSMachine]
          /\ todo' \subseteq {n \in Machines : listed'[n].exists} /\ unowned' = {}
      BY <1>2, ObjectTypes DEF DeleteUnowned
    <2>3. seen' \in 0..MaxFaults
      BY <1>2, FaultTyped DEF DeleteUnowned, NoFault
    <2> QED BY <1>2, <2>1, <2>2, <2>3 DEF DeleteUnowned
  <1> QED BY <1>1, <1>2

LEMMA ClusterTypes == ASSUME TypeOK, ClusterStep PROVE TypeOK'
  <1> USE DEF TypeOK
  <1>1. CASE ClusterPass
    <2>1. im' \in [Machines -> ICSMachine]
      <3>1. \A m \in Machines :
              (im[m].infra \/ (cache[m].im.exists /\ im[m].exists)) \in BOOLEAN
        BY Zenon
      <3> QED BY <1>1, <3>1, FieldTypes DEF ClusterPass
    <2> QED BY <1>1, <2>1, ObjectTypes DEF ClusterPass
  <1>2. CASE ListICSMachines
    BY <1>2, ListedTyped DEF ListICSMachines, ListedFrom
  <1>3. CASE \E m \in Machines : LookAt(m) \/ DeleteUnowned(m)
    BY <1>3, LookTypes
  <1>4. CASE WaitForICSMachines
    BY <1>4, ObjectTypes DEF WaitForICSMachines, NoneListed
  <1>5. CASE ReleaseICSCluster
    BY <1>5, ObjectTypes, FaultTyped DEF ReleaseICSCluster, NoFault
  <1> QED BY <1>1, <1>2, <1>3, <1>4, <1>5 DEF ClusterStep

LEMMA OtherTypes ==
  ASSUME TypeOK, NEW m \in Machines,
         \/ WatchEvent(m) \/ CreateMachine(m) \/ SetOwner(m) \/ BootstrapReady(m)
         \/ DeleteMachine(m) \/ ForgetMachine(m) \/ DeleteICSMachine(m) \/ MachineGone(m)
         \/ CollectGarbage(m)
  PROVE  TypeOK'
  <1> USE DEF TypeOK
  <1>1. CASE WatchEvent(m)
    <2>1. cache' \in [Machines -> [im: ICSMachine, iv: Object]]
      BY <1>1 DEF WatchEvent
    <2> QED BY <1>1, <2>1 DEF WatchEvent
  <1>2. CASE CreateMachine(m)
    BY <1>2 DEF CreateMachine, NoICSMachine, ICSMachine
  <1>3. CASE SetOwner(m)
    <2>1. im' \in [Machines -> ICSMachine]
      BY <1>3, FieldTypes DEF SetOwner
    <2>2. cut' \in [Machines -> SUBSET Cuts]
      BY <1>3 DEF SetOwner, Cut, Cuts
    <2> QED BY <1>3, <2>1, <2>2 DEF SetOwner
  <1>4. CASE BootstrapReady(m)
    BY <1>4 DEF BootstrapReady
  <1>5. CASE DeleteMachine(m) \/ ForgetMachine(m) \/ MachineGone(m)
    BY <1>5 DEF DeleteMachine, ForgetMachine, MachineGone
  <1>6. CASE DeleteICSMachine(m)
    <2>1. im' \in [Machines -> ICSMachine] /\ cut' \in [Machines -> SUBSET Cuts]
      BY <1>6, ObjectTypes, CutGrows DEF DeleteICSMachine, Protected, Cuts
    <2> QED BY <1>6, <2>1 DEF DeleteICSMachine
  <1>7. CASE CollectGarbage(m)
    <2>1. iv' \in [Machines -> Object] /\ cut' \in [Machines -> SUBSET Cuts]
      BY <1>7, DeletedTyped DEF CollectGarbage
    <2> QED BY <1>7, <2>1 DEF CollectGarbage
  <1> QED BY <1>1, <1>2, <1>3, <1>4, <1>5, <1>6, <1>7

LEMMA TypeInvariant == ASSUME TypeOK, [Next]_vars PROVE TypeOK'
  <1>1. CASE Restart
    BY <1>1, FaultTyped, ObjectTypes DEF Restart, TypeOK, NoneListed, Current
  <1>2. CASE DeleteICSCluster
    BY <1>2, ObjectTypes DEF DeleteICSCluster, TypeOK
  <1>3. CASE UNCHANGED vars
    BY <1>3 DEF vars, TypeOK
  <1> QED BY <1>1, <1>2, <1>3, MachineTypes, VMTypes, ClusterTypes, OtherTypes DEF Next

\* FinalizerChain is type correct for any number of Machines and any faults: the delete pass
\* of the ICSCluster never looks again at the ICSMachine that it is releasing.
THEOREM TypeCorrect == Spec => []TypeOK
  <1>1. Init => TypeOK
    <2>1. [NoObject EXCEPT !.exists = TRUE] \in Object
      BY DEF NoObject, Object
    <2> QED BY <2>1, ObjectTypes, FaultsAssumption DEF Init, TypeOK, NoneListed
  <1>2. QED BY <1>1, TypeInvariant, PTL DEF Spec

(***************************************************************************)
(* The chain of owners.                                                    *)
(***************************************************************************)
\* A VM, and a pass that is going to clone one, have their ICSVM.
VMHasICSVM ==
  \A m \in Machines : vm[m] \/ vpc[m] = "clone"
    => iv[m].exists \/ "vm" \in cut[m] \/ "conn" \in cut[m]

\* While its chain is not cut, an ICSMachine with an ICSVM, or about to get one, is there and
\* owned by its Machine, so that the ICSCluster does not release it.  Only an owned ICSMachine
\* has passes, and one that releases it has no ICSVM left.
ICSVMHasICSMachine ==
  /\ \A m \in Machines : (iv[m].exists \/ mpc[m] = "create") /\ cut[m] = {}
                           => im[m].exists /\ im[m].owned
  /\ \A m \in Machines : iv[m].exists \/ mpc[m] # "idle" => mach[m] # "none" /\ im[m].owned
  /\ \A m \in Machines : mpc[m] = "dropfin" => ~iv[m].exists

\* An ICSMachine has its ICSCluster: none escapes the list of the delete pass, since none is
\* created any more, and the one that the pass is releasing stays without owner and finalizer
\* unless the Machine becomes its owner in between.
ICSMachineHasICSCluster ==
  /\ \A m \in Machines : im[m].exists => ics.exists \/ "release" \in cut[m]
  /\ cpc # "idle" => ics.deleting
  /\ cpc = "delete" =>
       \A m \in Machines : im[m].exists => listed[m].exists \/ "release" \in cut[m]
  /\ cpc = "dropfin" => \A m \in Machines : im[m].exists => "release" \in cut[m]
  /\ \A m \in unowned : im[m].owned \/ im[m].fin => "release" \in cut[m]

Chain == VMHasICSVM /\ ICSVMHasICSMachine /\ ICSMachineHasICSCluster

\* What the operations of the API server do to the fields that Chain is about.
LEMMA Effects ==
  ASSUME NEW o, o \in Object \/ o \in ICSMachine
  PROVE  /\ Deleted(o).exists <=> o.exists /\ o.fin
         /\ Deleted(o).fin <=> o.fin
         /\ Deleted(o).deleting <=> o.deleting \/ o.fin
         /\ Released(o).exists <=> o.exists /\ ~o.deleting
         /\ Released(o).deleting <=> o.deleting
         /\ ~Released(o).fin
         /\ Finalized(o).exists <=> o.exists
         /\ Finalized(o).deleting <=> o.deleting
  BY DEF Object, ICSMachine, Deleted, Released, Finalized

LEMMA OwnerKept ==
  ASSUME NEW o \in ICSMachine
  PROVE  /\ Deleted(o).owned <=> o.owned
         /\ Released(o).owned <=> o.owned
         /\ Finalized(o).owned <=> o.owned
  BY DEF ICSMachine, Deleted, Released, Finalized

LEMMA InfraKept ==
  ASSUME NEW o \in ICSMachine, NEW b \in BOOLEAN, NEW p, p = [o EXCEPT !.infra = b]
  PROVE  (p.exists <=> o.exists) /\ (p.owned <=> o.owned) /\ (p.fin <=> o.fin)
  BY DEF ICSMachine

\* Deleting an ICSVM: with its finalizer it stays, without it the cut is recorded.
LEMMA ICSVMDeleted ==
  ASSUME TypeOK, NEW m \in Machines, DeleteICSVM(m)
  PROVE  /\ \A n \in Machines : iv'[n].exists => iv[n].exists
         /\ \A n \in Machines : cut[n] \subseteq cut'[n]
         /\ \A n \in Machines : iv[n].exists /\ (vm[n] \/ vpc[n] = "clone")
                                   => iv'[n].exists \/ "vm" \in cut'[n]
  <1>1. Unfinished(m) \in BOOLEAN /\ Cut(m, "vm", Unfinished(m)) /\ "vm" \in Cuts
    BY DEF DeleteICSVM, Unfinished, Cuts
  <1>2. (\A n \in Machines : cut[n] \subseteq cut'[n]) /\ (Unfinished(m) => "vm" \in cut'[m])
    BY <1>1, CutGrows
  <1>3. iv' = [iv EXCEPT ![m] = Deleted(iv[m])] /\ (Deleted(iv[m]).exists <=> iv[m].exists /\ iv[m].fin)
    BY Effects DEF DeleteICSVM, TypeOK
  <1> QED BY <1>2, <1>3 DEF Unfinished, TypeOK

\* A step that leaves the ICSVMs, VMs and their passes alone and forgets no cut.
LEMMA VMKept ==
  ASSUME VMHasICSVM, UNCHANGED <<vm, vpc, iv>>, \A m \in Machines : cut[m] \subseteq cut'[m]
  PROVE  VMHasICSVM'
  BY DEF VMHasICSVM

\* A step that leaves the ICSMachines and what the delete pass knows of them alone.
LEMMA ClusterKept ==
  ASSUME ICSMachineHasICSCluster, UNCHANGED <<ics, im, cpc, listed, unowned>>,
         \A m \in Machines : cut[m] \subseteq cut'[m], unowned \subseteq Machines
  PROVE  ICSMachineHasICSCluster'
  BY DEF ICSMachineHasICSCluster

LEMMA MachineChain ==
  ASSUME "stale" \notin Faults, TypeOK, Chain, NEW m \in Machines, MachinePass(m)
  PROVE  Chain'
  <1> USE DEF TypeOK, Chain
  <1>1. CASE BeginMachinePass(m)
    <2>1. cache[m] = Current(m)
      BY <1>1 DEF BeginMachinePass, UpToDate
    <2>2. ICSVMHasICSMachine'
      BY <1>1, <2>1 DEF BeginMachinePass, Current, HasMachine, ICSVMHasICSMachine
    <2> QED BY <1>1, <2>2, VMKept, ClusterKept DEF BeginMachinePass
  <1>2. CASE CreateICSVM(m)
    <2>1. UNCHANGED <<vm, vpc, cut, mach, ics, im, cpc, listed, unowned>>
      BY <1>2 DEF CreateICSVM
    <2>2. /\ \A n \in Machines \ {m} : iv'[n] = iv[n] /\ mpc'[n] = mpc[n]
          /\ iv[m].exists => iv'[m].exists
          /\ mpc[m] = "create" /\ mpc'[m] = "addfin"
      BY <1>2 DEF CreateICSVM
    <2>3. VMHasICSVM'
      BY <2>1, <2>2 DEF VMHasICSVM
    <2>4. ICSVMHasICSMachine'
      BY <2>1, <2>2 DEF ICSVMHasICSMachine
    <2> QED BY <2>1, <2>3, <2>4, ClusterKept
  <1>3. CASE PatchFinalizer(m)
    <2>1. UNCHANGED <<vm, vpc, iv, cut, mach, ics, cpc, listed, unowned>>
      BY <1>3 DEF PatchFinalizer
    <2>2. /\ \A n \in Machines : /\ im'[n].exists <=> im[n].exists
                                 /\ im'[n].owned <=> im[n].owned
          /\ \A n \in Machines \ {m} : im'[n] = im[n] /\ mpc'[n] = mpc[n]
          /\ mpc[m] = "addfin" /\ mpc'[m] = "idle"
      <3>1. /\ Finalized(im[m]).exists <=> im[m].exists
            /\ Finalized(im[m]).owned <=> im[m].owned
        BY Effects, OwnerKept
      <3>2. im' = im \/ im' = [im EXCEPT ![m] = Finalized(im[m])]
        BY <1>3 DEF PatchFinalizer
      <3> QED BY <1>3, <3>1, <3>2 DEF PatchFinalizer
    <2>3. ICSVMHasICSMachine'
      BY <2>1, <2>2 DEF ICSVMHasICSMachine
    <2>4. im[m].owned
      BY <2>2 DEF ICSVMHasICSMachine
    <2>5. ICSMachineHasICSCluster'
      BY <2>1, <2>2, <2>4 DEF ICSMachineHasICSCluster
    <2> QED BY <2>1, <2>3, <2>5, VMKept
  <1>4. CASE ReconcileDelete(m)
    <2>1. /\ UNCHANGED <<vm, vpc, mach, ics, im, cpc, listed, unowned>>
          /\ \A n \in Machines \ {m} : mpc'[n] = mpc[n]
          /\ mpc[m] = "delete" /\ mpc'[m] \in {"idle", "dropfin"}
      BY <1>4 DEF ReconcileDelete
    <2>2. UNCHANGED <<iv, cut>> \/ DeleteICSVM(m)
      BY <1>4 DEF ReconcileDelete
    <2>3. /\ \A n \in Machines : (iv'[n].exists => iv[n].exists) /\ cut[n] \subseteq cut'[n]
          /\ \A n \in Machines : iv[n].exists /\ (vm[n] \/ vpc[n] = "clone")
                                    => iv'[n].exists \/ "vm" \in cut'[n]
      BY <2>2, ICSVMDeleted
    <2>4. mpc'[m] = "dropfin" => ~iv[m].exists
      BY <1>4 DEF ReconcileDelete, ICSVMNotFound, UpToDate, Current
    <2>5. VMHasICSVM'
      BY <2>1, <2>3 DEF VMHasICSVM
    <2>6. ICSVMHasICSMachine'
      BY <2>1, <2>3, <2>4 DEF ICSVMHasICSMachine
    <2> QED BY <2>1, <2>3, <2>5, <2>6, ClusterKept
  <1>5. CASE ReleaseICSMachine(m)
    <2>1. /\ UNCHANGED <<vm, vpc, iv, cut, mach, ics, cpc, listed, unowned>>
          /\ \A n \in Machines \ {m} : im'[n] = im[n] /\ mpc'[n] = mpc[n]
          /\ mpc[m] = "dropfin" /\ mpc'[m] = "idle"
      BY <1>5 DEF ReleaseICSMachine
    <2>2. /\ im'[m].exists => im[m].exists
          /\ im'[m].owned <=> im[m].owned
          /\ im'[m].fin => im[m].fin
      BY <1>5, Effects, OwnerKept DEF ReleaseICSMachine
    <2>3. ICSVMHasICSMachine'
      BY <2>1, <2>2 DEF ICSVMHasICSMachine
    <2>4. ICSMachineHasICSCluster'
      BY <2>1, <2>2 DEF ICSMachineHasICSCluster
    <2> QED BY <2>1, <2>3, <2>4, VMKept
  <1> QED BY <1>1, <1>2, <1>3, <1>4, <1>5 DEF MachinePass

LEMMA VMChain ==
  ASSUME "stale" \notin Faults, TypeOK, Chain, NEW m \in Machines,
         VMPassNormal(m) \/ VMPassDelete(m)
  PROVE  Chain'
  <1> USE DEF TypeOK, Chain
  <1>1. CASE BeginVMPass(m)
    <2>1. VMHasICSVM'
      BY <1>1 DEF BeginVMPass, UpToDate, Current, VMHasICSVM
    <2>2. ICSVMHasICSMachine'
      BY <1>1 DEF BeginVMPass, ICSVMHasICSMachine
    <2> QED BY <1>1, <2>1, <2>2, ClusterKept DEF BeginVMPass
  <1>2. CASE CloneVM(m)
    <2>1. VMHasICSVM'
      BY <1>2 DEF CloneVM, VMHasICSVM
    <2>2. ICSVMHasICSMachine'
      BY <1>2 DEF CloneVM, ICSVMHasICSMachine
    <2> QED BY <1>2, <2>1, <2>2, ClusterKept DEF CloneVM
  <1>3. CASE PatchICSVM(m)
    <2>1. \A n \in Machines : iv'[n].exists <=> iv[n].exists
      <3>1. Finalized(iv[m]).exists <=> iv[m].exists
        BY Effects
      <3>2. iv' = iv \/ iv' = [iv EXCEPT ![m] = Finalized(iv[m])]
        BY <1>3 DEF PatchICSVM
      <3> QED BY <3>1, <3>2
    <2>2. VMHasICSVM'
      BY <1>3, <2>1 DEF PatchICSVM, VMHasICSVM
    <2>3. ICSVMHasICSMachine'
      BY <1>3, <2>1 DEF PatchICSVM, ICSVMHasICSMachine
    <2> QED BY <1>3, <2>2, <2>3, ClusterKept DEF PatchICSVM
  <1>4. CASE VMPassDelete(m)
    <2>1. /\ \A n \in Machines \ {m} : iv'[n] = iv[n] /\ vm'[n] = vm[n]
          /\ iv'[m].exists => iv[m].exists
          /\ UNCHANGED <<mach, ics, im, mpc, vpc, cpc, listed, unowned>> /\ vpc[m] = "idle"
      BY <1>4, Effects DEF VMPassDelete
    <2>2. \A n \in Machines : cut[n] \subseteq cut'[n]
      BY <1>4, CutGrows DEF VMPassDelete, Cuts
    <2>3. ~vm'[m] \/ "conn" \in cut'[m]
      BY <1>4, CutGrows DEF VMPassDelete, Cuts
    <2>4. VMHasICSVM'
      BY <2>1, <2>2, <2>3 DEF VMHasICSVM
    <2>5. ICSVMHasICSMachine'
      BY <2>1, <2>2 DEF ICSVMHasICSMachine
    <2> QED BY <2>1, <2>2, <2>4, <2>5, ClusterKept
  <1> QED BY <1>1, <1>2, <1>3, <1>4 DEF VMPassNormal

LEMMA ClusterChain ==
  ASSUME "stale" \notin Faults, TypeOK, Chain, ClusterStep
  PROVE  Chain'
  <1> USE DEF TypeOK, Chain
  <1>1. CASE ClusterPass
    <2>1. \A m \in Machines : /\ im'[m].exists <=> im[m].exists
                              /\ im'[m].owned <=> im[m].owned
                              /\ im'[m].fin <=> im[m].fin
      <3>2. \A m \in Machines :
              (im[m].infra \/ (cache[m].im.exists /\ im[m].exists)) \in BOOLEAN
        BY Zenon
      <3>3. \A m \in Machines : \E b \in BOOLEAN : im'[m] = [im[m] EXCEPT !.infra = b]
        BY <1>1, <3>2 DEF ClusterPass
      <3> SUFFICES ASSUME NEW m \in Machines
                   PROVE  /\ im'[m].exists <=> im[m].exists
                          /\ im'[m].owned <=> im[m].owned
                          /\ im'[m].fin <=> im[m].fin
        OBVIOUS
      <3>4. PICK b \in BOOLEAN : im'[m] = [im[m] EXCEPT !.infra = b]
        BY <3>3
      <3> QED BY <3>4, InfraKept
    <2>2. (ics'.exists <=> ics.exists) /\ (ics'.deleting <=> ics.deleting)
      BY <1>1, Effects DEF ClusterPass
    <2>3. cpc' = "idle" \/ (cpc' = "list" /\ ics'.deleting)
      BY <1>1, <2>2 DEF ClusterPass
    <2>4. UNCHANGED <<vm, vpc, iv, mpc, cut, mach, unowned>>
      BY <1>1 DEF ClusterPass
    <2>5. ICSVMHasICSMachine'
      BY <2>1, <2>4 DEF ICSVMHasICSMachine
    <2>6. ICSMachineHasICSCluster'
      BY <2>1, <2>2, <2>3, <2>4 DEF ICSMachineHasICSCluster
    <2> QED BY <2>4, <2>5, <2>6, VMKept
  <1>2. CASE ListICSMachines
    <2>1. UNCHANGED <<vm, vpc, iv, mpc, cut, mach, im, ics, unowned>> /\ cpc' = "delete" /\ cpc = "list"
      BY <1>2 DEF ListICSMachines
    <2>2. \A m \in Machines : im[m].exists => listed'[m].exists
      BY <1>2 DEF ListICSMachines, ListedFrom, UpToDate, Current
    <2>3. ICSMachineHasICSCluster'
      BY <2>1, <2>2 DEF ICSMachineHasICSCluster
    <2> QED BY <2>1, <2>3, VMKept DEF ICSVMHasICSMachine
  <1>3. ASSUME NEW m \in Machines, LookAt(m) PROVE Chain'
    <2>1. UNCHANGED <<vm, vpc, iv, mpc, cut, mach, ics>>
      BY <1>3 DEF LookAt
    <2>2. CASE OwnedOnlyByICSCluster(listed[m]) /\ ReleaseUnowned(m)
      <3>1. /\ \A n \in Machines \ {m} : im'[n] = im[n]
            /\ im'[m].exists => im[m].exists
            /\ ~im[m].owned /\ ~im'[m].owned /\ ~im'[m].fin
            /\ unowned' = {m} /\ UNCHANGED <<cpc, listed>>
        BY <2>2, Effects, OwnerKept DEF ReleaseUnowned, OwnedOnlyByICSCluster
      <3>2. ICSVMHasICSMachine'
        BY <2>1, <3>1 DEF ICSVMHasICSMachine
      <3>3. ICSMachineHasICSCluster'
        BY <2>1, <3>1 DEF ICSMachineHasICSCluster
      <3> QED BY <2>1, <3>2, <3>3, VMKept
    <2>3. CASE ~(OwnedOnlyByICSCluster(listed[m]) /\ ReleaseUnowned(m))
      <3>1. UNCHANGED <<im, unowned>> /\ (UNCHANGED <<cpc, listed>> \/ cpc' = "idle")
        BY <1>3, <2>3 DEF LookAt, UpdateRefused
      <3>2. ICSMachineHasICSCluster'
        BY <2>1, <3>1 DEF ICSMachineHasICSCluster
      <3> QED BY <2>1, <3>1, <3>2, VMKept DEF ICSVMHasICSMachine
    <2> QED BY <2>2, <2>3
  <1>4. ASSUME NEW m \in Machines, DeleteUnowned(m) PROVE Chain'
    <2>1. /\ UNCHANGED <<vm, vpc, iv, mpc, cut, mach, ics, cpc>> /\ unowned' = {}
          /\ \A n \in Machines \ {m} : im'[n] = im[n] /\ listed'[n] = listed[n]
          /\ cpc = "delete" /\ m \in unowned
      BY <1>4 DEF DeleteUnowned
    <2>2. im'[m].owned <=> im[m].owned
      BY <1>4, OwnerKept DEF DeleteUnowned
    <2>3. im'[m].exists => im[m].exists /\ (im[m].fin \/ UNCHANGED listed)
      BY <1>4, Effects DEF DeleteUnowned
    <2>4. im[m].owned \/ im[m].fin => "release" \in cut[m]
      BY <2>1 DEF ICSMachineHasICSCluster
    <2>5. ICSVMHasICSMachine'
      BY <2>1, <2>2, <2>4 DEF ICSVMHasICSMachine
    <2>6. ICSMachineHasICSCluster'
      BY <2>1, <2>3, <2>4 DEF ICSMachineHasICSCluster
    <2> QED BY <2>1, <2>5, <2>6, VMKept
  <1>5. CASE WaitForICSMachines
    <2>1. UNCHANGED <<vm, vpc, iv, mpc, cut, mach, im, ics, unowned>> /\ cpc = "delete"
      BY <1>5 DEF WaitForICSMachines
    <2>2. cpc' = "idle" \/ (cpc' = "dropfin" /\ \A m \in Machines : ~listed[m].exists)
      BY <1>5 DEF WaitForICSMachines, NoneListed, NoICSMachine
    <2>3. ICSMachineHasICSCluster'
      BY <2>1, <2>2 DEF ICSMachineHasICSCluster
    <2> QED BY <2>1, <2>3, VMKept DEF ICSVMHasICSMachine
  <1>6. CASE ReleaseICSCluster
    <2>1. UNCHANGED <<vm, vpc, iv, mpc, cut, mach, im, unowned>> /\ cpc = "dropfin" /\ cpc' = "idle"
      BY <1>6 DEF ReleaseICSCluster
    <2>2. ICSMachineHasICSCluster'
      BY <2>1 DEF ICSMachineHasICSCluster
    <2> QED BY <2>1, <2>2, VMKept DEF ICSVMHasICSMachine
  <1> QED BY <1>1, <1>2, <1>3, <1>4, <1>5, <1>6 DEF ClusterStep

LEMMA OtherChain ==
  ASSUME TypeOK, Chain, NEW m \in Machines,
         \/ WatchEvent(m) \/ CreateMachine(m) \/ SetOwner(m) \/ BootstrapReady(m)
         \/ DeleteMachine(m) \/ ForgetMachine(m) \/ DeleteICSMachine(m) \/ MachineGone(m)
         \/ CollectGarbage(m)
  PROVE  Chain'
  <1> USE DEF TypeOK, Chain
  <1>1. CASE CreateMachine(m)
    <2>1. /\ UNCHANGED <<vm, vpc, iv, mpc, cut, ics, cpc, listed, unowned>>
          /\ \A n \in Machines \ {m} : im'[n] = im[n] /\ mach'[n] = mach[n]
          /\ mach[m] = "none" /\ mach'[m] = "live" /\ ics.exists /\ cpc = "idle"
      BY <1>1 DEF CreateMachine, ICSMachineHasICSCluster
    <2>2. ~im'[m].owned /\ ~im'[m].fin
      BY <1>1 DEF CreateMachine, NoICSMachine
    <2>3. ICSVMHasICSMachine'
      BY <2>1 DEF ICSVMHasICSMachine
    <2>4. ICSMachineHasICSCluster'
      BY <2>1, <2>2 DEF ICSMachineHasICSCluster
    <2> QED BY <2>1, <2>3, <2>4, VMKept
  <1>2. CASE SetOwner(m)
    <2>1. /\ UNCHANGED <<vm, vpc, iv, mpc, mach, ics, cpc, listed, unowned>>
          /\ \A n \in Machines \ {m} : im'[n] = im[n]
      BY <1>2 DEF SetOwner
    <2>2. (im'[m].exists <=> im[m].exists) /\ im'[m].owned
      BY <1>2 DEF SetOwner, ICSMachine
    <2>3. (\A n \in Machines : cut[n] \subseteq cut'[n]) /\ (m \in unowned => "release" \in cut'[m])
      BY <1>2 DEF SetOwner, Cut
    <2>4. ICSVMHasICSMachine'
      BY <2>1, <2>2, <2>3 DEF ICSVMHasICSMachine
    <2>5. ICSMachineHasICSCluster'
      BY <2>1, <2>2, <2>3 DEF ICSMachineHasICSCluster
    <2> QED BY <2>1, <2>3, <2>4, <2>5, VMKept
  <1>3. CASE DeleteICSMachine(m)
    <2>1. /\ UNCHANGED <<vm, vpc, iv, mpc, mach, ics, cpc, listed, unowned>>
          /\ \A n \in Machines \ {m} : im'[n] = im[n]
          /\ im[m].exists
      BY <1>3 DEF DeleteICSMachine
    <2>2. /\ im'[m].exists <=> im[m].fin
          /\ im'[m].owned <=> im[m].owned
          /\ im'[m].fin <=> im[m].fin
      BY <1>3, <2>1, Effects, OwnerKept DEF DeleteICSMachine
    <2>3. (\A n \in Machines : cut[n] \subseteq cut'[n]) /\ (Protected(m) \/ "machine" \in cut'[m])
      BY <1>3, CutGrows DEF DeleteICSMachine, Protected, Cuts
    <2>4. ICSVMHasICSMachine'
      BY <2>1, <2>2, <2>3 DEF ICSVMHasICSMachine, Protected
    <2>5. ICSMachineHasICSCluster'
      BY <2>1, <2>2, <2>3 DEF ICSMachineHasICSCluster
    <2> QED BY <2>1, <2>3, <2>4, <2>5, VMKept
  <1>4. CASE CollectGarbage(m)
    <2>1. UNCHANGED <<vm, vpc, mpc, mach, ics, im, cpc, listed, unowned>> /\ DeleteICSVM(m)
      BY <1>4 DEF CollectGarbage
    <2>2. /\ \A n \in Machines : (iv'[n].exists => iv[n].exists) /\ cut[n] \subseteq cut'[n]
          /\ \A n \in Machines : iv[n].exists /\ (vm[n] \/ vpc[n] = "clone")
                                    => iv'[n].exists \/ "vm" \in cut'[n]
      BY <2>1, ICSVMDeleted
    <2>3. VMHasICSVM'
      BY <2>1, <2>2 DEF VMHasICSVM
    <2>4. ICSVMHasICSMachine'
      BY <2>1, <2>2 DEF ICSVMHasICSMachine
    <2> QED BY <2>1, <2>2, <2>3, <2>4, ClusterKept
  <1>5. CASE \/ WatchEvent(m) \/ BootstrapReady(m) \/ DeleteMachine(m) \/ ForgetMachine(m)
             \/ MachineGone(m)
    <2>1. /\ UNCHANGED <<vm, vpc, iv, mpc, cut, ics, im, cpc, listed, unowned>>
          /\ \A n \in Machines : mach'[n] = "none" => mach[n] = "none"
      BY <1>5 DEF WatchEvent, BootstrapReady, DeleteMachine, ForgetMachine, MachineGone
    <2> QED BY <2>1, VMKept, ClusterKept DEF ICSVMHasICSMachine
  <1> QED BY <1>1, <1>2, <1>3, <1>4, <1>5

LEMMA ChainInvariant ==
  ASSUME "stale" \notin Faults, TypeOK, Chain, [Next]_vars
  PROVE  Chain'
  <1> USE DEF TypeOK, Chain
  <1>1. CASE Restart
    <2>1. /\ UNCHANGED <<vm, iv, cut, mach, ics, im>> /\ cpc' = "idle" /\ unowned' = {}
          /\ \A m \in Machines : vpc'[m] = "idle" /\ mpc'[m] = "idle"
      BY <1>1 DEF Restart
    <2> QED BY <2>1 DEF VMHasICSVM, ICSVMHasICSMachine, ICSMachineHasICSCluster
  <1>2. CASE DeleteICSCluster
    <2>1. UNCHANGED <<vm, vpc, iv, mpc, cut, mach, im, cpc, listed, unowned>>
      BY <1>2 DEF DeleteICSCluster
    <2>2. ics'.exists /\ ics'.deleting
      BY <1>2, Effects DEF DeleteICSCluster
    <2> QED BY <2>1, <2>2, VMKept DEF ICSVMHasICSMachine, ICSMachineHasICSCluster
  <1>3. CASE UNCHANGED vars
    BY <1>3 DEF vars, VMHasICSVM, ICSVMHasICSMachine, ICSMachineHasICSCluster
  <1> QED BY <1>1, <1>2, <1>3, MachineChain, VMChain, ClusterChain, OtherChain DEF Next

\* For any number of Machines, and however often writes are refused, iCenter is out of reach
\* and the manager restarts: with caches that keep up, a VM outlives its ICSVM only when that
\* was deleted before its finalizer was stored or with iCenter unreachable, and its ICSMachine
\* or the ICSCluster only after one of the recorded cuts.
THEOREM OwnersStay == "stale" \notin Faults => (Spec => []OwnersOutliveVM)
  <1> SUFFICES ASSUME "stale" \notin Faults PROVE Spec => []OwnersOutliveVM
    OBVIOUS
  <1>1. Init => Chain
    BY DEF Init, Chain, VMHasICSVM, ICSVMHasICSMachine, ICSMachineHasICSCluster, NoObject, NoICSMachine
  <1>2. TypeOK /\ Chain /\ [Next]_vars => Chain'
    BY ChainInvariant
  <1>3. Chain => OwnersOutliveVM
    <2> SUFFICES ASSUME Chain, NEW m \in Machines, vm[m]
                 PROVE  /\ iv[m].exists \/ cut[m] \cap {"vm", "conn"} # {}
                        /\ (im[m].exists /\ ics.exists) \/ cut[m] # {}
      BY DEF OwnersOutliveVM
    <2>1. iv[m].exists \/ "vm" \in cut[m] \/ "conn" \in cut[m]
      BY DEF Chain, VMHasICSVM
    <2>2. cut[m] = {} => im[m].exists /\ ics.exists
      BY <2>1 DEF Chain, ICSVMHasICSMachine, ICSMachineHasICSCluster
    <2> QED BY <2>1, <2>2
  <1>4. QED BY <1>1, <1>2, <1>3, TypeCorrect, PTL DEF Spec
=============================================================================
