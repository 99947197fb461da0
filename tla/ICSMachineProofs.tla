-------------------------- MODULE ICSMachineProofs --------------------------
(***************************************************************************)
(* Type correctness of ICSMachineController, and the proof that a ready    *)
(* ICSMachine has its ProviderID and an address.                           *)
(*                                                                         *)
(* ReadyIsComplete is not inductive: the deferred patch writes only the    *)
(* fields that differ from the version the pass read, so that what it      *)
(* leaves alone must be as complete in the API server as it was there.     *)
(* PatchSafe says so: an ICSMachine only ever gains ProviderID, addresses  *)
(* and Ready, hence the stored one is at least as complete as the cached   *)
(* one and as the one the pass started from.                               *)
(***************************************************************************)
EXTENDS ICSMachineController, TLAPS

\* b has at least what a has.
Gains(a, b) ==
  /\ a.provider # NoUUID => b.provider # NoUUID
  /\ a.addrs => b.addrs
  /\ a.ready => b.ready

Complete(o) == o.ready => o.provider # NoUUID /\ o.addrs

PatchSafe ==
  /\ Complete(im) /\ Complete(cache.im) /\ Complete(before) /\ Complete(icsm)
  /\ Gains(cache.im, im) /\ Gains(before, im) /\ Gains(before, icsm)

IInv == TypeOK /\ PatchSafe

USE BoundsAssumption, FaultsAssumption

\* The initial and idle values are well typed and claim nothing.
LEMMA BlankTyped ==
  /\ VM!Nothing \in VM!Published
  /\ NewICSMachine \in ICSMachine /\ NewObjects \in Objects
  /\ NewObjects.cl \in Cluster /\ NewObjects.mc \in Machine
  /\ Complete(NewICSMachine) /\ \A o \in ICSMachine : Gains(NewICSMachine, o)
  /\ NotRead \in 0..NotRead
<1>1. VM!Nothing \in VM!Published
  BY DEF VM!Nothing, VM!Published, NoUUID
<1>2. NewICSMachine \in ICSMachine
  BY DEF NewICSMachine, ICSMachine, NoUUID
<1>3. NewObjects.cl \in Cluster /\ NewObjects.mc \in Machine
  BY DEF NewObjects, Cluster, Machine
<1>4. NewObjects \in Objects
  BY <1>1, <1>2 DEF NewObjects, Objects, Cluster, Machine
<1>5. Complete(NewICSMachine) /\ \A o \in ICSMachine : Gains(NewICSMachine, o)
  BY DEF NewICSMachine, Complete, Gains
<1>6. NotRead \in 0..NotRead
  BY DEF NotRead
<1> QED BY <1>1, <1>2, <1>3, <1>4, <1>5, <1>6

\* The initial state is well typed.
LEMMA InitTyped == Init => TypeOK
<1> SUFFICES ASSUME Init PROVE TypeOK
  OBVIOUS
<1>1. /\ cl \in Cluster /\ mc \in Machine /\ im \in ICSMachine /\ cache \in Objects
      /\ before \in ICSMachine /\ icsm \in ICSMachine /\ pub \in VM!Published
  BY BlankTyped, Zenon DEF Init
<1>2. nvm \in 0..MaxVMs /\ nfaults \in 0..MaxFaults /\ read \in 0..NotRead
  BY DEF Init, NotRead
<1> QED BY <1>1, <1>2 DEF Init, TypeOK

\* What createOrPatchICSVM returns is copied to the ICSMachine.
LEMMA CopyTyped ==
  ASSUME TypeOK, NEW v \in VM!Published, CopyFromICSVM(v)
  PROVE  icsm' \in ICSMachine /\ pc' \in {"label", "finish"} /\ ret' \in {"nil", "err", "after"}
<1> DEFINE addrs == icsm.addrs \/ v.addrs
<1>1. v.bios \in 0..MaxVMs /\ v.addrs \in BOOLEAN
  BY DEF VM!Published, VMIds, NoUUID
<1>2. [icsm EXCEPT !.provider = v.bios, !.addrs = addrs, !.ready = @ \/ addrs] \in ICSMachine
  BY <1>1 DEF TypeOK, ICSMachine
<1> QED BY <1>2 DEF TypeOK, CopyFromICSVM, Return, Waiting, HasAddresses

\* A fault keeps the fault counter within its bound.
LEMMA FaultTyped == ASSUME TypeOK, NEW k, Fault(k) PROVE nfaults' \in 0..MaxFaults
BY DEF TypeOK, Fault

\* Every step of a pass keeps the types.
LEMMA PassTyped == TypeOK /\ Pass => TypeOK'
<1> SUFFICES ASSUME TypeOK, Pass PROVE TypeOK'
  OBVIOUS
<1> USE BlankTyped, FaultTyped
<1>1. CASE SkipPass
  BY <1>1 DEF SkipPass, TypeOK, NoFault, apiVars, passVars
<1>2. CASE BeginPass
  <2>1. cache.im \in ICSMachine /\ CanProvision(cache) \in BOOLEAN
    BY DEF TypeOK, Objects, CanProvision, Cluster, Machine
  <2> QED BY <1>2, <2>1 DEF BeginPass, TypeOK, apiVars
<1>3. CASE SyncFailureReason
  <2>1. [icsm EXCEPT !.fin = TRUE] \in ICSMachine
    BY DEF TypeOK, ICSMachine
  <2> QED BY <1>3, <2>1 DEF SyncFailureReason, TypeOK, NoFault, Return, apiVars
<1>4. CASE GetICSVM
  <2>1. cache.pub.bios \in 0..NotRead
    BY DEF TypeOK, Objects, VM!Published, VMIds, NoUUID, NotRead
  <2> QED BY <1>4, <2>1 DEF GetICSVM, TypeOK, NoFault, Return, apiVars
<1>5. CASE CreateOrPatchICSVM
  <2> DEFINE u == MutatedUUID(read, cache.pub.bios)
  <2>1. cache.pub \in VM!Published /\ u \in VMIds \cup {NoUUID}
    BY DEF TypeOK, Objects, VM!Published, VMIds, NoUUID, NotRead, MutatedUUID
  <2>2. [pub EXCEPT !.bios = u] \in VM!Published
    BY <2>1 DEF TypeOK, VM!Published
  <2>3. /\ icsm' \in ICSMachine /\ pc' \in {"label", "finish"} /\ ret' \in {"nil", "err", "after"}
        /\ exists' \in BOOLEAN /\ pub' \in VM!Published /\ nfaults' \in 0..MaxFaults
    <3>1. CASE ~cache.exists /\ ~exists /\ NoFault /\ exists' = TRUE
               /\ CopyFromICSVM(VM!Nothing) /\ UNCHANGED pub
      BY <3>1, CopyTyped DEF TypeOK, NoFault
    <3>2. CASE NoFault /\ Return("err") /\ UNCHANGED <<exists, pub, icsm>>
      BY <3>2 DEF TypeOK, NoFault, Return
    <3>3. CASE NoFault /\ CopyFromICSVM(cache.pub) /\ UNCHANGED <<exists, pub>>
      BY <3>3, <2>1, CopyTyped DEF TypeOK, NoFault
    <3>4. CASE NoFault /\ pub' = [pub EXCEPT !.bios = u]
               /\ CopyFromICSVM([pub EXCEPT !.bios = u]) /\ UNCHANGED exists
      BY <3>4, <2>2, CopyTyped DEF TypeOK, NoFault
    <3>5. CASE Fault("create") /\ Return("err") /\ UNCHANGED <<exists, pub, icsm>>
      BY <3>5 DEF TypeOK, Return
    <3> QED BY <1>5, <3>1, <3>2, <3>3, <3>4, <3>5 DEF CreateOrPatchICSVM
  <2> QED BY <1>5, <2>3 DEF CreateOrPatchICSVM, TypeOK
<1>6. CASE PatchMachineLabels
  <2>1. [mc EXCEPT !.label = TRUE] \in Machine
    BY DEF TypeOK, Machine
  <2> QED BY <1>6, <2>1 DEF PatchMachineLabels, TypeOK, NoFault, Return
<1>7. CASE Finish
  <2>1. ASSUME NEW a \in BOOLEAN, NEW b \in BOOLEAN PROVE Patched(a, b) \in ICSMachine
    BY DEF TypeOK, Patched, SpecPatched, StatusPatched, Written, ICSMachine
  <2>2. im' \in ICSMachine /\ queued' \in BOOLEAN /\ nfaults' \in 0..MaxFaults
    <3>1. PICK a \in BOOLEAN, b \in BOOLEAN :
            /\ IF a /\ b THEN NoFault ELSE Fault(IF a \/ b THEN "partial" ELSE "patch")
            /\ im' = Patched(a, b)
            /\ queued' = (queued \/ ret # "nil" \/ ~a \/ ~b)
      BY <1>7 DEF Finish
    <3> QED BY <3>1, <2>1 DEF NoFault, TypeOK
  <2> QED BY <1>7, <2>2 DEF Finish, EndPass, TypeOK
<1> QED BY <1>1, <1>2, <1>3, <1>4, <1>5, <1>6, <1>7 DEF Pass

\* So do the watches, the manager, Cluster API and the ICSVM controller.
LEMMA OutsideTyped ==
  ASSUME TypeOK, Next, ~Pass PROVE TypeOK'
<1> USE BlankTyped, FaultTyped
<1>1. CASE WatchICSMachine
  <2>1. [cache EXCEPT !.im = im] \in Objects BY DEF TypeOK, Objects
  <2> QED BY <1>1, <2>1 DEF WatchICSMachine, TypeOK, apiVars, passVars
<1>2. CASE WatchMachine
  <2>1. [cache EXCEPT !.mc = mc] \in Objects BY DEF TypeOK, Objects
  <2> QED BY <1>2, <2>1 DEF WatchMachine, TypeOK, apiVars, passVars
<1>3. CASE WatchICSVM
  <2>1. [cache EXCEPT !.exists = exists, !.pub = pub] \in Objects BY DEF TypeOK, Objects
  <2>2. ICSVMEvent(cache, cache') \in BOOLEAN BY DEF TypeOK, Objects, ICSVMEvent
  <2> QED BY <1>3, <2>1, <2>2 DEF WatchICSVM, TypeOK, apiVars, passVars
<1>4. CASE WatchCluster
  <2>1. [cache EXCEPT !.cl = cl] \in Objects BY DEF TypeOK, Objects
  <2> QED BY <1>4, <2>1 DEF WatchCluster, TypeOK, NoFault, apiVars, passVars
<1>5. CASE Resync
  BY <1>5 DEF Resync, TypeOK, apiVars, passVars
<1>6. CASE Restart
  <2>1. Current \in Objects BY DEF TypeOK, Current, Objects
  <2> QED BY <1>6, <2>1 DEF Restart, EndPass, TypeOK, apiVars
<1>7. CASE SetOwner
  <2>1. [im EXCEPT !.owned = TRUE] \in ICSMachine BY DEF TypeOK, ICSMachine
  <2> QED BY <1>7, <2>1 DEF SetOwner, TypeOK, passVars
<1>8. CASE InfrastructureReady
  <2>1. [cl EXCEPT !.infra = TRUE] \in Cluster BY DEF TypeOK, Cluster
  <2> QED BY <1>8, <2>1 DEF InfrastructureReady, TypeOK, passVars
<1>9. CASE BootstrapReady
  <2>1. [mc EXCEPT !.boot = TRUE] \in Machine BY DEF TypeOK, Machine
  <2> QED BY <1>9, <2>1 DEF BootstrapReady, TypeOK, passVars
<1>10. CASE PauseCluster
  <2>1. [cl EXCEPT !.paused = ~@] \in Cluster BY DEF TypeOK, Cluster
  <2> QED BY <1>10, <2>1 DEF PauseCluster, TypeOK, NoFault, passVars
<1>11. CASE PublishVM
  <2>1. pub' \in VM!Published BY <1>11 DEF PublishVM, VM!Publish
  <2>2. nvm' \in 0..MaxVMs
    BY <1>11 DEF PublishVM, TypeOK, VMIds, NoUUID
  <2> QED BY <1>11, <2>1, <2>2 DEF PublishVM, TypeOK, passVars
<1> QED BY <1>1, <1>2, <1>3, <1>4, <1>5, <1>6, <1>7, <1>8, <1>9, <1>10, <1>11 DEF Next, Watch

\* Every variable of the ICSMachine controller's model keeps its type.
THEOREM TypeCorrect == Spec => []TypeOK
<1>1. TypeOK /\ [Next]_vars => TypeOK'
  <2>1. CASE UNCHANGED vars
    BY <2>1 DEF TypeOK, vars, apiVars, passVars
  <2> QED BY <2>1, PassTyped, OutsideTyped
<1> QED BY InitTyped, <1>1, PTL DEF Spec

(***************************************************************************)
(* A ready ICSMachine is complete.                                         *)
(***************************************************************************)
\* The copy keeps what the working copy had, and says Ready only when it is complete.
LEMMA CopySafe ==
  ASSUME TypeOK, Complete(icsm), NEW v \in VM!Published, CopyFromICSVM(v)
  PROVE  Complete(icsm') /\ Gains(icsm, icsm')
<1>1. CASE UNCHANGED icsm
  BY <1>1 DEF Gains
<1>2. CASE v.bios # NoUUID /\ icsm' = [icsm EXCEPT !.provider = v.bios, !.addrs = @ \/ v.addrs,
                                     !.ready = @ \/ HasAddresses(icsm.addrs \/ v.addrs)]
  BY <1>2 DEF Complete, Gains, HasAddresses, TypeOK, ICSMachine
<1> QED BY <1>1, <1>2 DEF CopyFromICSVM

\* A merge patch that is stored as a whole keeps the stored ICSMachine complete.
LEMMA PatchKeepsComplete ==
  ASSUME TypeOK, PatchSafe PROVE Complete(Patched(TRUE, TRUE)) /\ Gains(im, Patched(TRUE, TRUE))
BY DEF TypeOK, PatchSafe, Patched, SpecPatched, StatusPatched, Written, Complete, Gains, ICSMachine

\* Gaining is transitive.
LEMMA GainsTransitive ==
  ASSUME NEW a, NEW b, NEW c, Gains(a, b), Gains(b, c) PROVE Gains(a, c)
BY DEF Gains

\* Every step keeps PatchSafe, as long as no patch is stored by halves.
LEMMA StepSafe ==
  ASSUME "partial" \notin Faults, TypeOK, TypeOK', PatchSafe, [Next]_vars
  PROVE  PatchSafe'
<1>1. CASE UNCHANGED <<im, before, icsm>> /\ cache'.im \in {cache.im, im}
  BY <1>1 DEF PatchSafe, Gains
<1>2. CASE BeginPass
  BY <1>2 DEF BeginPass, PatchSafe, Gains, apiVars
<1>3. CASE SyncFailureReason
  <2>1. Gains(icsm, icsm') /\ Complete(icsm')
    BY <1>3 DEF SyncFailureReason, PatchSafe, Gains, Complete, TypeOK, ICSMachine
  <2> QED BY <1>3, <2>1 DEF SyncFailureReason, PatchSafe, Gains, apiVars
<1>4. CASE CreateOrPatchICSVM
  <2>1. Gains(icsm, icsm') /\ Complete(icsm')
    <3>1. CASE UNCHANGED icsm
      BY <3>1 DEF PatchSafe, Gains
    <3>2. CASE \E v \in VM!Published : CopyFromICSVM(v)
      BY <3>2, CopySafe DEF PatchSafe
    <3>3. /\ VM!Nothing \in VM!Published /\ cache.pub \in VM!Published
          /\ [pub EXCEPT !.bios = MutatedUUID(read, cache.pub.bios)] \in VM!Published
      BY BlankTyped DEF TypeOK, Objects, VM!Published, VMIds, NoUUID, NotRead, MutatedUUID
    <3> QED BY <1>4, <3>1, <3>2, <3>3 DEF CreateOrPatchICSVM
  <2> QED BY <1>4, <2>1 DEF CreateOrPatchICSVM, PatchSafe, Gains
<1>5. CASE Finish
  <2>1. im' \in {im, Patched(TRUE, TRUE)}
    <3>1. PICK a \in BOOLEAN, b \in BOOLEAN :
            /\ IF a /\ b THEN NoFault ELSE Fault(IF a \/ b THEN "partial" ELSE "patch")
            /\ im' = Patched(a, b)
      BY <1>5 DEF Finish
    <3>2. a = b
      BY <3>1 DEF Fault
    <3> QED BY <3>1, <3>2 DEF Patched
  <2>2. Complete(im') /\ Gains(im, im')
    BY <2>1, PatchKeepsComplete DEF PatchSafe, Gains
  <2>3. before' = NewICSMachine /\ icsm' = NewICSMachine /\ UNCHANGED cache
    BY <1>5 DEF Finish, EndPass
  <2> QED BY <2>2, <2>3, BlankTyped, GainsTransitive DEF PatchSafe, TypeOK
<1>6. CASE Restart
  <2>1. before' = NewICSMachine /\ icsm' = NewICSMachine /\ im' = im /\ cache'.im = im
    BY <1>6 DEF Restart, EndPass, Current, apiVars
  <2> QED BY <2>1, BlankTyped DEF PatchSafe, TypeOK, Gains
<1>7. CASE SetOwner
  <2>1. Gains(im, im') /\ Complete(im')
    BY <1>7 DEF SetOwner, PatchSafe, Gains, Complete, TypeOK, ICSMachine
  <2> QED BY <1>7, <2>1 DEF SetOwner, PatchSafe, Gains, passVars
<1>8. CASE Watch
  BY <1>1, <1>8 DEF Watch, WatchICSMachine, WatchMachine, WatchICSVM, WatchCluster, apiVars, passVars,
                    TypeOK, Objects
<1>9. CASE SkipPass \/ GetICSVM \/ PatchMachineLabels
  BY <1>1, <1>9 DEF SkipPass, GetICSVM, PatchMachineLabels, apiVars, passVars
<1>10. CASE Resync \/ InfrastructureReady \/ BootstrapReady \/ PauseCluster \/ PublishVM
  BY <1>1, <1>10 DEF Resync, InfrastructureReady, BootstrapReady, PauseCluster, PublishVM, apiVars, passVars
<1>11. CASE UNCHANGED vars
  BY <1>1, <1>11 DEF vars, apiVars, passVars
<1> QED BY <1>2, <1>3, <1>4, <1>5, <1>6, <1>7, <1>8, <1>9, <1>10, <1>11 DEF Next, Pass

\* When no patch is stored by halves, a ready ICSMachine has its ProviderID and an address,
\* for any number of VMs, any faults and any lag of the caches (reconcileProviderID,
\* reconcileNetwork and the deferred patch of Reconcile).
THEOREM ReadyMachinesComplete ==
  "partial" \notin Faults => (Spec => []ReadyIsComplete)
<1> SUFFICES ASSUME "partial" \notin Faults PROVE Spec => []ReadyIsComplete
  OBVIOUS
<1>1. Init => IInv
  BY InitTyped, BlankTyped DEF Init, IInv, PatchSafe, NewObjects
<1>2. IInv /\ [Next]_vars => IInv'
  <2> SUFFICES ASSUME IInv, [Next]_vars PROVE IInv'
    OBVIOUS
  <2>1. TypeOK'
    <3>1. CASE UNCHANGED vars
      BY <3>1 DEF IInv, TypeOK, vars, apiVars, passVars
    <3> QED BY <3>1, PassTyped, OutsideTyped DEF IInv
  <2> QED BY <2>1, StepSafe DEF IInv
<1>3. IInv => ReadyIsComplete
  BY DEF IInv, PatchSafe, Complete, ReadyIsComplete
<1> QED BY <1>1, <1>2, <1>3, PTL DEF Spec
====
