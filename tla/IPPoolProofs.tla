---------------------------- MODULE IPPoolProofs ----------------------------
(***************************************************************************)
(* Proofs about IPPool, for any set of ICSVMs and any list of addresses.   *)
(*                                                                         *)
(* AddressHeld is not inductive: between GetIPFromNetworkConfig and the    *)
(* registration, and between the registration and the clone or SetVM, the  *)
(* address is known only to the pass.  Tracked follows it there.           *)
(***************************************************************************)
EXTENDS IPPool, TLAPS

(***************************************************************************)
(* Type correctness.                                                       *)
(***************************************************************************)
LEMMA ChoicesType == ASSUME NEW taken PROVE Choices(taken) \subseteq AnyAddr
  <1>1. \A c \in Cidrs : FromCidr(c, taken) \subseteq AnyAddr
    BY DEF FromCidr, First, AnyAddr, Pool
  <1>2. UNION {FromCidr(c, taken) : c \in Cidrs} \subseteq AnyAddr
    <2> SUFFICES ASSUME NEW c \in Cidrs, NEW a \in FromCidr(c, taken) PROVE a \in AnyAddr
      OBVIOUS
    <2> QED BY <1>1
  <1>3. Statics \ taken \subseteq AnyAddr /\ NoAddr \in AnyAddr
    BY DEF AnyAddr, Pool
  <1>4. QED BY <1>2, <1>3 DEF Choices

LEMMA FreeType == Free \in IPAddress
  BY DEF Free, IPAddress

LEMMA DeletedType == ASSUME NEW i \in IPAddress PROVE Deleted(i) \in IPAddress
  BY FreeType DEF Deleted, IPAddress

LEMMA ReleaseType ==
  ASSUME TypeOK, NEW v \in VMs, ReconcileIPAddressesDelete(v)
  PROVE  ips' \in [Pool -> IPAddress] /\ record' \in BOOLEAN /\ seen' = seen
  BY DeletedType DEF TypeOK, ReconcileIPAddressesDelete, NoFault

LEMMA FaultType == ASSUME TypeOK, NEW k, NoFault \/ Fault(k) PROVE seen' \in 0..MaxFaults
  BY FaultsAssumption DEF TypeOK, NoFault, Fault

LEMMA AddressesType == ASSUME NEW a \in AnyAddr PROVE Addresses(a) \in [Nics -> AnyAddr]
  BY DEF Addresses, AnyAddr

LEMMA TypeInvariant == ASSUME TypeOK, [Next]_vars PROVE TypeOK'
  <1> USE DEF TypeOK, GoTo
  <1>a. NoAddr \in AnyAddr /\ Nics = {"first", "further"}
    BY DEF AnyAddr, Nics
  <1>1. ASSUME NEW v \in VMs, BeginClone(v) PROVE TypeOK'
    BY <1>1 DEF BeginClone
  <1>2. ASSUME NEW v \in VMs, BeginSetVM(v) PROVE TypeOK'
    BY <1>2, <1>a DEF BeginSetVM
  <1>3. ASSUME NEW v \in VMs, BeginPatch(v) PROVE TypeOK'
    BY <1>3 DEF BeginPatch
  <1>4. ASSUME NEW v \in VMs, GetIPFromNetworkConfig(v) PROVE TypeOK'
    <2>1. nic' \in [VMs -> AnyAddr]
      BY <1>4, ChoicesType DEF GetIPFromNetworkConfig
    <2>2. seen' \in 0..MaxFaults
      BY <1>4, FaultType DEF GetIPFromNetworkConfig, Listed
    <2> QED BY <1>4, <2>1, <2>2 DEF GetIPFromNetworkConfig
  <1>5. ASSUME NEW v \in VMs, CreateOrUpdateIPAddress(v) PROVE TypeOK'
    <2>1. \A a \in Pool : Claim(v, a) \in IPAddress
      BY DEF Claim, Claimed, IPAddress
    <2>2. ips' \in [Pool -> IPAddress]
      BY <1>5, <2>1 DEF CreateOrUpdateIPAddress
    <2>3. seen' \in 0..MaxFaults
      BY <1>5, FaultType DEF CreateOrUpdateIPAddress
    <2> QED BY <1>5, <2>2, <2>3 DEF CreateOrUpdateIPAddress
  <1>6. ASSUME NEW v \in VMs, CloneVM(v) PROVE TypeOK'
    <2>1. seen' \in 0..MaxFaults
      BY <1>6, FaultType DEF CloneVM
    <2>2. addr' \in [VMs -> [Nics -> AnyAddr]]
      <3>1. Addresses(nic[v]) \in [Nics -> AnyAddr]
        BY AddressesType
      <3>2. addr' = addr \/ addr' = [addr EXCEPT ![v] = Addresses(nic[v])]
        BY <1>6 DEF CloneVM
      <3> QED BY <3>1, <3>2
    <2> QED BY <1>6, <1>a, <2>1, <2>2 DEF CloneVM
  <1>7. ASSUME NEW v \in VMs, SetVM(v) PROVE TypeOK'
    <2>1. seen' \in 0..MaxFaults
      BY <1>7, FaultType DEF SetVM
    <2>2. addr' \in [VMs -> [Nics -> AnyAddr]]
      BY <1>7, <1>a DEF SetVM
    <2> QED BY <1>7, <1>a, <2>1, <2>2 DEF SetVM
  <1>8. ASSUME NEW v \in VMs, PatchICSVM(v) PROVE TypeOK'
    <2>1. seen' \in 0..MaxFaults
      BY <1>8, FaultType DEF PatchICSVM
    <2> QED BY <1>8, <2>1 DEF PatchICSVM
  <1>9. ASSUME NEW v \in VMs, PowerOnVM(v) PROVE TypeOK'
    <2>1. seen' \in 0..MaxFaults
      BY <1>9, FaultType DEF PowerOnVM
    <2> QED BY <1>9, <2>1 DEF PowerOnVM
  <1>10. ASSUME NEW v \in VMs, DeleteICSVM(v) PROVE TypeOK'
    BY <1>10 DEF DeleteICSVM
  <1>11. ASSUME NEW v \in VMs, DestroyVM(v) PROVE TypeOK'
    BY <1>11, <1>a, AddressesType DEF DestroyVM
  <1>12. ASSUME NEW v \in VMs, ReconcileDelete(v) PROVE TypeOK'
    <2>1. seen' \in 0..MaxFaults
      BY <1>12, FaultType DEF ReconcileDelete
    <2> QED BY <1>12, <2>1 DEF ReconcileDelete
  <1>13. ASSUME NEW v \in VMs, ReleaseICSVM(v) PROVE TypeOK'
    BY <1>13, ReleaseType DEF ReleaseICSVM
  <1>14. ASSUME NEW v \in VMs, PoweringOnFailed(v) PROVE TypeOK'
    BY <1>14 DEF PoweringOnFailed
  <1>15. ASSUME NEW v \in VMs, FreeAddresses(v) PROVE TypeOK'
    BY <1>15, ReleaseType DEF FreeAddresses
  <1>16. ASSUME NEW v \in VMs, DeleteTaskEnds(v) PROVE TypeOK'
    <2>1. addr' = addr \/ addr' = [addr EXCEPT ![v] = Addresses(NoAddr)]
      BY <1>16 DEF DeleteTaskEnds
    <2>2. Addresses(NoAddr) \in [Nics -> AnyAddr]
      BY <1>a, AddressesType
    <2>3. addr' \in [VMs -> [Nics -> AnyAddr]]
      BY <2>1, <2>2
    <2> QED BY <1>16, <2>3 DEF DeleteTaskEnds
  <1>17. ASSUME NEW a \in Pool, ReconcileIPAddress(a) PROVE TypeOK'
    <2>0. ips[a] \in IPAddress
      OBVIOUS
    <2>1. /\ [ips[a] EXCEPT !.fin = TRUE] \in IPAddress
          /\ [ips[a] EXCEPT !.fin = FALSE] \in IPAddress
      <3> HIDE DEF TypeOK
      <3> QED BY <2>0 DEF IPAddress
    <2>2. ips' \in [Pool -> IPAddress]
      BY <1>17, <2>1, FreeType DEF ReconcileIPAddress
    <2>3. seen' \in 0..MaxFaults
      BY <1>17, FaultType DEF ReconcileIPAddress, Listed
    <2> QED BY <1>17, <2>2, <2>3 DEF ReconcileIPAddress
  <1>18. ASSUME NEW a \in Pool, GarbageCollect(a) PROVE TypeOK'
    BY <1>18, DeletedType DEF GarbageCollect
  <1>19. CASE WatchEvent
    BY <1>19 DEF WatchEvent
  <1>20. CASE Restart
    <2>1. seen' \in 0..MaxFaults
      BY <1>20, FaultType DEF Restart
    <2> QED BY <1>20, <1>a, <2>1 DEF Restart
  <1>21. CASE UNCHANGED vars
    BY <1>21 DEF vars
  <1> QED
    BY <1>1, <1>2, <1>3, <1>4, <1>5, <1>6, <1>7, <1>8, <1>9, <1>10, <1>11, <1>12, <1>13,
       <1>14, <1>15, <1>16, <1>17, <1>18, <1>19, <1>20, <1>21
    DEF Next, Pass

\* IPPool is type correct for every set of ICSVMs, list of addresses and set of faults: in
\* particular GetIPFromNetworkConfig never yields an address outside IPAddrs.
THEOREM TypeCorrect == Spec => []TypeOK
  <1>1. Init => TypeOK
    BY FreeType, AddressesType, FaultsAssumption DEF Init, TypeOK, AnyAddr, Nics
  <1>2. QED BY <1>1, TypeInvariant, PTL DEF Spec

(***************************************************************************)
(* Uniqueness, as long as record holds.  No assumption is made on Faults:  *)
(* record is the history of what may have spoilt the objects.              *)
(***************************************************************************)
\* The IPAddress object of a is there for v, v among its owners, and the informer cache does
\* not show it to be another's.
Mine(v, a) ==
  /\ ips[a].st = "live" /\ ips[a].vmRef = v /\ v \in ips[a].owners
  /\ cache[a].st = "live" => cache[a].vmRef = v

\* Where an address is on its way to a NIC: chosen and free under the mutex, then registered
\* and new to the VM, then in use.
Chosen(v)     == pc[v] = "register" /\ nic[v] \in Pool =>
                   ips[nic[v]].st = "none" /\ cache[nic[v]].st = "none"
Registered(v) == pc[v] = "apply" /\ nic[v] \in Pool =>
                   Mine(v, nic[v]) /\ \A i \in Nics : InUse(v, i) => addr[v][i] # nic[v]
Used(v)       == \A i \in Nics : InUse(v, i) =>
                   Mine(v, addr[v][i]) /\ \A j \in Nics \ {i} : addr[v][j] # addr[v][i]
Left(v)       == icsvm[v] = "gone" => ~Runs(v) /\ pc[v] \notin {"list", "register", "apply"}

Tracked ==
  \A v \in VMs :
    /\ pc[v] \in {"list", "register"} => lock = v
    /\ Chosen(v) /\ Registered(v) /\ Used(v) /\ Left(v)

\* What a pass relies on while others work: what it has chosen stays free, and its own
\* objects stay its own.
LEMMA TrackedFrame ==
  ASSUME Tracked, NEW v \in VMs, UNCHANGED <<pc[v], nic[v], icsvm[v], vm[v], addr[v]>>,
         pc[v] \in {"list", "register"} => lock' = v,
         \A a \in Pool : ips[a].st = "none" /\ cache[a].st = "none" /\ lock = v =>
                           ips'[a].st = "none" /\ cache'[a].st = "none",
         \A a \in Pool : Mine(v, a) /\ icsvm[v] # "gone" => Mine(v, a)'
  PROVE  /\ pc'[v] \in {"list", "register"} => lock' = v
         /\ Chosen(v)' /\ Registered(v)' /\ Used(v)' /\ Left(v)'
  <1> USE DEF Tracked
  <1>1. Chosen(v)'
    BY DEF Chosen
  <1>2. Registered(v)'
    BY DEF Registered, InUse, Runs, Left
  <1>3. Used(v)'
    BY DEF Used, InUse, Runs, Left
  <1>4. Left(v)'
    BY DEF Left, Runs
  <1>5. QED BY <1>1, <1>2, <1>3, <1>4

LEMMA ChoicesFree ==
  ASSUME NEW taken, NEW a \in Choices(taken), a \in Pool
  PROVE  a \notin taken
  <1>1. \A c \in Cidrs : \A b \in FromCidr(c, taken) : b \in Pool => b \notin taken
    BY NullsAssumption DEF FromCidr, First
  <1>2. a \in UNION {FromCidr(c, taken) : c \in Cidrs} \/ a \in Statics \ taken \/ a = NoAddr
    BY DEF Choices
  <1>3. QED BY <1>1, <1>2, NullsAssumption

\* Releasing the addresses of v leaves those of the others alone, also with a list that lags.
LEMMA ReleaseOthers ==
  ASSUME TypeOK, NEW v \in VMs, ReconcileIPAddressesDelete(v), cache' = cache
  PROVE  \A a \in Pool :
           /\ ips[a].st = "none" /\ cache[a].st = "none" => ips'[a].st = "none"
           /\ \A w \in VMs \ {v} : Mine(w, a) => Mine(w, a)'
  <1>1. PICK done \in SUBSET Releasable(v) :
          ips' = [a \in Pool |-> IF a \in done THEN Deleted(ips[a]) ELSE ips[a]]
    BY DEF ReconcileIPAddressesDelete
  <1>2. \A a \in done : a \in Pool /\ cache[a].st = "live" /\ cache[a].vmRef = v
    BY DEF Releasable
  <1>3. QED BY <1>1, <1>2 DEF Mine

\* The record is never restored.
LEMMA RecordSpoilt == ASSUME TypeOK, [Next]_vars, record' PROVE record
  <1>1. CASE \E v \in VMs : Pass(v)
    BY <1>1 DEF TypeOK, Pass, BeginClone, BeginSetVM, BeginPatch, GetIPFromNetworkConfig,
       CreateOrUpdateIPAddress, CloneVM, SetVM, PoweringOnFailed, FreeAddresses, PatchICSVM,
       DestroyVM, ReconcileDelete, ReleaseICSVM, ReconcileIPAddressesDelete
  <1>2. CASE ~(\E v \in VMs : Pass(v))
    BY <1>2 DEF TypeOK, Next, PowerOnVM, DeleteICSVM, DeleteTaskEnds, ReconcileIPAddress,
       GarbageCollect, WatchEvent, Restart, vars
  <1>3. QED BY <1>1, <1>2

LEMMA TrackedInvariant ==
  ASSUME TypeOK, record => Tracked, [Next]_vars
  PROVE  record' => Tracked'
  <1> SUFFICES ASSUME record' PROVE Tracked'
    OBVIOUS
  <1>0. record /\ Tracked
    BY RecordSpoilt
  <1> USE <1>0 DEF TypeOK, GoTo
  <1> DEFINE Follows(w) == /\ pc[w] \in {"list", "register"} => lock = w
                           /\ Chosen(w) /\ Registered(w) /\ Used(w) /\ Left(w)
  <1>a. \A w \in VMs : Follows(w)
    BY DEF Tracked
  <1>b. (\A w \in VMs : Follows(w)') => Tracked'
    BY DEF Tracked
  <1>c. NoAddr \notin Pool /\ Nobody \notin VMs /\ Nics = {"first", "further"}
    BY NullsAssumption DEF Nics
  <1>1. ASSUME NEW v \in VMs, BeginClone(v) PROVE Tracked'
    <2>1. \A w \in VMs \ {v} : Follows(w)'
      BY <1>1, <1>a, <1>c DEF BeginClone, Unlocked, Chosen, Registered, Used, Left, Mine, InUse, Runs
    <2>2. Follows(v)'
      BY <1>1, <1>a, <1>c DEF BeginClone, Chosen, Registered, Used, Left, Mine, InUse, Runs
    <2> QED BY <2>1, <2>2, <1>b
  <1>2. ASSUME NEW v \in VMs, BeginSetVM(v) PROVE Tracked'
    <2>1. \A w \in VMs \ {v} : Follows(w)'
      BY <1>2, <1>a, <1>c DEF BeginSetVM, Unlocked, Chosen, Registered, Used, Left, Mine, InUse, Runs
    <2>2. Follows(v)'
      BY <1>2, <1>a, <1>c DEF BeginSetVM, Chosen, Registered, Used, Left, Mine, InUse, Runs
    <2> QED BY <2>1, <2>2, <1>b
  <1>3. ASSUME NEW v \in VMs, BeginPatch(v) PROVE Tracked'
    BY <1>3, <1>a, <1>b DEF BeginPatch, Chosen, Registered, Used, Left, Mine, InUse, Runs
  <1>4. ASSUME NEW v \in VMs, GetIPFromNetworkConfig(v) PROVE Tracked'
    <2>1. cache = ips /\ \E a \in Choices(Taken) : nic' = [nic EXCEPT ![v] = a]
      BY <1>4 DEF GetIPFromNetworkConfig
    <2>2. PICK a \in Choices(Taken) : nic' = [nic EXCEPT ![v] = a]
      BY <2>1
    <2>3. a \in Pool => ips[a].st = "none"
      BY <2>1, ChoicesFree DEF Taken
    <2>4. \A w \in VMs \ {v} : Follows(w)'
      BY <1>4, <1>a, <2>2 DEF GetIPFromNetworkConfig, Chosen, Registered, Used, Left, Mine, InUse, Runs
    <2>5. Follows(v)'
      BY <1>4, <1>a, <2>1, <2>2, <2>3
      DEF GetIPFromNetworkConfig, Chosen, Registered, Used, Left, Mine, InUse, Runs
    <2> QED BY <2>4, <2>5, <1>b
  <1>5. ASSUME NEW v \in VMs, CreateOrUpdateIPAddress(v) PROVE Tracked'
    <2>1. pc[v] = "register" /\ Chosen(v) /\ pc' = [pc EXCEPT ![v] = "apply"]
      BY <1>5, <1>a DEF CreateOrUpdateIPAddress
    <2>2. /\ nic[v] \in Pool => ips' = [ips EXCEPT ![nic[v]] = Claim(v, nic[v])]
          /\ nic[v] \notin Pool => ips' = ips
      BY <1>5 DEF CreateOrUpdateIPAddress
    <2>3. UNCHANGED <<cache, nic, icsvm, vm, addr>>
      BY <1>5 DEF CreateOrUpdateIPAddress
    <2>4. nic[v] \in Pool => Mine(v, nic[v])'
      BY <2>1, <2>2, <2>3 DEF Chosen, Mine, Claim, Claimed
    <2>5. \A w \in VMs, a \in Pool : Mine(w, a) => Mine(w, a)' /\ a # nic[v]
      BY <2>1, <2>2, <2>3 DEF Chosen, Mine
    <2>6. \A w \in VMs \ {v} : pc[w] \notin {"list", "register"}
      BY <2>1, <1>a
    <2>7. \A w \in VMs \ {v} : Follows(w)'
      BY <1>a, <2>1, <2>3, <2>5, <2>6 DEF Chosen, Registered, Used, Left, InUse, Runs
    <2>8. Follows(v)'
      <3>1. Registered(v)'
        BY <1>a, <2>1, <2>3, <2>4, <2>5 DEF Registered, Used, InUse, Runs
      <3>2. Used(v)'
        BY <1>a, <2>3, <2>5 DEF Used, InUse, Runs
      <3>3. Left(v)' /\ Chosen(v)'
        BY <1>a, <2>1, <2>3 DEF Left, Runs, Chosen
      <3> QED BY <2>1, <3>1, <3>2, <3>3
    <2> QED BY <2>7, <2>8, <1>b
  <1>6. ASSUME NEW v \in VMs, CloneVM(v) PROVE Tracked'
    <2>1. \A w \in VMs \ {v} : Follows(w)'
      BY <1>6, <1>a DEF CloneVM, Chosen, Registered, Used, Left, Mine, InUse, Runs
    <2>2. \A a \in Pool : a = nic[v] \/ Mine(v, a) => Mine(v, a)'
      BY <1>6, <1>a DEF CloneVM, Registered, Mine
    <2>3. Used(v)'
      BY <1>6, <1>a, <1>c, <2>2 DEF CloneVM, Used, InUse, Runs, Addresses
    <2>4. Chosen(v)' /\ Registered(v)' /\ Left(v)'
      BY <1>6, <1>a DEF CloneVM, Chosen, Registered, Left
    <2> QED BY <1>6, <2>1, <2>3, <2>4, <1>b DEF CloneVM
  <1>7. ASSUME NEW v \in VMs, SetVM(v) PROVE Tracked'
    <2>1. \A w \in VMs \ {v} : Follows(w)'
      BY <1>7, <1>a DEF SetVM, Chosen, Registered, Used, Left, Mine, InUse, Runs
    <2>2. \A a \in Pool : a = nic[v] \/ Mine(v, a) => Mine(v, a)'
      BY <1>7, <1>a DEF SetVM, Registered, Mine
    <2>3. Used(v)'
      <3>1. CASE addr' = [addr EXCEPT ![v]["further"] = nic[v]]
        BY <1>7, <1>a, <1>c, <2>2, <3>1 DEF SetVM, Used, Registered, InUse, Runs
      <3>2. CASE addr' = addr
        BY <1>7, <1>a, <2>2, <3>2 DEF SetVM, Used, InUse, Runs
      <3> QED BY <1>7, <3>1, <3>2 DEF SetVM
    <2>4. Chosen(v)' /\ Registered(v)' /\ Left(v)'
      BY <1>7, <1>a DEF SetVM, Chosen, Registered, Left, Runs
    <2> QED BY <1>7, <2>1, <2>3, <2>4, <1>b DEF SetVM
  <1>8. ASSUME NEW v \in VMs, PatchICSVM(v) PROVE Tracked'
    BY <1>8, <1>a, <1>b DEF PatchICSVM, Chosen, Registered, Used, Left, Mine, InUse, Runs
  <1>9. ASSUME NEW v \in VMs, PowerOnVM(v) PROVE Tracked'
    BY <1>9, <1>a, <1>b DEF PowerOnVM, Chosen, Registered, Used, Left, Mine, InUse, Runs
  <1>10. ASSUME NEW v \in VMs, DeleteICSVM(v) PROVE Tracked'
    <2>1. \A w \in VMs : Left(w)'
      BY <1>10, <1>a DEF DeleteICSVM, Left, Runs
    <2> QED BY <1>10, <2>1, <1>a, <1>b DEF DeleteICSVM, Chosen, Registered, Used, Mine, InUse, Runs
  <1>11. ASSUME NEW v \in VMs, DestroyVM(v) PROVE Tracked'
    BY <1>11, <1>a, <1>b DEF DestroyVM, Chosen, Registered, Used, Left, Mine, InUse, Runs
  <1>12. ASSUME NEW v \in VMs, ReconcileDelete(v) PROVE Tracked'
    BY <1>12, <1>a, <1>b DEF ReconcileDelete, Chosen, Registered, Used, Left, Mine, InUse, Runs
  <1>13. ASSUME NEW v \in VMs, ReleaseICSVM(v) PROVE Tracked'
    <2>1. ~Runs(v) /\ UNCHANGED <<cache, lock, nic, vm, addr>>
      BY <1>13 DEF ReleaseICSVM, ReconcileIPAddressesDelete
    <2>2. \A w \in VMs \ {v} : Follows(w)'
      BY <1>13, <2>1, ReleaseOthers, TrackedFrame, <1>a DEF ReleaseICSVM
    <2>3. Follows(v)'
      BY <1>13, <2>1 DEF ReleaseICSVM, Chosen, Registered, Used, Left, InUse, Runs
    <2> QED BY <2>2, <2>3, <1>b
  <1>14. ASSUME NEW v \in VMs, PoweringOnFailed(v) PROVE Tracked'
    BY <1>14, <1>a, <1>b DEF PoweringOnFailed, Chosen, Registered, Used, Left, Mine, InUse, Runs
  <1>15. ASSUME NEW v \in VMs, FreeAddresses(v) PROVE Tracked'
    <2>1. ~Runs(v) /\ UNCHANGED <<cache, lock, nic, icsvm, vm, addr>>
      BY <1>15 DEF FreeAddresses, ReconcileIPAddressesDelete
    <2>2. \A w \in VMs \ {v} : Follows(w)'
      BY <1>15, <2>1, ReleaseOthers, TrackedFrame, <1>a DEF FreeAddresses
    <2>3. Follows(v)'
      BY <1>15, <2>1 DEF FreeAddresses, Chosen, Registered, Used, Left, InUse, Runs
    <2> QED BY <2>2, <2>3, <1>b
  <1>16. ASSUME NEW v \in VMs, DeleteTaskEnds(v) PROVE Tracked'
    <2>1. /\ vm' = [vm EXCEPT ![v] = "none"] /\ addr' = [addr EXCEPT ![v] = Addresses(NoAddr)]
          /\ UNCHANGED <<ips, cache, lock, pc, nic, icsvm>>
      BY <1>16 DEF DeleteTaskEnds
    <2> QED BY <2>1, <1>a, <1>b DEF Chosen, Registered, Used, Left, Mine, InUse, Runs
  <1>17. ASSUME NEW a \in Pool, ReconcileIPAddress(a) PROVE Tracked'
    <2>1. \A b \in Pool :
            /\ ips[b].st = "none" /\ cache[b].st = "none" => ips'[b].st = "none"
            /\ \A v \in VMs : Mine(v, b) => Mine(v, b)'
      <3>1. CASE ips[a].st = "live" /\ ips' = [ips EXCEPT ![a].fin = TRUE]
        BY <1>17, <3>1 DEF ReconcileIPAddress, Mine, IPAddress
      <3>2. CASE /\ Finalizing(a)
                 /\ ips' = [ips EXCEPT ![a] = IF ips[a].st = "deleting" THEN Free
                                              ELSE [ips[a] EXCEPT !.fin = FALSE]]
        BY <1>17, <3>2 DEF ReconcileIPAddress, Finalizing, Mine, Free, IPAddress
      <3> QED BY <1>17, <3>1, <3>2 DEF ReconcileIPAddress
    <2> QED BY <1>17, <1>a, <1>b, <2>1, TrackedFrame DEF ReconcileIPAddress
  <1>18. ASSUME NEW a \in Pool, GarbageCollect(a) PROVE Tracked'
    <2>1. \A b \in Pool :
            /\ ips[b].st = "none" => ips'[b].st = "none"
            /\ \A v \in VMs : Mine(v, b) /\ icsvm[v] # "gone" => Mine(v, b)'
      BY <1>18 DEF GarbageCollect, Mine
    <2> QED BY <1>18, <1>a, <1>b, <2>1, TrackedFrame DEF GarbageCollect
  <1>19. CASE WatchEvent
    BY <1>19, <1>a, <1>b DEF WatchEvent, Chosen, Registered, Used, Left, Mine, InUse, Runs
  <1>20. CASE Restart
    BY <1>20, <1>a, <1>b DEF Restart, Chosen, Registered, Used, Left, Mine, InUse, Runs
  <1>21. CASE UNCHANGED vars
    BY <1>21, <1>a, <1>b DEF vars, Chosen, Registered, Used, Left, Mine, InUse, Runs
  <1> QED
    BY <1>1, <1>2, <1>3, <1>4, <1>5, <1>6, <1>7, <1>8, <1>9, <1>10, <1>11, <1>12, <1>13,
       <1>14, <1>15, <1>16, <1>17, <1>18, <1>19, <1>20, <1>21
    DEF Next, Pass

LEMMA InitTracked == Init => Tracked
  BY NullsAssumption DEF Init, Tracked, Chosen, Registered, Used, Left, InUse, Runs

\* For any number of ICSVMs and of addresses, and whatever fails, as long as the objects are
\* a true record of the addresses in use: the IPAddress object of every NIC of a VM is there,
\* refers to its ICSVM and is not being deleted.
THEOREM AddressesHeld == Spec => []AddressHeld
  <1>1. TypeOK /\ (record => Tracked) /\ [Next]_vars => (record => Tracked)'
    BY TrackedInvariant
  <1>2. (record => Tracked) => AddressHeld
    BY DEF Tracked, Used, Mine, AddressHeld
  <1>3. QED BY <1>1, <1>2, InitTracked, TypeCorrect, PTL DEF Spec

\* The promise of the allocator: no two NICs ever carry the same address.
THEOREM AddressesUnique == Spec => []AddressUnique
  <1>1. TypeOK /\ (record => Tracked) /\ [Next]_vars => (record => Tracked)'
    BY TrackedInvariant
  <1>2. (record => Tracked) => AddressUnique
    <2> SUFFICES ASSUME record, Tracked, NEW v \in VMs, NEW w \in VMs, NEW i \in Nics, NEW j \in Nics,
                        <<v, i>> # <<w, j>>, InUse(v, i), InUse(w, j), addr[v][i] = addr[w][j]
                 PROVE  FALSE
      BY DEF AddressUnique
    <2>1. Used(v) /\ Used(w)
      BY DEF Tracked
    <2>2. CASE v = w
      BY <2>1, <2>2 DEF Used
    <2>3. CASE v # w
      BY <2>1, <2>3 DEF Used, Mine
    <2> QED BY <2>2, <2>3
  <1>3. QED BY <1>1, <1>2, InitTracked, TypeCorrect, PTL DEF Spec
=============================================================================
