------------------------------- MODULE IPPool -------------------------------
(***************************************************************************)
(* Static address allocation: the ICSVM passes that clone a VM or give a   *)
(* further NIC of it an address (UpdateNicIPConfig with its two callers,   *)
(* GetIPFromNetworkConfig, CreateOrUpdateIPAddress), the release of their  *)
(* IPAddress objects, and the IPAddress controller.                        *)
(*                                                                         *)
(* An IPAddress object is named by the address it holds.  Which addresses  *)
(* are taken is read from the informer cache; the objects live in the API  *)
(* server.  The passes of different ICSVMs run concurrently and meet only  *)
(* in the mutex allocatedIPMu.  Addresses are numbers, in the order in     *)
(* which addOffsetToIP visits them.                                        *)
(***************************************************************************)
EXTENDS Naturals, FiniteSets

CONSTANTS
  VMs,        \* the ICSVMs that share a list of addresses (one ICSMachineTemplate)
  Further,    \* those of them with a second device, also without DHCP
  Cidrs,      \* entries of IPAddrs with a "/": sets of addresses
  Statics,    \* entries of IPAddrs without
  Nameable,   \* addresses that are valid object names: IPv4, not IPv6 with its colons
  Faults,     \* the kinds of fault that occur
  MaxFaults,  \* bound: faults in a behaviour, not counting those of a release, nor those
              \* that only follow another
  Nobody,     \* the mutex is free; an object that refers to no ICSVM
  NoAddr,     \* "": no entry was usable
  NilAddr     \* "<nil>": the CIDR has no free address

FaultKinds ==
  { "list",     \* the cached client cannot list the IPAddress objects
    "api",      \* the API server refuses to create, update or delete one
    "stale",    \* a pass reads an informer cache that lags behind
    "clone",    \* CreateVMByTemplate fails after the address was taken
    "set",      \* so does SetVM
    "poweron",  \* the VM cannot be powered on and is destroyed
    "destroy",  \* that VM cannot be destroyed
    "conn",     \* the deletion does not reach iCenter
    "crash" }   \* the manager restarts

Pool == Statics \cup UNION Cidrs

ASSUME PoolAssumption   == Pool \subseteq Nat
ASSUME FaultsAssumption == Faults \subseteq FaultKinds /\ MaxFaults \in Nat
ASSUME NullsAssumption  == Nobody \notin VMs /\ NoAddr \notin Pool /\ NilAddr \notin Pool

VARIABLES
  ips,    \* IPAddress objects in the API server, by address
  cache,  \* the same in the informer cache
  lock,   \* holder of allocatedIPMu
  pc,     \* where the pass over an ICSVM stands
  slot,   \* which NIC it gives an address
  nic,    \* netSpec.IP, the address it has chosen
  icsvm,  \* the ICSVM: "new", without finalizer | "live" | "deleting" | "gone"
  vm,     \* iCenter: the VM of the ICSVM: "none" | "off" | "on" | "doomed", which is off
          \* and has a delete task that the controller does not wait for
  addr,   \* iCenter: the addresses of its NICs
  static, \* iCenter: the VMs whose further NIC has StaticIp
  record, \* history: the objects are a true record of the addresses in use, for no pass
          \* has chosen an address with a list that failed or lagged, left it unregistered,
          \* or released that of a VM that was not destroyed, and no ICSVM went, without a
          \* finalizer, while it had a VM or a pass was making one
  seen    \* how many faults happened

vars == <<ips, cache, lock, pc, slot, nic, icsvm, vm, addr, static, record, seen>>

Nics == {"first", "further"}
IPAddress == [st: {"none", "live", "deleting"}, fin: BOOLEAN, vmRef: VMs \cup {Nobody},
              owners: SUBSET VMs]
Free == [st |-> "none", fin |-> FALSE, vmRef |-> Nobody, owners |-> {}]
AnyAddr == Pool \cup {NoAddr, NilAddr}

\* Every variable stays in its type: a chosen address comes from the list, or is one of
\* the two strings that stand for none.
TypeOK ==
  /\ ips \in [Pool -> IPAddress] /\ cache \in [Pool -> IPAddress]
  /\ lock \in VMs \cup {Nobody}
  /\ pc \in [VMs -> {"idle", "list", "register", "apply", "destroy", "free", "patch", "release"}]
  /\ slot \in [VMs -> Nics]
  /\ nic \in [VMs -> AnyAddr] /\ addr \in [VMs -> [Nics -> AnyAddr]]
  /\ icsvm \in [VMs -> {"new", "live", "deleting", "gone"}]
  /\ vm \in [VMs -> {"none", "off", "on", "doomed"}] /\ static \subseteq VMs
  /\ record \in BOOLEAN /\ seen \in 0..MaxFaults

Fault(k) == k \in Faults /\ seen < MaxFaults /\ seen' = seen + 1
NoFault  == UNCHANGED seen

\* What a pass lists: the objects, or a cache that lags behind them.
Listed == (cache = ips /\ NoFault) \/ (cache # ips /\ Fault("stale"))

Exists(v)  == vm[v] # "none"
Runs(v)    == vm[v] \in {"off", "on"}
GoTo(v, p) == pc' = [pc EXCEPT ![v] = p]

(***************************************************************************)
(* Allocation, in the passes over the ICSVM v.                             *)
(***************************************************************************)
\* allocatedIPMu.Lock() of UpdateNicIPConfig.
LockIgnored == TRUE               \* mutant: no mutex
Unlocked    == lock = Nobody

\* getNetworkSpecs: the first NIC of a VM that is going to be cloned.
BeginClone(v) ==
  /\ icsvm[v] \in {"new", "live"} /\ ~Exists(v) /\ pc[v] = "idle"
  /\ Unlocked
  /\ lock' = v /\ GoTo(v, "list")
  /\ UNCHANGED <<ips, cache, slot, nic, icsvm, vm, addr, static, record, seen>>

\* GetNetworkStatus: a further NIC of a VM that exists, in every pass until iCenter says
\* that it is static.
BeginSetVM(v) ==
  /\ icsvm[v] \in {"new", "live"} /\ Exists(v) /\ pc[v] = "idle"
  /\ v \in Further \ static
  /\ Unlocked
  /\ lock' = v /\ GoTo(v, "list") /\ slot' = [slot EXCEPT ![v] = "further"]
  /\ UNCHANGED <<ips, cache, nic, icsvm, vm, addr, static, record, seen>>

\* A pass that has no address to choose may still have the finalizer to store.
BeginPatch(v) ==
  /\ icsvm[v] = "new" /\ Exists(v) /\ pc[v] = "idle"
  /\ v \notin Further \ static
  /\ GoTo(v, "patch")
  /\ UNCHANGED <<ips, cache, lock, slot, nic, icsvm, vm, addr, static, record, seen>>

\* The addresses that the listed objects hold, those being deleted included.
Taken == {a \in Pool : cache[a].st # "none"}

\* GetIPAddressByCIDR: the first address of the range that is not taken.
First(S) == {a \in S : \A b \in S : a <= b}
FromCidrBeyond(c, taken) == First((c \cup {a + 1 : a \in c}) \ taken)   \* mutant: no Contains
FromCidr(c, taken) == IF c \subseteq taken THEN {NilAddr} ELSE First(c \ taken)

\* GetIPFromNetworkConfig visits the entries in the random order of a Go map and stops
\* at the first that is not a taken static address: a range counts even when exhausted.
Choices(taken) ==
  LET usable == (UNION {FromCidr(c, taken) : c \in Cidrs}) \cup (Statics \ taken)
  IN IF usable = {} THEN {NoAddr} ELSE usable

GetIPFromNetworkConfig(v) ==
  /\ pc[v] = "list"
  /\ \E taken \in {Taken, {}} :
       /\ (taken = Taken /\ Listed) \/ (taken = {} /\ Fault("list"))
       /\ \E a \in Choices(taken) : nic' = [nic EXCEPT ![v] = a]
       /\ record' = (record /\ cache = ips /\ taken = Taken)
  /\ GoTo(v, "register")
  /\ UNCHANGED <<ips, cache, lock, slot, icsvm, vm, addr, static>>

\* CreateOrUpdate: a cached object is taken over, if the cache is up to date with it; an
\* uncached one is created, if there is none.  Every failure is only logged.
Claimed(v, a) ==
  [st |-> IF cache[a].st = "none" THEN "live" ELSE ips[a].st, fin |-> ips[a].fin,
   vmRef |-> v, owners |-> ips[a].owners \cup {v}]
UnownedClaim(v, a) == [Claimed(v, a) EXCEPT !.owners = {}]     \* mutant: no owner reference
Claim(v, a)        == Claimed(v, a)

CreateOrUpdateIPAddress(v) ==
  /\ pc[v] = "register"
  /\ LET a == nic[v] IN
     \/ /\ a \in Pool \cap Nameable /\ cache[a] = ips[a]
        /\ ips' = [ips EXCEPT ![a] = Claim(v, a)] /\ UNCHANGED record /\ NoFault
     \/ /\ \/ a \notin Pool \cap Nameable /\ NoFault
           \/ a \in Pool \cap Nameable /\ cache[a] # ips[a] /\ NoFault
           \/ a \in Pool \cap Nameable /\ Fault("api")
        /\ UNCHANGED ips /\ record' = (record /\ a \notin Pool)
  /\ lock' = Nobody /\ GoTo(v, "apply")
  /\ UNCHANGED <<cache, slot, nic, icsvm, vm, addr, static>>

Addresses(first) == [i \in Nics |-> IF i = "first" THEN first ELSE NoAddr]

\* CreateVMByTemplate with the chosen address, or its failure: the next pass takes
\* another address, and the object of this one stays.
CloneVM(v) ==
  /\ pc[v] = "apply" /\ slot[v] = "first"
  /\ \/ /\ vm' = [vm EXCEPT ![v] = "off"] /\ addr' = [addr EXCEPT ![v] = Addresses(nic[v])]
        /\ NoFault
     \/ Fault("clone") /\ UNCHANGED <<vm, addr>>
  /\ GoTo(v, "patch") /\ nic' = [nic EXCEPT ![v] = NoAddr]
  /\ UNCHANGED <<ips, cache, lock, slot, icsvm, static, record>>

\* SetVM with the chosen address, or its failure, which is only logged, to the same effect.
SetVM(v) ==
  /\ pc[v] = "apply" /\ slot[v] = "further"
  /\ \/ /\ Exists(v) /\ static' = static \cup {v}
        /\ addr' = [addr EXCEPT ![v]["further"] = nic[v]] /\ NoFault
     \/ /\ (~Exists(v) /\ NoFault) \/ Fault("set")
        /\ UNCHANGED <<addr, static>>
  /\ GoTo(v, "patch") /\ nic' = [nic EXCEPT ![v] = NoAddr] /\ slot' = [slot EXCEPT ![v] = "first"]
  /\ UNCHANGED <<ips, cache, lock, icsvm, vm, record>>

\* The patch of the ICSVM stores its finalizer, after the clone request.
PatchICSVM(v) ==
  /\ pc[v] = "patch"
  /\ GoTo(v, "idle")
  /\ \/ icsvm' = [icsvm EXCEPT ![v] = IF @ = "new" THEN "live" ELSE @] /\ NoFault
     \/ Fault("api") /\ UNCHANGED icsvm
  /\ UNCHANGED <<ips, cache, lock, slot, nic, vm, addr, static, record>>

\* A VM that cannot be powered on is going to be destroyed.
PowerOnVM(v) ==
  /\ icsvm[v] \in {"new", "live"} /\ vm[v] = "off" /\ pc[v] = "idle"
  /\ \/ vm' = [vm EXCEPT ![v] = "on"] /\ UNCHANGED pc /\ NoFault
     \/ Fault("poweron") /\ GoTo(v, "destroy") /\ UNCHANGED vm
  /\ UNCHANGED <<ips, cache, lock, slot, nic, icsvm, addr, static, record>>

(***************************************************************************)
(* Release.                                                                *)
(***************************************************************************)
\* A Delete call: the object stays until its finalizer is removed.
Deleted(i) == IF i.fin THEN [i EXCEPT !.st = "deleting"] ELSE Free

\* reconcileIPAddressesDelete: the listed objects that refer to the ICSVM, one Delete
\* after the other; the first error ends it, and is ignored.
ReleaseAll(v) == {a \in Pool : cache[a].st = "live"}      \* mutant: VMRef not compared
Releasable(v) == {a \in Pool : cache[a].st = "live" /\ cache[a].vmRef = v}

ReconcileIPAddressesDelete(v) ==
  /\ \E done \in SUBSET Releasable(v) :
       /\ done = Releasable(v) \/ "api" \in Faults
       /\ ips' = [a \in Pool |-> IF a \in done THEN Deleted(ips[a]) ELSE ips[a]]
  /\ record' = (record /\ ~Runs(v))
  /\ (cache = ips \/ "stale" \in Faults) /\ NoFault

\* The ICSVM is deleted.  Without a stored finalizer it goes at once, whatever the pass over
\* it is doing, and its addresses with it.
DeleteICSVM(v) ==
  /\ icsvm[v] \in {"new", "live"}
  /\ icsvm' = [icsvm EXCEPT ![v] = IF @ = "new" THEN "gone" ELSE "deleting"]
  /\ record' = (record /\ (icsvm[v] = "new" =>
                              ~Runs(v) /\ pc[v] \notin {"list", "register", "apply"}))
  /\ UNCHANGED <<ips, cache, lock, pc, slot, nic, vm, addr, static, seen>>

\* Its VM is destroyed first.
DestroyVM(v) ==
  /\ icsvm[v] = "deleting" /\ pc[v] = "idle" /\ Runs(v)
  /\ vm' = [vm EXCEPT ![v] = "none"] /\ addr' = [addr EXCEPT ![v] = Addresses(NoAddr)]
  /\ static' = static \ {v}
  /\ UNCHANGED <<ips, cache, lock, pc, slot, nic, icsvm, record, seen>>

\* Then, or at once when iCenter cannot be reached, the addresses are released ...
ReconcileDelete(v) ==
  /\ icsvm[v] = "deleting" /\ pc[v] = "idle"
  /\ (~Exists(v) /\ NoFault) \/ Fault("conn")
  /\ GoTo(v, "release")
  /\ UNCHANGED <<ips, cache, lock, slot, nic, icsvm, vm, addr, static, record>>

\* ... and the finalizer is removed.
ReleaseICSVM(v) ==
  /\ pc[v] = "release"
  /\ ReconcileIPAddressesDelete(v)
  /\ icsvm' = [icsvm EXCEPT ![v] = "gone"] /\ GoTo(v, "idle")
  /\ UNCHANGED <<cache, lock, slot, nic, vm, addr, static>>

\* PoweringOnFailed: a delete task is submitted for the VM, which is off; the error of the
\* call is ignored ...
PoweringOnFailed(v) ==
  /\ pc[v] = "destroy"
  /\ vm' = [vm EXCEPT ![v] = "doomed"] \/ ("destroy" \in Faults /\ UNCHANGED vm)
  /\ GoTo(v, "free")
  /\ UNCHANGED <<ips, cache, lock, slot, nic, icsvm, addr, static, record, seen>>

\* ... and its addresses are released at once.
FreeAddresses(v) ==
  /\ pc[v] = "free"
  /\ ReconcileIPAddressesDelete(v)
  /\ GoTo(v, "patch")
  /\ UNCHANGED <<cache, lock, slot, nic, icsvm, vm, addr, static>>

\* The task ends.  Had it failed, the next pass finds the VM by its name and goes on with it.
DeleteTaskEnds(v) ==
  /\ vm[v] = "doomed"
  /\ \/ /\ vm' = [vm EXCEPT ![v] = "none"] /\ addr' = [addr EXCEPT ![v] = Addresses(NoAddr)]
        /\ static' = static \ {v} /\ UNCHANGED record
     \/ /\ "destroy" \in Faults
        /\ vm' = [vm EXCEPT ![v] = "off"] /\ record' = FALSE /\ UNCHANGED <<addr, static>>
  /\ UNCHANGED <<ips, cache, lock, pc, slot, nic, icsvm, seen>>

(***************************************************************************)
(* The IPAddress controller adds the finalizer, and removes it on deletion *)
(* (merge patches: a finalizer cannot be added to an object being deleted, *)
(* and the object goes when the last one is removed).                      *)
(***************************************************************************)
Finalizing(a) == cache[a].st = "deleting" /\ ips[a].fin

ReconcileIPAddress(a) ==
  /\ Listed
  /\ \/ /\ cache[a].st = "live" /\ ~cache[a].fin
        /\ ips[a].st = "live" /\ ~ips[a].fin
        /\ ips' = [ips EXCEPT ![a].fin = TRUE]
     \/ /\ Finalizing(a)
        /\ ips' = [ips EXCEPT ![a] = IF ips[a].st = "deleting" THEN Free
                                     ELSE [ips[a] EXCEPT !.fin = FALSE]]
  /\ UNCHANGED <<cache, lock, pc, slot, nic, icsvm, vm, addr, static, record>>

\* The garbage collector deletes an object whose owners are all gone.
GarbageCollect(a) ==
  /\ ips[a].st = "live" /\ ips[a].owners # {}
  /\ \A v \in ips[a].owners : icsvm[v] = "gone"
  /\ ips' = [ips EXCEPT ![a] = Deleted(ips[a])]
  /\ UNCHANGED <<cache, lock, pc, slot, nic, icsvm, vm, addr, static, record, seen>>

\* The watch brings the informer cache up to date.
WatchEvent ==
  /\ cache # ips
  /\ cache' = ips
  /\ UNCHANGED <<ips, lock, pc, slot, nic, icsvm, vm, addr, static, record, seen>>

\* The manager restarts: the passes and the mutex are lost, the cache is listed anew.
Restart ==
  /\ Fault("crash")
  /\ cache' = ips /\ lock' = Nobody
  /\ pc' = [v \in VMs |-> "idle"] /\ slot' = [v \in VMs |-> "first"]
  /\ nic' = [v \in VMs |-> NoAddr]
  /\ UNCHANGED <<ips, icsvm, vm, addr, static, record>>

Init ==
  /\ ips = [a \in Pool |-> Free] /\ cache = ips
  /\ lock = Nobody /\ pc = [v \in VMs |-> "idle"] /\ slot = [v \in VMs |-> "first"]
  /\ nic = [v \in VMs |-> NoAddr] /\ addr = [v \in VMs |-> Addresses(NoAddr)]
  /\ icsvm = [v \in VMs |-> "new"] /\ vm = [v \in VMs |-> "none"] /\ static = {}
  /\ record = TRUE /\ seen = 0

Pass(v) ==
  \/ BeginClone(v) \/ BeginSetVM(v) \/ BeginPatch(v)
  \/ GetIPFromNetworkConfig(v) \/ CreateOrUpdateIPAddress(v) \/ CloneVM(v) \/ SetVM(v)
  \/ PoweringOnFailed(v) \/ FreeAddresses(v) \/ PatchICSVM(v)
  \/ DestroyVM(v) \/ ReconcileDelete(v) \/ ReleaseICSVM(v)

Next ==
  \/ \E v \in VMs : Pass(v) \/ PowerOnVM(v) \/ DeleteICSVM(v) \/ DeleteTaskEnds(v)
  \/ \E a \in Pool : ReconcileIPAddress(a) \/ GarbageCollect(a)
  \/ WatchEvent \/ Restart

Spec == Init /\ [][Next]_vars

\* Passes of every ICSVM run on, tasks end, the watch delivers, the IPAddress controller and
\* the garbage collector work off their queues; users need not delete, faults not occur.
Fairness ==
  /\ \A v \in VMs : WF_vars(Pass(v)) /\ WF_vars(DeleteTaskEnds(v))
  /\ \A a \in Pool : WF_vars(ReconcileIPAddress(a)) /\ WF_vars(GarbageCollect(a))
  /\ WF_vars(WatchEvent)

FairSpec == Spec /\ Fairness

(***************************************************************************)
(* Properties.                                                             *)
(***************************************************************************)
\* No two NICs in iCenter carry the same address, as long as the objects are a true record:
\* the mutex makes listing the taken addresses and creating the IPAddress object one step
\* for concurrent passes.  A VM whose delete task is running does not count: it is off.
InUse(v, i) == Runs(v) /\ addr[v][i] \in Pool
AddressUnique ==
  record => \A v, w \in VMs, i, j \in Nics :
              <<v, i>> # <<w, j>> /\ InUse(v, i) /\ InUse(w, j) => addr[v][i] # addr[w][j]

\* As long as they are a true record, the IPAddress object of every NIC is there, refers to
\* its ICSVM and is not being deleted: through what other ICSVMs release and the garbage
\* collector removes, with refused and repeated calls, and through addresses that failed
\* clones and failed SetVMs have left behind.
AddressHeld ==
  record => \A v \in VMs, i \in Nics :
              InUse(v, i) => ips[addr[v][i]].st = "live" /\ ips[addr[v][i]].vmRef = v

\* When every ICSVM is gone all addresses are back in the pool: those of failed clones
\* and SetVMs, those a release missed in a lagging list, and those two ICSVMs claimed.
AddressesReturn == (\A v \in VMs : icsvm[v] = "gone") ~> (\A a \in Pool : ips[a].st = "none")
=============================================================================
