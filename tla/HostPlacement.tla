--------------------------- MODULE HostPlacement ---------------------------
(***************************************************************************)
(* Where VMs are placed and what they are made of: the requests of CloneVM *)
(* and ImportVM (host, disks, NICs), the memory check before power-on, and *)
(* the addresses of the further NICs.  Passes of several ICSVMs contend    *)
(* for the hosts: each reads the free memory, and none reserves it.        *)
(*                                                                         *)
(* The hosts, the networks and the specs do not change in a behaviour;     *)
(* they are one of a set of inventories.                                   *)
(***************************************************************************)
EXTENDS Integers, Sequences, FiniteSets, FiniteSetsExt

CONSTANTS
  Hosts, VMs,
  Inventories,  \* the inventories that the initial states range over
  MaxFaults,    \* bound on the failures of iCenter
  NoHost        \* no host was chosen

VARIABLES
  inv,     \* the inventory
  st,      \* the VM of each ICSVM, or its pass: see States
  host,    \* the host chosen for it
  nics,    \* its NICs
  faults

vars == <<inv, st, host, nics, faults>>

States == { "none",     \* no VM
            "chosen",   \* the pass has chosen a host
            "off",      \* the VM exists
            "checked",  \* the pass has found enough memory on its host
            "on", "gone" }

SwitchTypes == {"NORMALSWITCH", "SDNSWITCH", "VXLANOPENSTACKSWITCH", "other"}
KnownSwitch == SwitchTypes \ {"other"}
NoNetwork   == "none"      \* a network that is not in the map: its zero value
OwnNetwork  == "template"  \* that of the NIC of the template

(***************************************************************************)
(* inv.host[h]: connected, cluster, storage (the datastore is mounted),    *)
(*   memory (LogicFreeMemory without VMs), physical (FreeMemory likewise)  *)
(* inv.network[n]: the hosts on the network                                *)
(* inv.spec[v]: mode, cluster, memory, disks (how many), devices; and of   *)
(*   the template or image: its memory and the number of its NICs          *)
(***************************************************************************)
SpecOf(v)    == inv.spec[v]
Devices(v)  == SpecOf(v).devices
Importing(v) == SpecOf(v).mode = "importVM"

\* The memory of the VM: ImportVM takes that of the image, CloneVM that of the spec.
Memory(v) == IF Importing(v) THEN SpecOf(v).image.memory ELSE SpecOf(v).memory

Used(h)     == MapThenSumSet(Memory, {v \in VMs : st[v] = "on" /\ host[v] = h})
LogicFree(h) == inv.host[h].memory - Used(h)
PhysFree(h)  == inv.host[h].physical - Used(h)

Nic == [network: DOMAIN inv.network \cup {NoNetwork, OwnNetwork}, ip: {"dhcp", "static", "none"}]

ASSUME HostsAssumption == NoHost \notin Hosts /\ MaxFaults \in Nat
ASSUME InventoriesAssumption ==
  \A i \in Inventories, v \in VMs :
    /\ i.spec[v].devices \in Seq([network: DOMAIN i.network, switch: SwitchTypes, dhcp: BOOLEAN])
    /\ i.spec[v].image.nics \in Nat

\* Every variable stays in its type; a VM, and a pass that makes one, has a host.
TypeOK ==
  /\ faults \in 0..MaxFaults
  /\ st \in [VMs -> States] /\ host \in [VMs -> Hosts \cup {NoHost}]
  /\ \A v \in VMs : host[v] = NoHost <=> st[v] \in {"none", "gone"}
  /\ nics \in [VMs -> Seq(Nic)]

Fault   == faults < MaxFaults /\ faults' = faults + 1
NoFault == UNCHANGED faults

(***************************************************************************)
(* The request.                                                            *)
(***************************************************************************)
\* The networks of the devices, by index: one whose switch type is not known is left out.
Networks(v) ==
  [i \in {j \in DOMAIN Devices(v) : Devices(v)[j].switch \in KnownSwitch}
     |-> Devices(v)[i].network]

\* Datacenter and Cluster share a JSON name, so that neither is ever decoded.
SpecCluster(v) == ""

\* getAvailableHosts.  hostBounds counts, for each host, the networks that it is on.
HostBounds(v, h) == Cardinality({i \in DOMAIN Networks(v) : h \in inv.network[Networks(v)[i]]})
OnSomeNetwork(v, h) == HostBounds(v, h) > 0                                   \* mutant
OnNetworks(v, h) ==
  HostBounds(v, h) > 0 /\ HostBounds(v, h) = Cardinality(DOMAIN Networks(v))

JustFits(free, memory) == free >= memory                                      \* mutant
Fits(free, memory)     == free > memory

Available(v, h) ==
  /\ inv.host[h].connected /\ SpecCluster(v) \in {"", inv.host[h].cluster}
  /\ inv.host[h].storage /\ OnNetworks(v, h)
  /\ Fits(LogicFree(h), SpecOf(v).memory)

\* The mutant goes on when no host is left.
AvailableOrNone(v) == LET S == {h \in Hosts : Available(v, h)} IN IF S = {} THEN {NoHost} ELSE S
AvailableHosts(v)  == {h \in Hosts : Available(v, h)}

GetAvailableHosts(v) ==
  /\ st[v] = "none"
  /\ \E h \in AvailableHosts(v) : host' = [host EXCEPT ![v] = h]
  /\ st' = [st EXCEPT ![v] = "chosen"]
  /\ UNCHANGED <<inv, nics, faults>>

\* getMultiDisks indexes the first disk of the spec; getOVADisks takes those of the image.
DisksGiven(v) == Importing(v) \/ SpecOf(v).disks > 0

\* The panic ends the manager, and with it every pass.
Panic(v) ==
  /\ st[v] = "chosen" /\ ~DisksGiven(v)
  /\ st' = [w \in VMs |-> CASE st[w] = "chosen" -> "none" [] st[w] = "checked" -> "off"
                            [] OTHER -> st[w]]
  /\ host' = [w \in VMs |-> IF st[w] = "chosen" THEN NoHost ELSE host[w]]
  /\ UNCHANGED <<inv, nics, faults>>

\* getNetworkSpecs.  The networks are a map, in which those of unknown switch types are
\* missing; the two loops count its entries, and look them up by position.
NetworkCount(v)  == Cardinality(DOMAIN Networks(v))
NetworkAt(v, i)  == IF i \in DOMAIN Networks(v) THEN Networks(v)[i] ELSE NoNetwork
ImageNics(v)     == SpecOf(v).image.nics
TooManyNics(v)   == ImageNics(v) > NetworkCount(v)

\* The first loop configures the NICs of the template that have a device, and takes an
\* address for the first of them (UpdateNicIPConfig).
TemplateNic(v, i) ==
  IF i > Len(Devices(v)) THEN [network |-> OwnNetwork, ip |-> "none"]
  ELSE [network |-> NetworkAt(v, i),
        ip |-> CASE Devices(v)[i].dhcp -> "dhcp"
                 [] ~Devices(v)[i].dhcp /\ i = 1 -> "static"
                 [] OTHER -> "none"]
TemplateNics(v) == [i \in 1..ImageNics(v) |-> TemplateNic(v, i)]

\* The second loop makes a new NIC for each position from there on, without an address.
NewNic(v, i) == [network |-> NetworkAt(v, i),
                 ip |-> IF Devices(v)[i].dhcp THEN "dhcp" ELSE "none"]
NicsFromFirst(v) == [k \in 1..(NetworkCount(v) - ImageNics(v)) |-> NewNic(v, k)]   \* mutant
NewNics(v) == [k \in 1..(NetworkCount(v) - ImageNics(v)) |-> NewNic(v, ImageNics(v) + k)]

NetworkSpecs(v) == TemplateNics(v) \o NewNics(v)

\* The request is built and submitted, and the task ends with the VM, or with an error;
\* the next pass chooses anew.
CreateVM(v) ==
  /\ st[v] = "chosen" /\ DisksGiven(v)
  /\ \/ /\ ~TooManyNics(v) /\ NoFault
        /\ st' = [st EXCEPT ![v] = "off"] /\ nics' = [nics EXCEPT ![v] = NetworkSpecs(v)]
        /\ UNCHANGED host
     \/ /\ (TooManyNics(v) /\ NoFault) \/ Fault
        /\ st' = [st EXCEPT ![v] = "none"] /\ host' = [host EXCEPT ![v] = NoHost]
        /\ UNCHANGED nics
  /\ UNCHANGED inv

(***************************************************************************)
(* reconcilePowerState.                                                    *)
(***************************************************************************)
EnoughMemory(v) == ~(Memory(v) >= PhysFree(host[v]) \/ Memory(v) >= LogicFree(host[v]))

CheckMemory(v) ==
  /\ st[v] = "off" /\ EnoughMemory(v)
  /\ st' = [st EXCEPT ![v] = "checked"]
  /\ UNCHANGED <<inv, host, nics, faults>>

\* PoweringOnFailed, in the check or as the result of the task: the VM is destroyed.
PoweringOnFailed(v) ==
  /\ \/ st[v] = "off" /\ ~EnoughMemory(v) /\ NoFault
     \/ st[v] = "checked" /\ LogicFree(host[v]) < Memory(v) /\ NoFault
     \/ st[v] = "checked" /\ Fault
  /\ st' = [st EXCEPT ![v] = "none"] /\ host' = [host EXCEPT ![v] = NoHost]
  /\ nics' = [nics EXCEPT ![v] = <<>>]
  /\ UNCHANGED inv

PowerOnVM(v) ==
  /\ st[v] = "checked"
  /\ st' = [st EXCEPT ![v] = "on"]
  /\ UNCHANGED <<inv, host, nics, faults>>

\* GetNetworkStatus, which precedes reconcilePowerState in a pass: the NICs after the first
\* that want a static address get one, with SetVM, which may fail.
NeedsIP(v, i) == i >= 2 /\ ~Devices(v)[i].dhcp /\ nics[v][i].ip # "static"
Configurable(v) == Len(nics[v]) = Len(Devices(v))

GetNetworkStatus(v) ==
  /\ st[v] \in {"off", "on"} /\ Configurable(v) /\ \E i \in DOMAIN nics[v] : NeedsIP(v, i)
  /\ \/ /\ NoFault
        /\ nics' = [nics EXCEPT ![v] =
             [i \in DOMAIN @ |-> IF NeedsIP(v, i) THEN [@[i] EXCEPT !.ip = "static"] ELSE @[i]]]
     \/ Fault /\ UNCHANGED nics
  /\ UNCHANGED <<inv, st, host>>

DeleteVM(v) ==
  /\ st[v] \in {"none", "off", "on"}
  /\ st' = [st EXCEPT ![v] = "gone"] /\ host' = [host EXCEPT ![v] = NoHost]
  /\ nics' = [nics EXCEPT ![v] = <<>>]
  /\ UNCHANGED <<inv, faults>>

Init ==
  /\ inv \in Inventories /\ faults = 0
  /\ st = [v \in VMs |-> "none"] /\ host = [v \in VMs |-> NoHost] /\ nics = [v \in VMs |-> <<>>]

Pass(v) == \/ GetAvailableHosts(v) \/ Panic(v) \/ CreateVM(v) \/ CheckMemory(v)
           \/ PoweringOnFailed(v) \/ PowerOnVM(v) \/ GetNetworkStatus(v)

Next == \E v \in VMs : Pass(v) \/ DeleteVM(v)

Spec == Init /\ [][Next]_vars

\* The passes of every ICSVM run on; which host a pass chooses is left to chance.
FairSpec == Spec /\ \A v \in VMs : WF_vars(Pass(v))

(***************************************************************************)
(* Properties.                                                             *)
(***************************************************************************)
Known(v) == \A i \in DOMAIN Devices(v) : Devices(v)[i].switch \in KnownSwitch

\* The hosts that v may be on, read off the inventory.
Suitable(v) ==
  {h \in Hosts : /\ inv.host[h].connected /\ inv.host[h].storage
                 /\ \A i \in DOMAIN Devices(v) : h \in inv.network[Devices(v)[i].network]}

\* A VM is on a host that reaches its datastore and every one of its networks: counting
\* networks per host finds the hosts that are on all of them.
HostReachesAll == \A v \in VMs : host[v] # NoHost /\ Known(v) => host[v] \in Suitable(v)

\* The NICs of a VM are those of the spec, in order, whatever NICs the template has: each is
\* on the network of its device, and uses DHCP if and only if the device does, before and
\* after GetNetworkStatus has given addresses.
Matches(n, d) == n.network = d.network /\ (n.ip = "dhcp" <=> d.dhcp)
NicsFollowDevices ==
  \A v \in VMs : st[v] \in {"off", "checked", "on"} /\ Known(v)
                 => /\ Len(nics[v]) = Len(Devices(v))
                    /\ \A i \in DOMAIN nics[v] : Matches(nics[v][i], Devices(v)[i])

\* An inventory with room for everybody: wherever the other VMs are, some suitable host has
\* memory for v.
Roomy(v) ==
  /\ Memory(v) <= SpecOf(v).memory
  /\ \A h \in Hosts : inv.host[h].memory <= inv.host[h].physical
  /\ \A others \in [VMs \ {v} -> Hosts] :
       \E h \in Suitable(v) :
         inv.host[h].memory - MapThenSumSet(Memory, {w \in VMs \ {v} : others[w] = h})
           > SpecOf(v).memory
WellFormed(v) ==
  /\ Known(v) /\ Len(Devices(v)) > 0 /\ DisksGiven(v)
  /\ SpecOf(v).image.nics \in 1..Len(Devices(v))

\* Where there is room, every VM ends up powered on, with an address for each NIC, however
\* the passes of the others compete for memory between the choice of a host and power-on.
AllProvisioned ==
  (\A v \in VMs : Roomy(v) /\ WellFormed(v))
  => \A v \in VMs : <>(\/ st[v] = "gone"
                       \/ st[v] = "on" /\ \A i \in DOMAIN nics[v] : nics[v][i].ip # "none")
=============================================================================
