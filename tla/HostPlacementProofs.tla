------------------------ MODULE HostPlacementProofs ------------------------
(***************************************************************************)
(* Proofs about HostPlacement, for any VMs, hosts and inventories: counting *)
(* networks per host finds the hosts that are on all of them, and the NICs *)
(* of the two loops of getNetworkSpecs follow the devices of the spec.     *)
(***************************************************************************)
EXTENDS HostPlacement, FiniteSetTheorems, SequenceTheorems, TLAPS

(***************************************************************************)
(* The devices of a spec and their networks.                               *)
(***************************************************************************)
Device == [network: DOMAIN inv.network, switch: SwitchTypes, dhcp: BOOLEAN]

\* The set of the first n positions.
LEMMA Positions == ASSUME NEW n \in Nat PROVE IsFiniteSet(1..n) /\ Cardinality(1..n) = n
<1>1. /\ IsFiniteSet(1..n)
      /\ Cardinality(1..n) = IF 1 > n THEN 0 ELSE n - 1 + 1
  BY FS_Interval, 1 \in Int, n \in Int
<1> QED BY <1>1

\* A spec lists its devices in a finite sequence.
LEMMA DeviceList ==
  ASSUME inv \in Inventories, NEW v \in VMs
  PROVE  /\ Devices(v) \in Seq(Device) /\ Len(Devices(v)) \in Nat
         /\ DOMAIN Devices(v) = 1..Len(Devices(v))
         /\ \A i \in DOMAIN Devices(v) : Devices(v)[i] \in Device
<1>1. Devices(v) \in Seq(Device)
  BY InventoriesAssumption DEF Devices, SpecOf, Device
<1> QED
  BY <1>1, LenProperties, ElementOfSeq

\* The networks are those of some of the devices, and there are no more of them.
LEMMA NetworkList ==
  ASSUME inv \in Inventories, NEW v \in VMs
  PROVE  /\ DOMAIN Networks(v) \subseteq DOMAIN Devices(v)
         /\ \A i \in DOMAIN Networks(v) : Networks(v)[i] = Devices(v)[i].network
         /\ IsFiniteSet(DOMAIN Networks(v))
         /\ Cardinality(DOMAIN Networks(v)) \in 0..Len(Devices(v))
<1>1. /\ DOMAIN Networks(v) \subseteq DOMAIN Devices(v)
      /\ \A i \in DOMAIN Networks(v) : Networks(v)[i] = Devices(v)[i].network
  BY DEF Networks
<1>2. /\ DOMAIN Devices(v) = 1..Len(Devices(v)) /\ Len(Devices(v)) \in Nat
  BY DeviceList
<1>3. IsFiniteSet(1..Len(Devices(v))) /\ Cardinality(1..Len(Devices(v))) = Len(Devices(v))
  BY <1>2, Positions
<1>4. /\ IsFiniteSet(DOMAIN Networks(v))
      /\ Cardinality(DOMAIN Networks(v)) <= Len(Devices(v))
  BY <1>1, <1>2, <1>3, FS_Subset
<1>5. Cardinality(DOMAIN Networks(v)) \in Nat
  BY <1>4, FS_CardinalityType
<1> QED
  BY <1>1, <1>2, <1>4, <1>5

\* With known switch types only, every device has its network.
LEMMA KnownNetworks ==
  ASSUME inv \in Inventories, NEW v \in VMs, Known(v)
  PROVE  /\ DOMAIN Networks(v) = DOMAIN Devices(v)
         /\ Cardinality(DOMAIN Networks(v)) = Len(Devices(v))
<1>1. DOMAIN Networks(v) = DOMAIN Devices(v)
  BY DEF Networks, Known
<1>2. DOMAIN Devices(v) = 1..Len(Devices(v)) /\ Len(Devices(v)) \in Nat
  BY DeviceList
<1> QED
  BY <1>1, <1>2, Positions

\* hostBounds: a host that is counted once for each network is on every network.
LEMMA OnAllNetworks ==
  ASSUME inv \in Inventories, NEW v \in VMs, NEW h, OnNetworks(v, h)
  PROVE  \A i \in DOMAIN Networks(v) : h \in inv.network[Networks(v)[i]]
<1> DEFINE On == {i \in DOMAIN Networks(v) : h \in inv.network[Networks(v)[i]]}
<1>1. On \in SUBSET DOMAIN Networks(v)
  OBVIOUS
<1>2. Cardinality(On) = Cardinality(DOMAIN Networks(v))
  BY DEF OnNetworks, HostBounds
<1>3. DOMAIN Networks(v) = On
  BY <1>1, <1>2, NetworkList, FS_Subset
<1> QED
  BY <1>3

\* Every host that getAvailableHosts returns is suitable.
LEMMA AvailableSuitable ==
  ASSUME inv \in Inventories, NEW v \in VMs, Known(v), NEW h \in AvailableHosts(v)
  PROVE  h \in Suitable(v)
<1>1. h \in Hosts /\ inv.host[h].connected /\ inv.host[h].storage /\ OnNetworks(v, h)
  BY DEF AvailableHosts, Available
<1>2. \A i \in DOMAIN Devices(v) : h \in inv.network[Devices(v)[i].network]
  BY <1>1, OnAllNetworks, KnownNetworks, NetworkList
<1> QED
  BY <1>1, <1>2 DEF Suitable

\* NICs ns are those of the devices of v.
Follow(v, ns) ==
  Known(v) => /\ Len(ns) = Len(Devices(v))
              /\ \A i \in DOMAIN ns : Matches(ns[i], Devices(v)[i])

\* getNetworkSpecs: where the first loop ends the second goes on, so that together they make
\* one NIC for each network, in order.
LEMMA TwoLoops ==
  ASSUME inv \in Inventories, NEW v \in VMs, ~TooManyNics(v)
  PROVE  NetworkSpecs(v) \in Seq(Nic) /\ Follow(v, NetworkSpecs(v))
<1> DEFINE t == ImageNics(v)
           n == NetworkCount(v)
<1>1. t \in Nat /\ n \in Nat /\ t <= n /\ n <= Len(Devices(v)) /\ Len(Devices(v)) \in Nat
  <2>1. t \in Nat
    BY InventoriesAssumption DEF ImageNics, SpecOf
  <2>2. n \in 0..Len(Devices(v)) /\ Len(Devices(v)) \in Nat
    BY NetworkList, DeviceList DEF NetworkCount
  <2>3. ~(t > n)
    BY DEF TooManyNics
  <2> HIDE DEF t, n
  <2> QED BY <2>1, <2>2, <2>3
<1>2. \A i \in 1..n : Devices(v)[i] \in Device
  BY <1>1, DeviceList
<1>3. \A i \in 1..n : NetworkAt(v, i) \in DOMAIN inv.network \cup {NoNetwork}
  <2> TAKE i \in 1..n
  <2>1. CASE i \in DOMAIN Networks(v)
    <3>1. Networks(v)[i] = Devices(v)[i].network
      BY <2>1, NetworkList
    <3>2. Devices(v)[i].network \in DOMAIN inv.network
      BY <1>2 DEF Device
    <3> QED BY <2>1, <3>1, <3>2 DEF NetworkAt
  <2>2. CASE i \notin DOMAIN Networks(v)
    BY <2>2 DEF NetworkAt
  <2> QED BY <2>1, <2>2
<1>4. \A i \in 1..t : TemplateNic(v, i) \in Nic
  <2> TAKE i \in 1..t
  <2>1. i \in 1..n /\ ~(i > Len(Devices(v)))
    BY <1>1
  <2>2. NetworkAt(v, i) \in DOMAIN inv.network \cup {NoNetwork} /\ Devices(v)[i] \in Device
    BY <1>2, <1>3, <2>1
  <2> QED BY <2>1, <2>2 DEF TemplateNic, Nic, Device
<1>5. \A k \in 1..(n - t) : NewNic(v, t + k) \in Nic
  <2> TAKE k \in 1..(n - t)
  <2>1. t + k \in 1..n
    BY <1>1
  <2> QED BY <1>2, <1>3, <2>1 DEF NewNic, Nic, Device
<1>6. TemplateNics(v) \in Seq(Nic) /\ Len(TemplateNics(v)) = t
  <2>1. TemplateNics(v) \in [1..t -> Nic]
    BY <1>4 DEF TemplateNics
  <2>2. TemplateNics(v) \in Seq(Nic)
    BY <1>1, <2>1, SeqDef
  <2> QED BY <1>1, <2>1, <2>2, LenProperties
<1>7. NewNics(v) \in Seq(Nic) /\ Len(NewNics(v)) = n - t
  <2>1. NewNics(v) \in [1..(n - t) -> Nic]
    BY <1>5 DEF NewNics
  <2>2. NewNics(v) \in Seq(Nic)
    BY <1>1, <2>1, SeqDef
  <2> QED BY <1>1, <2>1, <2>2, LenProperties
<1>8. /\ NetworkSpecs(v) \in Seq(Nic) /\ Len(NetworkSpecs(v)) = n
      /\ \A i \in 1..n : NetworkSpecs(v)[i] = IF i <= t THEN TemplateNics(v)[i]
                                              ELSE NewNics(v)[i - t]
  <2>1. /\ NetworkSpecs(v) \in Seq(Nic)
        /\ Len(NetworkSpecs(v)) = Len(TemplateNics(v)) + Len(NewNics(v))
        /\ \A i \in 1..(Len(TemplateNics(v)) + Len(NewNics(v))) :
             NetworkSpecs(v)[i] = IF i <= Len(TemplateNics(v)) THEN TemplateNics(v)[i]
                                  ELSE NewNics(v)[i - Len(TemplateNics(v))]
    BY <1>6, <1>7, ConcatProperties DEF NetworkSpecs
  <2>2. t + (n - t) = n
    BY <1>1
  <2> QED BY <1>6, <1>7, <2>1, <2>2
<1>9. ASSUME Known(v) PROVE \A i \in 1..n : Matches(NetworkSpecs(v)[i], Devices(v)[i])
  <2> TAKE i \in 1..n
  <2>1. NetworkAt(v, i) = Devices(v)[i].network /\ Devices(v)[i] \in Device
    BY <1>1, <1>2, <1>9, KnownNetworks, NetworkList, DeviceList DEF NetworkAt
  <2>2. CASE i <= t
    <3>1. NetworkSpecs(v)[i] = TemplateNic(v, i) /\ ~(i > Len(Devices(v)))
      BY <1>1, <1>8, <2>2 DEF TemplateNics
    <3> QED BY <2>1, <3>1 DEF TemplateNic, Matches, Device
  <2>3. CASE ~(i <= t)
    <3>1. i - t \in 1..(n - t) /\ t + (i - t) = i
      BY <1>1, <2>3
    <3>2. NetworkSpecs(v)[i] = NewNic(v, i)
      BY <1>8, <2>3, <3>1 DEF NewNics
    <3> QED BY <2>1, <3>2 DEF NewNic, Matches, Device
  <2> QED BY <2>2, <2>3
<1> QED
  BY <1>1, <1>8, <1>9, KnownNetworks, LenProperties DEF Follow, NetworkCount

(***************************************************************************)
(* The invariant.  TypeOK does not mention the inventory, which never      *)
(* changes; the properties of one VM survive the steps of all others.      *)
(***************************************************************************)
Exist == {"off", "checked", "on"}

Placement == inv \in Inventories /\ TypeOK /\ HostReachesAll /\ NicsFollowDevices

\* What is read off the inventory stays.
LEMMA SameInventory ==
  ASSUME inv' = inv
  PROVE  /\ Nic' = Nic
         /\ \A v \in VMs : /\ Devices(v)' = Devices(v) /\ Known(v)' = Known(v)
                           /\ Suitable(v)' = Suitable(v)
  BY DEF Nic, Devices, SpecOf, Known, Suitable

LEMMA InitPlacement == Init => Placement
<1> SUFFICES ASSUME Init PROVE Placement OBVIOUS
<1>1. nics \in [VMs -> Seq(Nic)]
  BY EmptySeq DEF Init
<1>2. TypeOK
  BY <1>1, HostsAssumption DEF Init, TypeOK, States
<1> QED
  BY <1>2 DEF Init, Placement, HostReachesAll, NicsFollowDevices

\* A step that changes one VM: its state to s, its host to h and its NICs to ns.
LEMMA OneChanged ==
  ASSUME Placement, NEW v \in VMs, NEW s \in States, NEW h \in Hosts \cup {NoHost},
         NEW ns \in Seq(Nic), h = NoHost <=> s \in {"none", "gone"},
         h \in {NoHost, host[v]} \cup AvailableHosts(v), s \in Exist => Follow(v, ns),
         st' = [st EXCEPT ![v] = s], host' = [host EXCEPT ![v] = h],
         nics' = [nics EXCEPT ![v] = ns], inv' = inv, faults' \in 0..MaxFaults
  PROVE  Placement'
<1>1. /\ st \in [VMs -> States] /\ host \in [VMs -> Hosts \cup {NoHost}]
      /\ nics \in [VMs -> Seq(Nic)] /\ inv \in Inventories
  BY DEF Placement, TypeOK
<1>2. \A w \in VMs : /\ st'[w] = IF w = v THEN s ELSE st[w]
                     /\ host'[w] = IF w = v THEN h ELSE host[w]
                     /\ nics'[w] = IF w = v THEN ns ELSE nics[w]
  BY <1>1
<1>3. TypeOK'
  <2>1. /\ st' \in [VMs -> States] /\ host' \in [VMs -> Hosts \cup {NoHost}]
        /\ nics' \in [VMs -> Seq(Nic)]
    BY <1>1
  <2>2. \A w \in VMs : host'[w] = NoHost <=> st'[w] \in {"none", "gone"}
    BY <1>2 DEF Placement, TypeOK
  <2> QED BY <2>1, <2>2, SameInventory DEF TypeOK
<1>4. HostReachesAll'
  <2> SUFFICES ASSUME NEW w \in VMs, host'[w] # NoHost, Known(w)
               PROVE  host'[w] \in Suitable(w)
    BY SameInventory DEF HostReachesAll
  <2>1. CASE host'[w] = host[w]
    BY <2>1 DEF Placement, HostReachesAll
  <2>2. CASE host'[w] # host[w]
    <3>1. w = v /\ host'[w] \in AvailableHosts(v)
      BY <1>2, <2>2
    <3> QED BY <1>1, <3>1, AvailableSuitable
  <2> QED BY <2>1, <2>2
<1>5. NicsFollowDevices'
  <2> SUFFICES ASSUME NEW w \in VMs, st'[w] \in Exist PROVE Follow(w, nics'[w])
    BY SameInventory DEF NicsFollowDevices, Follow, Exist
  <2> QED BY <1>2 DEF Placement, NicsFollowDevices, Follow, Exist
<1> QED
  BY <1>1, <1>3, <1>4, <1>5 DEF Placement

\* A failure, or none, is counted within its bound.
LEMMA FaultsType ==
  ASSUME faults \in 0..MaxFaults, Fault \/ NoFault
  PROVE  faults' \in 0..MaxFaults
  BY HostsAssumption DEF Fault, NoFault

\* GetNetworkStatus gives addresses to NICs and leaves them where they are.
LEMMA AddressesOnly ==
  ASSUME inv \in Inventories, NEW v \in VMs, nics[v] \in Seq(Nic), Follow(v, nics[v]),
         NEW ns, ns = [i \in DOMAIN nics[v] |-> IF NeedsIP(v, i) THEN [nics[v][i] EXCEPT !.ip = "static"]
                                               ELSE nics[v][i]]
  PROVE  ns \in Seq(Nic) /\ Follow(v, ns)
<1> DEFINE n == Len(nics[v])
<1>1. n \in Nat /\ DOMAIN nics[v] = 1..n
  BY LenProperties
<1>2. \A i \in 1..n : /\ ns[i] \in Nic /\ ns[i].network = nics[v][i].network
                      /\ ns[i].ip = nics[v][i].ip \/ (ns[i].ip = "static" /\ ~Devices(v)[i].dhcp)
  <2> TAKE i \in 1..n
  <2>1. nics[v][i] \in Nic
    BY ElementOfSeq
  <2> QED BY <1>1, <2>1 DEF Nic, NeedsIP
<1>3. ns \in [1..n -> Nic]
  BY <1>1, <1>2
<1>4. ns \in Seq(Nic)
  BY <1>1, <1>3, SeqDef
<1>5. Len(ns) = n
  BY <1>1, <1>3, <1>4, LenProperties
<1> QED
  BY <1>1, <1>2, <1>3, <1>4, <1>5 DEF Follow, Matches

LEMMA StepPlacement ==
  ASSUME Placement, NEW v \in VMs, Pass(v) \/ DeleteVM(v)
  PROVE  Placement'
<1>0. /\ inv \in Inventories /\ faults \in 0..MaxFaults
      /\ st \in [VMs -> States] /\ host \in [VMs -> Hosts \cup {NoHost}]
      /\ nics \in [VMs -> Seq(Nic)] /\ <<>> \in Seq(Nic)
      /\ \A w \in VMs : host[w] = NoHost <=> st[w] \in {"none", "gone"}
      /\ \A w \in VMs : st[w] \in Exist => Follow(w, nics[w])
  BY EmptySeq DEF Placement, TypeOK, NicsFollowDevices, Follow, Exist
<1>1. CASE GetAvailableHosts(v)
  <2>1. PICK h \in AvailableHosts(v) : host' = [host EXCEPT ![v] = h]
    BY <1>1 DEF GetAvailableHosts
  <2>2. h \in Hosts /\ h # NoHost
    BY HostsAssumption DEF AvailableHosts
  <2>3. /\ st' = [st EXCEPT ![v] = "chosen"] /\ nics' = [nics EXCEPT ![v] = nics[v]]
        /\ inv' = inv /\ faults' = faults
    BY <1>0, <1>1 DEF GetAvailableHosts
  <2> QED BY <1>0, <2>1, <2>2, <2>3, OneChanged DEF States, Exist
<1>2. CASE Panic(v)
  <2>1. /\ inv' = inv /\ faults' = faults /\ nics' = nics
        /\ st' = [w \in VMs |-> CASE st[w] = "chosen" -> "none" [] st[w] = "checked" -> "off"
                                  [] OTHER -> st[w]]
        /\ host' = [w \in VMs |-> IF st[w] = "chosen" THEN NoHost ELSE host[w]]
    BY <1>2 DEF Panic
  <2>2. \A w \in VMs :
          /\ st'[w] \in States /\ host'[w] \in {NoHost, host[w]}
          /\ st'[w] \in Exist => st[w] \in Exist
          /\ host'[w] = NoHost <=> st'[w] \in {"none", "gone"}
    <3> TAKE w \in VMs
    <3>1. CASE st[w] = "chosen"
      BY <1>0, <2>1, <3>1 DEF States, Exist
    <3>2. CASE st[w] = "checked"
      BY <1>0, <2>1, <3>2 DEF States, Exist
    <3>3. CASE st[w] \notin {"chosen", "checked"}
      BY <1>0, <2>1, <3>3 DEF States, Exist
    <3> QED BY <3>1, <3>2, <3>3
  <2>3. TypeOK'
    <3>1. st' \in [VMs -> States] /\ host' \in [VMs -> Hosts \cup {NoHost}]
      BY <1>0, <2>1, <2>2
    <3> QED BY <1>0, <2>1, <2>2, <3>1, SameInventory DEF TypeOK
  <2>4. HostReachesAll'
    BY <2>1, <2>2, SameInventory DEF HostReachesAll, Placement
  <2>5. NicsFollowDevices'
    BY <1>0, <2>1, <2>2, SameInventory DEF NicsFollowDevices, Follow, Exist
  <2> QED BY <1>0, <2>1, <2>3, <2>4, <2>5 DEF Placement
<1>3. CASE CreateVM(v)
  <2>1. faults' \in 0..MaxFaults /\ inv' = inv /\ st[v] = "chosen"
    BY <1>0, <1>3, FaultsType DEF CreateVM
  <2>2. CASE st' = [st EXCEPT ![v] = "off"] /\ nics' = [nics EXCEPT ![v] = NetworkSpecs(v)]
             /\ host' = host
    <3>0. ~TooManyNics(v)
      BY <1>0, <1>3, <2>2 DEF CreateVM
    <3>1. NetworkSpecs(v) \in Seq(Nic) /\ Follow(v, NetworkSpecs(v))
      BY <1>0, <3>0, TwoLoops
    <3>3. host' = [host EXCEPT ![v] = host[v]] /\ host[v] \in Hosts \cup {NoHost} /\ host[v] # NoHost
      BY <1>0, <2>1, <2>2
    <3> QED BY <2>1, <2>2, <3>1, <3>3, OneChanged DEF States
  <2>3. CASE st' = [st EXCEPT ![v] = "none"] /\ host' = [host EXCEPT ![v] = NoHost] /\ nics' = nics
    <3>1. nics' = [nics EXCEPT ![v] = nics[v]]
      BY <1>0, <2>3
    <3> QED BY <1>0, <2>1, <2>3, <3>1, OneChanged DEF States, Exist
  <2> QED BY <1>3, <2>2, <2>3 DEF CreateVM
<1>4. CASE CheckMemory(v) \/ PowerOnVM(v)
  <2>1. PICK s \in {"checked", "on"} :
          /\ st' = [st EXCEPT ![v] = s] /\ st[v] \in Exist
          /\ inv' = inv /\ faults' = faults /\ host' = host /\ nics' = nics
    BY <1>4 DEF CheckMemory, PowerOnVM, Exist
  <2>2. /\ host' = [host EXCEPT ![v] = host[v]] /\ nics' = [nics EXCEPT ![v] = nics[v]]
    BY <1>0, <2>1
  <2>3. /\ s \in States /\ s \notin {"none", "gone"} /\ host[v] # NoHost
        /\ host[v] \in Hosts \cup {NoHost} /\ nics[v] \in Seq(Nic) /\ Follow(v, nics[v])
    BY <1>0, <2>1 DEF States, Exist
  <2>4. faults' \in 0..MaxFaults /\ inv' = inv
    BY <1>0, <2>1
  <2> QED BY <2>1, <2>2, <2>3, <2>4, OneChanged
<1>5. CASE PoweringOnFailed(v) \/ DeleteVM(v)
  <2>1. PICK s \in {"none", "gone"} :
          /\ st' = [st EXCEPT ![v] = s] /\ host' = [host EXCEPT ![v] = NoHost]
          /\ nics' = [nics EXCEPT ![v] = <<>>] /\ inv' = inv
    BY <1>5 DEF PoweringOnFailed, DeleteVM
  <2>2. faults' \in 0..MaxFaults
    BY <1>0, <1>5, FaultsType DEF PoweringOnFailed, DeleteVM
  <2> QED BY <1>0, <2>1, <2>2, OneChanged DEF States, Exist
<1>6. CASE GetNetworkStatus(v)
  <2>1. /\ st[v] \in {"off", "on"} /\ inv' = inv /\ faults' \in 0..MaxFaults
        /\ st' = [st EXCEPT ![v] = st[v]] /\ host' = [host EXCEPT ![v] = host[v]]
        /\ host[v] # NoHost /\ nics[v] \in Seq(Nic) /\ Follow(v, nics[v])
    <3>1. st[v] \in {"off", "on"} /\ inv' = inv /\ st' = st /\ host' = host /\ faults' \in 0..MaxFaults
      BY <1>0, <1>6, FaultsType DEF GetNetworkStatus
    <3>2. st' = [st EXCEPT ![v] = st[v]] /\ host' = [host EXCEPT ![v] = host[v]]
      BY <1>0, <3>1
    <3> QED BY <1>0, <3>1, <3>2 DEF Exist
  <2>2. CASE nics' = nics
    <3>1. nics' = [nics EXCEPT ![v] = nics[v]]
      BY <1>0, <2>2
    <3> QED BY <1>0, <2>1, <3>1, OneChanged DEF States, Exist
  <2>3. CASE nics' # nics
    <3> DEFINE ns == [i \in DOMAIN nics[v] |-> IF NeedsIP(v, i) THEN [nics[v][i] EXCEPT !.ip = "static"]
                                               ELSE nics[v][i]]
    <3>1. nics' = [nics EXCEPT ![v] = ns]
      BY <1>0, <1>6, <2>3 DEF GetNetworkStatus
    <3>2. ns \in Seq(Nic) /\ Follow(v, ns)
      BY <1>0, <2>1, AddressesOnly
    <3> HIDE DEF ns
    <3> QED BY <1>0, <2>1, <3>1, <3>2, OneChanged DEF States, Exist
  <2> QED BY <2>2, <2>3
<1> QED
  BY <1>1, <1>2, <1>3, <1>4, <1>5, <1>6 DEF Pass

LEMMA AlwaysPlaced == Spec => []Placement
<1>1. Placement /\ [Next]_vars => Placement'
  <2> SUFFICES ASSUME Placement, [Next]_vars PROVE Placement' OBVIOUS
  <2>1. CASE Next
    BY <2>1, StepPlacement DEF Next
  <2>2. CASE UNCHANGED vars
    BY <2>2, SameInventory DEF vars, Placement, TypeOK, HostReachesAll, NicsFollowDevices
  <2> QED BY <2>1, <2>2
<1> QED
  BY InitPlacement, <1>1, PTL DEF Spec

\* Type correctness: a VM and a pass that makes one have a host, and no other has; the NICs
\* of the requests are well-formed for every inventory.
THEOREM TypeCorrect == Spec => []TypeOK
<1>1. Placement => TypeOK
  BY DEF Placement
<1> QED
  BY AlwaysPlaced, <1>1, PTL

\* getAvailableHosts: for any networks, hosts and device lists, a VM whose switch types are
\* known is only on a host that is connected, mounts its datastore and is on each of its
\* networks, though the code only compares how many networks a host was found on.
THEOREM HostsReachAll == Spec => []HostReachesAll
<1>1. Placement => HostReachesAll
  BY DEF Placement
<1> QED
  BY AlwaysPlaced, <1>1, PTL

\* getNetworkSpecs and GetNetworkStatus: for any device list and any template, the NICs of a
\* VM whose switch types are known are those of the spec, one for each device and in order,
\* on its network and with DHCP where it asks for DHCP.
THEOREM NicsAreDevices == Spec => []NicsFollowDevices
<1>1. Placement => NicsFollowDevices
  BY DEF Placement
<1> QED
  BY AlwaysPlaced, <1>1, PTL
=============================================================================
