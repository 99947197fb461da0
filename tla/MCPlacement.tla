---------------------------- MODULE MCPlacement ----------------------------
(***************************************************************************)
(* Inventories for TLC: which hosts there are and what they reach, how     *)
(* much memory two VMs compete for, and what the specs ask for.            *)
(***************************************************************************)
EXTENDS HostPlacement

Good == [connected |-> TRUE, cluster |-> "c1", storage |-> TRUE, memory |-> 4, physical |-> 4]

Device(n, s, d) == [network |-> n, switch |-> s, dhcp |-> d]
Static(n)  == Device(n, "NORMALSWITCH", FALSE)
Dynamic(n) == Device(n, "SDNSWITCH", TRUE)

Plain == [mode |-> "fullClone", cluster |-> "c2", memory |-> 1, disks |-> 1,
          devices |-> <<Static("n1")>>, image |-> [memory |-> 1, nics |-> 1]]

Everywhere == [n \in {"n1", "n2"} |-> Hosts]
Same(s) == [v \in VMs |-> s]

\* Every way in which two hosts can be connected to storage and networks, and the device
\* lists that tell them apart: one network twice, DHCP here or there, an unknown switch type.
DeviceLists == { <<Static("n1")>>, <<Static("n1"), Static("n2")>>, <<Dynamic("n1"), Static("n1")>>,
                 <<Static("n1"), Dynamic("n2")>>,
                 <<Device("n1", "other", FALSE), Static("n2")>>, <<>> }
Reach ==
  { [host |-> hs, network |-> ns, spec |-> Same([Plain EXCEPT !.devices = ds])] :
      hs \in [Hosts -> {Good, [Good EXCEPT !.connected = FALSE], [Good EXCEPT !.storage = FALSE]}],
      ns \in [{"n1", "n2"} -> SUBSET Hosts], ds \in DeviceLists }

\* Two VMs of different size, and hosts that hold both, one, or exactly one.
Sizes ==
  { [host |-> [h \in Hosts |-> [Good EXCEPT !.memory = m[h], !.physical = m[h] + p]],
     network |-> Everywhere,
     spec |-> [v \in VMs |-> [Plain EXCEPT !.memory = s[v]]]] :
      m \in [Hosts -> 1..5], p \in {0, -1}, s \in [VMs -> 1..2] }

\* Templates and images with fewer NICs or more memory than the spec, and without disks.
Shapes ==
  { [host |-> [h \in Hosts |-> Good], network |-> Everywhere, spec |-> sp] :
      sp \in [VMs -> {[Plain EXCEPT !.mode = md, !.disks = d, !.image = [memory |-> im, nics |-> n],
                                    !.devices = <<Static("n1"), Static("n2")>>] :
                        md \in {"fullClone", "importVM"}, d \in 0..1, im \in {1, 4}, n \in 0..3}] }

AllInventories == Reach \cup Sizes \cup Shapes
=============================================================================
