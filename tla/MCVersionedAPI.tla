--------------------------- MODULE MCVersionedAPI ---------------------------
(***************************************************************************)
(* The specs that users write, and the resources that meet, in the run of  *)
(* VersionedAPI.                                                           *)
(***************************************************************************)
EXTENDS VersionedAPI

Plain == [cluster |-> FALSE, disks |-> "given",
          network |-> [ipAddrs |-> "parsable", preferredAPIServerCIDR |-> FALSE]]

\* A usual spec, one that JSON does not carry through the structs, and those that a
\* webhook refuses.
UsualAndOdd ==
  { Plain, [Plain EXCEPT !.cluster = TRUE, !.disks = "empty"],
    [Plain EXCEPT !.network.ipAddrs = "malformed"],
    [Plain EXCEPT !.network.preferredAPIServerCIDR = TRUE] }

\* A machine with its template and its VM; the other two resources stand alone.
Together == {{"ICSMachineTemplate", "ICSMachine", "ICSVM"}, {"ICSCluster"}, {"IPAddress"}}
=============================================================================
