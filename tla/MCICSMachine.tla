---------------------------- MODULE MCICSMachine ----------------------------
(***************************************************************************)
(* Fault environment in which TLC explores ICSMachineController.           *)
(***************************************************************************)
EXTENDS ICSMachineController

\* Every fault but the one that can part Ready from ProviderID.
WholeFaults == FaultKinds \ {"partial"}
=============================================================================
