---------------------------- MODULE MCICSCluster ----------------------------
(***************************************************************************)
(* Fault environments in which TLC explores ICSClusterController.          *)
(***************************************************************************)
EXTENDS ICSClusterController

CONSTANTS m1, m2   \* two control plane machines

\* Everything but a lagging informer.
AnyFailure == FaultKinds \ {"stale"}
=============================================================================
