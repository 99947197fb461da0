------------------------------ MODULE MCICSVM ------------------------------
(***************************************************************************)
(* Fault environments in which TLC explores ICSVMController.               *)
(***************************************************************************)
EXTENDS ICSVMController

\* Everything but what can make the controller lose track of a submitted task.
TaskKeepingFaults == FaultKinds \ {"task", "patch", "crash", "stale", "setwait"}

\* Failures that a worker VM survives without a second VM or an orphan.
WorkerFaults == {"owner", "unknown", "getvm", "create", "template", "host", "mem",
                 "call", "wait", "fail"}

\* Failures that a retry mends, and failures that swallow the wake-up.
TransientFaults == {"create", "fail", "call", "mem", "getvm", "unknown", "set", "setwait"}
RecoveredFaults == TransientFaults \cup SilentKinds
=============================================================================
