--------------------------- MODULE ICSVMContract ---------------------------
(***************************************************************************)
(* What the ICSVM controller promises about the fields of an ICSVM that    *)
(* other controllers read as unstructured data (api/v1beta1/icsvm_types.go *)
(* "required at runtime for other controllers"): spec.biosUUID,            *)
(* status.addresses and status.ready.  ICSVMController implements it, and  *)
(* ICSMachineController relies on nothing else.                            *)
(***************************************************************************)
CONSTANT UUIDs     \* the BIOS UUIDs of VMs
CONSTANT NoUUID    \* spec.biosUUID is ""; not one of UUIDs

VARIABLE pub       \* the published fields

Published == [bios: UUIDs \cup {NoUUID}, addrs: BOOLEAN, ready: BOOLEAN]

Nothing == [bios |-> NoUUID, addrs |-> FALSE, ready |-> FALSE]

\* Ready says "the provider resource is ready": it is published together with the
\* UUID and an address, and it is never taken back.
ReadyRule(old, new) ==
  /\ old.ready => new.ready
  /\ new.ready /\ ~old.ready => new.bios # NoUUID /\ new.addrs

\* One VM is dropped before another one is named.
UUIDRule(old, new) == new.bios # old.bios => NoUUID \in {old.bios, new.bios}

Publish ==
  \E new \in Published : pub' = new /\ ReadyRule(pub, new) /\ UUIDRule(pub, new)

Init == pub = Nothing

Spec == Init /\ [][Publish]_pub
====
