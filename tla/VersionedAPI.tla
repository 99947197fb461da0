---------------------------- MODULE VersionedAPI ----------------------------
(***************************************************************************)
(* The resources in the API server: what the validating webhooks admit,    *)
(* what the conversion webhook makes of an object on its way between       *)
(* v1alpha4 and v1beta1, and what the controllers may therefore rely on.   *)
(*                                                                         *)
(* Objects are stored as v1beta1 JSON.  A client that speaks v1beta1 reads *)
(* and writes that JSON as it is; v1alpha4 JSON passes through the Go      *)
(* structs of both versions in each direction.  Webhooks and controllers   *)
(* decode JSON into structs.  All of them live in one process, the         *)
(* manager: while it is down, writes and conversions fail.  No mutating    *)
(* webhook is registered, so that Default() is never called.               *)
(***************************************************************************)
EXTENDS Naturals

CONSTANTS
  CloneSpecs,   \* the VirtualMachineCloneSpecs that users write, as JSON
  Groups,       \* the sets of resources followed together
  MaxEdits,     \* bound on the changes that users make
  MaxCrashes,   \* bound on the restarts of the manager
  None          \* no object, no annotation

VARIABLES
  group,   \* the set of resources of this behaviour
  store,   \* the stored objects, one of each kind
  held,    \* the copy of an object that a client has read, or sent, last: none when it
           \* is out of date, as optimistic concurrency then refuses it
  cloned,  \* the ICSMachine is a copy of the template that no user has edited
  pass,    \* the pass of the ICSMachine controller
  up,      \* the manager runs
  edits, crashes

vars == <<group, store, held, cloned, pass, up, edits, crashes>>

(***************************************************************************)
(* Resources.  Of a clone spec the model keeps the fields that the JSON    *)
(* encoding or the webhooks treat specially.                               *)
(***************************************************************************)
Kinds     == {"ICSMachineTemplate", "ICSMachine", "ICSVM", "ICSCluster", "IPAddress"}
Versions  == {"v1alpha4", "v1beta1"}

NetworkSpec == [ipAddrs: {"parsable", "malformed"}, preferredAPIServerCIDR: BOOLEAN]
VirtualMachineCloneSpec ==
  [cluster: BOOLEAN, disks: {"absent", "empty", "given"}, network: NetworkSpec]

ASSUME CloneSpecsAssumption == CloneSpecs \subseteq VirtualMachineCloneSpec
ASSUME GroupsAssumption     == \A g \in Groups : g \subseteq Kinds
ASSUME BoundsAssumption     == MaxEdits \in Nat /\ MaxCrashes \in Nat

ICSMachineSpec == [clone: VirtualMachineCloneSpec, providerID: BOOLEAN]
ICSVMSpec      == [clone: VirtualMachineCloneSpec, biosUUID: BOOLEAN]
ICSClusterSpec == [identityRef: {"nil", "a", "b"}]
IPAddressSpec  == [vmRef: {"a", "b"}]

SpecOf(k) ==
  CASE k \in {"ICSMachineTemplate", "ICSMachine"} -> ICSMachineSpec
    [] k = "ICSVM"      -> ICSVMSpec
    [] k = "ICSCluster" -> ICSClusterSpec
    [] k = "IPAddress"  -> IPAddressSpec

\* What users write: a resource of each kind, and the changes they make to one.
UserSpecs(k) ==
  CASE k \in {"ICSMachineTemplate", "ICSMachine"} ->
         {[clone |-> c, providerID |-> FALSE] : c \in CloneSpecs}
    [] k = "ICSVM" -> {}
    [] OTHER -> SpecOf(k)
Edited(k, s) ==
  IF k \in {"ICSCluster", "IPAddress"} THEN SpecOf(k)
  ELSE {[s EXCEPT !.clone = c] : c \in CloneSpecs}

\* data is the annotation with the v1beta1 object that a down-conversion leaves.
Body(k)   == [spec: SpecOf(k), data: SpecOf(k) \cup {None}]
Absent    == [st |-> "none", fin |-> FALSE, body |-> None]
New(b)    == [st |-> "live", fin |-> FALSE, body |-> b]
Object(k) == [st: {"live", "deleting"}, fin: BOOLEAN, body: Body(k)]
             \cup {Absent, [Absent EXCEPT !.st = "gone"]}
Copy(k)   == [kind: {k}, ver: Versions, body: Body(k)]
NoCopy    == [kind |-> None, ver |-> None, body |-> None]

There(k)  == store[k].st \in {"live", "deleting"}
SpecAt(k) == store[k].body.spec

\* Every variable stays in its type; conversion data in particular is never stored.
TypeOK ==
  /\ group \in Groups
  /\ store = [k \in Kinds |-> store[k]]
  /\ \A k \in Kinds : /\ store[k] \in Object(k)
                      /\ There(k) => store[k].body.data = None
  /\ held = NoCopy \/ \E k \in Kinds : held \in Copy(k)
  /\ cloned \in BOOLEAN /\ up \in BOOLEAN
  /\ pass \in [at: {"idle", "normal", "delete", "store", "release"},
              spec: ICSMachineSpec \cup {None}, ready: BOOLEAN]
  /\ edits \in 0..MaxEdits /\ crashes \in 0..MaxCrashes

(***************************************************************************)
(* Encoding and conversion.                                                *)
(***************************************************************************)
\* Datacenter and Cluster carry the same JSON name, so that both are ignored.  A list
\* that is absent decodes to nil, an empty one to a list of length 0.
Decode(k, s) ==
  IF k \in {"ICSCluster", "IPAddress"} THEN s ELSE [s EXCEPT !.clone.cluster = FALSE]

\* omitempty: a list of length 0 is left out.
Encode(k, s) ==
  IF k \in {"ICSCluster", "IPAddress"} \/ s.clone.disks # "empty" THEN s
  ELSE [s EXCEPT !.clone.disks = "absent"]

\* The generated functions, field by field, the same in both directions.
ConvertNetworkSpec(in) ==
  [ipAddrs |-> in.ipAddrs, preferredAPIServerCIDR |-> in.preferredAPIServerCIDR]
ConvertCloneSpec(in) ==
  [cluster |-> in.cluster, disks |-> in.disks, network |-> ConvertNetworkSpec(in.network)]
ConvertMachine(in) == [clone |-> ConvertCloneSpec(in.clone), providerID |-> in.providerID]
ConvertTemplate(in) == ConvertMachine(in)
ConvertVM(in)      == [clone |-> ConvertCloneSpec(in.clone), biosUUID |-> in.biosUUID]
ConvertCluster(in) == [identityRef |-> in.identityRef]
ConvertIPAddress(in) == [vmRef |-> in.vmRef]

Convert(k, in) ==
  CASE k = "ICSMachineTemplate" -> ConvertTemplate(in)
    [] k = "ICSMachine" -> ConvertMachine(in)
    [] k = "ICSVM"      -> ConvertVM(in)
    [] k = "ICSCluster" -> ConvertCluster(in)
    [] k = "IPAddress"  -> ConvertIPAddress(in)
Recode(k, s) == Encode(k, Convert(k, Decode(k, s)))

\* MarshalData keeps the v1beta1 object in an annotation, for three kinds; that of the other
\* two is copied with the metadata.
MarshalData(k, b) ==
  IF k \in {"ICSMachineTemplate", "ICSVM", "IPAddress"} THEN Encode(k, Decode(k, b.spec)) ELSE b.data

\* UnmarshalData takes the annotation away, from the metadata that both objects share; the
\* object that it held is dropped.
UnmarshalData(k, b) == IF k = "ICSCluster" THEN b.data ELSE None

\* v1beta1 to v1alpha4, and back.
ConvertFrom(k, b) == [spec |-> Recode(k, b.spec), data |-> MarshalData(k, b)]

RestoringConvertTo(k, b) ==      \* mutant: the annotation is restored over the request
  [spec |-> IF b.data = None THEN Recode(k, b.spec) ELSE b.data, data |-> None]
KeepingConvertTo(k, b) ==        \* mutant: it stays
  [spec |-> Recode(k, b.spec), data |-> b.data]
ConvertTo(k, b) == [spec |-> Recode(k, b.spec), data |-> UnmarshalData(k, b)]

ToHub(k, ver, b)  == IF ver = "v1beta1" THEN b ELSE ConvertTo(k, b)
Served(k, ver, b) == IF ver = "v1beta1" THEN b ELSE ConvertFrom(k, b)

(***************************************************************************)
(* Admission: operations CREATE and UPDATE on v1beta1 objects.  The kind   *)
(* of an identityRef is not represented: the schema admits only "Secret".  *)
(***************************************************************************)
Parsable(s) == s.clone.network.ipAddrs = "parsable"

\* CIDRs are not checked in the mutant.
CreatesAnyVM(s)     == ~s.clone.network.preferredAPIServerCIDR
ValidateCreateVM(s) == ~s.clone.network.preferredAPIServerCIDR /\ Parsable(s)
ValidateCreateTemplate(s) == ~s.clone.network.preferredAPIServerCIDR /\ ~s.providerID

\* ICSMachine and ICSCluster: identityRef.kind only; IPAddress: nothing.
ValidateCreate(k, s) ==
  CASE k = "ICSVM" -> ValidateCreateVM(s)
    [] k = "ICSMachineTemplate" -> ValidateCreateTemplate(s)
    [] OTHER -> TRUE

\* "allow changes to providerID once", "allow changes to the devices": the maps in which
\* these fields are deleted are not compared with each other.
FixedProviderID(new, old)       == Parsable(new) /\ new.providerID = old.providerID   \* mutant
ValidateUpdateMachine(new, old) == Parsable(new)

NetworkOnly(new, old) == new.clone.network = old.clone.network                         \* mutant
ValidateUpdateTemplate(new, old) == new = old

CreateRules(new, old)      == ValidateCreateVM(new)                                    \* mutant
ValidateUpdateVM(new, old) == TRUE
ValidateUpdateCluster(new, old) == old.identityRef # "nil" => new.identityRef # "nil"

ValidateUpdate(k, new, old) ==
  CASE k = "ICSMachine"         -> ValidateUpdateMachine(new, old)
    [] k = "ICSMachineTemplate" -> ValidateUpdateTemplate(new, old)
    [] k = "ICSVM"              -> ValidateUpdateVM(new, old)
    [] k = "ICSCluster"         -> ValidateUpdateCluster(new, old)
    [] k = "IPAddress"          -> TRUE

\* A request to replace the body of k by b, made in version ver.  The object that it
\* replaces is read in that version as well, and both are converted for the webhook.
Admitted(k, ver, b) ==
  LET old == ToHub(k, ver, Served(k, ver, store[k].body))
  IN ValidateUpdate(k, Decode(k, ToHub(k, ver, b).spec), Decode(k, old.spec))

\* The object k becomes o, and the copy of it that a client holds is out of date.
Put(k, o) ==
  /\ store' = [store EXCEPT ![k] = o]
  /\ held' = IF held.kind = k /\ o # store[k] THEN NoCopy ELSE held

\* The object after a Delete call; only the ICSVM may be created again under its name.
Removed(k) == IF k = "ICSVM" THEN Absent ELSE [Absent EXCEPT !.st = "gone"]
AfterDelete(k) == IF store[k].fin THEN [store[k] EXCEPT !.st = "deleting"] ELSE Removed(k)

(***************************************************************************)
(* Clients.                                                                *)
(***************************************************************************)
Create(k, ver) ==
  /\ up /\ k \in group /\ store[k].st = "none"
  /\ \E s \in UserSpecs(k) :
       LET b == ToHub(k, ver, [spec |-> s, data |-> None])
       IN ValidateCreate(k, Decode(k, b.spec)) /\ Put(k, New(b))
  /\ UNCHANGED <<group, cloned, pass, up, edits, crashes>>

\* Cluster API makes an ICSMachine from the template, JSON to JSON.
CloneTemplate ==
  /\ up /\ store["ICSMachineTemplate"].st = "live" /\ store["ICSMachine"].st = "none"
  /\ ValidateCreate("ICSMachine", Decode("ICSMachine", SpecAt("ICSMachineTemplate")))
  /\ Put("ICSMachine", New(store["ICSMachineTemplate"].body))
  /\ cloned' = TRUE
  /\ UNCHANGED <<group, pass, up, edits, crashes>>

Read(k, ver) ==
  /\ There(k) /\ (up \/ ver = "v1beta1")
  /\ held' = [kind |-> k, ver |-> ver, body |-> Served(k, ver, store[k].body)]
  /\ UNCHANGED <<group, store, cloned, pass, up, edits, crashes>>

\* The client writes its copy back, changed or not.
Write ==
  LET k == held.kind IN
  /\ up /\ held # NoCopy
  /\ \E s \in Edited(k, held.body.spec) \cup {held.body.spec} :
       LET b == [held.body EXCEPT !.spec = s] IN
       /\ Admitted(k, held.ver, b)
       /\ store' = [store EXCEPT ![k].body = ToHub(k, held.ver, b)]
       /\ held' = [held EXCEPT !.body = b]
       /\ IF s = held.body.spec THEN UNCHANGED <<edits, cloned>>
          ELSE /\ edits < MaxEdits /\ edits' = edits + 1
               /\ cloned' = (cloned /\ k # "ICSMachine")
  /\ UNCHANGED <<group, pass, up, crashes>>

\* Users delete any object but the ICSVM; the garbage collector deletes that of an
\* ICSMachine that is gone.
Delete(k) ==
  /\ store[k].st = "live"
  /\ Put(k, AfterDelete(k))
  /\ UNCHANGED <<group, cloned, pass, up, edits, crashes>>

GarbageCollect == store["ICSMachine"].st = "gone" /\ Delete("ICSVM")

(***************************************************************************)
(* Controllers.  They write merge patches: the fields in which the object  *)
(* that the pass made differs, as JSON, from the one that it read.         *)
(***************************************************************************)
Idle == [at |-> "idle", spec |-> None, ready |-> FALSE]

BeginPass ==
  /\ up /\ pass = Idle /\ There("ICSMachine")
  /\ pass' = [Idle EXCEPT !.at = IF store["ICSMachine"].st = "live" THEN "normal" ELSE "delete",
                          !.spec = Decode("ICSMachine", SpecAt("ICSMachine"))]
  /\ UNCHANGED <<group, store, held, cloned, up, edits, crashes>>

\* createOrPatchICSVM: DeepCopyInto of the clone spec, BiosUUID kept.  CloudName, which an
\* empty one takes from the ICSCluster, is not among the fields that the model tells apart.
DesiredVM(uuid) == [clone |-> pass.spec.clone, biosUUID |-> uuid]
MergePatch(raw, before, after) ==
  [f \in DOMAIN raw |-> IF before[f] = after[f] THEN raw[f] ELSE after[f]]
PatchedVM ==
  LET raw == SpecAt("ICSVM")
      before == Encode("ICSVM", Decode("ICSVM", raw))
      after == Encode("ICSVM", DesiredVM(raw.biosUUID))
  IN [raw EXCEPT !.clone = MergePatch(raw.clone, before.clone, after.clone)]

CreateOrPatchICSVM ==
  /\ pass.at = "normal"
  /\ LET b == [spec |-> IF There("ICSVM") THEN PatchedVM ELSE Encode("ICSVM", DesiredVM(FALSE)),
               data |-> None]
         ok == IF There("ICSVM") THEN Admitted("ICSVM", "v1beta1", b)
               ELSE ValidateCreate("ICSVM", Decode("ICSVM", b.spec))
     IN IF ok THEN Put("ICSVM", IF There("ICSVM") THEN [store["ICSVM"] EXCEPT !.body = b] ELSE New(b))
              ELSE UNCHANGED <<store, held>>
  /\ pass' = [pass EXCEPT !.at = "store",
                          !.ready = There("ICSVM") /\ SpecAt("ICSVM").biosUUID]
  /\ UNCHANGED <<group, cloned, up, edits, crashes>>

ReconcileDelete ==
  /\ pass.at = "delete"
  /\ IF There("ICSVM")
     THEN /\ IF store["ICSVM"].st = "live" THEN Put("ICSVM", AfterDelete("ICSVM"))
             ELSE UNCHANGED <<store, held>>
          /\ pass' = Idle
     ELSE pass' = [pass EXCEPT !.at = "release"] /\ UNCHANGED <<store, held>>
  /\ UNCHANGED <<group, cloned, up, edits, crashes>>

\* The deferred patch of the ICSMachine: finalizer and provider ID in one request, which
\* is refused as a whole.
PatchICSMachine ==
  /\ pass.at \in {"store", "release"}
  /\ LET k == "ICSMachine"
         o == store[k]
         b == [o.body EXCEPT !.spec.providerID = @ \/ pass.ready]
     IN IF ~There(k) \/ ~Admitted(k, "v1beta1", b) THEN UNCHANGED <<store, held>>
        ELSE Put(k, IF pass.at = "release" THEN Removed(k)
                    ELSE [o EXCEPT !.body = b, !.fin = TRUE])
  /\ pass' = Idle
  /\ UNCHANGED <<group, cloned, up, edits, crashes>>

\* The ICSVM controller adds its finalizer, reports the UUID of the VM, and removes the
\* finalizer when the VM is destroyed.
ReconcileICSVM ==
  LET k == "ICSVM"
      o == store[k]
      b == [o.body EXCEPT !.spec.biosUUID = TRUE]
  IN
  /\ up /\ There(k) /\ Admitted(k, "v1beta1", b)
  /\ CASE o.st = "deleting" -> Put(k, Removed(k))
       [] o.st = "live" /\ ~o.fin -> Put(k, [o EXCEPT !.fin = TRUE])
       [] OTHER -> ~o.body.spec.biosUUID /\ Put(k, [o EXCEPT !.body = b])
  /\ UNCHANGED <<group, cloned, pass, up, edits, crashes>>

\* The ICSCluster and IPAddress controllers add their finalizers and remove them.
ReconcileFinalizer(k) ==
  LET o == store[k] IN
  /\ up /\ There(k) /\ Admitted(k, "v1beta1", o.body)
  /\ IF o.st = "deleting" THEN Put(k, Removed(k)) ELSE ~o.fin /\ Put(k, [o EXCEPT !.fin = TRUE])
  /\ UNCHANGED <<group, cloned, pass, up, edits, crashes>>

Crash ==
  /\ up /\ crashes < MaxCrashes
  /\ up' = FALSE /\ crashes' = crashes + 1 /\ pass' = Idle
  /\ UNCHANGED <<group, store, held, cloned, edits>>

Start ==
  /\ ~up /\ up' = TRUE
  /\ UNCHANGED <<group, store, held, cloned, pass, edits, crashes>>

Init ==
  /\ group \in Groups /\ store = [k \in Kinds |-> Absent] /\ held = NoCopy
  /\ cloned = FALSE /\ pass = Idle /\ up = TRUE /\ edits = 0 /\ crashes = 0

Clients == \/ \E k \in Kinds, ver \in Versions : Create(k, ver) \/ Read(k, ver)
           \/ \E k \in Kinds \ {"ICSVM"} : Delete(k)
           \/ CloneTemplate \/ Write
Pass    == BeginPass \/ CreateOrPatchICSVM \/ ReconcileDelete \/ PatchICSMachine
Next    == \/ Clients \/ Pass \/ ReconcileICSVM \/ GarbageCollect
           \/ \E k \in {"ICSCluster", "IPAddress"} : ReconcileFinalizer(k)
           \/ Crash \/ Start

Spec == Init /\ [][Next]_vars

\* The controllers run on and the manager is started again; clients do as they like.
FairSpec ==
  Spec /\ WF_vars(Pass) /\ WF_vars(ReconcileICSVM) /\ WF_vars(GarbageCollect) /\ WF_vars(Start)

(***************************************************************************)
(* Properties.                                                             *)
(***************************************************************************)
\* What the controllers can tell apart in a spec: lists by their length.
Seen(k, s) == Encode(k, Decode(k, s))
SeenClone(k) == Seen(k, SpecAt(k)).clone

\* A client in either version whose copy is up to date holds what the controllers see: no
\* sequence of reads and writes through the conversions loses or undoes a change.
HeldIsStored ==
  held # NoCopy => Seen(held.kind, held.body.spec) = Seen(held.kind, SpecAt(held.kind))

\* An ICSMachine that has an ICSVM admits updates, so that its finalizer and provider ID can
\* be stored: what ICSMachine leaves unchecked on creation, ICSVM refuses.
VMOfUpdatableMachine ==
  store["ICSMachine"].st = "live" /\ There("ICSVM")
  => Admitted("ICSMachine", "v1beta1", store["ICSMachine"].body)

\* An ICSMachine that nobody edited agrees with its template, whatever is done to the
\* template in either version since.
ClonesAgree ==
  cloned /\ There("ICSMachine") /\ There("ICSMachineTemplate")
  => SeenClone("ICSMachine") = SeenClone("ICSMachineTemplate")

\* When users stop making changes, ICSVM and ICSMachine come to agree: what is accepted in
\* the one is not refused in the other once it exists.
VMFollowsMachine ==
  <>[](store["ICSMachine"].st = "live" /\ There("ICSVM")
       => SeenClone("ICSVM") = SeenClone("ICSMachine"))

\* The provider ID of a VM that exists reaches its ICSMachine, past the checks on updates.
ProviderIDStored ==
  <>[](store["ICSMachine"].st = "live" /\ There("ICSVM") /\ SpecAt("ICSVM").biosUUID
       => SpecAt("ICSMachine").providerID)
=============================================================================
