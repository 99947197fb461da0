------------------------- MODULE VersionedAPIProofs -------------------------
(***************************************************************************)
(* Proofs about VersionedAPI, for any clone specs and any number of edits  *)
(* and restarts.                                                           *)
(***************************************************************************)
EXTENDS VersionedAPI, TLAPS

M == "ICSMachine"
T == "ICSMachineTemplate"
V == "ICSVM"

(***************************************************************************)
(* Encoding and conversion.                                                *)
(***************************************************************************)
\* The kinds whose specs hold a clone spec.
Cloneable == {M, T, V}

LEMMA KindsSplit ==
  /\ Kinds = Cloneable \cup {"ICSCluster", "IPAddress"}
  /\ \A k \in Cloneable : k \notin {"ICSCluster", "IPAddress"}
  BY DEF Kinds, Cloneable, M, T, V

\* A spec with another clone spec.
WithClone(s, c) == [s EXCEPT !.clone = c]

LEMMA CloneType ==
  ASSUME NEW k \in Cloneable, NEW s \in SpecOf(k)
  PROVE  s.clone \in VirtualMachineCloneSpec /\ WithClone(s, s.clone) = s
  BY DEF SpecOf, ICSMachineSpec, ICSVMSpec, Cloneable, M, T, V, WithClone

LEMMA CloneReplaced ==
  ASSUME NEW k \in Cloneable, NEW s \in SpecOf(k), NEW c \in VirtualMachineCloneSpec
  PROVE  /\ WithClone(s, c) \in SpecOf(k)
         /\ WithClone(s, c).clone = c
         /\ \A d : WithClone(WithClone(s, c), d) = WithClone(s, d)
  BY DEF SpecOf, ICSMachineSpec, ICSVMSpec, Cloneable, M, T, V, WithClone

\* Of a clone spec, decoding touches the cluster, and encoding an empty list of disks.
Decoded(c) == [c EXCEPT !.cluster = FALSE]
Encoded(c) == [c EXCEPT !.disks = IF c.disks = "empty" THEN "absent" ELSE c.disks]

LEMMA CodedType ==
  ASSUME NEW c \in VirtualMachineCloneSpec
  PROVE  /\ Decoded(c) \in VirtualMachineCloneSpec /\ Encoded(c) \in VirtualMachineCloneSpec
         /\ Encoded(Decoded(Encoded(Decoded(c)))) = Encoded(Decoded(c))
         /\ Decoded(c).network = c.network /\ Encoded(c).network = c.network
         /\ c.disks # "empty" => Encoded(c) = c
  BY DEF VirtualMachineCloneSpec, Decoded, Encoded

LEMMA DecodeType ==
  ASSUME NEW k \in Kinds, NEW s \in SpecOf(k)
  PROVE  /\ Decode(k, s) \in SpecOf(k)
         /\ k \in Cloneable => Decode(k, s) = WithClone(s, Decoded(s.clone))
<1>1. CASE k \in Cloneable
  <2>1. Decode(k, s) = WithClone(s, Decoded(s.clone))
    BY <1>1, KindsSplit DEF Decode, WithClone, Decoded
  <2> QED BY <1>1, <2>1, CloneType, CloneReplaced, CodedType
<1>2. CASE k \notin Cloneable
  BY <1>2, KindsSplit DEF Decode
<1> QED BY <1>1, <1>2

LEMMA EncodeType ==
  ASSUME NEW k \in Kinds, NEW s \in SpecOf(k)
  PROVE  /\ Encode(k, s) \in SpecOf(k)
         /\ k \in Cloneable => Encode(k, s) = WithClone(s, Encoded(s.clone))
<1>1. CASE k \in Cloneable
  <2>0. s.clone \in VirtualMachineCloneSpec /\ WithClone(s, s.clone) = s
    BY <1>1, CloneType
  <2>1. Encode(k, s) = WithClone(s, Encoded(s.clone))
    <3>1. CASE s.clone.disks = "empty"
      BY <1>1, <3>1, KindsSplit DEF Encode, WithClone, Encoded
    <3>2. CASE s.clone.disks # "empty"
      BY <2>0, <3>2, CodedType DEF Encode
    <3> QED BY <3>1, <3>2
  <2> QED BY <1>1, <2>0, <2>1, CloneReplaced, CodedType
<1>2. CASE k \notin Cloneable
  BY <1>2, KindsSplit DEF Encode
<1> QED BY <1>1, <1>2

\* The generated functions copy every field: a conversion changes nothing in the structs.
LEMMA ConvertIdentity ==
  ASSUME NEW k \in Kinds, NEW s \in SpecOf(k)
  PROVE  Convert(k, s) = s
<1>1. \A n \in NetworkSpec : ConvertNetworkSpec(n) = n
  BY DEF ConvertNetworkSpec, NetworkSpec
<1>2. \A c \in VirtualMachineCloneSpec : ConvertCloneSpec(c) = c
  BY <1>1 DEF ConvertCloneSpec, VirtualMachineCloneSpec
<1>3. CASE k \in {M, T}
  <2>1. s \in ICSMachineSpec
    BY <1>3 DEF SpecOf, M, T
  <2>2. ConvertMachine(s) = s
    BY <1>2, <2>1 DEF ConvertMachine, ICSMachineSpec
  <2> QED BY <1>3, <2>2 DEF Convert, ConvertTemplate, M, T
<1>4. CASE k = V
  <2>1. s \in ICSVMSpec
    BY <1>4 DEF SpecOf, V
  <2>2. ConvertVM(s) = s
    BY <1>2, <2>1 DEF ConvertVM, ICSVMSpec
  <2> QED BY <1>4, <2>2 DEF Convert, V
<1>5. CASE k = "ICSCluster"
  BY <1>5 DEF SpecOf, Convert, ConvertCluster, ICSClusterSpec
<1>6. CASE k = "IPAddress"
  BY <1>6 DEF SpecOf, Convert, ConvertIPAddress, IPAddressSpec
<1> QED
  BY <1>3, <1>4, <1>5, <1>6 DEF Kinds, M, T, V

\* What the controllers see of a spec is a spec, and seeing it again changes nothing.
LEMMA SeenType ==
  ASSUME NEW k \in Kinds, NEW s \in SpecOf(k)
  PROVE  /\ Seen(k, s) \in SpecOf(k)
         /\ k \in Cloneable => Seen(k, s) = WithClone(s, Encoded(Decoded(s.clone)))
         /\ k \in Cloneable => Seen(k, s).clone = Encoded(Decoded(s.clone))
<1>1. Seen(k, s) \in SpecOf(k)
  BY DecodeType, EncodeType DEF Seen
<1>2. ASSUME k \in Cloneable
      PROVE  /\ Seen(k, s) = WithClone(s, Encoded(Decoded(s.clone)))
             /\ Seen(k, s).clone = Encoded(Decoded(s.clone))
  <2>1. s.clone \in VirtualMachineCloneSpec
    BY <1>2, CloneType
  <2>2. /\ Decoded(s.clone) \in VirtualMachineCloneSpec
        /\ Encoded(Decoded(s.clone)) \in VirtualMachineCloneSpec
    BY <2>1, CodedType
  <2>3. Decode(k, s) = WithClone(s, Decoded(s.clone)) /\ Decode(k, s) \in SpecOf(k)
    BY <1>2, DecodeType
  <2>4. Decode(k, s).clone = Decoded(s.clone)
    BY <1>2, <2>2, <2>3, CloneReplaced
  <2>5. Seen(k, s) = WithClone(Decode(k, s), Encoded(Decoded(s.clone)))
    BY <1>2, <2>3, <2>4, EncodeType DEF Seen
  <2>6. Seen(k, s) = WithClone(s, Encoded(Decoded(s.clone)))
    BY <1>2, <2>2, <2>3, <2>5, CloneReplaced
  <2> QED BY <1>2, <2>2, <2>6, CloneReplaced
<1> QED BY <1>1, <1>2

LEMMA SeenTwice ==
  ASSUME NEW k \in Kinds, NEW s \in SpecOf(k)
  PROVE  Seen(k, Seen(k, s)) = Seen(k, s)
<1>1. CASE k \in Cloneable
  <2> DEFINE c == s.clone
             d == Encoded(Decoded(c))
  <2>1. c \in VirtualMachineCloneSpec /\ d \in VirtualMachineCloneSpec /\ Encoded(Decoded(d)) = d
    BY <1>1, CloneType, CodedType
  <2>2. Seen(k, s) = WithClone(s, d) /\ Seen(k, s) \in SpecOf(k) /\ Seen(k, s).clone = d
    BY <1>1, SeenType
  <2>3. Seen(k, Seen(k, s)) = WithClone(WithClone(s, d), d)
    BY <1>1, <2>1, <2>2, SeenType
  <2> QED BY <1>1, <2>1, <2>2, <2>3, CloneReplaced
<1>2. CASE k \notin Cloneable
  BY <1>2, KindsSplit DEF Seen, Encode, Decode
<1> QED BY <1>1, <1>2

\* A conversion, JSON to JSON, shows the controllers the same spec as before.
LEMMA RecodeSeen ==
  ASSUME NEW k \in Kinds, NEW s \in SpecOf(k)
  PROVE  Recode(k, s) = Seen(k, s) /\ Seen(k, Recode(k, s)) = Seen(k, s)
<1>1. Recode(k, s) = Seen(k, s)
  BY DecodeType, ConvertIdentity DEF Recode, Seen
<1> QED BY <1>1, SeenTwice

(***************************************************************************)
(* Objects and requests.                                                   *)
(***************************************************************************)
LEMMA BodyParts ==
  ASSUME NEW k, NEW b \in Body(k)
  PROVE  b.spec \in SpecOf(k) /\ b.data \in SpecOf(k) \cup {None}
  BY DEF Body

LEMMA BodyMade ==
  ASSUME NEW k, NEW s \in SpecOf(k), NEW d \in SpecOf(k) \cup {None}
  PROVE  /\ [spec |-> s, data |-> d] \in Body(k)
         /\ [spec |-> s, data |-> d].spec = s /\ [spec |-> s, data |-> d].data = d
  BY DEF Body

\* The versions in which the metadata of a copy carries no conversion data.
Bare(k, ver, b) == ver = "v1beta1" \/ k = "ICSCluster" => b.data = None

\* What a client reads in either version shows the controllers' view of what is stored.
LEMMA ServedType ==
  ASSUME NEW k \in Kinds, NEW ver \in Versions, NEW b \in Body(k), b.data = None
  PROVE  LET c == Served(k, ver, b)
         IN c \in Body(k) /\ Bare(k, ver, c) /\ Seen(k, c.spec) = Seen(k, b.spec)
<1>1. CASE ver = "v1beta1"
  BY <1>1 DEF Served, Bare
<1>2. CASE ver # "v1beta1"
  <2> DEFINE d == MarshalData(k, b)
  <2>1. b.spec \in SpecOf(k) /\ Recode(k, b.spec) \in SpecOf(k)
    BY BodyParts, RecodeSeen, SeenType
  <2>2. d \in SpecOf(k) \cup {None} /\ (k = "ICSCluster" => d = None)
    BY <2>1, DecodeType, EncodeType DEF MarshalData
  <2>3. Served(k, ver, b) = [spec |-> Recode(k, b.spec), data |-> d]
    BY <1>2 DEF Served, ConvertFrom
  <2> QED BY <1>2, <2>1, <2>2, <2>3, BodyMade, RecodeSeen DEF Bare
<1> QED BY <1>1, <1>2

\* What is stored of a request in either version carries no conversion data, and shows the
\* controllers what the client wrote.
LEMMA ToHubType ==
  ASSUME NEW k \in Kinds, NEW ver \in Versions, NEW b \in Body(k), Bare(k, ver, b)
  PROVE  LET c == ToHub(k, ver, b)
         IN c \in Body(k) /\ c.data = None /\ Seen(k, c.spec) = Seen(k, b.spec)
<1>1. CASE ver = "v1beta1"
  BY <1>1 DEF ToHub, Bare
<1>2. CASE ver # "v1beta1"
  <2>1. b.spec \in SpecOf(k) /\ Recode(k, b.spec) \in SpecOf(k)
    BY BodyParts, RecodeSeen, SeenType
  <2>2. UnmarshalData(k, b) = None
    BY DEF UnmarshalData, Bare
  <2>3. ToHub(k, ver, b) = [spec |-> Recode(k, b.spec), data |-> None]
    BY <1>2, <2>2 DEF ToHub, ConvertTo
  <2> QED BY <2>1, <2>3, BodyMade, RecodeSeen
<1> QED BY <1>1, <1>2

LEMMA ParsableCoded ==
  ASSUME NEW k \in Cloneable, NEW s \in SpecOf(k)
  PROVE  /\ Parsable(Decode(k, s)) <=> Parsable(s)
         /\ Parsable(Encode(k, s)) <=> Parsable(s)
<1>1. k \in Kinds /\ s.clone \in VirtualMachineCloneSpec
  BY KindsSplit, CloneType
<1>2. Decoded(s.clone) \in VirtualMachineCloneSpec /\ Encoded(s.clone) \in VirtualMachineCloneSpec
  BY <1>1, CodedType
<1>3. /\ Decode(k, s).clone = Decoded(s.clone)
      /\ Encode(k, s).clone = Encoded(s.clone)
  BY <1>1, <1>2, DecodeType, EncodeType, CloneReplaced
<1> QED BY <1>1, <1>3, CodedType DEF Parsable

\* An object as the API server keeps it.
Stands(o)   == o.st \in {"live", "deleting"}
Sound(k, o) == o \in Object(k) /\ (Stands(o) => o.body.data = None)

LEMMA SoundParts ==
  ASSUME NEW k, NEW o, Sound(k, o), Stands(o)
  PROVE  /\ o \in [st: {"live", "deleting"}, fin: BOOLEAN, body: Body(k)]
         /\ o.body \in Body(k) /\ o.body.data = None /\ o.body.spec \in SpecOf(k)
<1>1. o \in [st: {"live", "deleting"}, fin: BOOLEAN, body: Body(k)]
  BY DEF Sound, Stands, Object, Absent
<1> QED BY <1>1, BodyParts DEF Sound

LEMMA SoundMade ==
  ASSUME NEW k, NEW b \in Body(k), b.data = None
  PROVE  Sound(k, New(b)) /\ New(b).body = b /\ New(b).st = "live"
  BY DEF New, Sound, Object, Stands

\* An object with another body, without and with a finalizer.
WithBody(o, b)   == [o EXCEPT !.body = b]
Finalized(o, b)  == [o EXCEPT !.body = b, !.fin = TRUE]

LEMMA SoundChanged ==
  ASSUME NEW k, NEW b \in Body(k), b.data = None, NEW o, Sound(k, o), Stands(o),
         NEW p \in {WithBody(o, b), Finalized(o, b)}
  PROVE  Sound(k, p) /\ p.st = o.st /\ p.body = b
<1> DEFINE R == [st: {"live", "deleting"}, fin: BOOLEAN, body: Body(k)]
<1>1. o \in R
  BY SoundParts
<1>2. p \in R /\ p.st = o.st /\ p.body = b
  BY <1>1 DEF WithBody, Finalized
<1>3. p \in Object(k)
  BY <1>2 DEF Object
<1> QED BY <1>2, <1>3 DEF Sound

LEMMA SoundKept ==
  ASSUME NEW k, NEW o, Sound(k, o), Stands(o), NEW p,
         p \in {[o EXCEPT !.fin = TRUE], [o EXCEPT !.st = "deleting"]}
  PROVE  Sound(k, p) /\ Stands(p) /\ p.body = o.body
<1>1. o \in [st: {"live", "deleting"}, fin: BOOLEAN, body: Body(k)] /\ o.body.data = None
  BY SoundParts
<1> QED BY <1>1 DEF Sound, Object, Stands

LEMMA RemovedSound ==
  ASSUME NEW k
  PROVE  /\ Sound(k, Removed(k)) /\ ~Stands(Removed(k))
         /\ k # V => Removed(k).st # "none"
  BY DEF Removed, Absent, Sound, Object, Stands, V

(***************************************************************************)
(* The invariant.                                                          *)
(***************************************************************************)
\* A copy that is not out of date is one of an object that stands.
CopyCurrent ==
  held # NoCopy => There(held.kind) /\ Bare(held.kind, held.ver, held.body)

\* A pass, a VM and a clone come only after the ICSMachine, which is not created twice; nor
\* is the template.
MachineFirst ==
  /\ pass.at = "normal" => pass.spec \in ICSMachineSpec
  /\ pass.at # "idle" \/ There(V) \/ cloned => store[M].st # "none"
  /\ cloned => store[T].st # "none"

\* Addresses that were found parsable, in the ICSVM or by a pass that has yet to create it,
\* are so in the ICSMachine: an update cannot make them malformed again.
AddressesParsable ==
  There(M) /\ (There(V) \/ (pass.at = "normal" /\ Parsable(pass.spec))) => Parsable(SpecAt(M))

Consistent ==
  /\ TypeOK /\ CopyCurrent /\ HeldIsStored
  /\ MachineFirst /\ AddressesParsable /\ ClonesAgree

LEMMA StoreSound ==
  ASSUME TypeOK, NEW k \in Kinds
  PROVE  Sound(k, store[k]) /\ (There(k) <=> Stands(store[k]))
  BY DEF TypeOK, Sound, There, Stands

LEMMA HeldParts ==
  ASSUME TypeOK, held # NoCopy
  PROVE  held.kind \in Kinds /\ held \in Copy(held.kind)
  BY DEF TypeOK, Copy

\* The object k becomes o.
LEMMA PutStore ==
  ASSUME TypeOK, CopyCurrent, HeldIsStored, NEW k \in Kinds, NEW o, Sound(k, o), Put(k, o)
  PROVE  /\ store' = [j \in Kinds |-> store'[j]]
         /\ \A j \in Kinds : store'[j] = (IF j = k THEN o ELSE store[j]) /\ Sound(j, store'[j])
         /\ held' = NoCopy \/ \E j \in Kinds : held' \in Copy(j)
         /\ CopyCurrent' /\ HeldIsStored'
<1>1. store = [j \in Kinds |-> store[j]] /\ store' = [store EXCEPT ![k] = o]
  BY DEF TypeOK, Put
<1>2. \A j \in Kinds : store'[j] = (IF j = k THEN o ELSE store[j])
  BY <1>1
<1>3. store' = [j \in Kinds |-> store'[j]]
  BY <1>1
<1>4. \A j \in Kinds : Sound(j, store'[j])
  BY <1>2, StoreSound
<1>5. CASE held' = NoCopy
  BY <1>2, <1>3, <1>4, <1>5 DEF CopyCurrent, HeldIsStored
<1>6. CASE held' # NoCopy
  <2>1. held' = held
    BY <1>6 DEF Put
  <2>2. held.kind \in Kinds /\ held \in Copy(held.kind)
    BY <1>6, <2>1, HeldParts
  <2>3. store'[held.kind] = store[held.kind]
    BY <1>2, <1>6, <2>1, <2>2 DEF Put
  <2> QED BY <1>2, <1>3, <1>4, <2>1, <2>2, <2>3 DEF CopyCurrent, HeldIsStored, There, SpecAt
<1> QED BY <1>5, <1>6

\* A step that creates neither an ICSMachine nor a template, begins no pass, and does not
\* change what a clone and its template have in common, nor make an address malformed.
LEMMA MachineKept ==
  ASSUME Consistent,
         \A j \in {M, T} : /\ store[j].st # "none" => store'[j].st # "none"
                           /\ There(j)' => There(j)
                           /\ There(j)' /\ cloned' => SeenClone(j)' = SeenClone(j),
         There(M)' /\ Parsable(SpecAt(M)) => Parsable(SpecAt(M))',
         There(V)' => There(V) \/ (pass.at = "normal" /\ Parsable(pass.spec)),
         pass'.at = "normal" => pass' = pass, pass'.at # "idle" => pass.at # "idle",
         cloned' => cloned
  PROVE  MachineFirst' /\ AddressesParsable' /\ ClonesAgree'
<1>1. MachineFirst'
  BY DEF Consistent, MachineFirst
<1>2. AddressesParsable'
  BY DEF Consistent, AddressesParsable
<1>3. ClonesAgree'
  BY DEF Consistent, ClonesAgree, M, T
<1> QED BY <1>1, <1>2, <1>3

\* TypeOK, from the objects and the rest.
PassRecord == [at: {"idle", "normal", "delete", "store", "release"},
               spec: ICSMachineSpec \cup {None}, ready: BOOLEAN]
OtherTypes ==
  /\ group \in Groups /\ cloned \in BOOLEAN /\ up \in BOOLEAN /\ pass \in PassRecord
  /\ edits \in 0..MaxEdits /\ crashes \in 0..MaxCrashes
StoreTypes ==
  /\ store = [j \in Kinds |-> store[j]] /\ \A j \in Kinds : Sound(j, store[j])
  /\ held = NoCopy \/ \E j \in Kinds : held \in Copy(j)

LEMMA TypeSplit ==
  /\ TypeOK <=> StoreTypes /\ OtherTypes
  /\ TypeOK' <=> StoreTypes' /\ OtherTypes'
  BY DEF TypeOK, StoreTypes, OtherTypes, PassRecord, Sound, There, Stands

LEMMA KindNames == M \in Kinds /\ T \in Kinds /\ V \in Kinds /\ M # T /\ M # V /\ T # V
  BY DEF Kinds, M, T, V

LEMMA IdleType == Idle \in PassRecord /\ Idle.at = "idle"
  BY DEF Idle, PassRecord

\* A step on an object other than the ICSMachine and its template that creates no ICSVM
\* without the consent of a pass.
LEMMA OtherPut ==
  ASSUME Consistent, NEW k \in Kinds \ {M, T}, NEW o, Sound(k, o), Put(k, o),
         k = V /\ Stands(o) => There(V) \/ (pass.at = "normal" /\ Parsable(pass.spec)),
         OtherTypes', cloned' = cloned,
         pass'.at = "normal" => pass' = pass, pass'.at # "idle" => pass.at # "idle"
  PROVE  Consistent'
<1>1. TypeOK /\ CopyCurrent /\ HeldIsStored
  BY DEF Consistent
<1>2. /\ StoreTypes' /\ CopyCurrent' /\ HeldIsStored'
      /\ \A j \in Kinds : store'[j] = IF j = k THEN o ELSE store[j]
  BY <1>1, PutStore DEF StoreTypes
<1>3. /\ store'[M] = store[M] /\ store'[T] = store[T]
      /\ There(V)' => There(V) \/ (pass.at = "normal" /\ Parsable(pass.spec))
  BY <1>2, KindNames DEF There, Stands
<1>4. MachineFirst' /\ AddressesParsable' /\ ClonesAgree'
  BY <1>3, MachineKept DEF There, SpecAt, SeenClone
<1> QED BY <1>2, <1>4, TypeSplit DEF Consistent

\* A step that leaves the objects alone.
LEMMA StoreKept ==
  ASSUME Consistent, UNCHANGED <<store, cloned>>, OtherTypes',
         held' = NoCopy \/ \E j \in Kinds : held' \in Copy(j), CopyCurrent', HeldIsStored',
         pass'.at = "normal" => pass' = pass, pass'.at # "idle" => pass.at # "idle"
  PROVE  Consistent'
<1>1. StoreTypes'
  BY TypeSplit DEF Consistent, StoreTypes
<1>2. MachineFirst' /\ AddressesParsable' /\ ClonesAgree'
  BY MachineKept DEF There, SpecAt, SeenClone
<1> QED BY <1>1, <1>2, TypeSplit DEF Consistent

\* The same for a held copy that stays as well.
LEMMA AllKept ==
  ASSUME Consistent, UNCHANGED <<store, cloned, held>>, OtherTypes',
         pass'.at = "normal" => pass' = pass, pass'.at # "idle" => pass.at # "idle"
  PROVE  Consistent'
<1>1. /\ CopyCurrent' /\ HeldIsStored'
      /\ held' = NoCopy \/ \E j \in Kinds : held' \in Copy(j)
  BY DEF Consistent, TypeOK, CopyCurrent, HeldIsStored, There, SpecAt
<1> QED BY <1>1, StoreKept

\* A step on the ICSMachine or its template that does not change what they have in common.
LEMMA MachinePut ==
  ASSUME Consistent, NEW k \in {M, T}, NEW o, Sound(k, o), Put(k, o),
         o.st # "none", Stands(o) => There(k),
         Stands(o) => /\ Seen(k, o.body.spec).clone = SeenClone(k)
                      /\ Parsable(SpecAt(k)) => Parsable(o.body.spec),
         OtherTypes', cloned' = cloned,
         pass'.at = "normal" => pass' = pass, pass'.at # "idle" => pass.at # "idle"
  PROVE  Consistent'
<1>1. TypeOK /\ CopyCurrent /\ HeldIsStored /\ k \in Kinds
  BY KindNames DEF Consistent
<1>2. /\ StoreTypes' /\ CopyCurrent' /\ HeldIsStored'
      /\ \A j \in Kinds : store'[j] = IF j = k THEN o ELSE store[j]
  BY <1>1, PutStore DEF StoreTypes
<1>3. \A j \in {M, T} : /\ store[j].st # "none" => store'[j].st # "none"
                        /\ There(j)' => There(j)
                        /\ There(j)' => SeenClone(j)' = SeenClone(j)
  BY <1>2, KindNames DEF There, Stands, SpecAt, SeenClone
<1>4. There(M)' /\ Parsable(SpecAt(M)) => Parsable(SpecAt(M))'
  BY <1>2, KindNames DEF There, Stands, SpecAt, Parsable
<1>5. There(V)' => There(V)
  BY <1>2, KindNames DEF There
<1>6. MachineFirst' /\ AddressesParsable' /\ ClonesAgree'
  BY <1>3, <1>4, <1>5, MachineKept
<1> QED BY <1>2, <1>6, TypeSplit DEF Consistent

LEMMA InitConsistent == Init => Consistent
<1> SUFFICES ASSUME Init PROVE Consistent OBVIOUS
<1>1. \A k \in Kinds : store[k] = Absent
  BY DEF Init
<1>2. \A k \in Kinds : Sound(k, store[k]) /\ ~There(k)
  BY <1>1 DEF Sound, Object, Stands, Absent, There
<1>3. StoreTypes
  BY <1>2 DEF StoreTypes, Init
<1>4. OtherTypes
  <2>1. 0 \in 0..MaxEdits /\ 0 \in 0..MaxCrashes
    BY BoundsAssumption
  <2> QED BY <2>1, IdleType, Zenon DEF OtherTypes, Init
<1>5. CopyCurrent /\ HeldIsStored
  BY DEF Init, CopyCurrent, HeldIsStored
<1>6. MachineFirst /\ AddressesParsable /\ ClonesAgree
  BY <1>2, IdleType, KindNames DEF Init, MachineFirst, AddressesParsable, ClonesAgree
<1> QED BY <1>3, <1>4, <1>5, <1>6, TypeSplit DEF Consistent

(***************************************************************************)
(* Clients.                                                                *)
(***************************************************************************)
\* The specs that users write are specs.
LEMMA UserTypes ==
  ASSUME NEW k \in Kinds
  PROVE  /\ UserSpecs(k) \subseteq SpecOf(k) /\ UserSpecs(V) = {}
         /\ \A s \in SpecOf(k) : Edited(k, s) \subseteq SpecOf(k)
<1>1. CASE k \in {M, T}
  <2>1. \A c \in CloneSpecs : [clone |-> c, providerID |-> FALSE] \in ICSMachineSpec
    BY CloneSpecsAssumption DEF ICSMachineSpec
  <2>2. UserSpecs(k) \subseteq SpecOf(k)
    BY <1>1, <2>1 DEF UserSpecs, SpecOf, M, T
  <2>3. ASSUME NEW s \in SpecOf(k) PROVE Edited(k, s) \subseteq SpecOf(k)
    <3>1. Edited(k, s) = {WithClone(s, c) : c \in CloneSpecs} /\ k \in Cloneable
      BY <1>1, KindsSplit DEF Edited, WithClone, Cloneable
    <3> QED BY <3>1, CloneReplaced, CloneSpecsAssumption
  <2> QED BY <2>2, <2>3 DEF UserSpecs, V
<1>2. CASE k = V
  <2>1. ASSUME NEW s \in SpecOf(k) PROVE Edited(k, s) \subseteq SpecOf(k)
    <3>1. Edited(k, s) = {WithClone(s, c) : c \in CloneSpecs} /\ k \in Cloneable
      BY <1>2, KindsSplit DEF Edited, WithClone, Cloneable
    <3> QED BY <3>1, CloneReplaced, CloneSpecsAssumption
  <2> QED BY <1>2, <2>1 DEF UserSpecs, V
<1>3. CASE k \in {"ICSCluster", "IPAddress"}
  BY <1>3 DEF UserSpecs, Edited, V
<1> QED BY <1>1, <1>2, <1>3 DEF Kinds, M, T, V

LEMMA OthersSame ==
  ASSUME Consistent, UNCHANGED <<group, pass, up, edits, crashes>>, cloned' \in BOOLEAN
  PROVE  OtherTypes'
  BY TypeSplit DEF Consistent, OtherTypes

LEMMA CreateConsistent ==
  ASSUME Consistent, NEW k \in Kinds, NEW ver \in Versions, Create(k, ver)
  PROVE  Consistent'
<1>0. TypeOK /\ CopyCurrent /\ HeldIsStored /\ MachineFirst
  BY DEF Consistent
<1>1. PICK s \in UserSpecs(k) : Put(k, New(ToHub(k, ver, [spec |-> s, data |-> None])))
  BY DEF Create
<1> DEFINE b == ToHub(k, ver, [spec |-> s, data |-> None])
<1>2. b \in Body(k) /\ b.data = None
  <2>1. [spec |-> s, data |-> None] \in Body(k) /\ Bare(k, ver, [spec |-> s, data |-> None])
    BY UserTypes, BodyMade DEF Bare
  <2> QED BY <2>1, ToHubType
<1> HIDE DEF b
<1>3. Sound(k, New(b)) /\ New(b).st = "live" /\ Put(k, New(b))
  BY <1>1, <1>2, SoundMade DEF b
<1>4. UNCHANGED <<group, cloned, pass, up, edits, crashes>> /\ store[k].st = "none" /\ k # V
  BY <1>1, UserTypes DEF Create
<1>5. OtherTypes'
  BY <1>0, <1>4, OthersSame DEF TypeOK
<1>6. CASE k \notin {M, T}
  BY <1>3, <1>4, <1>5, <1>6, OtherPut
<1>7. CASE k \in {M, T}
  <2>1. /\ StoreTypes' /\ CopyCurrent' /\ HeldIsStored'
        /\ \A j \in Kinds : store'[j] = IF j = k THEN New(b) ELSE store[j]
    BY <1>0, <1>3, PutStore DEF StoreTypes
  <2>2. ~cloned /\ (k = M => pass.at = "idle" /\ ~There(V))
    BY <1>0, <1>4, <1>7 DEF MachineFirst
  <2>3. /\ store'[V] = store[V] /\ (k = T => store'[M] = store[M])
        /\ store[M].st # "none" => store'[M].st # "none"
    BY <1>3, <1>4, <2>1, KindNames
  <2>4. MachineFirst'
    BY <1>0, <1>4, <2>2, <2>3 DEF MachineFirst, There
  <2>5. AddressesParsable'
    <3>1. pass' = pass /\ There(V)' = There(V)
      BY <1>4, <2>3 DEF There
    <3>2. CASE k = M
      BY <2>2, <3>1, <3>2 DEF AddressesParsable
    <3>3. CASE k = T
      BY <2>3, <3>1, <3>3 DEF Consistent, AddressesParsable, There, SpecAt, Parsable
    <3> QED BY <1>7, <3>2, <3>3
  <2>6. ClonesAgree'
    BY <1>4, <2>2 DEF ClonesAgree
  <2> QED BY <1>5, <2>1, <2>4, <2>5, <2>6, TypeSplit DEF Consistent
<1> QED BY <1>6, <1>7

LEMMA CloneConsistent ==
  ASSUME Consistent, CloneTemplate
  PROVE  Consistent'
<1>0. TypeOK /\ CopyCurrent /\ HeldIsStored /\ MachineFirst
  BY DEF Consistent
<1> DEFINE b == store[T].body
<1>1. /\ store[T].st = "live" /\ store[M].st = "none" /\ Put(M, New(b)) /\ cloned' = TRUE
      /\ UNCHANGED <<group, pass, up, edits, crashes>>
  BY DEF CloneTemplate, M, T
<1>2. b \in Body(M) /\ b.data = None
  <2>1. b \in Body(T) /\ b.data = None
    BY <1>0, <1>1, KindNames, StoreSound, SoundParts DEF Stands
  <2>2. Body(T) = Body(M)
    BY DEF Body, SpecOf, M, T
  <2> QED BY <2>1, <2>2
<1>3. Sound(M, New(b)) /\ New(b).body = b /\ New(b).st = "live"
  BY <1>2, SoundMade
<1>4. /\ StoreTypes' /\ CopyCurrent' /\ HeldIsStored'
      /\ store'[M] = New(b) /\ store'[T] = store[T] /\ store'[V] = store[V]
  BY <1>0, <1>1, <1>3, KindNames, PutStore DEF StoreTypes
<1>5. OtherTypes'
  BY <1>1, OthersSame
<1>6. pass.at = "idle" /\ ~There(V)
  BY <1>0, <1>1 DEF MachineFirst
<1>7. MachineFirst' /\ AddressesParsable'
  BY <1>1, <1>3, <1>4, <1>6 DEF MachineFirst, AddressesParsable, There
<1>8. ClonesAgree'
  BY <1>3, <1>4 DEF ClonesAgree, SeenClone, Seen, SpecAt, Encode, Decode, M, T
<1> QED BY <1>4, <1>5, <1>7, <1>8, TypeSplit DEF Consistent

LEMMA ReadConsistent ==
  ASSUME Consistent, NEW k \in Kinds, NEW ver \in Versions, Read(k, ver)
  PROVE  Consistent'
<1> DEFINE b == Served(k, ver, store[k].body)
<1>1. /\ There(k) /\ held' = [kind |-> k, ver |-> ver, body |-> b]
      /\ UNCHANGED <<group, store, cloned, pass, up, edits, crashes>>
  BY DEF Read
<1>2. store[k].body \in Body(k) /\ store[k].body.data = None
  BY <1>1, StoreSound, SoundParts DEF Consistent
<1>3. b \in Body(k) /\ Bare(k, ver, b) /\ Seen(k, b.spec) = Seen(k, SpecAt(k))
  BY <1>2, ServedType DEF SpecAt
<1> HIDE DEF b
<1>4. held' \in Copy(k) /\ held'.kind = k /\ held'.ver = ver /\ held'.body = b
  BY <1>1, <1>3 DEF Copy
<1>5. CopyCurrent' /\ HeldIsStored'
  BY <1>1, <1>3, <1>4 DEF CopyCurrent, HeldIsStored, There, SpecAt
<1>6. OtherTypes'
  BY <1>1, OthersSame DEF Consistent, TypeOK
<1> QED BY <1>1, <1>4, <1>5, <1>6, StoreKept

\* What a client writes back replaces the object that it read; of the template only what
\* the controllers do not see, and of the ICSMachine nothing that it would be refused for.
LEMMA WriteConsistent ==
  ASSUME Consistent, Write
  PROVE  Consistent'
<1>0. TypeOK /\ CopyCurrent /\ HeldIsStored /\ held # NoCopy
  BY DEF Consistent, Write
<1>1. PICK k, ver, old, copy :
        /\ k \in Kinds /\ ver \in Versions /\ copy \in Body(k)
        /\ held \in Copy(k) /\ held.kind = k /\ held.ver = ver /\ held.body = copy
        /\ copy.spec \in SpecOf(k) /\ old = store[k].body
  <2>1. held \in Copy(held.kind) /\ held.kind \in Kinds
    BY <1>0, HeldParts
  <2>2. held.ver \in Versions /\ held.body \in Body(held.kind)
    BY <2>1 DEF Copy
  <2> QED BY <2>1, <2>2, BodyParts
<1>2. PICK s, b, hub :
        /\ s \in Edited(k, copy.spec) \cup {copy.spec}
        /\ b = [copy EXCEPT !.spec = s] /\ hub = ToHub(k, ver, b)
        /\ Admitted(k, ver, b) /\ store' = [store EXCEPT ![k].body = hub]
        /\ held' = [held EXCEPT !.body = b]
        /\ IF s = copy.spec THEN UNCHANGED <<edits, cloned>>
           ELSE edits < MaxEdits /\ edits' = edits + 1 /\ cloned' = (cloned /\ k # M)
  BY <1>1 DEF Write, M
<1>3. s \in SpecOf(k) /\ UNCHANGED <<group, pass, up, crashes>>
  BY <1>1, <1>2, UserTypes DEF Write
<1>4. b \in Body(k) /\ b.spec = s /\ Bare(k, ver, b) /\ There(k)
  BY <1>0, <1>1, <1>2, <1>3 DEF Body, CopyCurrent, Bare
<1>5. hub \in Body(k) /\ hub.data = None /\ Seen(k, hub.spec) = Seen(k, s)
  <2>1. ver \in Versions /\ k \in Kinds /\ b \in Body(k) /\ Bare(k, ver, b)
    BY <1>1, <1>4
  <2>2. LET c == ToHub(k, ver, b)
        IN c \in Body(k) /\ c.data = None /\ Seen(k, c.spec) = Seen(k, b.spec)
    BY <2>1, ToHubType
  <2> QED BY <1>2, <1>4, <2>2
<1>6. /\ Sound(k, store[k]) /\ Stands(store[k])
      /\ old \in Body(k) /\ old.data = None /\ old.spec \in SpecOf(k)
  BY <1>0, <1>1, <1>4, StoreSound, SoundParts
<1>7. PICK o : /\ o = WithBody(store[k], hub)
               /\ Sound(k, o) /\ o.st = store[k].st /\ o.body = hub
  BY <1>5, <1>6, SoundChanged
<1>8. /\ store' = [j \in Kinds |-> store'[j]]
      /\ \A j \in Kinds : store'[j] = IF j = k THEN o ELSE store[j]
  <2>1. store = [j \in Kinds |-> store[j]] /\ store' = [store EXCEPT ![k].body = hub]
    BY <1>0, <1>2 DEF TypeOK
  <2> QED BY <1>7, <2>1 DEF WithBody
<1>9. held' \in Copy(k) /\ held'.kind = k /\ held'.ver = ver /\ held'.body = b
  BY <1>1, <1>2, <1>4 DEF Copy
<1>10. StoreTypes' /\ CopyCurrent' /\ HeldIsStored'
  <2>1. \A j \in Kinds : Sound(j, store'[j])
    BY <1>0, <1>7, <1>8, StoreSound
  <2>2. StoreTypes'
    BY <1>1, <1>8, <1>9, <2>1 DEF StoreTypes
  <2>3. There(k)' /\ SpecAt(k)' = hub.spec
    BY <1>1, <1>4, <1>7, <1>8 DEF There, SpecAt
  <2>4. CopyCurrent'
    BY <1>4, <1>9, <2>3 DEF CopyCurrent, There
  <2>5. HeldIsStored'
    BY <1>4, <1>5, <1>9, <2>3 DEF HeldIsStored, SpecAt
  <2> QED BY <2>2, <2>4, <2>5
<1>11. OtherTypes'
  <2>1. edits' \in 0..MaxEdits
    BY <1>0, <1>2, BoundsAssumption DEF TypeOK
  <2>2. cloned' \in BOOLEAN /\ (cloned' => cloned)
    BY <1>0, <1>2 DEF TypeOK
  <2> QED BY <1>0, <1>3, <2>1, <2>2, TypeSplit DEF OtherTypes
<1>12. \A j \in Kinds : store'[j].st = store[j].st /\ (j # k => store'[j] = store[j])
  BY <1>1, <1>7, <1>8
<1>13. ASSUME k = M PROVE Parsable(hub.spec)
  <2>1. Parsable(Decode(M, hub.spec))
    BY <1>2, <1>13 DEF Admitted, ValidateUpdate, ValidateUpdateMachine, M
  <2> QED BY <1>5, <1>13, <2>1, BodyParts, ParsableCoded DEF Cloneable
<1>14. ASSUME k = T PROVE Seen(T, hub.spec) = Seen(T, old.spec)
  <2> DEFINE was == ToHub(T, ver, Served(T, ver, old))
  <2>1. Decode(T, hub.spec) = Decode(T, was.spec)
    BY <1>1, <1>2, <1>14 DEF Admitted, ValidateUpdate, ValidateUpdateTemplate, T, M
  <2>2. Seen(T, was.spec) = Seen(T, old.spec)
    BY <1>1, <1>6, <1>14, ServedType, ToHubType
  <2> QED BY <2>1, <2>2 DEF Seen
<1>15. ASSUME k = M, cloned' PROVE Seen(M, hub.spec) = Seen(M, old.spec)
  <2>1. s = copy.spec
    BY <1>2, <1>15
  <2> QED BY <1>0, <1>1, <1>5, <1>15, <2>1 DEF HeldIsStored, SpecAt
<1>16. \A j \in {M, T} : There(j)' /\ cloned' => SeenClone(j)' = SeenClone(j)
  <2> TAKE j \in {M, T}
  <2>1. CASE j = k
    <3>1. SpecAt(j)' = hub.spec /\ SpecAt(j) = old.spec
      BY <1>1, <1>7, <1>8, <2>1 DEF SpecAt
    <3> QED BY <1>14, <1>15, <2>1, <3>1 DEF SeenClone
  <2>2. CASE j # k
    BY <1>12, <2>2, KindNames DEF SeenClone, SpecAt
  <2> QED BY <2>1, <2>2
<1>17. There(M)' /\ Parsable(SpecAt(M)) => Parsable(SpecAt(M))'
  <2>1. CASE k = M
    BY <1>1, <1>7, <1>8, <1>13, <2>1 DEF SpecAt, Parsable
  <2>2. CASE k # M
    BY <1>12, <2>2, KindNames DEF SpecAt, Parsable
  <2> QED BY <2>1, <2>2
<1>18. MachineFirst' /\ AddressesParsable' /\ ClonesAgree'
  BY <1>2, <1>3, <1>12, <1>16, <1>17, KindNames, MachineKept DEF There
<1> QED BY <1>10, <1>11, <1>18, TypeSplit DEF Consistent

LEMMA AfterDeleteSound ==
  ASSUME NEW k \in Kinds, TypeOK, There(k)
  PROVE  LET o == AfterDelete(k)
         IN /\ Sound(k, o) /\ (Stands(o) => o.body = store[k].body)
            /\ k # V => o.st # "none"
<1>1. Sound(k, store[k]) /\ Stands(store[k])
  BY StoreSound
<1>2. CASE store[k].fin
  BY <1>1, <1>2, SoundKept DEF AfterDelete, Stands
<1>3. CASE ~store[k].fin
  BY <1>3, RemovedSound DEF AfterDelete
<1> QED BY <1>2, <1>3

LEMMA DeleteConsistent ==
  ASSUME Consistent, NEW k \in Kinds, Delete(k)
  PROVE  Consistent'
<1>1. TypeOK /\ There(k) /\ Put(k, AfterDelete(k))
  BY DEF Consistent, Delete, There
<1>2. UNCHANGED <<group, cloned, pass, up, edits, crashes>>
  BY DEF Delete
<1>3. OtherTypes'
  BY <1>1, <1>2, OthersSame DEF TypeOK
<1>4. CASE k \in {M, T}
  BY <1>1, <1>2, <1>3, <1>4, AfterDeleteSound, MachinePut, KindNames DEF SeenClone, SpecAt
<1>5. CASE k \notin {M, T}
  BY <1>1, <1>2, <1>3, <1>5, AfterDeleteSound, OtherPut
<1> QED BY <1>4, <1>5

(***************************************************************************)
(* Controllers.                                                            *)
(***************************************************************************)
LEMMA BeginPassConsistent ==
  ASSUME Consistent, BeginPass
  PROVE  Consistent'
<1>0. TypeOK /\ CopyCurrent /\ HeldIsStored /\ MachineFirst
  BY DEF Consistent
<1>1. /\ There(M) /\ UNCHANGED <<group, store, held, cloned, up, edits, crashes>>
      /\ pass' = [Idle EXCEPT !.at = IF store[M].st = "live" THEN "normal" ELSE "delete",
                              !.spec = Decode(M, SpecAt(M))]
  BY DEF BeginPass, M
<1>2. SpecAt(M) \in SpecOf(M) /\ Decode(M, SpecAt(M)) \in SpecOf(M) /\ store[M].st # "none"
  BY <1>0, <1>1, KindNames, StoreSound, SoundParts, DecodeType DEF SpecAt, There
<1>3. SpecOf(M) = ICSMachineSpec
  BY DEF SpecOf, M
<1>4. /\ pass' \in PassRecord /\ pass'.spec = Decode(M, SpecAt(M))
      /\ pass'.spec \in ICSMachineSpec
  BY <1>1, <1>2, <1>3 DEF Idle, PassRecord
<1>5. OtherTypes' /\ StoreTypes'
  BY <1>0, <1>1, <1>4, TypeSplit DEF OtherTypes, StoreTypes
<1>6. CopyCurrent' /\ HeldIsStored' /\ ClonesAgree'
  BY <1>1 DEF Consistent, CopyCurrent, HeldIsStored, ClonesAgree, There, SpecAt, SeenClone
<1>7. MachineFirst'
  BY <1>0, <1>1, <1>2, <1>4 DEF MachineFirst, There
<1>8. AddressesParsable'
  <2>1. Parsable(pass'.spec) => Parsable(SpecAt(M))
    BY <1>2, <1>4, ParsableCoded DEF Cloneable
  <2>2. There(V) => Parsable(SpecAt(M))
    BY <1>1 DEF Consistent, AddressesParsable
  <2> QED BY <1>1, <2>1, <2>2 DEF AddressesParsable, There, SpecAt, Parsable
<1> QED BY <1>5, <1>6, <1>7, <1>8, TypeSplit DEF Consistent

\* The merge patch of two clone specs is a clone spec.
LEMMA MergePatchType ==
  ASSUME NEW raw \in VirtualMachineCloneSpec, NEW x \in VirtualMachineCloneSpec,
         NEW y \in VirtualMachineCloneSpec
  PROVE  MergePatch(raw, x, y) \in VirtualMachineCloneSpec
<1>1. DOMAIN raw = {"cluster", "disks", "network"}
  BY DEF VirtualMachineCloneSpec
<1>2. MergePatch(raw, x, y) =
        [cluster |-> IF x.cluster = y.cluster THEN raw.cluster ELSE y.cluster,
         disks   |-> IF x.disks = y.disks THEN raw.disks ELSE y.disks,
         network |-> IF x.network = y.network THEN raw.network ELSE y.network]
  BY <1>1 DEF MergePatch
<1> QED BY <1>2 DEF VirtualMachineCloneSpec

LEMMA VMSpecMade ==
  ASSUME NEW c \in VirtualMachineCloneSpec, NEW u \in BOOLEAN
  PROVE  [clone |-> c, biosUUID |-> u] \in SpecOf(V)
  BY DEF SpecOf, ICSVMSpec, V

LEMMA VMSpecParts ==
  ASSUME NEW s \in SpecOf(V)
  PROVE  s.clone \in VirtualMachineCloneSpec /\ s.biosUUID \in BOOLEAN
  BY DEF SpecOf, ICSVMSpec, V

LEMMA PatchedVMType ==
  ASSUME TypeOK, There(V), pass.spec \in ICSMachineSpec
  PROVE  PatchedVM \in SpecOf(V)
<1> DEFINE raw == SpecAt(V)
           x == Encode(V, Decode(V, raw))
           y == Encode(V, DesiredVM(raw.biosUUID))
<1>1. raw \in SpecOf(V)
  BY KindNames, StoreSound, SoundParts DEF SpecAt
<1>2. x \in SpecOf(V)
  BY <1>1, KindNames, DecodeType, EncodeType
<1>3. y \in SpecOf(V)
  <2>1. pass.spec.clone \in VirtualMachineCloneSpec
    BY DEF ICSMachineSpec
  <2>2. DesiredVM(raw.biosUUID) \in SpecOf(V)
    BY <1>1, <2>1, VMSpecParts, VMSpecMade DEF DesiredVM
  <2> QED BY <2>2, KindNames, EncodeType
<1>4. PatchedVM = WithClone(raw, MergePatch(raw.clone, x.clone, y.clone))
  BY DEF PatchedVM, WithClone, V
<1>5. MergePatch(raw.clone, x.clone, y.clone) \in VirtualMachineCloneSpec
  BY <1>1, <1>2, <1>3, VMSpecParts, MergePatchType
<1> QED BY <1>1, <1>4, <1>5, CloneReplaced DEF Cloneable

\* createOrPatchICSVM creates an ICSVM only from a spec that the webhook found parsable.
LEMMA CreateOrPatchConsistent ==
  ASSUME Consistent, CreateOrPatchICSVM
  PROVE  Consistent'
<1>0. TypeOK /\ pass.at = "normal" /\ pass.spec \in ICSMachineSpec
  BY DEF Consistent, CreateOrPatchICSVM, MachineFirst
<1>1. PICK s, b : /\ s = IF There(V) THEN PatchedVM ELSE Encode(V, DesiredVM(FALSE))
                  /\ b = [spec |-> s, data |-> None]
  OBVIOUS
<1>2. s \in SpecOf(V)
  <2>1. pass.spec.clone \in VirtualMachineCloneSpec
    BY <1>0 DEF ICSMachineSpec
  <2>2. DesiredVM(FALSE) \in SpecOf(V)
    BY <2>1, VMSpecMade DEF DesiredVM
  <2> QED BY <1>0, <1>1, <2>2, PatchedVMType, EncodeType, KindNames
<1>3. b \in Body(V) /\ b.data = None /\ b.spec = s
  BY <1>1, <1>2, BodyMade
<1>4. /\ UNCHANGED <<group, cloned, up, edits, crashes>>
      /\ pass' = [pass EXCEPT !.at = "store", !.ready = There(V) /\ SpecAt(V).biosUUID]
  BY DEF CreateOrPatchICSVM, V
<1>5. OtherTypes' /\ pass'.at = "store"
  <2>1. There(V) => SpecAt(V) \in SpecOf(V)
    BY <1>0, KindNames, StoreSound, SoundParts DEF SpecAt
  <2>2. (There(V) /\ SpecAt(V).biosUUID) \in BOOLEAN
    OBVIOUS
  <2>3. pass' \in PassRecord /\ pass'.at = "store"
    BY <1>0, <1>4, <2>2 DEF TypeOK, PassRecord
  <2> QED BY <1>0, <1>4, <2>3, TypeSplit DEF OtherTypes
<1>6. CASE UNCHANGED <<store, held>>
  BY <1>0, <1>4, <1>5, <1>6, AllKept
<1>7. CASE There(V) /\ Put(V, [store[V] EXCEPT !.body = b])
  <2>1. Sound(V, WithBody(store[V], b)) /\ Put(V, WithBody(store[V], b))
    BY <1>0, <1>3, <1>7, KindNames, StoreSound, SoundChanged DEF WithBody
  <2> QED BY <1>0, <1>4, <1>5, <1>7, <2>1, KindNames, OtherPut
<1>8. CASE ~There(V) /\ Put(V, New(b)) /\ ValidateCreate(V, Decode(V, b.spec))
  <2>1. Parsable(Decode(V, s))
    BY <1>3, <1>8 DEF ValidateCreate, ValidateCreateVM, V
  <2>2. DesiredVM(FALSE) \in SpecOf(V)
    BY <1>0, VMSpecMade DEF DesiredVM, ICSMachineSpec
  <2>3. Parsable(DesiredVM(FALSE))
    BY <1>1, <1>2, <1>8, <2>1, <2>2, ParsableCoded DEF Cloneable
  <2>4. Parsable(pass.spec)
    BY <2>3 DEF Parsable, DesiredVM
  <2>5. Sound(V, New(b))
    BY <1>3, SoundMade
  <2> QED BY <1>0, <1>4, <1>5, <1>8, <2>4, <2>5, KindNames, OtherPut
<1> QED BY <1>1, <1>6, <1>7, <1>8 DEF CreateOrPatchICSVM, V

LEMMA ReconcileDeleteConsistent ==
  ASSUME Consistent, ReconcileDelete
  PROVE  Consistent'
<1>0. TypeOK /\ pass.at = "delete" /\ UNCHANGED <<group, cloned, up, edits, crashes>>
  BY DEF Consistent, ReconcileDelete
<1>1. pass' \in PassRecord /\ pass'.at # "normal"
  <2>1. pass' = Idle \/ pass' = [pass EXCEPT !.at = "release"]
    BY DEF ReconcileDelete
  <2> QED BY <1>0, <2>1, IdleType DEF TypeOK, PassRecord
<1>2. OtherTypes'
  BY <1>0, <1>1, TypeSplit DEF OtherTypes
<1>3. CASE UNCHANGED <<store, held>>
  BY <1>0, <1>1, <1>2, <1>3, AllKept
<1>4. CASE There(V) /\ Put(V, AfterDelete(V))
  BY <1>0, <1>1, <1>2, <1>4, KindNames, AfterDeleteSound, OtherPut
<1> QED BY <1>3, <1>4 DEF ReconcileDelete, V

\* A body whose provider ID, or UUID, is set.
WithProviderID(b, p) == [b EXCEPT !.spec.providerID = p]
WithUUID(b, u)       == [b EXCEPT !.spec.biosUUID = u]

LEMMA ProviderIDSet ==
  ASSUME NEW b \in Body(M), b.data = None, NEW p \in BOOLEAN
  PROVE  LET c == WithProviderID(b, p)
         IN c \in Body(M) /\ c.data = None /\ c.spec.clone = b.spec.clone
<1>1. SpecOf(M) = ICSMachineSpec
  BY DEF SpecOf, M
<1> QED BY <1>1 DEF Body, ICSMachineSpec, WithProviderID

LEMMA UUIDSet ==
  ASSUME NEW b \in Body(V), b.data = None, NEW u \in BOOLEAN
  PROVE  WithUUID(b, u) \in Body(V) /\ WithUUID(b, u).data = None
<1>1. SpecOf(V) = ICSVMSpec
  BY DEF SpecOf, V
<1> QED BY <1>1 DEF Body, ICSVMSpec, WithUUID

LEMMA PatchICSMachineConsistent ==
  ASSUME Consistent, PatchICSMachine
  PROVE  Consistent'
<1>0. TypeOK /\ pass' = Idle /\ UNCHANGED <<group, cloned, up, edits, crashes>>
  BY DEF Consistent, PatchICSMachine
<1>1. OtherTypes' /\ pass'.at = "idle"
  BY <1>0, IdleType, TypeSplit DEF OtherTypes
<1>2. CASE UNCHANGED <<store, held>>
  BY <1>0, <1>1, <1>2, AllKept
<1>3. CASE There(M) /\ Put(M, Removed(M))
  BY <1>0, <1>1, <1>3, KindNames, RemovedSound, MachinePut
<1>4. ASSUME NEW b, b = [store[M].body EXCEPT !.spec.providerID = @ \/ pass.ready],
             There(M), Put(M, [store[M] EXCEPT !.body = b, !.fin = TRUE])
      PROVE  Consistent'
  <2>1. PICK p \in BOOLEAN : p = (store[M].body.spec.providerID \/ pass.ready)
    OBVIOUS
  <2>2. /\ Sound(M, store[M]) /\ Stands(store[M])
        /\ store[M].body \in Body(M) /\ store[M].body.data = None
    BY <1>0, <1>4, KindNames, StoreSound, SoundParts
  <2>3. b = WithProviderID(store[M].body, p)
    BY <1>4, <2>1 DEF WithProviderID
  <2>4. b \in Body(M) /\ b.data = None /\ b.spec.clone = SpecAt(M).clone
    BY <2>2, <2>3, ProviderIDSet DEF SpecAt
  <2>5. PICK o : o = Finalized(store[M], b) /\ Put(M, o)
    BY <1>4 DEF Finalized
  <2>6. Sound(M, o) /\ o.st = store[M].st /\ o.body = b
    BY <2>2, <2>4, <2>5, SoundChanged
  <2>7. Seen(M, b.spec).clone = SeenClone(M)
    <3>1. b.spec \in SpecOf(M) /\ SpecAt(M) \in SpecOf(M)
      BY <2>2, <2>4, BodyParts DEF SpecAt
    <3> QED BY <2>4, <3>1, KindNames, SeenType DEF SeenClone, Cloneable
  <2>8. Parsable(SpecAt(M)) => Parsable(b.spec)
    BY <2>4 DEF Parsable
  <2>9. o.st # "none"
    BY <2>2, <2>6 DEF Stands
  <2> QED BY <1>0, <1>1, <1>4, <2>5, <2>6, <2>7, <2>8, <2>9, KindNames, MachinePut
<1> QED BY <1>2, <1>3, <1>4 DEF PatchICSMachine, M

LEMMA ReconcileICSVMConsistent ==
  ASSUME Consistent, ReconcileICSVM
  PROVE  Consistent'
<1>0. /\ TypeOK /\ There(V) /\ V \in Kinds \ {M, T}
      /\ UNCHANGED <<group, cloned, pass, up, edits, crashes>>
  BY KindNames DEF Consistent, ReconcileICSVM, V
<1>1. OtherTypes'
  BY <1>0, OthersSame DEF TypeOK
<1>2. /\ Sound(V, store[V]) /\ Stands(store[V])
      /\ store[V].body \in Body(V) /\ store[V].body.data = None
  BY <1>0, StoreSound, SoundParts
<1>3. CASE Put(V, Removed(V))
  BY <1>0, <1>1, <1>3, RemovedSound, OtherPut
<1>4. CASE Put(V, [store[V] EXCEPT !.fin = TRUE])
  <2>1. PICK o : o = [store[V] EXCEPT !.fin = TRUE] /\ Put(V, o)
    BY <1>4
  <2>2. Sound(V, o)
    BY <1>2, <2>1, SoundKept
  <2> QED BY <1>0, <1>1, <2>1, <2>2, OtherPut
<1>5. ASSUME NEW b, b = [store[V].body EXCEPT !.spec.biosUUID = TRUE],
             Put(V, [store[V] EXCEPT !.body = b])
      PROVE  Consistent'
  <2>1. b \in Body(V) /\ b.data = None
    <3>1. b = WithUUID(store[V].body, TRUE)
      BY <1>5 DEF WithUUID
    <3> QED BY <1>2, <3>1, UUIDSet
  <2>2. PICK o : o = WithBody(store[V], b) /\ Put(V, o)
    BY <1>5 DEF WithBody
  <2>3. Sound(V, o)
    BY <1>2, <2>1, <2>2, SoundChanged
  <2> QED BY <1>0, <1>1, <2>2, <2>3, OtherPut
<1> QED BY <1>2, <1>3, <1>4, <1>5 DEF ReconcileICSVM, Stands, V

LEMMA ReconcileFinalizerConsistent ==
  ASSUME Consistent, NEW k \in {"ICSCluster", "IPAddress"}, ReconcileFinalizer(k)
  PROVE  Consistent'
<1>0. /\ TypeOK /\ There(k) /\ k \in Kinds \ {M, T} /\ k # V
      /\ UNCHANGED <<group, cloned, pass, up, edits, crashes>>
  BY DEF Consistent, ReconcileFinalizer, Kinds, M, T, V
<1>1. OtherTypes'
  BY <1>0, OthersSame DEF TypeOK
<1>2. Sound(k, store[k]) /\ Stands(store[k])
  BY <1>0, StoreSound
<1>3. CASE Put(k, Removed(k))
  BY <1>0, <1>1, <1>3, RemovedSound, OtherPut
<1>4. CASE Put(k, [store[k] EXCEPT !.fin = TRUE])
  <2>1. PICK o : o = [store[k] EXCEPT !.fin = TRUE] /\ Put(k, o)
    BY <1>4
  <2>2. Sound(k, o)
    BY <1>2, <2>1, SoundKept
  <2> QED BY <1>0, <1>1, <2>1, <2>2, OtherPut
<1> QED BY <1>3, <1>4 DEF ReconcileFinalizer

LEMMA RestartConsistent ==
  ASSUME Consistent, Crash \/ Start
  PROVE  Consistent'
<1>0. TypeOK /\ UNCHANGED <<group, store, held, cloned, edits>>
  BY DEF Consistent, Crash, Start
<1>1. pass' = pass \/ pass' = Idle
  BY DEF Crash, Start
<1>2. crashes' \in 0..MaxCrashes
  BY <1>0, BoundsAssumption DEF Crash, Start, TypeOK
<1>3. up' \in BOOLEAN /\ pass' \in PassRecord
  BY <1>0, <1>1, IdleType, TypeSplit DEF Crash, Start, OtherTypes
<1>4. OtherTypes'
  BY <1>0, <1>2, <1>3, TypeSplit DEF OtherTypes
<1> QED BY <1>0, <1>1, <1>4, IdleType, AllKept

(***************************************************************************)
(* Theorems.                                                               *)
(***************************************************************************)
LEMMA StepConsistent == Consistent /\ [Next]_vars => Consistent'
<1> SUFFICES ASSUME Consistent, [Next]_vars PROVE Consistent'
  OBVIOUS
<1>1. CASE Clients
  BY <1>1, CreateConsistent, ReadConsistent, DeleteConsistent, CloneConsistent, WriteConsistent
     DEF Clients
<1>2. CASE Pass
  BY <1>2, BeginPassConsistent, CreateOrPatchConsistent, ReconcileDeleteConsistent,
     PatchICSMachineConsistent DEF Pass
<1>3. CASE ReconcileICSVM
  BY <1>3, ReconcileICSVMConsistent
<1>4. CASE GarbageCollect
  BY <1>4, KindNames, DeleteConsistent DEF GarbageCollect, V
<1>5. CASE \E k \in {"ICSCluster", "IPAddress"} : ReconcileFinalizer(k)
  BY <1>5, ReconcileFinalizerConsistent
<1>6. CASE Crash \/ Start
  BY <1>6, RestartConsistent
<1>7. CASE UNCHANGED vars
  <2>1. UNCHANGED <<group, store, held, cloned, pass, up, edits, crashes>>
    BY <1>7 DEF vars
  <2>2. OtherTypes'
    BY <2>1, OthersSame DEF Consistent, TypeOK
  <2> QED BY <2>1, <2>2, AllKept
<1> QED
  BY <1>1, <1>2, <1>3, <1>4, <1>5, <1>6, <1>7 DEF Next

LEMMA AlwaysConsistent == Spec => []Consistent
<1>1. Init => Consistent
  BY InitConsistent
<1>2. Consistent /\ [Next]_vars => Consistent'
  BY StepConsistent
<1> QED BY <1>1, <1>2, PTL DEF Spec

\* Every object of the API server keeps its kind's schema, whatever clients of both versions
\* write, and the annotation that a down-conversion adds (MarshalData) never reaches the
\* store: each up-conversion takes it away.
THEOREM TypeCorrect == Spec => []TypeOK
<1>1. Consistent => TypeOK
  BY DEF Consistent
<1> QED BY <1>1, AlwaysConsistent, PTL

\* A copy that is up to date, read or written in v1alpha4 or v1beta1, decodes to what the
\* controllers decode: the generated conversions, MarshalData and UnmarshalData neither lose
\* nor undo a change, in any sequence of reads and writes of any number of clients.
THEOREM CopiesAreCurrent == Spec => []HeldIsStored
<1>1. Consistent => HeldIsStored
  BY DEF Consistent
<1> QED BY <1>1, AlwaysConsistent, PTL

\* ValidateUpdate of ICSMachine accepts every ICSMachine that has an ICSVM: although
\* ValidateCreate does not look at the addresses, an ICSMachine with malformed ones gets no
\* ICSVM, and no update makes them malformed, even between the read of a pass and its write.
THEOREM UpdatableMachines == Spec => []VMOfUpdatableMachine
<1>1. ASSUME Consistent, store[M].st = "live", There(V)
      PROVE  Admitted(M, "v1beta1", store[M].body)
  <2>1. There(M) /\ Parsable(SpecAt(M))
    BY <1>1 DEF Consistent, AddressesParsable, There
  <2>2. SpecAt(M) \in SpecOf(M)
    BY <1>1, <2>1, KindNames, StoreSound, SoundParts DEF Consistent, SpecAt
  <2>3. Parsable(Decode(M, SpecAt(M)))
    BY <2>1, <2>2, ParsableCoded DEF Cloneable
  <2> QED BY <2>3 DEF Admitted, ToHub, ValidateUpdate, ValidateUpdateMachine, SpecAt, M
<1>2. Consistent => VMOfUpdatableMachine
  BY <1>1 DEF VMOfUpdatableMachine, M, V
<1> QED BY <1>2, AlwaysConsistent, PTL

\* ValidateUpdate of ICSMachineTemplate keeps a template, as controllers see it, for good:
\* an ICSMachine that nobody edited agrees with it, through any number of round trips of
\* either through v1alpha4.
THEOREM ClonesFollowTemplate == Spec => []ClonesAgree
<1>1. Consistent => ClonesAgree
  BY DEF Consistent
<1> QED BY <1>1, AlwaysConsistent, PTL
=============================================================================
