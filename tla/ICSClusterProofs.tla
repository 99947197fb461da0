-------------------------- MODULE ICSClusterProofs --------------------------
(***************************************************************************)
(* Proofs about ICSClusterController: type correctness, and with caches    *)
(* that a pass finds up to date, the agreement of the kubeconfig secret    *)
(* with the Cluster and the stability of a published endpoint.             *)
(***************************************************************************)
EXTENDS ICSClusterController, TLAPS

(***************************************************************************)
(* Type correctness.                                                       *)
(***************************************************************************)
\* A fault is counted within its bound.
LEMMA FaultType ==
  ASSUME seen \in FaultCount, NEW k, Fault(k)
  PROVE  seen' \in FaultCount
<1>1. seen.n \in 0..MaxFaults /\ seen.n < MaxFaults => seen.n + 1 \in 0..MaxFaults
  BY FaultsAssumption
<1>2. /\ seen' = [n |-> seen.n + 1, lasting |-> seen.lasting \cup ({k} \cap LastingKinds),
                  silent |-> seen.silent \/ k \in SilentKinds]
      /\ seen.n < MaxFaults
  BY DEF Fault
<1>3. /\ seen.lasting \cup ({k} \cap LastingKinds) \in SUBSET LastingKinds
      /\ (seen.silent \/ k \in SilentKinds) \in BOOLEAN
  BY Zenon DEF FaultCount
<1> QED BY <1>1, <1>2, <1>3 DEF FaultCount

\* A fault, or none.
LEMMA SeenType ==
  ASSUME seen \in FaultCount, NoFault \/ \E k \in FaultKinds : Fault(k)
  PROVE  seen' \in FaultCount
  BY FaultType DEF NoFault

\* What reconcileLoadBalancer makes of an ICSCluster and its Cluster.
LEMMA LoadBalancedType ==
  ASSUME NEW i \in ICSCluster, NEW c \in Cluster
  PROVE  LoadBalanced(i, c) \in ICSCluster
  BY DEF LoadBalanced, ICSCluster, Cluster, Endpoints

\* The objects that do not exist, and the goroutine that does not run.
LEMMA NothingType ==
  /\ NoCluster \in Cluster /\ NoICSCluster \in ICSCluster
  /\ NoPoller \in [st: {"none", "online", "init"}, init: BOOLEAN]
  BY DEF NoCluster, NoICSCluster, NoPoller, Cluster, ICSCluster, Endpoints

LEMMA InitType == Init => TypeOK
<1> SUFFICES ASSUME Init PROVE TypeOK OBVIOUS
<1>1. capi \in Cluster /\ ics \in ICSCluster
  BY DEF Init, NoCluster, NoICSCluster, Cluster, ICSCluster, Endpoints
<1>2. seen \in FaultCount
  BY FaultsAssumption DEF Init, FaultCount
<1>3. pc \in PCs
  BY DEF Init, PCs
<1> QED
  BY <1>1, <1>2, <1>3, NothingType DEF Init, TypeOK

LEMMA PassType ==
  ASSUME TypeOK, Pass
  PROVE  TypeOK'
<1> USE DEF TypeOK, passVars, worldVars, GoTo, Return, PCs
<1>1. CASE SkipPass
  BY <1>1, SeenType DEF SkipPass, FaultKinds
<1>2. CASE BeginPass
  BY <1>2 DEF BeginPass
<1>3. CASE ConnectFails
  BY <1>3, SeenType DEF ConnectFails, FaultKinds
<1>4. CASE ReconcileLoadBalancer
  BY <1>4, LoadBalancedType DEF ReconcileLoadBalancer
<1>5. CASE ReconcileControlPlaneEndpoint
  <2>1. \A m \in eligible : [ic EXCEPT !.ep = m] \in ICSCluster
    BY DEF ICSCluster, Endpoints
  <2>2. ic' \in ICSCluster
    BY <1>5, <2>1 DEF ReconcileControlPlaneEndpoint
  <2> QED BY <1>5, <2>2, SeenType DEF ReconcileControlPlaneEndpoint, FaultKinds
<1>6. CASE PatchCluster
  <2>1. capi' \in Cluster
    BY <1>6 DEF PatchCluster, Cluster, ICSCluster
  <2> QED BY <1>6, <2>1, SeenType DEF PatchCluster, FaultKinds
<1>7. CASE UpdateSecret
  <2>1. secret' \in {"absent"} \cup Endpoints
    BY <1>7 DEF UpdateSecret, ICSCluster
  <2> QED BY <1>7, <2>1, SeenType DEF UpdateSecret, FaultKinds
<1>8. CASE StartPoller
  <2>1. cl.init \in BOOLEAN
    BY DEF Cluster
  <2>2. \A b \in BOOLEAN : [st |-> "online", init |-> b] \in [st: {"none", "online", "init"}, init: BOOLEAN]
    OBVIOUS
  <2>3. key' \in BOOLEAN /\ poller' \in [st: {"none", "online", "init"}, init: BOOLEAN]
    BY <1>8, <2>1, <2>2, Zenon DEF StartPoller
  <2> QED BY <1>8, <2>3 DEF StartPoller
<1>9. CASE CheckOnline
  BY <1>9, SeenType DEF CheckOnline, FaultKinds, ConfigMaps
<1>10. CASE SyncClusterInfo \/ SyncConfigMap
  <2>1. \A c \in ConfigMaps : Rewritten(c) \in [ConfigMaps -> {"absent"} \cup Endpoints]
    BY DEF Rewritten, ICSCluster
  <2>2. cm' \in [ConfigMaps -> {"absent"} \cup Endpoints]
    BY <1>10, <2>1 DEF SyncClusterInfo, SyncConfigMap, ConfigMaps
  <2>3. pc' \in PCs /\ ret' \in {"nil", "err", "after"}
    BY <1>10 DEF SyncClusterInfo, SyncConfigMap, ConfigMaps
  <2>4. seen' \in FaultCount
    BY <1>10, SeenType DEF SyncClusterInfo, SyncConfigMap, FaultKinds
  <2> QED BY <1>10, <2>2, <2>3, <2>4 DEF SyncClusterInfo, SyncConfigMap
<1>11. CASE Finish
  <2>1. ics' \in ICSCluster
    BY <1>11 DEF Finish, ICSCluster
  <2>2. seen' \in FaultCount
    BY <1>11, SeenType DEF Finish, FaultKinds
  <2> QED BY <1>11, <2>1, <2>2, NothingType DEF Finish
<1> QED
  BY <1>1, <1>2, <1>3, <1>4, <1>5, <1>6, <1>7, <1>8, <1>9, <1>10, <1>11 DEF Pass

LEMMA EnvironmentType ==
  ASSUME TypeOK, Environment
  PROVE  TypeOK'
<1> USE DEF TypeOK, passVars, worldVars
<1>1. CASE PollerSeesServer \/ PollerEnds
  <2>1. poller' \in [st: {"none", "online", "init"}, init: BOOLEAN]
    BY <1>1, NothingType DEF PollerSeesServer, PollerEnds
  <2>2. key' \in BOOLEAN /\ queued' \in BOOLEAN
    BY <1>1 DEF PollerSeesServer, PollerEnds
  <2> QED BY <1>1, <2>1, <2>2 DEF PollerSeesServer, PollerEnds
<1>2. CASE WatchEvent \/ Resync
  <2>1. cached' \in [capi: Cluster, ics: ICSCluster] /\ queued' \in BOOLEAN
    <3>1. [capi |-> capi, ics |-> ics] \in [capi: Cluster, ics: ICSCluster]
      OBVIOUS
    <3> QED BY <1>2, <3>1, Zenon DEF WatchEvent, Resync
  <2> QED BY <1>2, <2>1 DEF WatchEvent, Resync
<1>3. CASE Restart
  <2>1. seen' \in FaultCount
    BY <1>3, FaultType DEF Restart
  <2> QED BY <1>3, <2>1, NothingType DEF Restart, PCs
<1>4. CASE InfrastructureReady \/ MarkInitialized
  <2>1. \A e \in Endpoints : /\ [capi EXCEPT !.infra = TRUE, !.ep = e] \in Cluster
                              /\ [capi EXCEPT !.init = TRUE] \in Cluster
    BY DEF Cluster
  <2>2. capi.ep \in Endpoints /\ ics.ep \in Endpoints
    BY DEF Cluster, ICSCluster
  <2>3. capi' \in Cluster
    BY <1>4, <2>1, <2>2 DEF InfrastructureReady, MarkInitialized
  <2> QED BY <1>4, <2>3 DEF InfrastructureReady, MarkInitialized
<1>5. CASE CreateSecret
  BY <1>5 DEF CreateSecret, Cluster
<1>6. CASE ClusterGone
  BY <1>6 DEF ClusterGone
<1>7. ASSUME NEW m \in Machines, MachineEligible(m) PROVE TypeOK'
  BY <1>7 DEF MachineEligible, GetControlPlaneMachineToClusterReq
<1>8. ASSUME NEW m \in Machines, ServerUp(m) PROVE TypeOK'
  <2>1. cm' \in [ConfigMaps -> {"absent"} \cup Endpoints]
    BY <1>8 DEF ServerUp, Endpoints
  <2> QED BY <1>8, <2>1 DEF ServerUp
<1>9. ASSUME NEW m \in Machines, MachineLost(m) PROVE TypeOK'
  <2>1. seen' \in FaultCount
    BY <1>9, FaultType DEF MachineLost
  <2> QED BY <1>9, <2>1 DEF MachineLost
<1> QED
  BY <1>1, <1>2, <1>3, <1>4, <1>5, <1>6, <1>7, <1>8, <1>9 DEF Environment

\* Type correctness: whatever fails, and however the informers lag, every endpoint that a
\* pass, the kubeconfig or a ConfigMap holds is a known one, and the pass is at a known step.
THEOREM TypeCorrect == Spec => []TypeOK
<1>1. TypeOK /\ [Next]_vars => TypeOK'
  <2> SUFFICES ASSUME TypeOK, [Next]_vars PROVE TypeOK' OBVIOUS
  <2>1. CASE Next
    BY <2>1, PassType, EnvironmentType DEF Next
  <2>2. CASE UNCHANGED vars
    BY <2>2 DEF TypeOK, vars, passVars, worldVars
  <2> QED BY <2>1, <2>2
<1> QED
  BY InitType, <1>1, PTL DEF Spec

(***************************************************************************)
(* The published endpoint.                                                 *)
(***************************************************************************)
Unpublished == {"none", "local"}

\* A pass finds the informer caches up to date: with a lagging one both properties below
\* are false (a second pass publishes another machine over the first).
FreshCaches == "stale" \notin Faults

\* What a pass knows at each step of the endpoint that is stored.  Between the read of the
\* Cluster and its patch only Cluster API writes it, and then with the ICSCluster's endpoint;
\* a pass that goes looking for a machine therefore finds nothing published.
EndpointKnown ==
  /\ KubeconfigAgrees /\ secret # "none"
  /\ capi.infra => capi.ep # "none"
  /\ pc = "connect" => ic = ics /\ (cl.ep = capi.ep \/ (cl.ep = "none" /\ capi.ep = ics.ep))
  /\ pc \in {"endpoint", "cluster"} /\ ~ic.lb
       => /\ capi.ep \in Unpublished
          /\ capi.ep = "none" => ics.ep \in Unpublished
  /\ pc = "cluster" => ~ic.lb
  /\ pc \in {"cluster", "secret"} => ic.ep \in Machines
  /\ pc = "secret" => capi.ep = ic.ep

LEMMA InitKnown == Init => EndpointKnown
  BY DEF Init, EndpointKnown, KubeconfigAgrees, NoCluster

\* reconcileLoadBalancer leaves the search for a machine on only where neither object
\* holds a published endpoint.
LEMMA SearchUnpublished ==
  ASSUME NEW i \in ICSCluster, NEW c \in Cluster, ~LoadBalanced(i, c).lb
  PROVE  c.ep \in Unpublished /\ (c.ep = "none" => i.ep \in Unpublished)
  BY DEF LoadBalanced, Unpublished, ICSCluster, Cluster

\* With fresh caches, what a pass reads of the Cluster is what is stored.
LEMMA CacheStored ==
  ASSUME FreshCaches, UpToDate
  PROVE  cached.capi = capi /\ cached.ics = ics
  BY DEF FreshCaches, UpToDate

\* A step that leaves the endpoints and the secret alone, and does not enter one of the
\* steps about which EndpointKnown says something.
LEMMA EndpointsKept ==
  ASSUME EndpointKnown, UNCHANGED <<capi, ics, secret>>,
         \/ UNCHANGED <<pc, ic, cl>>
         \/ pc' \notin {"connect", "endpoint", "cluster", "secret"}
  PROVE  EndpointKnown'
  BY DEF EndpointKnown, KubeconfigAgrees

\* PatchCluster replaces only an endpoint that was not published.
LEMMA PatchReplaces ==
  ASSUME FreshCaches, TypeOK, EndpointKnown, PatchCluster, capi' # capi
  PROVE  /\ capi.ep \in Unpublished /\ capi'.ep = ic.ep /\ capi'.infra = capi.infra
         /\ pc' = "secret"
<1>1. pc = "cluster" /\ capi' = [capi EXCEPT !.ep = ic.ep] /\ pc' = "secret"
  BY DEF PatchCluster, GoTo, Return
<1>2. capi.ep \in Unpublished
  BY <1>1 DEF EndpointKnown
<1> QED BY <1>1, <1>2 DEF TypeOK, Cluster

\* InfrastructureReady sets only an endpoint that is missing, to that of the ICSCluster.
LEMMA ReadyReplaces ==
  ASSUME TypeOK, InfrastructureReady
  PROVE  /\ capi'.ep = (IF capi.ep = "none" THEN ics.ep ELSE capi.ep)
         /\ capi'.ep # "none"
  BY DEF InfrastructureReady, TypeOK, Cluster

LEMMA PassKnown ==
  ASSUME FreshCaches, TypeOK, EndpointKnown, Pass
  PROVE  EndpointKnown'
<1> USE DEF passVars, worldVars, GoTo, Return
<1>1. CASE SkipPass
  BY <1>1, EndpointsKept DEF SkipPass
<1>2. CASE BeginPass
  <2>1. cl' = capi /\ ic' = ics /\ pc' = "connect" /\ UNCHANGED <<capi, ics, secret>>
    BY <1>2, CacheStored DEF BeginPass
  <2> QED BY <2>1 DEF EndpointKnown, KubeconfigAgrees
<1>3. CASE ConnectFails
  BY <1>3, EndpointsKept DEF ConnectFails
<1>4. CASE ReconcileLoadBalancer
  <2>1. /\ pc = "connect" /\ pc' = "endpoint" /\ UNCHANGED <<capi, ics, secret>>
        /\ ic = ics /\ ic' = LoadBalanced(ics, cl)
        /\ cl.ep = capi.ep \/ (cl.ep = "none" /\ capi.ep = ics.ep)
    BY <1>4 DEF ReconcileLoadBalancer, EndpointKnown
  <2>2. ~ic'.lb => cl.ep \in Unpublished /\ (cl.ep = "none" => ics.ep \in Unpublished)
    BY <2>1, SearchUnpublished DEF TypeOK
  <2> QED BY <2>1, <2>2 DEF EndpointKnown, KubeconfigAgrees, Unpublished
<1>5. CASE ReconcileControlPlaneEndpoint
  <2>1. pc = "endpoint" /\ UNCHANGED <<capi, ics, secret, cl>>
    BY <1>5 DEF ReconcileControlPlaneEndpoint
  <2>2. CASE pc' \in {"trigger", "finish"}
    BY <2>1, <2>2, EndpointsKept
  <2>3. CASE pc' \notin {"trigger", "finish"}
    <3>1. PICK m \in eligible : ~ic.lb /\ pc' = "cluster" /\ ic' = [ic EXCEPT !.ep = m]
      BY <1>5, <2>3 DEF ReconcileControlPlaneEndpoint
    <3>2. ic'.ep \in Machines /\ ic'.lb = ic.lb
      BY <3>1 DEF TypeOK, ICSCluster
    <3> QED BY <2>1, <3>1, <3>2 DEF EndpointKnown, KubeconfigAgrees
  <2> QED BY <2>2, <2>3
<1>6. CASE PatchCluster
  <2>1. pc = "cluster" /\ UNCHANGED <<ics, secret, cl, ic>> /\ ic.ep \in Machines
    BY <1>6 DEF PatchCluster, EndpointKnown
  <2>2. CASE capi' = capi
    <3>1. pc' \notin {"connect", "endpoint", "cluster"} /\ (pc' = "secret" => capi.ep = ic.ep)
      <4>1. pc' = "secret" => capi' = [capi EXCEPT !.ep = ic.ep]
        BY <1>6 DEF PatchCluster
      <4>2. pc' = "secret" => capi'.ep = ic.ep
        BY <4>1 DEF TypeOK, Cluster
      <4> QED BY <1>6, <2>2, <4>2 DEF PatchCluster
    <3> QED BY <2>1, <2>2, <3>1 DEF EndpointKnown, KubeconfigAgrees
  <2>3. CASE capi' # capi
    <3>1. capi.ep \in Unpublished /\ capi'.ep = ic.ep /\ pc' = "secret"
      BY <1>6, <2>3, PatchReplaces
    <3>2. secret \in {"absent", "local"}
      BY <3>1 DEF EndpointKnown, KubeconfigAgrees, Unpublished
    <3>3. ic.ep # "none"
      BY <2>1, MachinesAssumption
    <3> QED BY <2>1, <3>1, <3>2, <3>3 DEF EndpointKnown, KubeconfigAgrees
  <2> QED BY <2>2, <2>3
<1>7. CASE UpdateSecret
  <2>1. /\ UNCHANGED <<capi, ics, cl, ic>> /\ pc' \in {"trigger", "finish"}
        /\ secret' \in {secret, capi.ep} /\ capi.ep # "none"
    BY <1>7, MachinesAssumption DEF UpdateSecret, EndpointKnown
  <2> QED BY <2>1 DEF EndpointKnown, KubeconfigAgrees
<1>8. CASE StartPoller \/ CheckOnline \/ SyncClusterInfo \/ SyncConfigMap
  <2>1. UNCHANGED <<capi, ics, secret>> /\ pc' \notin {"connect", "endpoint", "cluster", "secret"}
    BY <1>8 DEF StartPoller, CheckOnline, SyncClusterInfo, SyncConfigMap
  <2> QED BY <2>1, EndpointsKept
<1>9. CASE Finish
  <2>1. UNCHANGED <<capi, secret>> /\ pc' = "idle"
    BY <1>9 DEF Finish
  <2> QED BY <2>1 DEF EndpointKnown, KubeconfigAgrees
<1> QED
  BY <1>1, <1>2, <1>3, <1>4, <1>5, <1>6, <1>7, <1>8, <1>9 DEF Pass

LEMMA EnvironmentKnown ==
  ASSUME TypeOK, EndpointKnown, Environment
  PROVE  EndpointKnown'
<1> USE DEF passVars, worldVars
<1>1. CASE PollerSeesServer \/ PollerEnds \/ WatchEvent \/ Resync \/ ClusterGone
  BY <1>1, EndpointsKept DEF PollerSeesServer, PollerEnds, WatchEvent, Resync, ClusterGone
<1>2. CASE Restart
  BY <1>2, EndpointsKept DEF Restart
<1>3. CASE InfrastructureReady
  <2>1. UNCHANGED <<ics, secret, pc, cl, ic>>
    BY <1>3 DEF InfrastructureReady
  <2>2. /\ capi'.ep = (IF capi.ep = "none" THEN ics.ep ELSE capi.ep)
        /\ capi'.ep # "none"
    BY <1>3, ReadyReplaces
  <2>3. KubeconfigAgrees'
    BY <2>1, <2>2 DEF EndpointKnown, KubeconfigAgrees
  <2>4. pc = "secret" => capi.ep # "none"
    BY MachinesAssumption DEF EndpointKnown
  <2> QED BY <2>1, <2>2, <2>3, <2>4 DEF EndpointKnown, Unpublished
<1>4. CASE CreateSecret
  <2>1. secret' = capi.ep /\ capi.ep # "none" /\ UNCHANGED <<capi, ics, pc, cl, ic>>
    BY <1>4 DEF CreateSecret, EndpointKnown
  <2> QED BY <2>1 DEF EndpointKnown, KubeconfigAgrees
<1>5. CASE MarkInitialized
  <2>1. /\ UNCHANGED <<ics, secret, pc, cl, ic>>
        /\ capi'.ep = capi.ep /\ capi'.infra = capi.infra
    BY <1>5 DEF MarkInitialized, TypeOK, Cluster
  <2> QED BY <2>1 DEF EndpointKnown, KubeconfigAgrees
<1>6. ASSUME NEW m \in Machines, MachineEligible(m) \/ ServerUp(m) \/ MachineLost(m)
      PROVE  EndpointKnown'
  BY <1>6, EndpointsKept DEF MachineEligible, ServerUp, MachineLost
<1> QED
  BY <1>1, <1>2, <1>3, <1>4, <1>5, <1>6 DEF Environment

LEMMA AlwaysKnown == FreshCaches => (Spec => []EndpointKnown)
<1> SUFFICES ASSUME FreshCaches PROVE Spec => []EndpointKnown OBVIOUS
<1>1. TypeOK /\ EndpointKnown /\ [Next]_vars => EndpointKnown'
  <2> SUFFICES ASSUME TypeOK, EndpointKnown, [Next]_vars PROVE EndpointKnown' OBVIOUS
  <2>1. CASE Next
    BY <2>1, PassKnown, EnvironmentKnown DEF Next
  <2>2. CASE UNCHANGED vars
    BY <2>2, EndpointsKept DEF vars, passVars
  <2> QED BY <2>1, <2>2
<1> QED
  BY InitKnown, TypeCorrect, <1>1, PTL DEF Spec

\* With fresh caches the kubeconfig secret never names another host than the Cluster, for
\* any machines and any number of the other faults, a restart between the two writes
\* included: the Cluster is patched only while the secret still holds the placeholder.
THEOREM KubeconfigFollowsCluster == FreshCaches => (Spec => []KubeconfigAgrees)
<1> SUFFICES ASSUME FreshCaches PROVE Spec => []KubeconfigAgrees OBVIOUS
<1>1. EndpointKnown => KubeconfigAgrees
  BY DEF EndpointKnown
<1> QED
  BY AlwaysKnown, <1>1, PTL

\* With fresh caches no step replaces a published endpoint of the Cluster: only PatchCluster,
\* InfrastructureReady and MarkInitialized write the Cluster, and the first two replace an
\* endpoint that is missing or the placeholder.
THEOREM PublishedOnce == FreshCaches => (Spec => EndpointStable)
<1> SUFFICES ASSUME FreshCaches PROVE Spec => EndpointStable OBVIOUS
<1> DEFINE Keeps == capi.ep \notin {"none", "local"} => capi'.ep = capi.ep
<1>1. TypeOK /\ EndpointKnown /\ [Next]_vars => [Keeps]_vars
  <2> SUFFICES ASSUME TypeOK, EndpointKnown, [Next]_vars PROVE Keeps OBVIOUS
  <2> USE DEF passVars, worldVars
  <2>1. CASE PatchCluster
    BY <2>1, PatchReplaces DEF Unpublished
  <2>2. CASE InfrastructureReady
    BY <2>2, ReadyReplaces
  <2>3. CASE MarkInitialized
    BY <2>3 DEF MarkInitialized, TypeOK, Cluster
  <2>4. ASSUME NEW m \in Machines, MachineEligible(m) \/ ServerUp(m) \/ MachineLost(m)
        PROVE  Keeps
    BY <2>4 DEF MachineEligible, ServerUp, MachineLost
  <2>5. CASE Pass /\ ~PatchCluster
    BY <2>5 DEF Pass, SkipPass, BeginPass, ConnectFails, ReconcileLoadBalancer,
         ReconcileControlPlaneEndpoint, UpdateSecret, StartPoller, CheckOnline,
         SyncClusterInfo, SyncConfigMap, Finish
  <2>6. CASE \/ PollerSeesServer \/ PollerEnds \/ WatchEvent \/ Resync \/ Restart
             \/ CreateSecret \/ ClusterGone
    BY <2>6 DEF PollerSeesServer, PollerEnds, WatchEvent, Resync, Restart, CreateSecret, ClusterGone
  <2>7. CASE UNCHANGED vars
    BY <2>7 DEF vars
  <2> QED BY <2>1, <2>2, <2>3, <2>4, <2>5, <2>6, <2>7 DEF Next, Environment
<1> QED
  BY AlwaysKnown, TypeCorrect, <1>1, PTL DEF Spec, EndpointStable
=============================================================================
