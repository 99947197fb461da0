------------------------ MODULE ICSClusterController ------------------------
(***************************************************************************)
(* reconcileNormal of controllers/icscluster_controller.go for one         *)
(* ICSCluster: how the control plane endpoint gets from the first control  *)
(* plane machine into the ICSCluster, the CAPI Cluster, the kubeconfig     *)
(* secret and the workload cluster's own ConfigMaps, and the goroutine     *)
(* that wakes the controller when the API server comes online.  Finalizer  *)
(* and deletion are in FinalizerChain.                                     *)
(*                                                                         *)
(* An endpoint is "none" (zero), "local" (127.0.0.1:6443, the placeholder  *)
(* of reconcileLoadBalancer), "lb" (given by the user) or a machine's.     *)
(***************************************************************************)
EXTENDS Naturals

CONSTANTS
  Machines,   \* control plane machines; also their addresses
  Faults,     \* the kinds of fault that occur
  MaxFaults   \* bound: faults injected in a behaviour

FaultKinds ==
  { "owner",   \* the Cluster cannot be read, is not set yet, or is paused
    "conn",    \* owner references, identity secret or iCenter session fail
    "list",    \* ICSMachines or their Machines cannot be read
    "get",     \* the second Get of the Cluster fails
    "cpatch",  \* the Cluster cannot be patched
    "secret",  \* the kubeconfig secret is missing or cannot be read or updated
    "net",     \* the workload API server does not answer in time
    "cm",      \* a ConfigMap of the workload cluster cannot be read or updated
    "patch",   \* the deferred patch of the ICSCluster fails, whole or in part
    "crash",   \* the manager restarts
    "stale",   \* a pass may read an informer cache that lags behind
    "loss" }   \* a control plane machine goes away

\* The faults that no retry mends: the endpoint may stay out of a place it belongs in.
LastingKinds == {"secret", "cm", "crash", "loss"}

\* The faults after which a pass may end without an error and without a requeue.
SilentKinds == {"owner", "net", "cm"}

ASSUME MachinesAssumption == Machines \cap {"none", "local", "lb", "absent"} = {}
ASSUME FaultsAssumption   == Faults \subseteq FaultKinds /\ MaxFaults \in Nat

VARIABLES
  capi,      \* the CAPI Cluster: endpoint, infrastructure ready, initialized
  ics,       \* the ICSCluster: endpoint, EnabledLoadBalancer, Ready
  cached,    \* both as the informer caches hold them
  secret,    \* server of the kubeconfig secret
  eligible,  \* control plane machines with bootstrap data and an address
  up,        \* control plane machines whose API server runs
  cm,        \* server in the ConfigMaps of the workload cluster
  gone,      \* Cluster and ICSCluster have been deleted
  queued,    \* the key is in the work queue, or will be after RequeueAfter
  pc,        \* where the reconcile pass stands
  cl,        \* ctx.Cluster
  before,    \* the ICSCluster as the pass read it
  ic,        \* ctx.ICSCluster
  ret,       \* result of the pass
  key,       \* the Cluster's UID is in apiServerTriggers
  poller,    \* the goroutine behind that key, and the Cluster it captured
  seen       \* the faults so far: how many, which lasting ones, and whether one was silent

passVars == <<pc, cl, before, ic, ret>>
worldVars == <<eligible, up, gone>>
vars == <<capi, ics, cached, secret, cm, worldVars, queued, passVars, key, poller, seen>>

Endpoints  == {"none", "local", "lb"} \cup Machines
Cluster    == [ep: Endpoints, infra: BOOLEAN, init: BOOLEAN]
ICSCluster == [ep: Endpoints, lb: BOOLEAN, ready: BOOLEAN]
FaultCount == [n: 0..MaxFaults, lasting: SUBSET LastingKinds, silent: BOOLEAN]
ConfigMaps == {"cluster-info", "kubeadm-config", "kube-proxy"}
PCs == {"idle", "connect", "endpoint", "cluster", "secret", "trigger", "online",
        "finish"} \cup ConfigMaps

\* Every variable stays in its type.
TypeOK ==
  /\ capi \in Cluster /\ ics \in ICSCluster /\ cached \in [capi: Cluster, ics: ICSCluster]
  /\ secret \in {"absent"} \cup Endpoints
  /\ eligible \subseteq Machines /\ up \subseteq Machines /\ gone \in BOOLEAN
  /\ cm \in [ConfigMaps -> {"absent"} \cup Endpoints]
  /\ queued \in BOOLEAN
  /\ pc \in PCs /\ cl \in Cluster /\ before \in ICSCluster /\ ic \in ICSCluster
  /\ ret \in {"nil", "err", "after"}
  /\ key \in BOOLEAN
  /\ poller \in [st: {"none", "online", "init"}, init: BOOLEAN]
  /\ seen \in FaultCount

Fault(k) ==
  /\ k \in Faults /\ seen.n < MaxFaults
  /\ seen' = [n       |-> seen.n + 1,
              lasting |-> seen.lasting \cup ({k} \cap LastingKinds),
              silent  |-> seen.silent \/ k \in SilentKinds]
NoFault  == UNCHANGED seen
Return(r) == pc' = "finish" /\ ret' = r
GoTo(p)   == pc' = p /\ UNCHANGED ret

NoCluster    == [ep |-> "none", infra |-> FALSE, init |-> FALSE]
NoICSCluster == [ep |-> "none", lb |-> FALSE, ready |-> FALSE]
NoPoller     == [st |-> "none", init |-> FALSE]

(***************************************************************************)
(* The reconcile pass.                                                     *)
(***************************************************************************)
UpToDate == "stale" \in Faults \/ cached = [capi |-> capi, ics |-> ics]

\* The ICSCluster is gone; or there is no owner yet or it is paused and nothing is
\* requeued; or reading it fails, which requeues.
SkipPass ==
  /\ pc = "idle" /\ queued
  /\ \/ gone /\ NoFault /\ queued' = FALSE
     \/ ~gone /\ Fault("owner") /\ queued' \in BOOLEAN
  /\ UNCHANGED <<capi, ics, cached, secret, cm, worldVars, passVars, key, poller>>

BeginPass ==
  /\ pc = "idle" /\ queued /\ ~gone /\ UpToDate
  /\ queued' = FALSE
  /\ GoTo("connect")
  /\ cl' = cached.capi /\ before' = cached.ics /\ ic' = cached.ics
  /\ UNCHANGED <<capi, ics, cached, secret, cm, worldVars, key, poller, seen>>

\* setOwnerRefsOnICSMachines, reconcileIdentitySecret or
\* reconcileICenterConnectivity fails.  A version that cannot be read is only logged.
ConnectFails ==
  /\ pc = "connect" /\ Fault("conn")
  /\ Return("err")
  /\ UNCHANGED <<capi, ics, cached, secret, cm, worldVars, queued, cl, before, ic, key, poller>>

\* Mutant: a host found in the Cluster does not switch the search for one off.
KeepsSearching(i, c) ==
  LET ep == IF c.ep # "none" THEN c.ep ELSE i.ep
  IN [ep |-> IF ep = "none" THEN "local" ELSE ep,
      lb |-> IF ep = "none" THEN FALSE ELSE i.lb, ready |-> TRUE]

\* Mutant: the placeholder host is forgotten and only the port is defaulted.
PortWithoutHost(i, c) ==
  LET ep == IF c.ep # "none" THEN c.ep ELSE i.ep
  IN [ep |-> IF ep = "none" THEN "port" ELSE ep,
      lb |-> IF ep = "none" THEN FALSE ELSE i.lb \/ ep # "local", ready |-> TRUE]

\* The Cluster's endpoint wins; without any, the placeholder; any host but the
\* placeholder counts as a load balancer from now on.
LoadBalanced(i, c) ==
  LET ep == IF c.ep # "none" THEN c.ep ELSE i.ep
  IN [ep |-> IF ep = "none" THEN "local" ELSE ep,
      lb |-> IF ep = "none" THEN FALSE ELSE i.lb \/ ep # "local",
      ready |-> TRUE]

ReconcileLoadBalancer ==
  /\ pc = "connect"
  /\ GoTo("endpoint")
  /\ ic' = LoadBalanced(ic, cl)
  /\ UNCHANGED <<capi, ics, cached, secret, cm, worldVars, queued, cl, before, key, poller, seen>>

\* With a load balancer the endpoint stands.  Otherwise it is the address of the
\* first eligible machine listed; without one the pass asks for another in 10 s.
ReconcileControlPlaneEndpoint ==
  /\ pc = "endpoint"
  /\ \/ ic.lb /\ GoTo("trigger") /\ UNCHANGED ic /\ NoFault
     \/ ~ic.lb /\ eligible = {} /\ Return("after") /\ UNCHANGED ic /\ NoFault
     \/ ~ic.lb /\ NoFault /\ GoTo("cluster")
        /\ \E m \in eligible : ic' = [ic EXCEPT !.ep = m]
     \/ ~ic.lb /\ Fault("list") /\ Return("err") /\ UNCHANGED ic
  /\ UNCHANGED <<capi, ics, cached, secret, cm, worldVars, queued, cl, before, key, poller>>

\* Mutant: the error of the Cluster patch is dropped.
PatchClusterUnchecked ==
  /\ pc = "cluster"
  /\ \/ cached.capi.ep = ic.ep /\ GoTo("trigger") /\ UNCHANGED capi /\ NoFault
     \/ cached.capi.ep # ic.ep /\ GoTo("secret") /\ capi' = [capi EXCEPT !.ep = ic.ep] /\ NoFault
     \/ Fault("get") /\ Return("after") /\ UNCHANGED capi
     \/ cached.capi.ep # ic.ep /\ Fault("cpatch") /\ GoTo("secret") /\ UNCHANGED capi
  /\ UNCHANGED <<ics, cached, secret, cm, worldVars, queued, cl, before, ic, key, poller>>

\* The Cluster is read again and patched when its endpoint differs.
PatchCluster ==
  /\ pc = "cluster" /\ UpToDate
  /\ \/ cached.capi.ep = ic.ep /\ GoTo("trigger") /\ UNCHANGED capi /\ NoFault
     \/ cached.capi.ep # ic.ep /\ GoTo("secret") /\ capi' = [capi EXCEPT !.ep = ic.ep] /\ NoFault
     \/ Fault("get") /\ Return("after") /\ UNCHANGED capi
     \/ cached.capi.ep # ic.ep /\ Fault("cpatch") /\ Return("err") /\ UNCHANGED capi
  /\ UNCHANGED <<ics, cached, secret, cm, worldVars, queued, cl, before, ic, key, poller>>

\* Replaces the placeholder in the kubeconfig secret; a secret without it stays.
UpdateSecret ==
  /\ pc = "secret"
  /\ \/ secret' = (IF secret = "local" THEN ic.ep ELSE secret) /\ GoTo("trigger") /\ NoFault
     \/ Fault("secret") /\ Return("err") /\ UNCHANGED secret
  /\ UNCHANGED <<capi, ics, cached, cm, worldVars, queued, cl, before, ic, key, poller>>

\* Mutant: the key is taken and the goroutine is not started.
KeyWithoutPoller ==
  /\ pc = "trigger"
  /\ GoTo("online")
  /\ key' = (key \/ ~cl.init)
  /\ UNCHANGED <<capi, ics, cached, secret, cm, worldVars, queued, cl, before, ic, poller, seen>>

\* reconcileICSClusterWhenAPIServerIsOnline: one goroutine per Cluster UID.
StartPoller ==
  /\ pc = "trigger"
  /\ GoTo("online")
  /\ IF cl.init \/ key
       THEN UNCHANGED <<key, poller>>
       ELSE key' = TRUE /\ poller' = [st |-> "online", init |-> cl.init]
  /\ UNCHANGED <<capi, ics, cached, secret, cm, worldVars, queued, cl, before, ic, seen>>

\* The API server answers on the server the kubeconfig secret names.
Online == ~gone /\ (secret \in up \/ (secret = "lb" /\ up # {}))

CheckOnline ==
  /\ pc = "online"
  /\ \/ Online /\ GoTo("cluster-info") /\ NoFault
     \/ ~Online /\ Return("nil") /\ NoFault
     \/ Online /\ Fault("net") /\ Return("nil")
  /\ UNCHANGED <<capi, ics, cached, secret, cm, worldVars, queued, cl, before, ic, key, poller>>

\* Mutant: the replaced text is not written back to kube-proxy.
NotAllRewritten(c) == [cm EXCEPT ![c] = IF @ = "local" /\ c # "kube-proxy" THEN ic.ep ELSE @]

\* syncCustomKubeConfig: three ConfigMaps in turn, each read and, where it names
\* the placeholder, rewritten.  Only cluster-info decides whether to go on: the
\* others are not looked at once it has been rewritten.
Rewritten(c) == [cm EXCEPT ![c] = IF @ = "local" THEN ic.ep ELSE @]

SyncClusterInfo ==
  /\ pc = "cluster-info"
  /\ \/ Online /\ cm[pc] = "local" /\ cm' = Rewritten(pc) /\ GoTo("kubeadm-config") /\ NoFault
     \/ Online /\ cm[pc] = "local" /\ UNCHANGED cm /\ GoTo("kubeadm-config") /\ Fault("cm")
     \/ Online /\ cm[pc] # "local" /\ UNCHANGED cm /\ Return("nil") /\ NoFault
     \/ ~Online /\ UNCHANGED cm /\ Return("nil") /\ NoFault
     \/ Online /\ UNCHANGED cm /\ Return("nil") /\ Fault("cm")
  /\ UNCHANGED <<capi, ics, cached, secret, worldVars, queued, cl, before, ic, key, poller>>

SyncConfigMap ==
  /\ pc \in {"kubeadm-config", "kube-proxy"}
  /\ IF pc = "kubeadm-config" THEN GoTo("kube-proxy") ELSE Return("nil")
  /\ \/ Online /\ cm' = Rewritten(pc) /\ NoFault
     \/ ~Online /\ UNCHANGED cm /\ NoFault
     \/ Online /\ UNCHANGED cm /\ Fault("cm")
  /\ UNCHANGED <<capi, ics, cached, secret, worldVars, queued, cl, before, ic, key, poller>>

\* The deferred merge patch, spec then status, and the requeue that the result asks for.
Finish ==
  /\ pc = "finish" /\ pc' = "idle" /\ ret' = "nil"
  /\ \E specOK, statusOK \in BOOLEAN :
       LET bad == ~specOK \/ ~statusOK IN
       /\ IF bad THEN Fault("patch") ELSE NoFault
       /\ ics' = [ep    |-> IF specOK /\ ic.ep # before.ep THEN ic.ep ELSE ics.ep,
                  lb    |-> IF specOK /\ ic.lb # before.lb THEN ic.lb ELSE ics.lb,
                  ready |-> IF statusOK THEN ics.ready \/ ic.ready ELSE ics.ready]
       /\ queued' = (queued \/ ret # "nil" \/ bad)
  /\ cl' = NoCluster /\ before' = NoICSCluster /\ ic' = NoICSCluster
  /\ UNCHANGED <<capi, cached, secret, cm, worldVars, key, poller>>

Pass ==
  \/ SkipPass \/ BeginPass \/ ConnectFails \/ ReconcileLoadBalancer
  \/ ReconcileControlPlaneEndpoint \/ PatchCluster \/ UpdateSecret \/ StartPoller
  \/ CheckOnline \/ SyncClusterInfo \/ SyncConfigMap \/ Finish

(***************************************************************************)
(* The goroutine, the informers and the manager.                           *)
(***************************************************************************)
\* isAPIServerOnline holds: the GenericEvent enqueues the ICSCluster.
PollerSeesServer ==
  /\ poller.st = "online" /\ Online
  /\ poller' = [poller EXCEPT !.st = "init"]
  /\ queued' = TRUE
  /\ UNCHANGED <<capi, ics, cached, secret, cm, worldVars, passVars, key, seen>>

\* The Cluster is fetched, but only to see whether it still exists: the condition is
\* that of the Cluster which the goroutine captured.
IsControlPlaneInitialized == gone \/ poller.init

PollerEnds ==
  /\ poller.st = "init" /\ IsControlPlaneInitialized
  /\ poller' = NoPoller /\ key' = FALSE
  /\ UNCHANGED <<capi, ics, cached, secret, cm, worldVars, queued, passVars, seen>>

\* Both watches enqueue the ICSCluster for every change.
WatchEvent ==
  /\ cached # [capi |-> capi, ics |-> ics]
  /\ cached' = [capi |-> capi, ics |-> ics] /\ queued' = TRUE
  /\ UNCHANGED <<capi, ics, secret, cm, worldVars, passVars, key, poller, seen>>

\* SyncPeriod: every cached resource is enqueued again.
Resync ==
  /\ ~queued /\ ~gone
  /\ queued' = TRUE
  /\ UNCHANGED <<capi, ics, cached, secret, cm, worldVars, passVars, key, poller, seen>>

Restart ==
  /\ Fault("crash")
  /\ pc' = "idle" /\ ret' = "nil"
  /\ cl' = NoCluster /\ before' = NoICSCluster /\ ic' = NoICSCluster
  /\ key' = FALSE /\ poller' = NoPoller
  /\ cached' = [capi |-> capi, ics |-> ics] /\ queued' = TRUE
  /\ UNCHANGED <<capi, ics, secret, cm, worldVars>>

(***************************************************************************)
(* Cluster API and the machines.                                           *)
(***************************************************************************)
\* The Cluster controller takes over a ready ICSCluster and its endpoint.
InfrastructureReady ==
  /\ ics.ready /\ ~capi.infra /\ ~gone
  /\ capi.ep # "none" \/ ics.ep # "none"
  /\ capi' = [capi EXCEPT !.infra = TRUE, !.ep = IF @ = "none" THEN ics.ep ELSE @]
  /\ UNCHANGED <<ics, cached, secret, cm, worldVars, queued, passVars, key, poller, seen>>

\* The control plane controller writes the kubeconfig before the first machine ...
CreateSecret ==
  /\ capi.infra /\ secret = "absent" /\ ~gone
  /\ secret' = capi.ep
  /\ UNCHANGED <<capi, ics, cached, cm, worldVars, queued, passVars, key, poller, seen>>

\* The handler of ICSMachine events enqueues the ICSCluster only while there is no
\* endpoint at all, the placeholder included.
GetControlPlaneMachineToClusterReq ==
  ~cached.capi.init /\ cached.capi.ep = "none" /\ cached.ics.ep = "none"

\* ... whose ICSMachine gets bootstrap data and, in time, an address.  Further
\* machines join once the first has been initialized.
MachineEligible(m) ==
  /\ secret # "absent" /\ m \notin eligible /\ ~gone
  /\ eligible = {} \/ capi.init
  /\ eligible' = eligible \cup {m}
  /\ queued' = (queued \/ GetControlPlaneMachineToClusterReq)
  /\ UNCHANGED <<capi, ics, cached, secret, cm, up, gone, passVars, key, poller, seen>>

\* kubeadm starts the API server; the first one stores the ConfigMaps with the
\* endpoint that its bootstrap data was rendered with.
ServerUp(m) ==
  /\ m \in eligible \ up
  /\ up' = up \cup {m}
  /\ cm' = [c \in ConfigMaps |->
              IF cm[c] = "absent" THEN IF capi.ep = "lb" THEN "lb" ELSE "local" ELSE cm[c]]
  /\ UNCHANGED <<capi, ics, cached, secret, eligible, gone, queued, passVars, key, poller, seen>>

MachineLost(m) ==
  /\ m \in eligible /\ Fault("loss")
  /\ eligible' = eligible \ {m} /\ up' = up \ {m}
  /\ UNCHANGED <<capi, ics, cached, secret, cm, gone, queued, passVars, key, poller>>

\* The control plane controller reaches the API server through the same secret.
MarkInitialized ==
  /\ Online /\ ~capi.init
  /\ capi' = [capi EXCEPT !.init = TRUE]
  /\ UNCHANGED <<ics, cached, secret, cm, worldVars, queued, passVars, key, poller, seen>>

\* Deletion has run: the pass that removed the finalizer was the last one.
ClusterGone ==
  /\ pc = "idle" /\ ~gone /\ capi.infra
  /\ gone' = TRUE
  /\ UNCHANGED <<capi, ics, cached, secret, cm, eligible, up, queued, passVars, key, poller, seen>>

Environment ==
  \/ PollerSeesServer \/ PollerEnds \/ WatchEvent \/ Resync \/ Restart
  \/ InfrastructureReady \/ CreateSecret \/ MarkInitialized \/ ClusterGone
  \/ \E m \in Machines : MachineEligible(m) \/ ServerUp(m) \/ MachineLost(m)

\* The user creates Cluster and ICSCluster, either of them with or without the
\* endpoint of a load balancer.
Init ==
  /\ \E c, i \in {"none", "lb"}, b \in BOOLEAN :
       capi = [NoCluster EXCEPT !.ep = c] /\ ics = [NoICSCluster EXCEPT !.ep = i, !.lb = b]
  /\ cached = [capi |-> capi, ics |-> ics]
  /\ secret = "absent" /\ cm = [c \in ConfigMaps |-> "absent"]
  /\ eligible = {} /\ up = {} /\ gone = FALSE
  /\ queued = TRUE
  /\ pc = "idle" /\ cl = NoCluster /\ before = NoICSCluster /\ ic = NoICSCluster /\ ret = "nil"
  /\ key = FALSE /\ poller = NoPoller
  /\ seen = [n |-> 0, lasting |-> {}, silent |-> FALSE]

Next == Pass \/ Environment

Spec == Init /\ [][Next]_vars

\* The work queue, the goroutine and the watches make progress, Cluster API reacts to a
\* ready ICSCluster, and a machine once created starts its API server.  Nothing is assumed
\* of the Initialized condition, whose change would wake the controller without the
\* goroutine, nor of the resync, except after a pass that swallowed its failure.
Fairness ==
  /\ WF_vars(Pass) /\ WF_vars(PollerSeesServer) /\ WF_vars(PollerEnds) /\ WF_vars(WatchEvent)
  /\ WF_vars(seen.silent /\ Resync)
  /\ WF_vars(InfrastructureReady) /\ WF_vars(CreateSecret)
  /\ \A m \in Machines : WF_vars(MachineEligible(m)) /\ WF_vars(ServerUp(m))

FairSpec == Spec /\ Fairness

(***************************************************************************)
(* Properties.                                                             *)
(***************************************************************************)
\* A published endpoint (one that is not the placeholder) is final: no later pass,
\* and no later machine, replaces it in the Cluster, whatever fails in between.
EndpointStable == [][capi.ep \notin {"none", "local"} => capi'.ep = capi.ep]_vars

\* The kubeconfig secret never names another host than the Cluster does.
KubeconfigAgrees == secret \in {"absent", "local"} \/ secret = capi.ep

\* "Ensure the ICSCluster is reconciled when the API server first comes online": once a
\* server runs at the Cluster's endpoint, some pass finds it online and goes on to the
\* ConfigMaps, although the pass before it found it offline and asked for no other one, and
\* nobody marks the control plane initialized.  Excepted are a secret that could not be
\* written and a restart, which may leave the placeholder in the kubeconfig for ever, and
\* the loss of the machine.
OnlineNoticed ==
  <>(capi.ep \in up \/ (capi.ep = "lb" /\ up # {}))
    => <>(pc = "cluster-info" \/ gone \/ seen.lasting \cap {"secret", "crash", "loss"} # {})

\* The workload cluster's ConfigMaps end up with the published endpoint, unless a
\* fault came in between that no retry mends.
ConfigsSynced ==
  (up # {}) ~> (gone \/ seen.lasting # {} \/ \A c \in ConfigMaps : cm[c] = capi.ep)

\* "Once the control plane has been marked as initialized it is safe to remove the
\* key from the map": it is removed.
TriggerReleased == capi.init ~> ~key
====
