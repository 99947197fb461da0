---------------------------- MODULE SessionCache ----------------------------
(***************************************************************************)
(* The session cache of pkg/session: reconcile passes of the ICSCluster    *)
(* and ICSVM controllers run concurrently, and each takes its iCenter      *)
(* session from one map that is keyed by the cloud name alone.  The map is *)
(* a sync.Map: every Load, Store and Delete is a step, and so is every     *)
(* call to iCenter in between; nothing locks the sequence.                 *)
(*                                                                         *)
(* Sessions are numbered in the order iCenter opens them; 0 is none.       *)
(***************************************************************************)
EXTENDS Naturals

CONSTANTS
  Workers,      \* reconcile workers, each with the resource it reconciles
  CloudName,    \* Spec.CloudName of that resource
  Identity,     \* server and credentials its identity secret holds for that cloud
  MaxSessions,  \* bound: sessions opened in a behaviour
  Faults,       \* the kinds of fault that occur
  MaxFaults     \* bound: faults injected in a behaviour

FaultKinds ==
  { "secret",   \* the identity secret is missing, unreadable or lacks the cloud
    "expire",   \* iCenter ends a session
    "check",    \* asking iCenter for the user session fails
    "logout",   \* Logout fails
    "connect",  \* Connect fails
    "crash" }   \* the manager restarts

ASSUME BoundsAssumption == MaxSessions \in Nat /\ MaxFaults \in Nat
ASSUME FaultsAssumption == Faults \subseteq FaultKinds

VARIABLES
  sessionCache,  \* the map, by cloud name
  active,        \* iCenter: the sessions that are active
  user,          \* iCenter: for whom each session was opened
  nsession,      \* iCenter: how many
  pc,            \* where each pass stands in GetOrCreate or Get
  op,            \* which of them it is in; "nourl": GetOrCreate without a server
  held,          \* the session the pass has loaded, opened or works with
  nfaults

icenterVars == <<active, user, nsession>>
vars == <<sessionCache, icenterVars, pc, op, held, nfaults>>

Clouds     == {CloudName[w] : w \in Workers}
Identities == {Identity[w] : w \in Workers}
Ids        == 1..MaxSessions
IdOr0      == 0..MaxSessions

\* The steps of a pass that has not got the cached session.
SlowPath == {"clear", "clearcheck", "logout", "delete", "connect", "store"}

\* Every variable stays in its type, and a session that a pass is about to ask,
\* log out, store or use is one that iCenter has opened.
TypeOK ==
  /\ sessionCache \in [Clouds -> 0..nsession]
  /\ active \subseteq 1..nsession /\ nsession \in IdOr0
  /\ user \in [Ids -> Identities \cup {"nobody"}]
  /\ pc \in [Workers -> {"idle", "load", "check", "work"} \cup SlowPath]
  /\ op \in [Workers -> {"create", "nourl", "get"}]
  /\ held \in [Workers -> 0..nsession]
  /\ \A w \in Workers : pc[w] \in {"check", "work", "clearcheck", "logout", "store"} => held[w] # 0
  /\ nfaults \in 0..MaxFaults

Fault(k) == k \in Faults /\ nfaults < MaxFaults /\ nfaults' = nfaults + 1
NoFault  == UNCHANGED nfaults

\* Mutant: one key for every cloud.
OneKey(w) == CHOOSE c \in Clouds : TRUE

\* sessionKey: the name of the cloud, whatever namespace and secret it comes from.
Key(w) == CloudName[w]

GoTo(w, p) == pc' = [pc EXCEPT ![w] = p]
Hold(w, s) == held' = [held EXCEPT ![w] = s]

\* The pass goes on with its session, or ends: with an error, or at its own end.
EndPass(w) == GoTo(w, "idle") /\ Hold(w, 0)

\* getCloudFromSecret: the secret gives the server and the credentials; or it does not
\* have the cloud, and there is no server; or it is missing, and Get takes what is
\* cached.  Any other error ends the pass before it comes to the cache.
Lookup(o) ==
  \/ o = "create" /\ NoFault
  \/ o \in {"nourl", "get"} /\ Fault("secret")

\* reconcileICenterConnectivity of either controller.
Begin(w) ==
  /\ pc[w] = "idle"
  /\ GoTo(w, "load")
  /\ \E o \in {"create", "nourl", "get"} : Lookup(o) /\ op' = [op EXCEPT ![w] = o]
  /\ UNCHANGED <<sessionCache, icenterVars, held>>

Load(w) ==
  /\ pc[w] = "load"
  /\ Hold(w, sessionCache[Key(w)])
  /\ GoTo(w, IF sessionCache[Key(w)] # 0 THEN "check"
             ELSE IF op[w] = "get" THEN "idle" ELSE "clear")
  /\ UNCHANGED <<sessionCache, icenterVars, op, nfaults>>

\* Without an active session Get fails and GetOrCreate goes on.
NotCached(w) ==
  /\ GoTo(w, IF op[w] = "get" THEN "idle" ELSE "clear")
  /\ Hold(w, 0)

\* Mutant: an active cached session is not returned.
NeverReused(w) ==
  /\ pc[w] = "check"
  /\ NotCached(w) /\ NoFault
  /\ UNCHANGED <<sessionCache, icenterVars, op>>

\* Mutant: the cached session is returned without asking iCenter.
CheckSkipped(w) ==
  /\ pc[w] = "check"
  /\ GoTo(w, "work") /\ UNCHANGED held /\ NoFault
  /\ UNCHANGED <<sessionCache, icenterVars, op>>

\* SessionIsActive: a failed call counts as an expired session.
Check(w) ==
  /\ pc[w] = "check"
  /\ \/ held[w] \in active /\ GoTo(w, "work") /\ UNCHANGED held /\ NoFault
     \/ held[w] \notin active /\ NotCached(w) /\ NoFault
     \/ NotCached(w) /\ Fault("check")
  /\ UNCHANGED <<sessionCache, icenterVars, op>>

\* clearCache loads the cached session once more; it may be another pass's by now.
ClearLoad(w) ==
  /\ pc[w] = "clear"
  /\ Hold(w, sessionCache[Key(w)])
  /\ GoTo(w, IF sessionCache[Key(w)] # 0 THEN "clearcheck" ELSE "delete")
  /\ UNCHANGED <<sessionCache, icenterVars, op, nfaults>>

ClearCheck(w) ==
  /\ pc[w] = "clearcheck"
  /\ \/ held[w] \in active /\ GoTo(w, "logout") /\ NoFault
     \/ held[w] \notin active /\ GoTo(w, "delete") /\ NoFault
     \/ GoTo(w, "delete") /\ Fault("check")
  /\ UNCHANGED <<sessionCache, icenterVars, op, held>>

\* Whoever works with the session loses it.
Logout(w) ==
  /\ pc[w] = "logout"
  /\ GoTo(w, "delete")
  /\ \/ active' = active \ {held[w]} /\ NoFault
     \/ UNCHANGED active /\ Fault("logout")
  /\ UNCHANGED <<sessionCache, user, nsession, op, held>>

\* The key is deleted whatever it holds by now; then the URL is parsed.
Delete(w) ==
  /\ pc[w] = "delete"
  /\ sessionCache' = [sessionCache EXCEPT ![Key(w)] = 0]
  /\ GoTo(w, IF op[w] = "nourl" THEN "idle" ELSE "connect")
  /\ Hold(w, 0)
  /\ UNCHANGED <<icenterVars, op, nfaults>>

\* newClient opens a session for the identity that this pass read.
Connect(w) ==
  /\ pc[w] = "connect"
  /\ \/ /\ nsession < MaxSessions /\ NoFault
        /\ nsession' = nsession + 1
        /\ active' = active \cup {nsession + 1}
        /\ user' = [user EXCEPT ![nsession + 1] = Identity[w]]
        /\ Hold(w, nsession + 1) /\ GoTo(w, "store")
     \/ Fault("connect") /\ EndPass(w) /\ UNCHANGED icenterVars
  /\ UNCHANGED <<sessionCache, op>>

\* Mutant: the new session gets lost on its way into the map and to the caller.
StoreLost(w) ==
  /\ pc[w] = "store"
  /\ GoTo(w, "work") /\ Hold(w, 0)
  /\ UNCHANGED <<sessionCache, icenterVars, op, nfaults>>

\* The map takes the new session, over one that another pass may have stored.
Store(w) ==
  /\ pc[w] = "store"
  /\ sessionCache' = [sessionCache EXCEPT ![Key(w)] = held[w]]
  /\ GoTo(w, "work")
  /\ UNCHANGED <<icenterVars, op, held, nfaults>>

\* The rest of the pass, which uses the session, ends.
Finish(w) ==
  /\ pc[w] = "work"
  /\ EndPass(w)
  /\ UNCHANGED <<sessionCache, icenterVars, op, nfaults>>

Expire(s) ==
  /\ s \in active /\ Fault("expire")
  /\ active' = active \ {s}
  /\ UNCHANGED <<sessionCache, user, nsession, pc, op, held>>

\* The map is empty again; iCenter keeps the sessions.
Restart ==
  /\ Fault("crash")
  /\ sessionCache' = [c \in Clouds |-> 0]
  /\ pc' = [w \in Workers |-> "idle"] /\ held' = [w \in Workers |-> 0]
  /\ UNCHANGED <<icenterVars, op>>

Pass(w) ==
  \/ Begin(w) \/ Load(w) \/ Check(w) \/ ClearLoad(w) \/ ClearCheck(w) \/ Logout(w)
  \/ Delete(w) \/ Connect(w) \/ Store(w) \/ Finish(w)

Init ==
  /\ sessionCache = [c \in Clouds |-> 0]
  /\ active = {} /\ user = [s \in Ids |-> "nobody"]
  /\ nsession = 0
  /\ pc = [w \in Workers |-> "idle"] /\ held = [w \in Workers |-> 0]
  /\ op = [w \in Workers |-> "create"]
  /\ nfaults = 0

Next == (\E w \in Workers : Pass(w)) \/ (\E s \in Ids : Expire(s)) \/ Restart

Spec == Init /\ [][Next]_vars

\* Every resource is reconciled again and again (SyncPeriod), and no pass stops on its way.
FairSpec == Spec /\ \A w \in Workers : WF_vars(Pass(w))

(***************************************************************************)
(* Properties.                                                             *)
(***************************************************************************)
\* The identities in the secrets of the resources that name w's cloud.  Nothing makes them
\* one: the session a pass gets is of whichever resource came first, not of the identity
\* that its own IdentityRef names.
CloudIdentities(w) == {Identity[v] : v \in {u \in Workers : CloudName[u] = CloudName[w]}}

\* Whatever passes clear and refill under each other in the one map of all clusters, a pass
\* works with a session that was opened for a resource of its own cloud name.
SharedWithinCloud == \A w \in Workers : pc[w] = "work" => user[held[w]] \in CloudIdentities(w)

\* The cloud has an active session in the map, and no pass is on its way to replace it
\* or about to learn that one it loaded earlier has expired.
Settled(c) ==
  /\ sessionCache[c] \in active
  /\ \A w \in Workers :
       Key(w) = c => pc[w] \notin SlowPath /\ (pc[w] = "check" => held[w] \in active)

\* "GetOrCreate gets a cached session": once passes have settled on a session none of
\* them logs it out, drops it or opens another, however they interleave, until a
\* fault comes.
SettledStays ==
  [][\A c \in Clouds : Settled(c) => Settled(c)' \/ nfaults' > nfaults]_vars

\* Every resource comes to work with an active session time and again, although sessions
\* expire and concurrent passes of its cloud log each other out: a session that has become
\* useless does not stay in the map.  (Not once the bound on sessions is reached.)
PassesServed ==
  \A w \in Workers :
    []<>((pc[w] = "work" /\ held[w] \in active) \/ nsession = MaxSessions)
=============================================================================
