--------------------------- MODULE SessionProofs ---------------------------
(***************************************************************************)
(* Theorems about SessionCache, for any workers, clouds and faults.        *)
(***************************************************************************)
EXTENDS SessionCache, TLAPS

\* The initial state is well typed.
LEMMA InitTyped == Init => TypeOK
BY BoundsAssumption DEF Init, TypeOK, Clouds, Ids, IdOr0, SlowPath

\* Every step of a pass, of iCenter and of the manager keeps the types.
LEMMA StepTyped == TypeOK /\ [Next]_vars => TypeOK'
<1> SUFFICES ASSUME TypeOK, [Next]_vars PROVE TypeOK'
  OBVIOUS
<1> USE BoundsAssumption DEF TypeOK, Clouds, IdOr0, SlowPath, icenterVars, GoTo, Hold, NoFault, Fault
<1>1. CASE UNCHANGED vars
  BY <1>1 DEF vars
<1>2. ASSUME NEW w \in Workers, Begin(w) PROVE TypeOK'
  BY <1>2 DEF Begin, Lookup
<1>3. ASSUME NEW w \in Workers, Load(w) PROVE TypeOK'
  BY <1>3 DEF Load, Key
<1>4. ASSUME NEW w \in Workers, Check(w) PROVE TypeOK'
  BY <1>4 DEF Check, NotCached
<1>5. ASSUME NEW w \in Workers, ClearLoad(w) PROVE TypeOK'
  BY <1>5 DEF ClearLoad, Key
<1>6. ASSUME NEW w \in Workers, ClearCheck(w) PROVE TypeOK'
  BY <1>6 DEF ClearCheck
<1>7. ASSUME NEW w \in Workers, Logout(w) PROVE TypeOK'
  <2>1. active' \subseteq 1..nsession'
    BY <1>7 DEF Logout
  <2>2. nfaults' \in 0..MaxFaults
    BY <1>7 DEF Logout
  <2>3. /\ pc' \in [Workers -> {"idle", "load", "check", "work"} \cup SlowPath]
        /\ \A v \in Workers :
             pc'[v] \in {"check", "work", "clearcheck", "logout", "store"} => held'[v] # 0
    BY <1>7 DEF Logout
  <2> QED
    BY <1>7, <2>1, <2>2, <2>3 DEF Logout
<1>8. ASSUME NEW w \in Workers, Delete(w) PROVE TypeOK'
  <2>1. sessionCache' \in [Clouds -> 0..nsession']
    BY <1>8 DEF Delete, Key
  <2> QED
    BY <1>8, <2>1 DEF Delete
<1>9. ASSUME NEW w \in Workers, Connect(w) PROVE TypeOK'
  <2> DEFINE n == nsession + 1
  <2>1. CASE Fault("connect") /\ EndPass(w) /\ UNCHANGED icenterVars
    BY <1>9, <2>1 DEF Connect, EndPass
  <2>2. CASE /\ nsession < MaxSessions /\ NoFault
             /\ nsession' = nsession + 1
             /\ active' = active \cup {nsession + 1}
             /\ user' = [user EXCEPT ![nsession + 1] = Identity[w]]
             /\ Hold(w, nsession + 1) /\ GoTo(w, "store")
    <3>1. n \in Ids /\ nsession' = n /\ nsession' \in IdOr0
      BY <2>2 DEF Ids
    <3>2. user' \in [Ids -> Identities \cup {"nobody"}]
      <4>1. Identity[w] \in Identities
        BY DEF Identities
      <4> QED
        BY <2>2, <4>1
    <3>3. active' \subseteq 1..nsession'
      BY <2>2, <3>1
    <3>4. held' \in [Workers -> 0..nsession']
      BY <2>2, <3>1
    <3>5. sessionCache' \in [Clouds -> 0..nsession']
      BY <1>9, <3>1 DEF Connect
    <3>6. pc' \in [Workers -> {"idle", "load", "check", "work"} \cup SlowPath]
      BY <2>2
    <3>7. \A v \in Workers :
            pc'[v] \in {"check", "work", "clearcheck", "logout", "store"} => held'[v] # 0
      BY <2>2, <3>1
    <3> QED
      BY <1>9, <2>2, <3>1, <3>2, <3>3, <3>4, <3>5, <3>6, <3>7 DEF Connect
  <2> QED
    BY <1>9, <2>1, <2>2 DEF Connect
<1>10. ASSUME NEW w \in Workers, Store(w) PROVE TypeOK'
  BY <1>10 DEF Store, Key
<1>11. ASSUME NEW w \in Workers, Finish(w) PROVE TypeOK'
  BY <1>11 DEF Finish, EndPass
<1>12. ASSUME NEW s \in Ids, Expire(s) PROVE TypeOK'
  BY <1>12 DEF Expire, Ids
<1>13. CASE Restart
  BY <1>13 DEF Restart
<1> QED
  BY <1>1, <1>2, <1>3, <1>4, <1>5, <1>6, <1>7, <1>8, <1>9, <1>10, <1>11, <1>12, <1>13
  DEF Next, Pass

\* Every variable keeps its type, and no pass uses, stores or logs out a session that
\* iCenter has not opened.
THEOREM TypeCorrect == Spec => []TypeOK
<1>1. Init => TypeOK
  BY InitTyped
<1>2. TypeOK /\ [Next]_vars => TypeOK'
  BY StepTyped
<1> QED
  BY <1>1, <1>2, PTL DEF Spec

(***************************************************************************)
(* The identity of a session.                                              *)
(***************************************************************************)
\* Every session in the map or in a pass's hands was opened for a resource of that cloud
\* name.  Sessions change hands only within one cloud name.
Matches ==
  /\ \A w \in Workers :
       sessionCache[Key(w)] # 0 => user[sessionCache[Key(w)]] \in CloudIdentities(w)
  /\ \A w \in Workers : held[w] # 0 => user[held[w]] \in CloudIdentities(w)

\* Opening a session gives it a number that nobody refers to yet; every other step
\* moves sessions between the map and the passes of one cloud name.
LEMMA StepMatches ==
  ASSUME TypeOK, Matches, [Next]_vars
  PROVE  Matches'
<1> USE DEF Matches, Key, GoTo, Hold
<1>0. \A w \in Workers : sessionCache[Key(w)] \in 0..nsession /\ Key(w) \in Clouds
                         /\ held[w] \in 0..nsession
  BY DEF TypeOK, Clouds
<1>1. CASE UNCHANGED vars
  BY <1>1 DEF vars, icenterVars
<1>2. ASSUME NEW w \in Workers, Begin(w) PROVE Matches'
  BY <1>2 DEF Begin, Lookup, icenterVars
<1>3. ASSUME NEW w \in Workers, Load(w) PROVE Matches'
  BY <1>3, <1>0 DEF Load, icenterVars, TypeOK
<1>4. ASSUME NEW w \in Workers, Check(w) PROVE Matches'
  BY <1>4 DEF Check, NotCached, icenterVars, TypeOK
<1>5. ASSUME NEW w \in Workers, ClearLoad(w) PROVE Matches'
  BY <1>5, <1>0 DEF ClearLoad, icenterVars, TypeOK
<1>6. ASSUME NEW w \in Workers, ClearCheck(w) PROVE Matches'
  BY <1>6 DEF ClearCheck, icenterVars
<1>7. ASSUME NEW w \in Workers, Logout(w) PROVE Matches'
  BY <1>7 DEF Logout
<1>8. ASSUME NEW w \in Workers, Delete(w) PROVE Matches'
  BY <1>8, <1>0 DEF Delete, icenterVars, TypeOK
<1>9. ASSUME NEW w \in Workers, Connect(w) PROVE Matches'
  <2>1. CASE Fault("connect") /\ EndPass(w) /\ UNCHANGED icenterVars
    BY <1>9, <2>1 DEF Connect, EndPass, icenterVars, TypeOK
  <2>2. CASE /\ nsession < MaxSessions /\ NoFault
             /\ nsession' = nsession + 1
             /\ active' = active \cup {nsession + 1}
             /\ user' = [user EXCEPT ![nsession + 1] = Identity[w]]
             /\ Hold(w, nsession + 1) /\ GoTo(w, "store")
    <3>1. nsession + 1 \in Ids /\ nsession \in Nat
      BY <2>2, BoundsAssumption DEF Ids, IdOr0, TypeOK
    <3>2. user'[nsession + 1] = Identity[w] /\ \A s \in 0..nsession : user'[s] = user[s]
      BY <2>2, <3>1 DEF TypeOK
    <3>3. Identity[w] \in CloudIdentities(w)
      BY DEF CloudIdentities
    <3> QED
      BY <1>9, <2>2, <3>1, <3>2, <3>3, <1>0 DEF Connect, TypeOK
  <2> QED
    BY <1>9, <2>1, <2>2 DEF Connect
<1>10. ASSUME NEW w \in Workers, Store(w) PROVE Matches'
  <2>1. \A v \in Workers : Key(v) = Key(w) => CloudIdentities(v) = CloudIdentities(w)
    BY DEF CloudIdentities
  <2> QED
    BY <1>10, <2>1, <1>0 DEF Store, icenterVars, TypeOK
<1>11. ASSUME NEW w \in Workers, Finish(w) PROVE Matches'
  BY <1>11 DEF Finish, EndPass, icenterVars, TypeOK
<1>12. ASSUME NEW s \in Ids, Expire(s) PROVE Matches'
  BY <1>12 DEF Expire
<1>13. CASE Restart
  BY <1>13, <1>0 DEF Restart, icenterVars
<1> QED
  BY <1>1, <1>2, <1>3, <1>4, <1>5, <1>6, <1>7, <1>8, <1>9, <1>10, <1>11, <1>12, <1>13
  DEF Next, Pass

\* A pass works with a session that was opened for a resource of its own cloud name, however
\* many passes clear and refill the shared map.  That it is the identity of its own resource
\* does not hold: the map does not know.
THEOREM SessionsStayInCloud == Spec => []SharedWithinCloud
<1>1. Init => Matches
  <2>1. \A w \in Workers : Key(w) \in Clouds
    BY DEF Key, Clouds
  <2> QED
    BY <2>1 DEF Init, Matches
<1>2. TypeOK /\ Matches /\ [Next]_vars => Matches'
  BY StepMatches
<1>3. TypeOK /\ Matches => SharedWithinCloud
  BY DEF TypeOK, Matches, SharedWithinCloud
<1> QED
  BY <1>1, <1>2, <1>3, TypeCorrect, PTL DEF Spec

(***************************************************************************)
(* Reuse.                                                                  *)
(***************************************************************************)
\* Clouds and the passes of different clouds never share a session.
Separate ==
  /\ \A c, d \in Clouds : sessionCache[c] # 0 /\ sessionCache[c] = sessionCache[d] => c = d
  /\ \A w \in Workers, c \in Clouds : held[w] # 0 /\ held[w] = sessionCache[c] => Key(w) = c
  /\ \A v, w \in Workers : held[v] # 0 /\ held[v] = held[w] => Key(v) = Key(w)

\* A session is handed on under one key only, and a new one has a fresh number.
LEMMA StepSeparate ==
  ASSUME TypeOK, Separate, [Next]_vars
  PROVE  Separate'
<1> USE DEF Separate, Key, GoTo, Hold
<1>0. \A w \in Workers : Key(w) \in Clouds
  BY DEF Clouds
<1>1. CASE UNCHANGED vars
  BY <1>1 DEF vars
<1>2. ASSUME NEW w \in Workers, Begin(w) \/ ClearCheck(w) \/ Logout(w) PROVE Separate'
  BY <1>2 DEF Begin, Lookup, ClearCheck, Logout
<1>3. ASSUME NEW w \in Workers, Load(w) \/ ClearLoad(w) PROVE Separate'
  BY <1>0, <1>3 DEF Load, ClearLoad, TypeOK
<1>4. ASSUME NEW w \in Workers, Check(w) \/ Finish(w) PROVE Separate'
  BY <1>4 DEF Check, NotCached, Finish, EndPass, TypeOK
<1>5. ASSUME NEW w \in Workers, Delete(w) PROVE Separate'
  BY <1>0, <1>5 DEF Delete, TypeOK
<1>6. ASSUME NEW w \in Workers, Connect(w) PROVE Separate'
  <2>1. CASE Fault("connect") /\ EndPass(w) /\ UNCHANGED icenterVars
    BY <1>6, <2>1 DEF Connect, EndPass, TypeOK
  <2>2. CASE Hold(w, nsession + 1)
    <3>1. nsession \in Nat
      BY BoundsAssumption DEF TypeOK, IdOr0
    <3>2. \A v \in Workers : held[v] # nsession + 1
      BY <3>1 DEF TypeOK
    <3>3. \A c \in Clouds : sessionCache[c] # nsession + 1
      BY <3>1 DEF TypeOK
    <3> QED
      BY <1>6, <2>2, <3>2, <3>3 DEF Connect, TypeOK
  <2> QED
    BY <1>6, <2>1, <2>2 DEF Connect
<1>7. ASSUME NEW w \in Workers, Store(w) PROVE Separate'
  BY <1>0, <1>7 DEF Store, TypeOK
<1>8. ASSUME NEW s \in Ids, Expire(s) PROVE Separate'
  BY <1>8 DEF Expire
<1>9. CASE Restart
  BY <1>0, <1>9 DEF Restart
<1> QED
  BY <1>1, <1>2, <1>3, <1>4, <1>5, <1>6, <1>7, <1>8, <1>9 DEF Next, Pass

\* A step without a fault leaves a settled cloud settled: only passes in the slow path
\* log out, delete, open or store, they do so under their own key, and a pass gets
\* there only past a session that is missing or expired.
LEMMA StepSettled ==
  ASSUME TypeOK, Separate, NEW c \in Clouds, Settled(c), [Next]_vars, ~(nfaults' > nfaults)
  PROVE  Settled(c)'
<1> USE DEF Settled, SlowPath, Key, GoTo, Hold, Fault
<1>0. nfaults \in Nat /\ sessionCache[c] # 0
  BY DEF TypeOK
<1>1. CASE UNCHANGED vars
  BY <1>1 DEF vars, icenterVars
<1>2. ASSUME NEW w \in Workers, Begin(w) PROVE Settled(c)'
  BY <1>0, <1>2 DEF Begin, Lookup, icenterVars, TypeOK
<1>3. ASSUME NEW w \in Workers, Load(w) PROVE Settled(c)'
  BY <1>0, <1>3 DEF Load, icenterVars, TypeOK
<1>4. ASSUME NEW w \in Workers, Check(w) PROVE Settled(c)'
  BY <1>0, <1>4 DEF Check, NotCached, icenterVars, TypeOK
<1>5. ASSUME NEW w \in Workers, ClearLoad(w) PROVE Settled(c)'
  BY <1>5 DEF ClearLoad, icenterVars, TypeOK
<1>6. ASSUME NEW w \in Workers, ClearCheck(w) PROVE Settled(c)'
  BY <1>6 DEF ClearCheck, icenterVars, TypeOK
<1>7. ASSUME NEW w \in Workers, Logout(w) PROVE Settled(c)'
  <2>1. Key(w) # c /\ held[w] # 0
    BY <1>7 DEF Logout, TypeOK
  <2>2. held[w] # sessionCache[c]
    BY <2>1 DEF Separate
  <2>3. \A v \in Workers : Key(v) = c /\ pc[v] = "check" => held[v] # held[w]
    BY <2>1 DEF Separate
  <2> QED
    BY <1>7, <2>1, <2>2, <2>3 DEF Logout, TypeOK
<1>8. ASSUME NEW w \in Workers, Delete(w) PROVE Settled(c)'
  BY <1>8 DEF Delete, icenterVars, TypeOK
<1>9. ASSUME NEW w \in Workers, Connect(w) PROVE Settled(c)'
  BY <1>9 DEF Connect, EndPass, icenterVars, TypeOK
<1>10. ASSUME NEW w \in Workers, Store(w) PROVE Settled(c)'
  BY <1>10 DEF Store, icenterVars, TypeOK
<1>11. ASSUME NEW w \in Workers, Finish(w) PROVE Settled(c)'
  BY <1>11 DEF Finish, EndPass, icenterVars, TypeOK
<1>12. ASSUME NEW s \in Ids, Expire(s) PROVE Settled(c)'
  BY <1>0, <1>12 DEF Expire
<1>13. CASE Restart
  BY <1>0, <1>13 DEF Restart
<1> QED
  BY <1>1, <1>2, <1>3, <1>4, <1>5, <1>6, <1>7, <1>8, <1>9, <1>10, <1>11, <1>12, <1>13
  DEF Next, Pass

\* Once the passes of a cloud have settled on a session it is reused by all of them until
\* a fault comes: GetOrCreate neither logs it out nor opens another, for any number of
\* concurrent passes and clouds.
THEOREM SessionsAreReused == Spec => SettledStays
<1>1. Init => Separate
  BY DEF Init, Separate
<1>2. TypeOK /\ Separate /\ [Next]_vars => Separate'
  BY StepSeparate
<1>3. TypeOK /\ Separate /\ [Next]_vars
        => [\A c \in Clouds : Settled(c) => Settled(c)' \/ nfaults' > nfaults]_vars
  BY StepSettled
<1> QED
  BY <1>1, <1>2, <1>3, TypeCorrect, PTL DEF Spec, SettledStays
=============================================================================
