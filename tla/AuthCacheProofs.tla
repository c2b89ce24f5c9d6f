-------------------------- MODULE AuthCacheProofs --------------------------
(***************************************************************************)
(* The authorisation cache answers like the database, for every number of  *)
(* credentials, tenants, requests and changes and all times to live with   *)
(* EntryTTL <= VersionTTL.  HitsAuthorised is not inductive: it needs that *)
(* an entry never runs ahead of the counter, and that an entry stored      *)
(* under no counter is gone before a counter that came since is.           *)
(***************************************************************************)
EXTENDS AuthCache, TLAPS

Fresh(x) == x \notin overtaken \cup outlived

\* A counter is present as long as it has a time to live.
Counters == \A t \in Tenants : version[t] = 0 <=> versionTtl[t] = 0

\* A fresh request that fills the cache read what the database still says,
\* unless the bump of a change is outstanding, and reads the counter as it is.
FillsAuthorised ==
  \A q \in Requests :
    /\ req[q] \in Filling /\ q \notin overtaken /\ Tenant(q) \notin dirty
         => reqCred[q] \notin revoked
    /\ req[q] \in {"active", "store"} /\ q \notin overtaken /\ Tenant(q) \notin dirty
         => Tenant(q) \in active
    /\ req[q] = "store" /\ Fresh(q) => reqV[q] = version[Tenant(q)]
    /\ req[q] \in Filling /\ q \notin aged => reqCred[q] \notin expired

\* A fresh entry is not ahead of the counter, and one stored under no counter
\* dies with the counter or before.
EntriesBehind ==
  \A c \in Creds :
    entryTtl[c] > 0 /\ Fresh(c) =>
      /\ entryV[c] <= version[TenantOf[c]]
      /\ entryV[c] = 0 /\ version[TenantOf[c]] > 0 => entryTtl[c] <= versionTtl[TenantOf[c]]

\* An entry of an expired credential was stored, or read for, before its expiry.
ExpiredAged == \A c \in Creds : entryTtl[c] > 0 /\ c \notin aged => c \notin expired

CacheInv ==
  /\ AuthTypeOK /\ Counters
  /\ FillsAuthorised /\ EntriesBehind /\ ExpiredAged
  /\ HitsAuthorised

-----------------------------------------------------------------------------

LEMMA InitCache == Init => CacheInv
BY AuthAssumption
   DEF Init, CacheInv, AuthTypeOK, Counters, FillsAuthorised, EntriesBehind, HitsAuthorised,
       ExpiredAged, Filling, Persistent, WouldHit

\* What the steps of a request before its store keep.
LEMMA RequestCache ==
  ASSUME CacheInv, NEW q \in Requests, RequestStep(q) \/ \E c \in Creds : Arrive(q, c)
  PROVE  CacheInv'
<1> USE AuthAssumption DEF CacheInv, AuthTypeOK
<1>1. CASE \/ \E c \in Creds : Arrive(q, c)
           \/ Lookup(q) \/ Check(q) \/ ReadKey(q) \/ ReadTenant(q) \/ ReadVersion(q)
  <2>1. AuthTypeOK'
    BY <1>1 DEF Arrive, Lookup, Check, ReadKey, ReadTenant, ReadVersion, Steps, Filling,
       dbVars, entryVars, versionVars, admVars, history, Tenant
  <2>2. UNCHANGED <<dbVars, entryVars, versionVars, history>>
    BY <1>1 DEF Arrive, Lookup, Check, ReadKey, ReadTenant, ReadVersion
  <2>3. Counters' /\ EntriesBehind' /\ HitsAuthorised' /\ ExpiredAged'
    BY <2>2 DEF Counters, EntriesBehind, HitsAuthorised, ExpiredAged, WouldHit, Active, Fresh,
       dbVars, entryVars, versionVars, history
  <2>4. FillsAuthorised'
    BY <1>1 DEF FillsAuthorised, Fresh, Arrive, Lookup, Check, ReadKey, ReadTenant, ReadVersion,
       Steps, Filling, dbVars, entryVars, versionVars, history, Tenant
  <2> QED
    BY <2>1, <2>3, <2>4
<1>2. CASE Store(q)
  <2>1. AuthTypeOK'
    BY <1>2 DEF Store, Steps, Filling, dbVars, versionVars, admVars, Inherit
  <2>2. Counters'
    BY <1>2 DEF Store, Counters, versionVars
  <2>3. FillsAuthorised'
    BY <1>2 DEF Store, FillsAuthorised, Fresh, Steps, Filling, dbVars, versionVars, Inherit, Tenant
  <2>4. EntriesBehind'
    BY <1>2 DEF Store, FillsAuthorised, EntriesBehind, Fresh, Steps, Filling, dbVars, versionVars,
       Inherit, Tenant
  <2>5. HitsAuthorised' /\ ExpiredAged'
    BY <1>2 DEF Store, FillsAuthorised, HitsAuthorised, ExpiredAged, WouldHit, Active, Fresh,
       Steps, Filling,
       dbVars, versionVars, Inherit, Tenant
  <2> QED
    BY <2>1, <2>2, <2>3, <2>4, <2>5
<1>3. CASE Leave(q)
  <2>1. AuthTypeOK' /\ Counters'
    BY <1>3 DEF Leave, Counters, Filling, dbVars, entryVars, versionVars, admVars
  <2>2. FillsAuthorised'
    BY <1>3 DEF Leave, FillsAuthorised, Fresh, Filling, dbVars, versionVars, Tenant
  <2>3. EntriesBehind' /\ HitsAuthorised' /\ ExpiredAged'
    BY <1>3 DEF Leave, EntriesBehind, HitsAuthorised, ExpiredAged, WouldHit, Active, Fresh, dbVars,
       entryVars, versionVars
  <2> QED
    BY <2>1, <2>2, <2>3
<1> QED
  BY <1>1, <1>2, <1>3 DEF RequestStep

LEMMA AdminCache ==
  ASSUME CacheInv, NEW a \in Admins, AdminStep(a)
  PROVE  CacheInv'
<1> USE AuthAssumption DEF CacheInv, AuthTypeOK
<1>1. ASSUME NEW c \in Revocable, Revoke(a, c)
      PROVE  CacheInv'
  <2>1. AuthTypeOK' /\ Counters'
    BY <1>1 DEF Revoke, Committed, Counters, Filling, entryVars, versionVars, reqVars
  <2>2. FillsAuthorised' /\ EntriesBehind' /\ HitsAuthorised' /\ ExpiredAged'
    BY <1>1 DEF Revoke, Committed, FillsAuthorised, EntriesBehind, HitsAuthorised, ExpiredAged,
       WouldHit,
       Active, Fresh, Filling, Tenant, entryVars, versionVars, reqVars
  <2> QED
    BY <2>1, <2>2
<1>2. ASSUME NEW t \in Tenants, UpdateTenant(a, t)
      PROVE  CacheInv'
  <2>1. AuthTypeOK' /\ Counters'
    BY <1>2 DEF UpdateTenant, Committed, Counters, Filling, entryVars, versionVars, reqVars
  <2>2. FillsAuthorised' /\ EntriesBehind' /\ HitsAuthorised' /\ ExpiredAged'
    BY <1>2 DEF UpdateTenant, Committed, FillsAuthorised, EntriesBehind, HitsAuthorised,
       ExpiredAged, WouldHit,
       Active, Fresh, Filling, Tenant, entryVars, versionVars, reqVars
  <2> QED
    BY <2>1, <2>2
<1>3. CASE Bump(a)
  <2>1. AuthTypeOK'
    BY <1>3 DEF Bump, Overtakes, Filling, Persistent, dbVars, entryVars, reqVars
  <2>2. Counters'
    BY <1>3 DEF Bump, Counters, Persistent
  <2>3. FillsAuthorised'
    BY <1>3 DEF Bump, Overtakes, FillsAuthorised, Fresh, Filling, Tenant, dbVars, reqVars
  <2>4. EntriesBehind'
    BY <1>3 DEF Bump, Overtakes, EntriesBehind, Counters, Fresh, Persistent, entryVars
  <2>5. HitsAuthorised' /\ ExpiredAged'
    BY <1>3 DEF Bump, Overtakes, EntriesBehind, HitsAuthorised, ExpiredAged, WouldHit, Active,
       Fresh,
       dbVars, entryVars
  <2> QED
    BY <2>1, <2>2, <2>3, <2>4, <2>5
<1>4. CASE Expire(a)
  <2>1. AuthTypeOK' /\ Counters'
    BY <1>4 DEF Expire, Counters, Filling, Persistent, dbVars, entryVars, reqVars, history
  <2>2. FillsAuthorised' /\ HitsAuthorised' /\ ExpiredAged'
    BY <1>4 DEF Expire, FillsAuthorised, HitsAuthorised, ExpiredAged, WouldHit, Active, Fresh,
       Filling,
       Tenant, dbVars, entryVars, reqVars, history
  <2>3. EntriesBehind'
    BY <1>4 DEF Expire, EntriesBehind, Counters, Fresh, entryVars, history
  <2> QED
    BY <2>1, <2>2, <2>3
<1>5. CASE ChangeEnds(a)
  <2>1. AuthTypeOK' /\ Counters'
    BY <1>5 DEF ChangeEnds, Counters, Filling, dbVars, entryVars, versionVars, reqVars, history
  <2>2. FillsAuthorised' /\ EntriesBehind' /\ HitsAuthorised' /\ ExpiredAged'
    BY <1>5 DEF ChangeEnds, FillsAuthorised, EntriesBehind, HitsAuthorised, ExpiredAged,
       WouldHit, Active,
       Fresh, Filling, Tenant, dbVars, entryVars, versionVars, reqVars, history
  <2> QED
    BY <2>1, <2>2
<1> QED
  BY <1>1, <1>2, <1>3, <1>4, <1>5 DEF AdminStep

LEMMA TickCache ==
  ASSUME CacheInv, Tick
  PROVE  CacheInv'
<1> USE AuthAssumption DEF CacheInv, AuthTypeOK
<1>1. AuthTypeOK'
  <2>1. /\ overtaken' \subseteq Creds \cup Requests
        /\ outlived' \subseteq Creds \cup Requests
        /\ aged' \subseteq Creds \cup Requests
    BY DEF Tick
  <2>2. entryV' \in [Creds -> Nat] /\ entryTtl' \in [Creds -> 0..EntryTTL]
    <3>1. /\ entryTtl' = [c \in Creds |-> Left(entryTtl[c])]
          /\ \E dead : entryV' = [c \in Creds |-> IF c \in dead THEN 0 ELSE entryV[c]]
      BY DEF Tick
    <3>2. \A c \in Creds : entryTtl[c] \in 0..EntryTTL /\ entryV[c] \in Nat
      OBVIOUS
    <3> QED
      BY <3>1, <3>2 DEF Left
  <2>3. version' \in [Tenants -> Nat] /\ versionTtl' \in [Tenants -> 0..Persistent]
    BY DEF Tick, Left, Persistent
  <2> QED
    BY <2>1, <2>2, <2>3 DEF Tick, dbVars, reqVars, admVars
<1>2. Counters'
  BY DEF Tick, Left, Counters, Persistent
<1>3. FillsAuthorised'
  BY DEF Tick, FillsAuthorised, Counters, Fresh, Filling, Tenant, dbVars, reqVars
<1>4. EntriesBehind'
  BY DEF Tick, Left, EntriesBehind, Counters, Fresh, Persistent
<1>5. HitsAuthorised' /\ ExpiredAged'
  BY DEF Tick, Left, EntriesBehind, Counters, HitsAuthorised, ExpiredAged, WouldHit, Active, Fresh,
     Persistent, dbVars
<1> QED
  BY <1>1, <1>2, <1>3, <1>4, <1>5

LEMMA StepCache == CacheInv /\ [Next]_vars => CacheInv'
<1> SUFFICES ASSUME CacheInv, [Next]_vars
             PROVE  CacheInv'
  OBVIOUS
<1>1. CASE UNCHANGED vars
  BY <1>1 DEF CacheInv, AuthTypeOK, Counters, FillsAuthorised, EntriesBehind, ExpiredAged,
     HitsAuthorised, WouldHit, Active, Fresh, Tenant, vars, dbVars, entryVars, versionVars,
     reqVars, admVars, history
<1>2. ASSUME NEW c \in Creds, CredExpires(c)
      PROVE  CacheInv'
  <2> USE <1>2 DEF CredExpires, entryVars, versionVars, reqVars, admVars
  <2>1. AuthTypeOK'
    BY AuthAssumption DEF CacheInv, AuthTypeOK, Filling
  <2>2. Counters' /\ EntriesBehind'
    BY DEF CacheInv, Counters, EntriesBehind, Fresh
  <2>3. FillsAuthorised'
    BY DEF CacheInv, AuthTypeOK, FillsAuthorised, Fresh, Tenant
  <2>4. ExpiredAged' /\ HitsAuthorised'
    BY DEF CacheInv, ExpiredAged, HitsAuthorised, WouldHit, Active
  <2> QED
    BY <2>1, <2>2, <2>3, <2>4 DEF CacheInv
<1> QED
  BY <1>1, <1>2, RequestCache, AdminCache, TickCache DEF Next

\* The types of the cache's state.
THEOREM AuthTypeCorrect == Spec => []AuthTypeOK
<1>1. CacheInv => AuthTypeOK
  BY DEF CacheInv
<1> QED
  BY <1>1, InitCache, StepCache, PTL DEF Spec

\* What the cache would grant the database would not deny, up to the windows
\* HitsAuthorised names, each for the denials it names it for.
THEOREM HitsCorrect == Spec => []HitsAuthorised
<1>1. CacheInv => HitsAuthorised
  BY DEF CacheInv
<1> QED
  BY <1>1, InitCache, StepCache, PTL DEF Spec
=============================================================================
