----------------------------- MODULE AuthCache -----------------------------
(***************************************************************************)
(* The authorisation cache: requests that look a credential up in Redis    *)
(* and fill the cache from the database, administrators that change a      *)
(* tenant or a key and then bump the version of the tenant, and the two    *)
(* times to live.  Every Redis call and every database read is a step of   *)
(* its own.  A time to live is a countdown; 0 is an absent key.            *)
(***************************************************************************)
EXTENDS Naturals

CONSTANTS
  Creds,       \* API keys and tokens, each with its cache key
  Revocable,   \* the API keys among them
  Tenants,
  TenantOf,
  Requests,    \* requests that may run at the same time
  Admins,      \* changes that may run at the same time
  EntryTTL,    \* _AUTH_CACHE_TTL, in ticks
  VersionTTL,  \* _TENANT_VERSION_TTL, in ticks
  MaxVersion   \* bound on the version counter

ASSUME AuthAssumption ==
  /\ Revocable \subseteq Creds
  /\ TenantOf \in [Creds -> Tenants]
  /\ Creds \cap Requests = {}
  /\ EntryTTL \in Nat \ {0} /\ VersionTTL \in Nat
  /\ EntryTTL <= VersionTTL
  /\ MaxVersion \in Nat

VARIABLES
  revoked,     \* keys with a revoked_at
  expired,     \* credentials past their expiry
  active,      \* tenants with status 'active'
  entryV,      \* the version in the cache entry of a credential
  entryTtl,    \* and its time to live
  version,     \* the version counter of a tenant; 0 when absent
  versionTtl,  \* and its time to live
  req,         \* where a request is
  reqCred,     \* the credential it presents
  reqV,        \* the version it got: from the entry, or to be stored
  adm,         \* where a change is
  admTenant,   \* the tenant it is of
  dirty,       \* history: tenants changed since their last bump
  overtaken,   \* history: requests a bump came between whose read of the
               \* database and store, and entries such a request stored
  outlived,    \* history: entries, and requests about to store one, under a
               \* version that expired since it was read
  aged         \* history: entries, and requests about to store one, whose
               \* credential expired since the database was read for them

dbVars == <<revoked, expired, active>>
entryVars == <<entryV, entryTtl>>
versionVars == <<version, versionTtl>>
reqVars == <<req, reqCred, reqV>>
admVars == <<adm, admTenant>>
history == <<dirty, overtaken, outlived, aged>>
vars == <<dbVars, entryVars, versionVars, reqVars, admVars, history>>

\* A counter INCR created, before its EXPIRE.
Persistent == VersionTTL + 1

Filling == {"keyed", "active", "store"}

\* Types, and the range of the two times to live (_AUTH_CACHE_TTL,
\* _TENANT_VERSION_TTL, and a counter before its EXPIRE).
AuthTypeOK ==
  /\ revoked \subseteq Revocable /\ expired \subseteq Creds /\ active \subseteq Tenants
  /\ entryV \in [Creds -> Nat] /\ entryTtl \in [Creds -> 0..EntryTTL]
  /\ version \in [Tenants -> Nat] /\ versionTtl \in [Tenants -> 0..Persistent]
  /\ req \in [Requests -> {"idle", "lookup", "check", "miss", "granted"} \cup Filling]
  /\ reqCred \in [Requests -> Creds] /\ reqV \in [Requests -> Nat]
  /\ adm \in [Admins -> {"idle", "bump", "expire"}] /\ admTenant \in [Admins -> Tenants]
  /\ dirty \subseteq Tenants
  /\ overtaken \subseteq Creds \cup Requests /\ outlived \subseteq Creds \cup Requests
  /\ aged \subseteq Creds \cup Requests

Init ==
  /\ revoked = {} /\ expired = {} /\ active = Tenants
  /\ entryV = [c \in Creds |-> 0] /\ entryTtl = [c \in Creds |-> 0]
  /\ version = [t \in Tenants |-> 0] /\ versionTtl = [t \in Tenants |-> 0]
  /\ req = [q \in Requests |-> "idle"]
  /\ reqCred \in [Requests -> Creds]
  /\ reqV = [q \in Requests |-> 0]
  /\ adm = [a \in Admins |-> "idle"]
  /\ admTenant \in [Admins -> Tenants]
  /\ dirty = {} /\ overtaken = {} /\ outlived = {} /\ aged = {}

Tenant(q) == TenantOf[reqCred[q]]

Steps(q, from, to) == req[q] = from /\ req' = [req EXCEPT ![q] = to]

-----------------------------------------------------------------------------
(* Requests. *)

Arrive(q, c) ==
  /\ Steps(q, "idle", "lookup")
  /\ reqCred' = [reqCred EXCEPT ![q] = c]
  /\ UNCHANGED <<dbVars, entryVars, versionVars, reqV, admVars, history>>

\* Mutant: a look-up renews the entry.
LookupSliding(q) ==
  /\ Steps(q, "lookup", IF entryTtl[reqCred[q]] = 0 THEN "miss" ELSE "check")
  /\ reqV' = [reqV EXCEPT ![q] = entryV[reqCred[q]]]
  /\ entryTtl' = [entryTtl EXCEPT ![reqCred[q]] = IF @ = 0 THEN 0 ELSE EntryTTL]
  /\ UNCHANGED <<dbVars, entryV, versionVars, reqCred, admVars, history>>

\* get_cached_auth: the entry, then the version of its tenant.
Lookup(q) ==
  /\ Steps(q, "lookup", IF entryTtl[reqCred[q]] = 0 THEN "miss" ELSE "check")
  /\ reqV' = [reqV EXCEPT ![q] = entryV[reqCred[q]]]
  /\ UNCHANGED <<dbVars, entryVars, versionVars, reqCred, admVars, history>>

Check(q) ==
  /\ Steps(q, "check", IF reqV[q] = version[Tenant(q)] THEN "granted" ELSE "miss")
  /\ UNCHANGED <<dbVars, entryVars, versionVars, reqCred, reqV, admVars, history>>

\* The key that is not revoked and not past its expiry, or decode_token.
ReadKey(q) ==
  /\ reqCred[q] \notin revoked \cup expired
  /\ Steps(q, "miss", "keyed")
  /\ UNCHANGED <<dbVars, entryVars, versionVars, reqCred, reqV, admVars, history>>

ReadTenant(q) ==
  /\ Tenant(q) \in active
  /\ Steps(q, "keyed", "active")
  /\ UNCHANGED <<dbVars, entryVars, versionVars, reqCred, reqV, admVars, history>>

\* set_cached_auth: the version, then the entry.
ReadVersion(q) ==
  /\ Steps(q, "active", "store")
  /\ reqV' = [reqV EXCEPT ![q] = version[Tenant(q)]]
  /\ UNCHANGED <<dbVars, entryVars, versionVars, reqCred, admVars, history>>

\* What is known of the request is from now on known of its entry.
Inherit(set, q) ==
  IF q \in set THEN set \cup {reqCred[q]} ELSE set \ {reqCred[q]}

Store(q) ==
  /\ Steps(q, "store", "granted")
  /\ entryV' = [entryV EXCEPT ![reqCred[q]] = reqV[q]]
  /\ entryTtl' = [entryTtl EXCEPT ![reqCred[q]] = EntryTTL]
  /\ overtaken' = Inherit(overtaken, q)
  /\ outlived' = Inherit(outlived, q)
  /\ aged' = Inherit(aged, q)
  /\ UNCHANGED <<dbVars, versionVars, reqCred, reqV, admVars, dirty>>

\* The request is refused or served, or fails in Redis or the database.
Leave(q) ==
  /\ req[q] # "idle"
  /\ req' = [req EXCEPT ![q] = "idle"]
  /\ reqV' = [reqV EXCEPT ![q] = 0]
  /\ overtaken' = overtaken \ {q}
  /\ outlived' = outlived \ {q}
  /\ aged' = aged \ {q}
  /\ UNCHANGED <<dbVars, entryVars, versionVars, reqCred, admVars, dirty>>

-----------------------------------------------------------------------------
(* Changes of keys and tenants: a commit, then the bump of the version. *)

Committed(a, t) ==
  /\ adm[a] = "idle"
  /\ adm' = [adm EXCEPT ![a] = "bump"]
  /\ admTenant' = [admTenant EXCEPT ![a] = t]
  /\ dirty' = dirty \cup {t}

Revoke(a, c) ==
  /\ revoked' = revoked \cup {c}
  /\ Committed(a, TenantOf[c])
  /\ UNCHANGED <<expired, active, entryVars, versionVars, reqVars, overtaken, outlived, aged>>

\* A change of the configuration leaves the status as it is.
UpdateTenant(a, t) ==
  /\ active' \in {active, active \cup {t}, active \ {t}}
  /\ Committed(a, t)
  /\ UNCHANGED <<revoked, expired, entryVars, versionVars, reqVars, overtaken, outlived, aged>>

Overtakes(t) == overtaken \cup {q \in Requests : req[q] \in Filling /\ Tenant(q) = t}

\* Mutant: the version is set, not incremented.
BumpSets(a) ==
  LET t == admTenant[a] IN
  /\ adm[a] = "bump"
  /\ version[t] < MaxVersion
  /\ adm' = [adm EXCEPT ![a] = "expire"]
  /\ version' = [version EXCEPT ![t] = 1]
  /\ versionTtl' = [versionTtl EXCEPT ![t] = IF @ = 0 THEN Persistent ELSE @]
  /\ dirty' = dirty \ {t}
  /\ overtaken' = Overtakes(t)
  /\ UNCHANGED <<dbVars, entryVars, reqVars, admTenant, outlived, aged>>

\* INCR creates the counter without a time to live, or keeps the one it has.
Bump(a) ==
  LET t == admTenant[a] IN
  /\ adm[a] = "bump"
  /\ version[t] < MaxVersion
  /\ adm' = [adm EXCEPT ![a] = "expire"]
  /\ version' = [version EXCEPT ![t] = @ + 1]
  /\ versionTtl' = [versionTtl EXCEPT ![t] = IF @ = 0 THEN Persistent ELSE @]
  /\ dirty' = dirty \ {t}
  /\ overtaken' = Overtakes(t)
  /\ UNCHANGED <<dbVars, entryVars, reqVars, admTenant, outlived, aged>>

\* EXPIRE of a counter that is gone does nothing.
Expire(a) ==
  LET t == admTenant[a] IN
  /\ adm[a] = "expire"
  /\ adm' = [adm EXCEPT ![a] = "idle"]
  /\ versionTtl' = [versionTtl EXCEPT ![t] = IF @ = 0 THEN 0 ELSE VersionTTL]
  /\ UNCHANGED <<dbVars, entryVars, version, reqVars, admTenant, history>>

\* Redis fails or the process dies: what was committed stays.
ChangeEnds(a) ==
  /\ adm[a] # "idle"
  /\ adm' = [adm EXCEPT ![a] = "idle"]
  /\ UNCHANGED <<dbVars, entryVars, versionVars, reqVars, admTenant, history>>

-----------------------------------------------------------------------------
(* Time. *)

\* The expiry of a key or token passes; the cache is not told.
CredExpires(c) ==
  /\ c \notin expired
  /\ expired' = expired \cup {c}
  /\ aged' = aged \cup {e \in {c} : entryTtl[e] > 0}
                  \cup {q \in Requests : req[q] \in Filling /\ reqCred[q] = c}
  /\ UNCHANGED <<revoked, active, entryVars, versionVars, reqVars, admVars>>
  /\ UNCHANGED <<dirty, overtaken, outlived>>

Left(ttl) == IF ttl = 0 THEN 0 ELSE ttl - 1

Tick ==
  LET gone == {t \in Tenants : versionTtl[t] = 1}
      dead == {c \in Creds : entryTtl[c] = 1}
  IN  /\ entryTtl' = [c \in Creds |-> Left(entryTtl[c])]
      /\ entryV' = [c \in Creds |-> IF c \in dead THEN 0 ELSE entryV[c]]
      /\ versionTtl' = [t \in Tenants |->
           IF versionTtl[t] = Persistent THEN Persistent ELSE Left(versionTtl[t])]
      /\ version' = [t \in Tenants |-> IF t \in gone THEN 0 ELSE version[t]]
      /\ overtaken' = overtaken \ dead
      /\ aged' = aged \ dead
      /\ outlived' =
           (outlived \ dead)
             \cup {c \in Creds \ dead : entryV[c] # 0 /\ TenantOf[c] \in gone}
             \cup {q \in Requests : req[q] = "store" /\ reqV[q] # 0 /\ Tenant(q) \in gone}
      /\ UNCHANGED <<dbVars, reqVars, admVars, dirty>>

-----------------------------------------------------------------------------

RequestStep(q) ==
  \/ Lookup(q) \/ Check(q) \/ ReadKey(q) \/ ReadTenant(q)
  \/ ReadVersion(q) \/ Store(q) \/ Leave(q)

AdminStep(a) ==
  \/ \E c \in Revocable : Revoke(a, c)
  \/ \E t \in Tenants : UpdateTenant(a, t)
  \/ Bump(a) \/ Expire(a) \/ ChangeEnds(a)

Next ==
  \/ \E q \in Requests : RequestStep(q) \/ \E c \in Creds : Arrive(q, c)
  \/ \E a \in Admins : AdminStep(a)
  \/ \E c \in Creds : CredExpires(c)
  \/ Tick

Spec == Init /\ [][Next]_vars

\* Time passes and a request goes on; nothing is assumed of the changes.
Fairness == WF_vars(Tick) /\ \A q \in Requests : WF_vars(RequestStep(q))

FairSpec == Spec /\ Fairness

-----------------------------------------------------------------------------
(* Properties. *)

Active(c) == TenantOf[c] \in active

\* A look-up of c now would be a hit.
WouldHit(c) == entryTtl[c] > 0 /\ entryV[c] = version[TenantOf[c]]

\* The cache answers like the database, which denies a key that is revoked or
\* of a tenant that is not active, and a key or token past its expiry.  The
\* first two are granted only if the change has committed and its bump is
\* outstanding, if the request that stored the entry was itself overtaken by
\* the bump, or if the version counter expired since the entry was stored and
\* counts from 0 again; the third only if the expiry passed after the database
\* was read for the entry.
HitsAuthorised ==
  \A c \in Creds :
    WouldHit(c) =>
      /\ \/ c \notin revoked /\ Active(c)
         \/ TenantOf[c] \in dirty \/ c \in overtaken \cup outlived
      /\ c \notin expired \/ c \in aged

\* A revoked or expired credential is not granted for ever: even if no version
\* is ever bumped again, its entry runs out and no request renews it.
EndedIsRefused ==
  \A c \in Creds :
    c \in revoked \cup expired
      ~> [](\A q \in Requests : reqCred[q] = c => req[q] # "granted")
=============================================================================
