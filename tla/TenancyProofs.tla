--------------------------- MODULE TenancyProofs ---------------------------
(***************************************************************************)
(* What sessions and tenant handlers keep, for every number of requests,   *)
(* connections, tenants and slugs.  A session runs under its own setting   *)
(* because no connection is ever in two places (OneHolder), one that was   *)
(* not opened yet in none, and because who holds none is between two       *)
(* transactions.  An update is lost only to an overlapping one because     *)
(* what an update has read is what had been journalled by then.            *)
(***************************************************************************)
EXTENDS Tenancy, SequenceTheorems, TLAPS

\* A connection that was not opened yet is neither held nor in the queue.
Unopened ==
  \A c \in fresh :
    /\ \A r \in Requests : conn[r] # c
    /\ \A i \in DOMAIN idle : idle[i] # c

\* Who is between two transactions holds no connection; who is between two of
\* one session has committed.
Between ==
  \A r \in Requests :
    /\ pc[r] \in {"start", "more", "reset", "done"} => conn[r] = NoConn
    /\ pc[r] = "more" => commits[r] # 0

OwnTenant ==
  \A r \in Requests :
    IsTenants(r) /\ conn[r] # NoConn /\ commits[r] = 0 => now[conn[r]].tenant = job[r].tenant

SessionInv == TenancyTypeOK /\ OneHolder /\ Unopened /\ Between /\ OwnTenant

\* An administrative session has committed its bypass.
Left == \E a \in Requests : Bypasses(a) /\ commits[a] > 0

\* A bypass was committed, or is that of the session that holds the connection.
BypassInv ==
  /\ \A c \in Conns : saved[c].bypass => Left
  /\ \A c \in Conns : now[c].bypass => Left \/ \E r \in Requests : conn[r] = c /\ IsAdmin(r)

Ended == {"exit", "reset", "done"}
Updates(r) == job[r].kind \in {"configure", "update"}

\* Of the first n updates of the journal, those of key k of tenant t are in x, or
\* lost as LostOnlyToOverlap allows.
LastWrites(t, k, x, n) ==
  \A i \in 1 .. n :
    job[journal[i]].tenant = t /\ k \in job[journal[i]].keys =>
      \/ x = journal[i]
      \/ \E j \in i + 1 .. n :
           /\ job[journal[j]].tenant = t
           /\ k \in job[journal[j]].keys \/ since[journal[j]] < i

\* The configuration is that of the journal, what an update has read that of the
\* journal then; who is in the journal reads no more.
ConfigInv ==
  /\ \A i \in DOMAIN journal : pc[journal[i]] \in Ended
  /\ \A t \in Tenants, k \in Keys : LastWrites(t, k, config[t][k], Len(journal))
  /\ \A r \in Requests : pc[r] = "began" /\ Updates(r) =>
       \A k \in Keys : LastWrites(job[r].tenant, k, seen[r][k], since[r])

\* Slugs come with keys, and a creation ends only when its slug is taken.
CreateInv ==
  /\ \A s \in Slugs : slugOf[s] # Unset => slugOf[s] \in keyed
  /\ \A r \in Requests : job[r].kind = "create" /\ pc[r] \in Ended => slugOf[job[r].slug] # Unset

-----------------------------------------------------------------------------
(* The queue of the pool. *)

\* Tail and Append, by their elements.
LEMMA QueueTail ==
  ASSUME NEW S, NEW s \in Seq(S), s # << >>
  PROVE  /\ Tail(s) \in Seq(S) /\ Head(s) = s[1] /\ s[1] \in S
         /\ DOMAIN s = 1 .. Len(s) /\ Len(s) \in Nat \ {0}
         /\ DOMAIN Tail(s) = 1 .. (Len(s) - 1)
         /\ \A i \in DOMAIN Tail(s) : Tail(s)[i] = s[i + 1] /\ i + 1 \in DOMAIN s
<1>1. Len(s) \in Nat /\ DOMAIN s = 1 .. Len(s)
  BY LenProperties
<1>2. Len(s) # 0
  BY EmptySeq, <1>1
<1>3. /\ Head(s) \in S /\ Head(s) = s[1] /\ Tail(s) \in Seq(S) /\ Len(Tail(s)) = Len(s) - 1
      /\ \A i \in 1 .. Len(Tail(s)) : Tail(s)[i] = s[i + 1]
  BY HeadTailProperties
<1>4. DOMAIN Tail(s) = 1 .. Len(Tail(s))
  BY <1>3, LenProperties
<1> QED
  BY <1>1, <1>2, <1>3, <1>4

LEMMA QueueAppend ==
  ASSUME NEW S, NEW s \in Seq(S), NEW x \in S
  PROVE  /\ Append(s, x) \in Seq(S)
         /\ DOMAIN s = 1 .. Len(s) /\ Len(s) \in Nat /\ Len(Append(s, x)) = Len(s) + 1
         /\ DOMAIN Append(s, x) = 1 .. (Len(s) + 1)
         /\ Append(s, x)[Len(s) + 1] = x
         /\ \A i \in DOMAIN s : Append(s, x)[i] = s[i]
<1>1. Len(s) \in Nat /\ DOMAIN s = 1 .. Len(s)
  BY LenProperties
<1>2. /\ Append(s, x) \in Seq(S) /\ Len(Append(s, x)) = Len(s) + 1
      /\ \A i \in 1 .. Len(s) : Append(s, x)[i] = s[i]
      /\ Append(s, x)[Len(s) + 1] = x
  BY AppendProperties
<1>3. DOMAIN Append(s, x) = 1 .. Len(Append(s, x))
  BY <1>2, LenProperties
<1> QED
  BY <1>1, <1>2, <1>3

\* A session that held none gets a connection nobody else has.
LEMMA CheckoutStep ==
  ASSUME TenancyTypeOK, OneHolder, Unopened, NEW r \in Requests, NEW c \in Conns,
         conn[r] = NoConn, Checkout(c), conn' = [conn EXCEPT ![r] = c]
  PROVE  /\ OneHolder' /\ Unopened' /\ \A q \in Requests : conn[q] # c
         /\ idle' \in Seq(Conns) /\ fresh' \subseteq Conns
         /\ conn' \in [Requests -> Conns \cup {NoConn}]
<1> USE TenancyAssumption DEF TenancyTypeOK
<1>1. CASE idle = << >>
  <2>1. c \in fresh /\ fresh' = fresh \ {c} /\ idle' = idle
    BY <1>1 DEF Checkout
  <2>2. DOMAIN idle = {}
    BY <1>1
  <2> QED
    BY <2>1, <2>2 DEF OneHolder, Unopened
<1>2. CASE idle # << >>
  <2>1. c = Head(idle) /\ idle' = Tail(idle) /\ fresh' = fresh
    BY <1>2 DEF Checkout
  <2>2. c = idle[1] /\ 1 \in DOMAIN idle
    BY <1>2, <2>1, QueueTail
  <2>3. \A i \in DOMAIN idle' : idle'[i] = idle[i + 1] /\ i + 1 \in DOMAIN idle /\ i + 1 # 1 /\ i \in Nat
    BY <1>2, <2>1, QueueTail
  <2>4. \A q \in Requests : conn[q] # c
    BY <2>2 DEF OneHolder
  <2>5. \A i \in DOMAIN idle' : idle'[i] # c
    BY <2>2, <2>3 DEF OneHolder
  <2>6. OneHolder'
    <3>1. \A i, j \in DOMAIN idle' : idle'[i] = idle'[j] => i = j
      BY <2>3 DEF OneHolder
    <3> QED
      BY <2>3, <2>4, <2>5, <3>1 DEF OneHolder
  <2>7. Unopened'
    BY <2>1, <2>2, <2>3 DEF Unopened
  <2> QED
    BY <1>2, <2>1, <2>4, <2>6, <2>7, QueueTail
<1> QED
  BY <1>1, <1>2

\* What is returned is in the queue, and nowhere else.
LEMMA ReturnStep ==
  ASSUME TenancyTypeOK, OneHolder, Unopened, NEW r \in Requests, Return(r)
  PROVE  /\ OneHolder' /\ Unopened'
         /\ idle' \in Seq(Conns) /\ fresh' \subseteq Conns
         /\ conn' \in [Requests -> Conns \cup {NoConn}]
         /\ conn'[r] = NoConn /\ \A q \in Requests \ {r} : conn'[q] = conn[q]
<1> USE TenancyAssumption DEF TenancyTypeOK, Return
<1>1. CASE conn[r] = NoConn
  BY <1>1 DEF OneHolder, Unopened
<1>2. CASE conn[r] # NoConn
  <2>1. conn[r] \in Conns /\ idle' = Append(idle, conn[r])
    BY <1>2
  <2>2. /\ idle' \in Seq(Conns) /\ DOMAIN idle = 1 .. Len(idle) /\ Len(idle) \in Nat
        /\ DOMAIN idle' = 1 .. (Len(idle) + 1) /\ idle'[Len(idle) + 1] = conn[r]
        /\ \A i \in DOMAIN idle : idle'[i] = idle[i]
    BY <2>1, QueueAppend
  <2>3. \A i \in DOMAIN idle' : i \in DOMAIN idle \/ i = Len(idle) + 1
    BY <2>2
  <2>4. \A i \in DOMAIN idle : idle[i] # conn[r]
    BY DEF OneHolder
  <2>5. OneHolder'
    <3>1. \A i, j \in DOMAIN idle' : idle'[i] = idle'[j] => i = j
      BY <2>2, <2>3, <2>4 DEF OneHolder
    <3>2. \A q \in Requests, i \in DOMAIN idle' : conn'[q] # idle'[i]
      BY <1>2, <2>1, <2>2, <2>3 DEF OneHolder
    <3> QED
      BY <3>1, <3>2 DEF OneHolder
  <2>6. Unopened'
    BY <1>2, <2>2, <2>3 DEF Unopened
  <2> QED
    BY <2>2, <2>5, <2>6
<1> QED
  BY <1>1, <1>2

\* The connection of a RESET is taken from the pool and returned to it.
LEMMA ResetPool ==
  ASSUME TenancyTypeOK, OneHolder, Unopened, NEW c \in Conns, conn' = conn,
         IF idle = << >>
         THEN c \in fresh /\ fresh' = fresh \ {c} /\ idle' = <<c>>
         ELSE c = Head(idle) /\ idle' = Append(Tail(idle), c) /\ UNCHANGED fresh
  PROVE  /\ OneHolder' /\ Unopened' /\ \A q \in Requests : conn[q] # c
         /\ idle' \in Seq(Conns) /\ fresh' \subseteq Conns
<1> USE TenancyAssumption DEF TenancyTypeOK
<1>1. CASE idle = << >>
  <2>1. c \in fresh /\ fresh' = fresh \ {c} /\ idle' = <<c>>
    BY <1>1
  <2>2. idle' \in Seq(Conns) /\ DOMAIN idle' = {1} /\ idle'[1] = c
    BY <2>1
  <2>3. \A q \in Requests : conn[q] # c
    BY <2>1 DEF Unopened
  <2>4. OneHolder'
    BY <2>2, <2>3 DEF OneHolder
  <2>5. Unopened'
    BY <2>1, <2>2, <2>3 DEF Unopened
  <2> QED
    BY <2>1, <2>2, <2>3, <2>4, <2>5
<1>2. CASE idle # << >>
  <2> DEFINE rest == Tail(idle)
  <2>1. c = idle[1] /\ 1 \in DOMAIN idle /\ rest \in Seq(Conns) /\ idle' = Append(rest, c) /\ fresh' = fresh
    BY <1>2, QueueTail
  <2>2. \A i \in DOMAIN rest : rest[i] = idle[i + 1] /\ i + 1 \in DOMAIN idle /\ i + 1 # 1 /\ i \in Nat
    BY <1>2, QueueTail
  <2> HIDE DEF rest
  <2>3. /\ idle' \in Seq(Conns) /\ DOMAIN rest = 1 .. Len(rest) /\ Len(rest) \in Nat
        /\ DOMAIN idle' = 1 .. (Len(rest) + 1) /\ idle'[Len(rest) + 1] = c
        /\ \A i \in DOMAIN rest : idle'[i] = rest[i]
    BY <2>1, QueueAppend
  <2>4. \A i \in DOMAIN idle' : i \in DOMAIN rest \/ i = Len(rest) + 1
    BY <2>3
  <2>5. \A i \in DOMAIN rest : rest[i] # c
    BY <2>1, <2>2 DEF OneHolder
  <2>6. \A i, j \in DOMAIN rest : rest[i] = rest[j] => i = j
    BY <2>2 DEF OneHolder
  <2>7. \A q \in Requests : conn[q] # c /\ \A i \in DOMAIN rest : conn[q] # rest[i]
    BY <2>1, <2>2 DEF OneHolder
  <2>8. \A i, j \in DOMAIN idle' : idle'[i] = idle'[j] => i = j
    BY <2>3, <2>4, <2>5, <2>6
  <2>9. \A q \in Requests, i \in DOMAIN idle' : conn'[q] # idle'[i]
    BY <2>3, <2>4, <2>7
  <2>10. OneHolder'
    BY <2>8, <2>9 DEF OneHolder
  <2>11. \A d \in fresh, i \in DOMAIN idle' : idle'[i] # d
    BY <2>1, <2>2, <2>3, <2>4 DEF Unopened
  <2> QED
    BY <2>1, <2>3, <2>7, <2>10, <2>11 DEF Unopened
<1> QED
  BY <1>1, <1>2

-----------------------------------------------------------------------------
(* Settings. *)

LEMMA JobTypes ==
  ASSUME TenancyTypeOK, NEW r \in Requests
  PROVE  job[r] \in Jobs /\ job[r].tenant \in Tenants /\ job[r].slug \in Slugs
BY TenancyAssumption DEF TenancyTypeOK, Jobs

LEMMA ScopedSettings ==
  ASSUME TenancyTypeOK, NEW r \in Requests, NEW f \in Settings
  PROVE  /\ Scoped(r, f) \in Settings /\ Cleared(r, f) \in Settings
         /\ IsTenants(r) => Scoped(r, f).tenant = job[r].tenant
<1>1. job[r].tenant \in Tenants /\ job[r].kind \in Kinds
  BY JobTypes DEF Jobs
<1> QED
  BY <1>1 DEF Scoped, Cleared, Settings, IsAdmin, IsTenants, Kinds

\* What a step that ends a transaction keeps, of the pool and the settings.
LEMMA CommitStep ==
  ASSUME SessionInv, NEW r \in Requests, Commit(r), job' = job
  PROVE  /\ OneHolder' /\ Unopened' /\ OwnTenant'
         /\ idle' \in Seq(Conns) /\ fresh' \subseteq Conns
         /\ conn' \in [Requests -> Conns \cup {NoConn}]
         /\ saved' \in [Conns -> Settings] /\ now' \in [Conns -> Settings]
         /\ commits' \in [Requests -> Nat] /\ commits'[r] # 0
         /\ conn'[r] = NoConn
         /\ \A q \in Requests \ {r} : conn'[q] = conn[q] /\ commits'[q] = commits[q]
<1> USE TenancyAssumption DEF SessionInv
<1>1. Return(r) /\ conn[r] # NoConn
  BY DEF Commit
<1>2. /\ OneHolder' /\ Unopened' /\ idle' \in Seq(Conns) /\ fresh' \subseteq Conns
      /\ conn' \in [Requests -> Conns \cup {NoConn}]
      /\ conn'[r] = NoConn /\ \A q \in Requests \ {r} : conn'[q] = conn[q]
  BY <1>1, ReturnStep
<1>3. conn[r] \in Conns /\ Kept(r, conn[r]) \in Settings
  BY <1>1 DEF Kept, TenancyTypeOK
<1>4. /\ saved' \in [Conns -> Settings] /\ now' \in [Conns -> Settings]
      /\ \A c \in Conns \ {conn[r]} : now'[c] = now[c]
  BY <1>3 DEF Commit, TenancyTypeOK
<1>5. /\ commits' \in [Requests -> Nat] /\ commits'[r] # 0
      /\ \A q \in Requests \ {r} : commits'[q] = commits[q]
  BY DEF Commit, TenancyTypeOK
<1>6. OwnTenant'
  <2> SUFFICES ASSUME NEW q \in Requests, IsTenants(q)', conn'[q] # NoConn, commits'[q] = 0
               PROVE  now'[conn'[q]].tenant = job'[q].tenant
    BY DEF OwnTenant
  <2>1. q # r /\ conn'[q] = conn[q] /\ commits[q] = 0 /\ IsTenants(q)
    BY <1>2, <1>5 DEF IsTenants
  <2>2. conn[q] \in Conns \ {conn[r]}
    BY <2>1 DEF OneHolder, TenancyTypeOK
  <2> QED
    BY <1>4, <2>1, <2>2 DEF OwnTenant
<1> QED
  BY <1>2, <1>4, <1>5, <1>6

LEMMA RollbackStep ==
  ASSUME SessionInv, NEW r \in Requests, Rollback(r), UNCHANGED <<job, commits>>
  PROVE  /\ OneHolder' /\ Unopened' /\ OwnTenant'
         /\ idle' \in Seq(Conns) /\ fresh' \subseteq Conns
         /\ conn' \in [Requests -> Conns \cup {NoConn}]
         /\ now' \in [Conns -> Settings]
         /\ conn'[r] = NoConn /\ \A q \in Requests \ {r} : conn'[q] = conn[q]
<1> USE TenancyAssumption DEF SessionInv
<1>1. Return(r)
  BY DEF Rollback
<1>2. /\ OneHolder' /\ Unopened' /\ idle' \in Seq(Conns) /\ fresh' \subseteq Conns
      /\ conn' \in [Requests -> Conns \cup {NoConn}]
      /\ conn'[r] = NoConn /\ \A q \in Requests \ {r} : conn'[q] = conn[q]
  BY <1>1, ReturnStep
<1>3. now' \in [Conns -> Settings] /\ \A c \in Conns \ {conn[r]} : now'[c] = now[c]
  BY DEF Rollback, TenancyTypeOK
<1>4. OwnTenant'
  <2> SUFFICES ASSUME NEW q \in Requests, IsTenants(q)', conn'[q] # NoConn, commits'[q] = 0
               PROVE  now'[conn'[q]].tenant = job'[q].tenant
    BY DEF OwnTenant
  <2>1. q # r /\ conn'[q] = conn[q] /\ commits[q] = 0 /\ IsTenants(q)
    BY <1>2 DEF IsTenants
  <2>2. conn[q] \in Conns \ {conn[r]}
    BY <2>1 DEF OneHolder, TenancyTypeOK
  <2> QED
    BY <1>3, <2>1, <2>2 DEF OwnTenant
<1> QED
  BY <1>2, <1>3, <1>4

\* So do steps of a session that leave the pool and the settings alone.
LEMMA StillStep ==
  ASSUME SessionInv, UNCHANGED <<job, poolVars, settingVars, conn, commits>>
  PROVE  /\ OneHolder' /\ Unopened' /\ OwnTenant'
         /\ idle' \in Seq(Conns) /\ fresh' \subseteq Conns
         /\ conn' \in [Requests -> Conns \cup {NoConn}]
         /\ saved' \in [Conns -> Settings] /\ now' \in [Conns -> Settings]
         /\ commits' \in [Requests -> Nat]
<1>1. UNCHANGED <<job, idle, fresh, saved, now, conn, commits>>
  BY DEF poolVars, settingVars
<1> QED
  BY <1>1 DEF SessionInv, TenancyTypeOK, OneHolder, Unopened, OwnTenant, IsTenants

-----------------------------------------------------------------------------
(* The types and the settings are kept, action by action. *)

LEMMA InitSession == Init => SessionInv
<1> SUFFICES ASSUME Init PROVE SessionInv
  OBVIOUS
<1>1. idle = << >> /\ DOMAIN idle = {} /\ journal = << >> /\ Len(journal) = 0
  BY DEF Init
<1>2. TenancyTypeOK
  BY <1>1, TenancyAssumption, EmptySeq DEF Init, TenancyTypeOK, Settings, Unscoped, Configs, Places
<1>3. OneHolder /\ Unopened /\ Between /\ OwnTenant
  BY <1>1, TenancyAssumption DEF Init, OneHolder, Unopened, Between, OwnTenant
<1> QED
  BY <1>2, <1>3 DEF SessionInv

\* The tenants' variables keep their types.
TenantsTyped ==
  /\ config \in [Tenants -> Configs] /\ seen \in [Requests -> Configs]
  /\ since \in [Requests -> 0 .. Len(journal)] /\ journal \in Seq(Requests)
  /\ slugOf \in [Slugs -> Requests \cup {Unset}] /\ keyed \subseteq Requests

LEMMA TenantsStep ==
  ASSUME TenancyTypeOK, NEW r \in Requests, Step(r)
  PROVE  TenantsTyped'
<1> USE TenancyAssumption
<1>1. TenantsTyped /\ job[r] \in Jobs /\ job[r].tenant \in Tenants /\ job[r].slug \in Slugs
  BY JobTypes DEF TenancyTypeOK, TenantsTyped
<1>2. CASE UNCHANGED tenantVars
  BY <1>1, <1>2 DEF tenantVars, TenantsTyped
<1>3. CASE ReadConfig(r)
  <2>1. Len(journal) \in Nat
    BY <1>1, LenProperties DEF TenantsTyped
  <2> QED
    BY <1>1, <1>3, <2>1 DEF ReadConfig, TenantsTyped
<1>4. CASE WriteConfig(r)
  <2>1. /\ journal' = Append(journal, r) /\ config' = [config EXCEPT ![job[r].tenant] = Merged(r)]
        /\ UNCHANGED <<seen, since, slugOf, keyed>>
    BY <1>4 DEF WriteConfig
  <2>2. Merged(r) \in Configs
    BY <1>1 DEF Merged, Configs, TenantsTyped
  <2>3. journal' \in Seq(Requests) /\ Len(journal) \in Nat /\ Len(journal') = Len(journal) + 1
    BY <1>1, <2>1, QueueAppend DEF TenantsTyped
  <2>4. since' \in [Requests -> 0 .. Len(journal')]
    BY <1>1, <2>1, <2>3 DEF TenantsTyped
  <2> QED
    BY <1>1, <2>1, <2>2, <2>3, <2>4 DEF TenantsTyped
<1>5. CASE Create(r)
  BY <1>1, <1>5 DEF Create, TenantsTyped
<1> QED
  BY <1>2, <1>3, <1>4, <1>5
     DEF Step, Open, Exit, Reset, ResetFails, Read, WorkCommit, WorkFails, WorkMore, AdminCommit,
         Resolve, FindSlug, CreateFails

\* Types, from those of their parts.
LEMMA TypesTogether ==
  ASSUME TenancyTypeOK, TenantsTyped', job' = job,
         idle' \in Seq(Conns), fresh' \subseteq Conns, conn' \in [Requests -> Conns \cup {NoConn}],
         saved' \in [Conns -> Settings], now' \in [Conns -> Settings], commits' \in [Requests -> Nat],
         NEW r \in Requests, NEW place \in Places, pc' = [pc EXCEPT ![r] = place]
  PROVE  TenancyTypeOK'
BY DEF TenancyTypeOK, TenantsTyped

\* Where a step may leave the session it is of.
LEMMA BetweenStep ==
  ASSUME SessionInv, conn' \in [Requests -> Conns \cup {NoConn}],
         NEW r \in Requests, NEW place \in Places, pc' = [pc EXCEPT ![r] = place],
         \A q \in Requests \ {r} : conn'[q] = conn[q] /\ commits'[q] = commits[q],
         place \in {"start", "more", "reset", "done"} => conn'[r] = NoConn,
         place = "more" => commits'[r] # 0
  PROVE  Between'
<1> SUFFICES ASSUME NEW q \in Requests
             PROVE  /\ pc'[q] \in {"start", "more", "reset", "done"} => conn'[q] = NoConn
                    /\ pc'[q] = "more" => commits'[q] # 0
  BY DEF Between
<1>1. CASE q = r
  BY <1>1 DEF SessionInv, TenancyTypeOK
<1>2. CASE q # r
  BY <1>2 DEF SessionInv, TenancyTypeOK, Between
<1> QED
  BY <1>1, <1>2

LEMMA OpenSession ==
  ASSUME SessionInv, NEW r \in Requests, Open(r) \/ WorkMore(r)
  PROVE  SessionInv'
<1> USE TenancyAssumption
<1>1. conn[r] = NoConn /\ TenantsTyped' /\ TenancyTypeOK
  BY TenantsStep DEF Open, WorkMore, SessionInv, Between, Step
<1>2. PICK c \in Conns : Checkout(c) /\ conn' = [conn EXCEPT ![r] = c]
                         /\ (Open(r) => now' = [now EXCEPT ![c] = Scoped(r, @)])
  BY DEF Open, WorkMore
<1>3. /\ OneHolder' /\ Unopened' /\ \A q \in Requests : conn[q] # c
      /\ idle' \in Seq(Conns) /\ fresh' \subseteq Conns
      /\ conn' \in [Requests -> Conns \cup {NoConn}]
  BY <1>1, <1>2, CheckoutStep DEF SessionInv
<1>4. /\ pc' = [pc EXCEPT ![r] = "open"] /\ job' = job /\ commits' = commits /\ saved' = saved
      /\ WorkMore(r) => now' = now /\ pc[r] = "more"
  BY DEF Open, WorkMore, Goes, settingVars
<1>5. now' \in [Conns -> Settings] /\ \A d \in Conns \ {c} : now'[d] = now[d]
  <2>1. CASE Open(r)
    <3>1. now' = [now EXCEPT ![c] = Scoped(r, now[c])] /\ now \in [Conns -> Settings]
      BY <1>1, <1>2, <2>1 DEF TenancyTypeOK
    <3>2. Scoped(r, now[c]) \in Settings
      BY <1>1, <3>1, ScopedSettings
    <3> QED
      BY <3>1, <3>2
  <2>2. CASE WorkMore(r)
    BY <1>1, <1>4, <2>2 DEF TenancyTypeOK
  <2> QED
    BY <2>1, <2>2
<1>6. OwnTenant'
  <2> SUFFICES ASSUME NEW q \in Requests, IsTenants(q)', conn'[q] # NoConn, commits'[q] = 0
               PROVE  now'[conn'[q]].tenant = job'[q].tenant
    BY DEF OwnTenant
  <2>1. CASE q # r
    <3>1. conn'[q] = conn[q] /\ conn[q] \in Conns \ {c} /\ IsTenants(q) /\ commits[q] = 0
      BY <1>1, <1>2, <1>3, <1>4, <2>1 DEF TenancyTypeOK, IsTenants
    <3> QED
      BY <1>4, <1>5, <3>1 DEF SessionInv, OwnTenant
  <2>2. CASE q = r
    <3>1. Open(r)
      BY <1>4, <2>2 DEF SessionInv, Between
    <3>2. conn'[r] = c /\ now'[c] = Scoped(r, now[c]) /\ now[c] \in Settings
      BY <1>1, <1>2, <3>1 DEF TenancyTypeOK
    <3>3. IsTenants(r)
      BY <1>4, <2>2 DEF IsTenants
    <3> QED
      BY <1>1, <1>4, <2>2, <3>2, <3>3, ScopedSettings
  <2> QED
    BY <2>1, <2>2
<1>7. TenancyTypeOK'
  BY <1>1, <1>3, <1>4, <1>5, TypesTogether DEF TenancyTypeOK, Places
<1>8. Between'
  <2>1. \A q \in Requests \ {r} : conn'[q] = conn[q] /\ commits'[q] = commits[q]
    BY <1>1, <1>2, <1>4 DEF TenancyTypeOK
  <2> QED
    BY <1>3, <1>4, <2>1, BetweenStep DEF Places
<1> QED
  BY <1>3, <1>6, <1>7, <1>8 DEF SessionInv

LEMMA ResetSession ==
  ASSUME SessionInv, NEW r \in Requests, Reset(r)
  PROVE  SessionInv'
<1> USE TenancyAssumption
<1>1. conn[r] = NoConn /\ TenantsTyped' /\ TenancyTypeOK
  BY TenantsStep DEF Reset, SessionInv, Between, Step
<1>2. PICK c \in Conns :
        /\ IF idle = << >>
           THEN c \in fresh /\ fresh' = fresh \ {c} /\ idle' = <<c>>
           ELSE c = Head(idle) /\ idle' = Append(Tail(idle), c) /\ UNCHANGED fresh
        /\ saved' = [saved EXCEPT ![c] = Cleared(r, @)]
        /\ now' = [now EXCEPT ![c] = Cleared(r, saved[c])]
  BY DEF Reset
<1>3. pc' = [pc EXCEPT ![r] = "done"] /\ UNCHANGED <<job, conn, commits>>
  BY DEF Reset, Goes
<1>4. /\ OneHolder' /\ Unopened' /\ \A q \in Requests : conn[q] # c
      /\ idle' \in Seq(Conns) /\ fresh' \subseteq Conns
  BY <1>1, <1>2, <1>3, ResetPool DEF SessionInv
<1>5. saved[c] \in Settings /\ Cleared(r, saved[c]) \in Settings
  BY <1>1, ScopedSettings DEF TenancyTypeOK
<1>6. /\ saved' \in [Conns -> Settings] /\ now' \in [Conns -> Settings]
      /\ \A d \in Conns \ {c} : now'[d] = now[d]
  BY <1>1, <1>2, <1>5 DEF TenancyTypeOK
<1>7. OwnTenant'
  <2> SUFFICES ASSUME NEW q \in Requests, IsTenants(q)', conn'[q] # NoConn, commits'[q] = 0
               PROVE  now'[conn'[q]].tenant = job'[q].tenant
    BY DEF OwnTenant
  <2>1. conn'[q] = conn[q] /\ conn[q] \in Conns \ {c} /\ IsTenants(q) /\ commits[q] = 0
    BY <1>1, <1>3, <1>4 DEF TenancyTypeOK, IsTenants
  <2> QED
    BY <1>3, <1>6, <2>1 DEF SessionInv, OwnTenant
<1>8. TenancyTypeOK'
  BY <1>1, <1>3, <1>4, <1>6, TypesTogether DEF TenancyTypeOK, Places
<1>9. Between'
  BY <1>1, <1>3, BetweenStep DEF TenancyTypeOK, Places
<1> QED
  BY <1>4, <1>7, <1>8, <1>9 DEF SessionInv

\* The steps that commit.
LEMMA CommitSession ==
  ASSUME SessionInv, NEW r \in Requests,
         WorkCommit(r) \/ AdminCommit(r) \/ Resolve(r) \/ WriteConfig(r) \/ Create(r)
  PROVE  SessionInv'
<1>1. Commit(r) /\ job' = job /\ \E place \in {"more", "exit", "done"} : pc' = [pc EXCEPT ![r] = place]
  BY DEF WorkCommit, AdminCommit, Resolve, WriteConfig, Create, Goes
<1>2. PICK place \in {"more", "exit", "done"} : pc' = [pc EXCEPT ![r] = place]
  BY <1>1
<1>3. /\ OneHolder' /\ Unopened' /\ OwnTenant'
      /\ idle' \in Seq(Conns) /\ fresh' \subseteq Conns
      /\ conn' \in [Requests -> Conns \cup {NoConn}]
      /\ saved' \in [Conns -> Settings] /\ now' \in [Conns -> Settings]
      /\ commits' \in [Requests -> Nat] /\ commits'[r] # 0
      /\ conn'[r] = NoConn
      /\ \A q \in Requests \ {r} : conn'[q] = conn[q] /\ commits'[q] = commits[q]
  BY <1>1, CommitStep
<1>4. TenantsTyped' /\ TenancyTypeOK
  BY TenantsStep DEF SessionInv, Step
<1>5. TenancyTypeOK'
  BY <1>1, <1>2, <1>3, <1>4, TypesTogether DEF Places
<1>6. Between'
  BY <1>2, <1>3, BetweenStep DEF Places
<1> QED
  BY <1>3, <1>5, <1>6 DEF SessionInv

LEMMA RollbackSession ==
  ASSUME SessionInv, NEW r \in Requests, Exit(r) \/ CreateFails(r)
  PROVE  SessionInv'
<1>1. Rollback(r) /\ UNCHANGED <<job, commits, saved>> /\ pc' = [pc EXCEPT ![r] = "reset"]
  BY DEF Exit, CreateFails, Goes
<1>2. /\ OneHolder' /\ Unopened' /\ OwnTenant'
      /\ idle' \in Seq(Conns) /\ fresh' \subseteq Conns
      /\ conn' \in [Requests -> Conns \cup {NoConn}]
      /\ now' \in [Conns -> Settings]
      /\ conn'[r] = NoConn /\ \A q \in Requests \ {r} : conn'[q] = conn[q]
  BY <1>1, RollbackStep
<1>3. TenantsTyped' /\ TenancyTypeOK
  BY TenantsStep DEF SessionInv, Step
<1>4. saved' \in [Conns -> Settings] /\ commits' \in [Requests -> Nat]
  BY <1>1, <1>3 DEF TenancyTypeOK
<1>5. TenancyTypeOK'
  BY <1>1, <1>2, <1>3, <1>4, TypesTogether DEF Places
<1>6. Between'
  BY <1>1, <1>2, BetweenStep DEF Places
<1> QED
  BY <1>2, <1>5, <1>6 DEF SessionInv

\* The steps that neither take nor return a connection.
LEMMA StillSession ==
  ASSUME SessionInv, NEW r \in Requests,
         ResetFails(r) \/ Read(r) \/ WorkFails(r) \/ FindSlug(r) \/ ReadConfig(r)
  PROVE  SessionInv'
<1>1. /\ UNCHANGED <<job, poolVars, settingVars, conn, commits>>
      /\ \/ pc[r] = "reset" /\ pc' = [pc EXCEPT ![r] = "done"]
         \/ \E place \in {"began", "exit"} : pc' = [pc EXCEPT ![r] = place]
  BY DEF ResetFails, Read, WorkFails, FindSlug, ReadConfig, Goes
<1>2. PICK place \in {"began", "exit", "done"} :
        pc' = [pc EXCEPT ![r] = place] /\ (place = "done" => pc[r] = "reset")
  BY <1>1
<1>3. /\ OneHolder' /\ Unopened' /\ OwnTenant'
      /\ idle' \in Seq(Conns) /\ fresh' \subseteq Conns
      /\ conn' \in [Requests -> Conns \cup {NoConn}]
      /\ saved' \in [Conns -> Settings] /\ now' \in [Conns -> Settings]
      /\ commits' \in [Requests -> Nat]
  BY <1>1, StillStep
<1>4. TenantsTyped' /\ TenancyTypeOK
  BY TenantsStep DEF SessionInv, Step
<1>5. TenancyTypeOK'
  BY <1>1, <1>2, <1>3, <1>4, TypesTogether DEF Places
<1>6. place = "done" => conn'[r] = NoConn
  BY <1>1, <1>2 DEF SessionInv, Between
<1>7. Between'
  BY <1>1, <1>2, <1>3, <1>6, BetweenStep DEF Places
<1> QED
  BY <1>3, <1>5, <1>7 DEF SessionInv

LEMMA NextSession ==
  ASSUME SessionInv, [Next]_vars
  PROVE  SessionInv'
<1>1. CASE Next
  <2>1. PICK r \in Requests : Step(r)
    BY <1>1 DEF Next
  <2> QED
    BY <2>1, OpenSession, ResetSession, CommitSession, RollbackSession, StillSession DEF Step
<1>2. CASE UNCHANGED vars
  <2>1. UNCHANGED <<job, idle, fresh, saved, now, conn, pc, commits, config, seen, since, journal,
                    slugOf, keyed>>
    BY <1>2 DEF vars, poolVars, settingVars, sessionVars, tenantVars
  <2> QED
    BY <2>1 DEF SessionInv, TenancyTypeOK, OneHolder, Unopened, Between, OwnTenant, IsTenants
<1> QED
  BY <1>1, <1>2

THEOREM SessionsHold == Spec => []SessionInv
<1> QED
  BY InitSession, NextSession, PTL DEF Spec

\* The types of the model, and that the pool's queue stays one.
THEOREM TenancyTypeCorrect == Spec => []TenancyTypeOK
<1>1. SessionInv => TenancyTypeOK
  BY DEF SessionInv
<1> QED
  BY <1>1, SessionsHold, PTL

-----------------------------------------------------------------------------
(* The bypass. *)

LEMMA LeftStays ==
  ASSUME SessionInv, Left, job' = job, NEW r \in Requests, commits' = [commits EXCEPT ![r] = @ + 1]
  PROVE  Left'
<1>1. PICK a \in Requests : Bypasses(a) /\ commits[a] > 0
  BY DEF Left
<1>2. commits'[a] > 0
  BY <1>1 DEF SessionInv, TenancyTypeOK
<1> QED
  BY <1>1, <1>2 DEF Left, Bypasses, IsAdmin

\* An administrative session that commits is who leaves it.
LEMMA LeftByCommit ==
  ASSUME SessionInv, NEW r \in Requests, Bypasses(r), job' = job,
         commits' = [commits EXCEPT ![r] = @ + 1]
  PROVE  Left'
<1>1. commits'[r] > 0
  BY DEF SessionInv, TenancyTypeOK
<1> QED
  BY <1>1 DEF Left, Bypasses, IsAdmin

LEMMA OpenBypass ==
  ASSUME SessionInv, BypassInv, NEW r \in Requests, Open(r) \/ WorkMore(r)
  PROVE  BypassInv'
<1> USE TenancyAssumption DEF SessionInv, TenancyTypeOK
<1>1. conn[r] = NoConn /\ UNCHANGED <<job, commits, saved>>
  BY DEF Open, WorkMore, Goes, settingVars, Between
<1>2. PICK c \in Conns : conn' = [conn EXCEPT ![r] = c] /\
        (now' = now \/ now' = [now EXCEPT ![c] = Scoped(r, @)])
  BY DEF Open, WorkMore, settingVars
<1>3. Left' <=> Left
  BY <1>1 DEF Left, Bypasses, IsAdmin
<1>4. \A d \in Conns : saved'[d].bypass => Left'
  BY <1>1, <1>3 DEF BypassInv
<1>5. ASSUME NEW d \in Conns, now'[d].bypass, ~Left'
      PROVE  \E q \in Requests : conn'[q] = d /\ IsAdmin(q)'
  <2>1. CASE now[d].bypass
    <3>1. PICK q \in Requests : conn[q] = d /\ IsAdmin(q)
      BY <1>3, <1>5, <2>1 DEF BypassInv
    <3>2. q # r
      BY <1>1, <3>1
    <3> QED
      BY <1>1, <1>2, <3>1, <3>2 DEF IsAdmin
  <2>2. CASE ~now[d].bypass
    <3>1. d = c /\ now'[c] = Scoped(r, now[c])
      BY <1>2, <1>5, <2>2
    <3>2. IsAdmin(r)
      <4>1. now[c] \in Settings
        OBVIOUS
      <4> QED
        BY <1>5, <2>2, <3>1, <4>1 DEF Scoped, Settings
    <3> QED
      BY <1>1, <1>2, <3>1, <3>2 DEF IsAdmin
  <2> QED
    BY <2>1, <2>2
<1> QED
  BY <1>4, <1>5 DEF BypassInv

LEMMA ResetBypass ==
  ASSUME SessionInv, BypassInv, NEW r \in Requests, Reset(r)
  PROVE  BypassInv'
<1> USE TenancyAssumption DEF SessionInv, TenancyTypeOK
<1>1. UNCHANGED <<job, commits, conn>>
  BY DEF Reset, Goes
<1>2. PICK c \in Conns : /\ saved' = [saved EXCEPT ![c] = Cleared(r, @)]
                         /\ now' = [now EXCEPT ![c] = Cleared(r, saved[c])]
  BY DEF Reset
<1>3. Left' <=> Left
  BY <1>1 DEF Left, Bypasses, IsAdmin
<1>4. Cleared(r, saved[c]).bypass => saved[c].bypass
  <2>1. saved[c] \in Settings
    OBVIOUS
  <2> QED
    BY <2>1 DEF Cleared, Settings
<1>5. \A d \in Conns : saved'[d].bypass => Left'
  BY <1>2, <1>3, <1>4 DEF BypassInv
<1>6. ASSUME NEW d \in Conns, now'[d].bypass
      PROVE  Left' \/ \E q \in Requests : conn'[q] = d /\ IsAdmin(q)'
  <2>1. CASE d = c
    BY <1>2, <1>3, <1>4, <1>6, <2>1 DEF BypassInv
  <2>2. CASE d # c
    BY <1>1, <1>2, <1>3, <1>6, <2>2 DEF BypassInv, IsAdmin
  <2> QED
    BY <2>1, <2>2
<1> QED
  BY <1>5, <1>6 DEF BypassInv

LEMMA CommitBypass ==
  ASSUME SessionInv, BypassInv, NEW r \in Requests, Commit(r), job' = job
  PROVE  BypassInv'
<1> USE TenancyAssumption DEF SessionInv, TenancyTypeOK
<1>1. /\ conn[r] \in Conns /\ conn' = [conn EXCEPT ![r] = NoConn]
      /\ commits' = [commits EXCEPT ![r] = @ + 1]
      /\ saved' = [saved EXCEPT ![conn[r]] = Kept(r, conn[r])]
      /\ now' = [now EXCEPT ![conn[r]] = Kept(r, conn[r])]
  BY DEF Commit, Return
<1>2. Left => Left'
  BY <1>1, LeftStays
<1>3. Kept(r, conn[r]).bypass => Left'
  <2>1. CASE job[r].kind = "resolve"
    BY <1>1, <1>2, <2>1 DEF Kept, BypassInv
  <2>2. CASE job[r].kind # "resolve" /\ IsAdmin(r)
    BY <1>1, <2>2, LeftByCommit DEF Bypasses
  <2>3. CASE job[r].kind # "resolve" /\ ~IsAdmin(r)
    <3>1. ~\E q \in Requests : conn[q] = conn[r] /\ IsAdmin(q)
      BY <1>1, <2>3 DEF OneHolder
    <3> QED
      BY <1>1, <1>2, <2>3, <3>1 DEF Kept, BypassInv
  <2> QED
    BY <2>1, <2>2, <2>3
<1>4. \A d \in Conns : saved'[d].bypass => Left'
  BY <1>1, <1>2, <1>3 DEF BypassInv
<1>5. ASSUME NEW d \in Conns, now'[d].bypass
      PROVE  Left' \/ \E q \in Requests : conn'[q] = d /\ IsAdmin(q)'
  <2>1. CASE d = conn[r]
    BY <1>1, <1>3, <1>5, <2>1
  <2>2. CASE d # conn[r]
    <3>1. now[d].bypass
      BY <1>1, <1>5, <2>2
    <3>2. Left \/ \E q \in Requests : conn[q] = d /\ IsAdmin(q)
      BY <3>1 DEF BypassInv
    <3>3. \A q \in Requests : conn[q] = d => conn'[q] = d
      BY <1>1, <2>2
    <3> QED
      BY <1>2, <3>2, <3>3 DEF IsAdmin
  <2> QED
    BY <2>1, <2>2
<1> QED
  BY <1>4, <1>5 DEF BypassInv

\* A connection that is rolled back has what it was left with.
LEMMA RollbackBypass ==
  ASSUME SessionInv, BypassInv, NEW r \in Requests, Rollback(r), UNCHANGED <<job, commits, saved>>
  PROVE  BypassInv'
<1> USE TenancyAssumption DEF SessionInv, TenancyTypeOK
<1>1. /\ conn' = [conn EXCEPT ![r] = NoConn]
      /\ now' = IF conn[r] = NoConn THEN now ELSE [now EXCEPT ![conn[r]] = saved[conn[r]]]
  BY DEF Rollback, Return
<1>2. Left' <=> Left
  BY DEF Left, Bypasses, IsAdmin
<1>3. ASSUME NEW d \in Conns, now'[d].bypass
      PROVE  Left' \/ \E q \in Requests : conn'[q] = d /\ IsAdmin(q)'
  <2>1. CASE d = conn[r]
    BY <1>1, <1>2, <1>3, <2>1 DEF BypassInv
  <2>2. CASE d # conn[r]
    <3>1. now[d].bypass
      BY <1>1, <1>3, <2>2
    <3>2. Left \/ \E q \in Requests : conn[q] = d /\ IsAdmin(q)
      BY <3>1 DEF BypassInv
    <3>3. \A q \in Requests : conn[q] = d => conn'[q] = d
      BY <1>1, <2>2
    <3> QED
      BY <1>2, <3>2, <3>3 DEF IsAdmin
  <2> QED
    BY <2>1, <2>2
<1> QED
  BY <1>2, <1>3 DEF BypassInv

LEMMA StillBypass ==
  ASSUME BypassInv, UNCHANGED <<job, saved, now, conn, commits>>
  PROVE  BypassInv'
BY DEF BypassInv, Left, Bypasses, IsAdmin

LEMMA NextBypass ==
  ASSUME SessionInv, BypassInv, [Next]_vars
  PROVE  BypassInv'
<1>1. CASE Next
  <2>1. PICK r \in Requests : Step(r)
    BY <1>1 DEF Next
  <2>2. CASE Open(r) \/ WorkMore(r)
    BY <2>2, OpenBypass
  <2>3. CASE Reset(r)
    BY <2>3, ResetBypass
  <2>4. CASE WorkCommit(r) \/ AdminCommit(r) \/ Resolve(r) \/ WriteConfig(r) \/ Create(r)
    <3>1. Commit(r) /\ job' = job
      BY <2>4 DEF WorkCommit, AdminCommit, Resolve, WriteConfig, Create, Goes
    <3> QED
      BY <3>1, CommitBypass
  <2>5. CASE Exit(r) \/ CreateFails(r)
    <3>1. Rollback(r) /\ UNCHANGED <<job, commits, saved>>
      BY <2>5 DEF Exit, CreateFails, Goes
    <3> QED
      BY <3>1, RollbackBypass
  <2>6. CASE ResetFails(r) \/ Read(r) \/ WorkFails(r) \/ FindSlug(r) \/ ReadConfig(r)
    <3>1. UNCHANGED <<job, saved, now, conn, commits>>
      BY <2>6 DEF ResetFails, Read, WorkFails, FindSlug, ReadConfig, Goes, settingVars
    <3> QED
      BY <3>1, StillBypass
  <2> QED
    BY <2>1, <2>2, <2>3, <2>4, <2>5, <2>6 DEF Step
<1>2. CASE UNCHANGED vars
  BY <1>2, StillBypass DEF vars, settingVars, sessionVars
<1> QED
  BY <1>1, <1>2

LEMMA InitBypass == Init => BypassInv
BY DEF Init, BypassInv, Unscoped

\* The connections of the pool are never shared (OneHolder): until its first
\* commit no session works under the tenant of another, nor under a bypass that
\* no administrative session has committed.
THEOREM OwnCorrect == Spec => [](OneHolder /\ OwnUntilCommit)
<1>1. ASSUME SessionInv, BypassInv
      PROVE  OneHolder /\ OwnUntilCommit
  <2> SUFFICES ASSUME NEW r \in Requests, IsTenants(r), conn[r] # NoConn, commits[r] = 0
               PROVE  /\ now[conn[r]].tenant = job[r].tenant
                      /\ now[conn[r]].bypass => Left
    BY <1>1 DEF OwnUntilCommit, SessionInv, Left
  <2>1. now[conn[r]].tenant = job[r].tenant
    BY <1>1 DEF SessionInv, OwnTenant
  <2>2. conn[r] \in Conns /\ ~IsAdmin(r)
    BY <1>1 DEF SessionInv, TenancyTypeOK, IsAdmin, IsTenants
  <2>3. ~\E q \in Requests : conn[q] = conn[r] /\ IsAdmin(q)
    BY <1>1, <2>2 DEF SessionInv, OneHolder
  <2> QED
    BY <1>1, <2>1, <2>2, <2>3 DEF BypassInv
<1> QED
  BY <1>1, InitBypass, NextBypass, InitSession, NextSession, PTL DEF Spec

-----------------------------------------------------------------------------
(* Updates of configurations. *)

\* A step other than the two of an update, of a request that stays ended.
LEMMA ConfigStill ==
  ASSUME TenancyTypeOK, ConfigInv, NEW r \in Requests, NEW place,
         UNCHANGED <<job, config, seen, since, journal>>, pc' = [pc EXCEPT ![r] = place],
         pc[r] \in Ended => place \in Ended, place = "began" => ~Updates(r)
  PROVE  ConfigInv'
<1>1. \A q \in Requests \ {r} : pc'[q] = pc[q]
  BY DEF TenancyTypeOK
<1>2. pc'[r] = place
  BY DEF TenancyTypeOK
<1>3. \A i \in DOMAIN journal : journal[i] \in Requests
  BY LenProperties, ElementOfSeq DEF TenancyTypeOK
<1>4. \A i \in DOMAIN journal' : pc'[journal'[i]] \in Ended
  BY <1>1, <1>2, <1>3 DEF ConfigInv
<1>5. \A t \in Tenants, k \in Keys : LastWrites(t, k, config[t][k], Len(journal))'
  BY DEF ConfigInv, LastWrites
<1>6. ASSUME NEW q \in Requests, pc'[q] = "began", Updates(q)', NEW k \in Keys
      PROVE  LastWrites(job[q].tenant, k, seen[q][k], since[q])'
  <2>1. pc[q] = "began" /\ Updates(q)
    BY <1>1, <1>2, <1>6 DEF Updates
  <2> QED
    BY <1>6, <2>1 DEF ConfigInv, LastWrites
<1> QED
  BY <1>4, <1>5, <1>6 DEF ConfigInv

LEMMA ConfigRead ==
  ASSUME TenancyTypeOK, ConfigInv, NEW r \in Requests, ReadConfig(r)
  PROVE  ConfigInv'
<1>1. /\ pc[r] = "open" /\ UNCHANGED <<job, config, journal>>
      /\ seen' = [seen EXCEPT ![r] = config[job[r].tenant]]
      /\ since' = [since EXCEPT ![r] = Len(journal)]
      /\ \A q \in Requests \ {r} : pc'[q] = pc[q]
  BY DEF ReadConfig, Goes, TenancyTypeOK
<1>2. \A i \in DOMAIN journal : journal[i] \in Requests /\ journal[i] # r
  <2>1. \A i \in DOMAIN journal : journal[i] \in Requests
    BY LenProperties, ElementOfSeq DEF TenancyTypeOK
  <2> QED
    BY <1>1, <2>1 DEF ConfigInv, Ended
<1>3. Len(journal) \in Nat /\ DOMAIN journal = 1 .. Len(journal)
  BY LenProperties DEF TenancyTypeOK
<1>4. \A i \in 1 .. Len(journal) : since'[journal[i]] = since[journal[i]]
  BY <1>1, <1>2, <1>3 DEF TenancyTypeOK
<1>5. \A i \in DOMAIN journal' : pc'[journal'[i]] \in Ended
  BY <1>1, <1>2 DEF ConfigInv
<1>6. ASSUME NEW t \in Tenants, NEW k \in Keys
      PROVE  LastWrites(t, k, config[t][k], Len(journal))'
  BY <1>1, <1>3, <1>4 DEF ConfigInv, LastWrites
<1>7. ASSUME NEW q \in Requests, pc'[q] = "began", Updates(q)', NEW k \in Keys
      PROVE  LastWrites(job[q].tenant, k, seen[q][k], since[q])'
  <2>1. job[q].tenant \in Tenants
    BY JobTypes
  <2>2. CASE q = r
    <3>1. seen'[q] = config[job[q].tenant] /\ since'[q] = Len(journal) /\ job' = job
      BY <1>1, <2>2 DEF TenancyTypeOK
    <3>2. LastWrites(job[q].tenant, k, config[job[q].tenant][k], Len(journal))
      BY <2>1 DEF ConfigInv
    <3> QED
      BY <1>1, <1>3, <1>4, <3>1, <3>2 DEF LastWrites
  <2>3. CASE q # r
    <3>1. /\ pc[q] = "began" /\ Updates(q) /\ seen'[q] = seen[q] /\ since'[q] = since[q]
          /\ since[q] \in 0 .. Len(journal)
      BY <1>1, <1>7, <2>3 DEF TenancyTypeOK, Updates
    <3>2. LastWrites(job[q].tenant, k, seen[q][k], since[q])
      BY <3>1 DEF ConfigInv
    <3>3. \A i \in 1 .. since[q] : since'[journal[i]] = since[journal[i]]
      BY <1>3, <1>4, <3>1
    <3> QED
      BY <1>1, <3>1, <3>2, <3>3 DEF LastWrites
  <2> QED
    BY <2>2, <2>3
<1> QED
  BY <1>5, <1>6, <1>7 DEF ConfigInv

\* A key an update does not set is written as it was read: updates since are lost
\* to this one, which had not seen them.
LEMMA ConfigWritten ==
  ASSUME TenancyTypeOK, ConfigInv, NEW r \in Requests, WriteConfig(r)
  PROVE  ConfigInv'
<1>1. /\ pc[r] = "began" /\ Updates(r) /\ UNCHANGED <<job, seen, since>>
      /\ config' = [config EXCEPT ![job[r].tenant] = Merged(r)]
      /\ journal' = Append(journal, r) /\ pc' = [pc EXCEPT ![r] = "exit"]
  BY DEF WriteConfig, Goes, Updates
<1>2. /\ Len(journal) \in Nat /\ DOMAIN journal = 1 .. Len(journal)
      /\ DOMAIN journal' = 1 .. (Len(journal) + 1) /\ Len(journal') = Len(journal) + 1
      /\ journal'[Len(journal) + 1] = r
      /\ \A i \in 1 .. Len(journal) : journal'[i] = journal[i]
  BY <1>1, QueueAppend DEF TenancyTypeOK
<1>3. \A i \in 1 .. Len(journal) : journal[i] \in Requests
  BY <1>2, LenProperties, ElementOfSeq DEF TenancyTypeOK
<1>4. \A i \in DOMAIN journal' : pc'[journal'[i]] \in Ended
  BY <1>1, <1>2, <1>3 DEF ConfigInv, Ended, TenancyTypeOK
<1>5. since[r] \in 0 .. Len(journal) /\ job[r].tenant \in Tenants
  BY JobTypes DEF TenancyTypeOK
<1>6. ASSUME NEW t \in Tenants, NEW k \in Keys
      PROVE  LastWrites(t, k, config[t][k], Len(journal))'
  <2> SUFFICES ASSUME NEW i \in 1 .. Len(journal) + 1,
                      job[journal'[i]].tenant = t, k \in job[journal'[i]].keys
               PROVE  \/ config'[t][k] = journal'[i]
                      \/ \E j \in i + 1 .. Len(journal) + 1 :
                           /\ job[journal'[j]].tenant = t
                           /\ k \in job[journal'[j]].keys \/ since[journal'[j]] < i
    BY <1>1, <1>2 DEF LastWrites
  <2>1. CASE t # job[r].tenant
    <3>1. config'[t] = config[t] /\ i \in 1 .. Len(journal)
      BY <1>1, <1>2, <2>1 DEF TenancyTypeOK
    <3>2. \/ config[t][k] = journal[i]
          \/ \E j \in i + 1 .. Len(journal) :
               /\ job[journal[j]].tenant = t
               /\ k \in job[journal[j]].keys \/ since[journal[j]] < i
      BY <1>2, <3>1 DEF ConfigInv, LastWrites
    <3> QED
      BY <1>2, <3>1, <3>2
  <2>2. CASE t = job[r].tenant /\ k \in job[r].keys
    <3>1. config'[t][k] = r
      BY <1>1, <1>5, <2>2 DEF TenancyTypeOK, Merged
    <3> QED
      BY <1>2, <2>2, <3>1
  <2>3. CASE t = job[r].tenant /\ k \notin job[r].keys
    <3>1. config'[t][k] = seen[r][k] /\ i \in 1 .. Len(journal)
      BY <1>1, <1>2, <1>5, <2>3 DEF TenancyTypeOK, Merged
    <3>2. CASE since[r] < i
      BY <1>2, <2>3, <3>1, <3>2
    <3>3. CASE i \in 1 .. since[r]
      <4>1. LastWrites(t, k, seen[r][k], since[r])
        BY <1>1, <2>3 DEF ConfigInv
      <4>2. \/ seen[r][k] = journal[i]
            \/ \E j \in i + 1 .. since[r] :
                 /\ job[journal[j]].tenant = t
                 /\ k \in job[journal[j]].keys \/ since[journal[j]] < i
        BY <1>2, <3>1, <3>3, <4>1 DEF LastWrites
      <4> QED
        BY <1>2, <1>5, <3>1, <4>2
    <3> QED
      BY <1>2, <1>5, <3>1, <3>2, <3>3
  <2> QED
    BY <2>1, <2>2, <2>3
<1>7. ASSUME NEW q \in Requests, pc'[q] = "began", Updates(q)', NEW k \in Keys
      PROVE  LastWrites(job[q].tenant, k, seen[q][k], since[q])'
  <2>1. pc[q] = "began" /\ Updates(q)
    <3>1. pc'[r] = "exit" /\ \A p \in Requests \ {r} : pc'[p] = pc[p]
      BY <1>1 DEF TenancyTypeOK
    <3> QED
      BY <1>1, <1>7, <3>1 DEF Updates
  <2>2. LastWrites(job[q].tenant, k, seen[q][k], since[q]) /\ since[q] \in 0 .. Len(journal)
    BY <2>1 DEF ConfigInv, TenancyTypeOK
  <2>3. \A i \in 1 .. since[q] : journal'[i] = journal[i]
    BY <1>2, <2>2
  <2>4. job' = job /\ since' = since /\ seen' = seen /\ since[q] \in Nat
    BY <1>1, <1>2, <2>2
  <2> QED
    BY <2>2, <2>3, <2>4 DEF LastWrites
<1> QED
  BY <1>4, <1>6, <1>7 DEF ConfigInv

LEMMA ConfigKept ==
  ASSUME TenancyTypeOK, ConfigInv, [Next]_vars
  PROVE  ConfigInv'
<1>1. ASSUME NEW r \in Requests, Step(r)
      PROVE  ConfigInv'
  <2>1. CASE ReadConfig(r)
    BY <2>1, ConfigRead
  <2>2. CASE WriteConfig(r)
    BY <2>2, ConfigWritten
  <2>3. CASE ~ReadConfig(r) /\ ~WriteConfig(r)
    <3>1. /\ UNCHANGED <<job, config, seen, since, journal>>
          /\ \E place \in Places :
               /\ pc' = [pc EXCEPT ![r] = place]
               /\ pc[r] \in Ended => place \in Ended
               /\ place = "began" => ~Updates(r)
      BY <1>1, <2>3
         DEF Step, Open, Exit, Reset, ResetFails, Read, WorkCommit, WorkFails, WorkMore, AdminCommit,
             Resolve, FindSlug, Create, CreateFails, Goes, tenantVars, Ended, Updates, Places
    <3> QED
      BY <3>1, ConfigStill
  <2> QED
    BY <2>1, <2>2, <2>3
<1>2. CASE UNCHANGED vars
  <2>1. UNCHANGED <<job, pc, config, seen, since, journal>>
    BY <1>2 DEF vars, sessionVars, tenantVars
  <2> QED
    BY <2>1 DEF ConfigInv, LastWrites, Updates
<1> QED
  BY <1>1, <1>2 DEF Next

-----------------------------------------------------------------------------
(* Creations of tenants. *)

LEMMA CreateKept ==
  ASSUME TenancyTypeOK, CreateInv, [Next]_vars
  PROVE  CreateInv'
<1> USE TenancyAssumption
<1>1. ASSUME NEW r \in Requests, Create(r)
      PROVE  CreateInv'
  <2>1. /\ slugOf' = [slugOf EXCEPT ![job[r].slug] = r] /\ keyed' = keyed \cup {r}
        /\ job' = job /\ pc' = [pc EXCEPT ![r] = "exit"] /\ job[r].slug \in Slugs /\ r # Unset
    BY <1>1, JobTypes DEF Create, Goes
  <2>2. \A s \in Slugs : slugOf'[s] = IF s = job[r].slug THEN r ELSE slugOf[s]
    BY <2>1 DEF TenancyTypeOK
  <2>3. \A q \in Requests : job'[q] = job[q] /\ job[q].slug \in Slugs /\ (q # r => pc'[q] = pc[q])
    BY <2>1, JobTypes DEF TenancyTypeOK
  <2> QED
    BY <2>1, <2>2, <2>3 DEF CreateInv
<1>2. ASSUME NEW r \in Requests, Step(r), ~Create(r)
      PROVE  CreateInv'
  <2>1. /\ UNCHANGED <<job, slugOf, keyed>>
        /\ \E place \in Places :
             /\ pc' = [pc EXCEPT ![r] = place]
             /\ job[r].kind = "create" /\ place \in Ended =>
                  pc[r] \in Ended \/ slugOf[job[r].slug] # Unset
    BY <1>2
       DEF Step, Open, Exit, Reset, ResetFails, Read, WorkCommit, WorkFails, WorkMore, AdminCommit,
           Resolve, ReadConfig, WriteConfig, FindSlug, CreateFails, Goes, tenantVars, Ended, Places
  <2> QED
    BY <2>1 DEF CreateInv, TenancyTypeOK
<1>3. CASE UNCHANGED vars
  BY <1>3 DEF vars, sessionVars, tenantVars, CreateInv
<1> QED
  BY <1>1, <1>2, <1>3 DEF Next

LEMMA InitTenants == Init => ConfigInv /\ CreateInv
<1> SUFFICES ASSUME Init PROVE ConfigInv /\ CreateInv
  OBVIOUS
<1>1. /\ journal = << >> /\ DOMAIN journal = {} /\ Len(journal) = 0
      /\ pc = [r \in Requests |-> "start"] /\ slugOf = [s \in Slugs |-> Unset]
  BY DEF Init
<1> QED
  BY <1>1 DEF ConfigInv, CreateInv, LastWrites, Ended

THEOREM TenantsHold == Spec => [](ConfigInv /\ CreateInv)
<1>1. Init => ConfigInv /\ CreateInv
  BY InitTenants
<1>2. TenancyTypeOK /\ ConfigInv /\ CreateInv /\ [Next]_vars => (ConfigInv /\ CreateInv)'
  BY ConfigKept, CreateKept
<1> QED
  BY <1>1, <1>2, TenancyTypeCorrect, PTL DEF Spec

\* An answered update loses a key only to a later update of it, or to one that
\* had read before this one was committed.
THEOREM LostCorrect == Spec => []LostOnlyToOverlap
<1>1. TenancyTypeOK /\ ConfigInv => LostOnlyToOverlap
  <2> SUFFICES ASSUME TenancyTypeOK, ConfigInv, NEW i \in DOMAIN journal,
                      NEW k \in job[journal[i]].keys
               PROVE  \/ config[job[journal[i]].tenant][k] = journal[i]
                      \/ \E j \in i + 1 .. Len(journal) :
                           /\ job[journal[j]].tenant = job[journal[i]].tenant
                           /\ k \in job[journal[j]].keys \/ since[journal[j]] < i
    BY DEF LostOnlyToOverlap
  <2>1. i \in 1 .. Len(journal) /\ journal[i] \in Requests
    BY LenProperties, ElementOfSeq DEF TenancyTypeOK
  <2>2. job[journal[i]].tenant \in Tenants /\ k \in Keys
    BY <2>1, JobTypes DEF Jobs
  <2>3. LastWrites(job[journal[i]].tenant, k, config[job[journal[i]].tenant][k], Len(journal))
    BY <2>2 DEF ConfigInv
  <2> QED
    BY <2>1, <2>3 DEF LastWrites
<1> QED
  BY <1>1, TenancyTypeCorrect, TenantsHold, PTL

\* A creation of a tenant that has ended leaves its slug taken, and by a tenant
\* with a key.
THEOREM CreateCorrect == Spec => []CreateSettles
<1>1. TenancyTypeOK /\ CreateInv => CreateSettles
  BY JobTypes DEF CreateInv, CreateSettles, Ended
<1> QED
  BY <1>1, TenancyTypeCorrect, TenantsHold, PTL
=============================================================================
