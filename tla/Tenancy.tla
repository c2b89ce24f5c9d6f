------------------------------ MODULE Tenancy ------------------------------
(***************************************************************************)
(* Database sessions and the handlers that administer tenants.  A session  *)
(* takes a connection out of the pool with its first statement and gives   *)
(* it back when a transaction ends; the tenant it acts for, or the bypass  *)
(* of row level security, is a setting of the CONNECTION, which a rollback *)
(* undoes and a commit keeps.  Row level security shows a connection the   *)
(* rows of its tenant, or all.  Each request is one run of a handler or    *)
(* task; overflow connections, closed when returned, are left out.         *)
(***************************************************************************)
EXTENDS Integers, FiniteSets, Sequences

CONSTANTS
  Conns,      \* connections of the pool
  Tenants,    \* tenants there are, and names new ones may get
  Slugs,
  Keys,       \* of a tenant's configuration
  Requests,
  Mixes,      \* what the requests run: the jobs of each behaviour
  Commits,    \* transactions of a worker task
  NoConn, Nobody, Unset

Kinds == {"read", "configure", "update", "create", "key", "work", "relay", "resolve"}

\* A tenant, the keys an update of it sets or the slug a new tenant is to have.
Jobs == [kind : Kinds, tenant : Tenants, keys : SUBSET Keys, slug : Slugs]

ASSUME TenancyAssumption ==
  /\ Mixes \subseteq [Requests -> Jobs]
  /\ NoConn \notin Conns /\ Nobody \notin Tenants /\ Unset \notin Requests
  /\ Commits \in Nat \ {0}

VARIABLES
  job,       \* what each request runs
  idle,      \* the pool's queue
  fresh,     \* connections not opened yet
  saved,     \* settings of a connection that a rollback leaves it with
  now,       \* and those its statements run under
  conn,      \* the connection a session holds
  pc,
  commits,   \* commits of a session
  config,    \* configurations
  seen,      \* the configuration an update read
  since,     \* and how many updates were committed then
  journal,   \* updates in the order of their commits
  slugOf,    \* committed new tenants: the request that created each slug
  keyed      \* and the requests that gave their tenant a first key

poolVars == <<idle, fresh>>
settingVars == <<saved, now>>
sessionVars == <<conn, pc, commits>>
tenantVars == <<config, seen, since, journal, slugOf, keyed>>
vars == <<job, poolVars, settingVars, sessionVars, tenantVars>>

Settings == [tenant : Tenants \cup {Nobody}, bypass : BOOLEAN]
Unscoped == [tenant |-> Nobody, bypass |-> FALSE]
Configs == [Keys -> Requests \cup {Unset}]
Places == {"start", "open", "began", "more", "exit", "reset", "done"}

\* Types.
TenancyTypeOK ==
  /\ job \in Mixes
  /\ idle \in Seq(Conns) /\ fresh \subseteq Conns
  /\ saved \in [Conns -> Settings] /\ now \in [Conns -> Settings]
  /\ conn \in [Requests -> Conns \cup {NoConn}]
  /\ pc \in [Requests -> Places] /\ commits \in [Requests -> Nat]
  /\ config \in [Tenants -> Configs] /\ seen \in [Requests -> Configs]
  /\ since \in [Requests -> 0 .. Len(journal)] /\ journal \in Seq(Requests)
  /\ slugOf \in [Slugs -> Requests \cup {Unset}] /\ keyed \subseteq Requests

Init ==
  /\ job \in Mixes
  /\ idle = << >> /\ fresh = Conns
  /\ saved = [c \in Conns |-> Unscoped] /\ now = saved
  /\ conn = [r \in Requests |-> NoConn]
  /\ pc = [r \in Requests |-> "start"] /\ commits = [r \in Requests |-> 0]
  /\ config = [t \in Tenants |-> [k \in Keys |-> Unset]]
  /\ seen = [r \in Requests |-> [k \in Keys |-> Unset]]
  /\ since = [r \in Requests |-> 0] /\ journal = << >>
  /\ slugOf = [s \in Slugs |-> Unset] /\ keyed = {}
-----------------------------------------------------------------------------
(* The pool and the settings. *)

\* The connection back longest, or a new one if none is.
Checkout(c) ==
  IF idle = << >>
  THEN c \in fresh /\ fresh' = fresh \ {c} /\ UNCHANGED idle
  ELSE c = Head(idle) /\ idle' = Tail(idle) /\ UNCHANGED fresh

\* Mutant: a session without a connection returns one all the same.
ReturnTwice(r) ==
  /\ idle' = Append(idle, conn[r])
  /\ conn' = [conn EXCEPT ![r] = NoConn]
  /\ UNCHANGED fresh

Return(r) ==
  /\ idle' = IF conn[r] = NoConn THEN idle ELSE Append(idle, conn[r])
  /\ conn' = [conn EXCEPT ![r] = NoConn]
  /\ UNCHANGED fresh

IsAdmin(r) == job[r].kind \in {"update", "create", "key", "relay", "resolve"}

\* Mutant: the session of a request sets no tenant.
LeftAsFound(r, found) ==
  IF job[r].kind = "read" THEN found
  ELSE IF IsAdmin(r) THEN [found EXCEPT !.bypass = TRUE]
  ELSE [found EXCEPT !.tenant = job[r].tenant]

\* SET app.current_tenant_id, or app.bypass_rls, over what the connection has.
Scoped(r, found) ==
  IF IsAdmin(r) THEN [found EXCEPT !.bypass = TRUE]
  ELSE [found EXCEPT !.tenant = job[r].tenant]

\* RESET of the same setting.
Cleared(r, found) ==
  IF IsAdmin(r) THEN [found EXCEPT !.bypass = FALSE]
  ELSE [found EXCEPT !.tenant = Nobody]

\* Whether the rows of r's tenant are visible on c.
Sees(r, c) == now[c].bypass \/ now[c].tenant = job[r].tenant

Goes(r, place) == pc' = [pc EXCEPT ![r] = place] /\ UNCHANGED job

Open(r) ==
  /\ pc[r] = "start"
  /\ \E c \in Conns :
       /\ Checkout(c)
       /\ conn' = [conn EXCEPT ![r] = c]
       /\ now' = [now EXCEPT ![c] = Scoped(r, @)]
  /\ Goes(r, "open")
  /\ UNCHANGED <<saved, commits, tenantVars>>

\* A setting that was SET survives the commit; SET LOCAL, of the look-up of
\* credentials, does not.
Kept(r, c) == IF job[r].kind = "resolve" THEN saved[c] ELSE now[c]

Commit(r) ==
  /\ conn[r] # NoConn
  /\ LET c == conn[r] IN
     /\ saved' = [saved EXCEPT ![c] = Kept(r, c)]
     /\ now' = [now EXCEPT ![c] = Kept(r, c)]
  /\ commits' = [commits EXCEPT ![r] = @ + 1]
  /\ Return(r)

Rollback(r) ==
  /\ now' = IF conn[r] = NoConn THEN now ELSE [now EXCEPT ![conn[r]] = saved[conn[r]]]
  /\ Return(r)

\* Mutant: a session that ends keeps its connection.
ExitKeeps(r) ==
  /\ pc[r] = "exit"
  /\ Goes(r, "reset")
  /\ UNCHANGED <<poolVars, settingVars, conn, commits, tenantVars>>

\* The rollback of reset_guc, of whatever transaction is open.
Exit(r) ==
  /\ pc[r] = "exit"
  /\ Rollback(r)
  /\ Goes(r, "reset")
  /\ UNCHANGED <<saved, commits, tenantVars>>

\* RESET and commit, on the connection the pool hands out for them.
Reset(r) ==
  /\ pc[r] = "reset"
  /\ \E c \in Conns :
       /\ IF idle = << >>
          THEN c \in fresh /\ fresh' = fresh \ {c} /\ idle' = <<c>>
          ELSE c = Head(idle) /\ idle' = Append(Tail(idle), c) /\ UNCHANGED fresh
       /\ saved' = [saved EXCEPT ![c] = Cleared(r, @)]
       /\ now' = [now EXCEPT ![c] = Cleared(r, saved[c])]
  /\ Goes(r, "done")
  /\ UNCHANGED <<conn, commits, tenantVars>>

\* An error in reset_guc is swallowed.
ResetFails(r) ==
  /\ pc[r] = "reset"
  /\ Goes(r, "done")
  /\ UNCHANGED <<poolVars, settingVars, conn, commits, tenantVars>>
-----------------------------------------------------------------------------
(* Requests that read, tasks and the relay, look-ups of credentials. *)

\* The first statement after the SET, in its transaction: a tenant whose row is
\* not visible is answered 404.
Read(r) ==
  /\ pc[r] = "open" /\ job[r].kind = "read"
  /\ Goes(r, "exit")
  /\ UNCHANGED <<poolVars, settingVars, conn, commits, tenantVars>>

\* A worker task reads its document, changes it and commits; it goes on in
\* transactions that begin without a SET.
WorkCommit(r) ==
  /\ pc[r] = "open" /\ job[r].kind = "work"
  /\ Sees(r, conn[r])
  /\ Commit(r)
  /\ Goes(r, IF commits[r] + 1 < Commits THEN "more" ELSE "exit")
  /\ UNCHANGED tenantVars

\* An UPDATE of a row that is not visible matches none, and raises.
WorkFails(r) ==
  /\ pc[r] = "open" /\ job[r].kind = "work"
  /\ ~Sees(r, conn[r])
  /\ Goes(r, "exit")
  /\ UNCHANGED <<poolVars, settingVars, conn, commits, tenantVars>>

WorkMore(r) ==
  /\ pc[r] = "more"
  /\ \E c \in Conns : Checkout(c) /\ conn' = [conn EXCEPT ![r] = c]
  /\ Goes(r, "open")
  /\ UNCHANGED <<settingVars, commits, tenantVars>>

\* The relay, and a handler that inserts a key for a tenant it has read, commit
\* once.
AdminCommit(r) ==
  /\ pc[r] = "open" /\ job[r].kind \in {"key", "relay"}
  /\ Commit(r)
  /\ Goes(r, "exit")
  /\ UNCHANGED tenantVars

Resolve(r) ==
  /\ pc[r] = "open" /\ job[r].kind = "resolve"
  /\ Commit(r)
  /\ Goes(r, "done")
  /\ UNCHANGED tenantVars
-----------------------------------------------------------------------------
(* Handlers that write tenants. *)

\* db.get of the tenant by an update, of either endpoint.
ReadConfig(r) ==
  /\ pc[r] = "open" /\ job[r].kind \in {"configure", "update"}
  /\ seen' = [seen EXCEPT ![r] = config[job[r].tenant]]
  /\ since' = [since EXCEPT ![r] = Len(journal)]
  /\ Goes(r, IF Sees(r, conn[r]) THEN "began" ELSE "exit")
  /\ UNCHANGED <<poolVars, settingVars, conn, commits, config, journal, slugOf, keyed>>

\* Mutant: the body replaces the configuration.
Replaced(r) == [k \in Keys |-> IF k \in job[r].keys THEN r ELSE Unset]

\* The configuration as it was read, the keys of the body replaced.
Merged(r) == [k \in Keys |-> IF k \in job[r].keys THEN r ELSE seen[r][k]]

\* The whole configuration is written.
WriteConfig(r) ==
  /\ pc[r] = "began" /\ job[r].kind \in {"configure", "update"}
  /\ config' = [config EXCEPT ![job[r].tenant] = Merged(r)]
  /\ journal' = Append(journal, r)
  /\ Commit(r)
  /\ Goes(r, "exit")
  /\ UNCHANGED <<seen, since, slugOf, keyed>>

\* create_tenant looks for the slug: 409 if it is taken.
FindSlug(r) ==
  /\ pc[r] = "open" /\ job[r].kind = "create"
  /\ Goes(r, IF slugOf[job[r].slug] = Unset THEN "began" ELSE "exit")
  /\ UNCHANGED <<poolVars, settingVars, conn, commits, tenantVars>>

\* Mutant: the key is added after the tenant was committed.
CreatesBare(r) ==
  /\ pc[r] = "began" /\ job[r].kind = "create"
  /\ slugOf[job[r].slug] = Unset
  /\ slugOf' = [slugOf EXCEPT ![job[r].slug] = r]
  /\ Commit(r)
  /\ Goes(r, "exit")
  /\ UNCHANGED <<config, seen, since, journal, keyed>>

\* Tenant and first key are inserted and committed together; of two that found
\* the slug free, the unique index fails the later one.
Create(r) ==
  /\ pc[r] = "began" /\ job[r].kind = "create"
  /\ slugOf[job[r].slug] = Unset
  /\ slugOf' = [slugOf EXCEPT ![job[r].slug] = r]
  /\ keyed' = keyed \cup {r}
  /\ Commit(r)
  /\ Goes(r, "exit")
  /\ UNCHANGED <<config, seen, since, journal>>

CreateFails(r) ==
  /\ pc[r] = "began" /\ job[r].kind = "create"
  /\ slugOf[job[r].slug] # Unset
  /\ Rollback(r)
  /\ Goes(r, "reset")
  /\ UNCHANGED <<saved, commits, tenantVars>>

Step(r) ==
  \/ Open(r) \/ Exit(r) \/ Reset(r) \/ ResetFails(r)
  \/ Read(r) \/ WorkCommit(r) \/ WorkFails(r) \/ WorkMore(r)
  \/ AdminCommit(r) \/ Resolve(r)
  \/ ReadConfig(r) \/ WriteConfig(r)
  \/ FindSlug(r) \/ Create(r) \/ CreateFails(r)

Next == \E r \in Requests : Step(r)

Spec == Init /\ [][Next]_vars

\* A coroutine that can go on does; the pool serves those who wait.
FairSpec == Spec /\ \A r \in Requests : WF_vars(Step(r))
-----------------------------------------------------------------------------
IsTenants(r) == job[r].kind \in {"read", "configure", "work"}

\* Sessions that SET the bypass for good when they commit.
Bypasses(a) == IsAdmin(a) /\ job[a].kind # "resolve"

\* Safety: until its first commit a session of a tenant runs under its own
\* tenant's setting, whatever earlier sessions left on the connection they gave
\* back and whichever connection their RESETs reached.  The bypass it may find
\* there as well is one that an administrative session has committed: look-ups
\* of credentials and sessions that are rolled back leave none.  (That RESET
\* "prevents bypass_rls from leaking to the next pool checkout", session.py:75,
\* is more than the code keeps, as the RESET may reach another connection.)
OwnUntilCommit ==
  \A r \in Requests :
    IsTenants(r) /\ conn[r] # NoConn /\ commits[r] = 0 =>
      /\ now[conn[r]].tenant = job[r].tenant
      /\ now[conn[r]].bypass => \E a \in Requests : Bypasses(a) /\ commits[a] > 0

\* Two sessions never hold one connection, nor is a held one handed out by the
\* pool: no statement of one session runs in the transaction of another.
OneHolder ==
  /\ \A r1, r2 \in Requests : conn[r1] = conn[r2] /\ conn[r1] # NoConn => r1 = r2
  /\ \A r \in Requests, i \in DOMAIN idle : conn[r] # idle[i]
  /\ \A i, j \in DOMAIN idle : idle[i] = idle[j] => i = j

\* Safety of update_tenant_config and update_tenant: of an update that was
\* answered a key is lost only to a later update of that key, or to one that
\* had read the configuration before this one was committed.
LostOnlyToOverlap ==
  \A i \in DOMAIN journal : \A k \in job[journal[i]].keys :
    \/ config[job[journal[i]].tenant][k] = journal[i]
    \/ \E j \in i + 1 .. Len(journal) :
         /\ job[journal[j]].tenant = job[journal[i]].tenant
         /\ k \in job[journal[j]].keys \/ since[journal[j]] < i

\* Safety of create_tenant: a request that has ended created its slug together
\* with the tenant's first key, or another one did: two of one slug never leave
\* a tenant without a key, or both give up.
CreateSettles ==
  \A r \in Requests : job[r].kind = "create" =>
    /\ pc[r] \in {"reset", "done"} => slugOf[job[r].slug] # Unset
    /\ slugOf[job[r].slug] # Unset => slugOf[job[r].slug] \in keyed

\* Liveness: with fewer connections than requests, requests that wait for a
\* connection, sessions that take one for each of their transactions and RESETs
\* that take one more, every request ends.
EveryoneServed == <>(\A r \in Requests : pc[r] = "done")

\* What tenant_session promises (session.py:56): the setting survives the
\* commits of a worker task.
SettingSurvives ==
  \A r \in Requests :
    job[r].kind = "work" /\ conn[r] # NoConn => now[conn[r]].tenant = job[r].tenant
=============================================================================
