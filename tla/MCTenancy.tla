----------------------------- MODULE MCTenancy -----------------------------
(***************************************************************************)
(* Instances of Tenancy for TLC: the mixes of requests.                    *)
(***************************************************************************)
EXTENDS Tenancy

CONSTANTS r1, r2, r3, t1, t2, slug, policy, limit

Job(kind, tenant, keys) == [kind |-> kind, tenant |-> tenant, keys |-> keys, slug |-> slug]

Owner == Job("configure", t1, {policy})
Admin == Job("update", t1, {limit})
Again == Job("configure", t1, {policy, limit})
Other == Job("configure", t2, {limit})
Worker == Job("work", t2, {})
Reader(t) == Job("read", t, {})
NewKey == Job("key", t1, {})
Relay == Job("relay", t1, {})
Login == Job("resolve", t1, {})
Creator == Job("create", t1, {})

Mix(a, b, c) == [r \in Requests |-> CASE r = r1 -> a [] r = r2 -> b [] r = r3 -> c]

\* Updates that meet one another, a worker and the relay; two creations of a slug;
\* what workers, the relay, creations and look-ups leave on the connections.
MCMixes ==
  {Mix(Owner, Admin, Relay), Mix(Owner, Again, Admin), Mix(Owner, Other, Worker),
   Mix(Creator, Creator, Login), Mix(Creator, Worker, NewKey),
   Mix(Worker, Reader(t1), Relay), Mix(Worker, Reader(t1), Login)}

\* A worker between requests of another tenant.
WorkerMixes == {Mix(Worker, Reader(t1), Reader(t1))}
=============================================================================
