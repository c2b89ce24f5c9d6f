\* Two connections and three requests: a worker of one tenant between requests of another.
SPECIFICATION Spec
CONSTANTS
  r1 = r1
  r2 = r2
  r3 = r3
  t1 = t1
  t2 = t2
  slug = slug
  policy = policy
  limit = limit
  Conns = {c1, c2}
  Tenants = {t1, t2}
  Slugs = {slug}
  Keys = {policy, limit}
  Requests = {r1, r2, r3}
  Mixes <- WorkerMixes
  Commits = 2
  NoConn = NoConn
  Nobody = Nobody
  Unset = Unset
INVARIANT
  SettingSurvives
CHECK_DEADLOCK FALSE
