\* Requests of one key against two changes and their bumps.
SPECIFICATION FairSpec
CONSTANTS
  t1 = t1
  Creds = {k1}
  Revocable = {k1}
  Tenants = {t1}
  TenantOf <- OneTenant
  Requests = {q1}
  Admins = {a1, a2}
  EntryTTL = 2
  VersionTTL = 2
  MaxVersion = 2
INVARIANTS
  HitsAuthorised
PROPERTY EndedIsRefused
CHECK_DEADLOCK FALSE
