\* Deletes against the relay, a retry and the workers.
SPECIFICATION Spec
CONSTANTS
  d1 = d1
  d2 = d2
  NoDoc = NoDoc
  Docs = {d1}
  CpuJobs = {c1, c2}
  GpuJobs = {}
  CpuSlots = 2
  GpuSlots = 2
  CpuTries = 1
  GpuTries = 1
  Contents = {1}
  ContentOf <- OneContent
  ClassOf <- AllCpu
  MaxRetries = 1
  Deletable = {d1}
  MaxDepth = 3
  MaxGpuDepth = 1
  Relays = {1}
  RelayLimit = 1
SYMMETRY JobSymmetry
INVARIANTS
  PublishedWasSent
  OwnedUnlessLost
  StoredBeforeRow
PROPERTY LifeSpec
CHECK_DEADLOCK FALSE
