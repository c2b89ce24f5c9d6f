\* Progress of a document of the GPU workers.
SPECIFICATION FairSpec
CONSTANTS
  d1 = d1
  d2 = d2
  NoDoc = NoDoc
  Docs = {d1}
  CpuJobs = {c1, c2}
  GpuJobs = {g1}
  CpuSlots = 2
  GpuSlots = 2
  CpuTries = 1
  GpuTries = 1
  Contents = {1}
  ContentOf <- OneContent
  ClassOf <- AllGpu
  MaxRetries = 0
  Deletable = {}
  MaxDepth = 3
  MaxGpuDepth = 1
  Relays = {1}
  RelayLimit = 1
PROPERTY SettledOrLost
CHECK_DEADLOCK FALSE
