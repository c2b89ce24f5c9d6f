\* A worker that dies past its claim, under the fairness of IngestLive.
SPECIFICATION FairSpec
CONSTANTS
  d1 = d1
  d2 = d2
  NoDoc = NoDoc
  Docs = {d1}
  CpuJobs = {c1, c2}
  GpuJobs = {}
  CpuSlots = 2
  GpuSlots = 2
  CpuTries = 2
  GpuTries = 1
  Contents = {1}
  ContentOf <- OneContent
  ClassOf <- AllCpu
  MaxRetries = 0
  Deletable = {}
  MaxDepth = 3
  MaxGpuDepth = 1
  Relays = {1}
  RelayLimit = 1
PROPERTY ProcessingEnds
CHECK_DEADLOCK FALSE
