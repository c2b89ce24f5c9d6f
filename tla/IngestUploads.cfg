\* Two uploads of one content, one under a type without a handler, and two retries.
SPECIFICATION Spec
CONSTANTS
  d1 = d1
  d2 = d2
  NoDoc = NoDoc
  Docs = {d1, d2}
  CpuJobs = {c1, c2}
  GpuJobs = {}
  CpuSlots = 2
  GpuSlots = 2
  CpuTries = 2
  GpuTries = 1
  Contents = {1}
  ContentOf <- OneContent
  ClassOf <- SomeUnknown
  MaxRetries = 2
  Deletable = {}
  MaxDepth = 3
  MaxGpuDepth = 1
  Relays = {}
  RelayLimit = 1
SYMMETRY JobSymmetry
INVARIANTS
  TypeOK
  OneIngestUnlessOverwritten
  CpuOverwriteNeedsTwoRetries
  OneDocumentPerContent
CHECK_DEADLOCK FALSE
