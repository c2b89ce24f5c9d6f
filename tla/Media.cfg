\* Three jobs on a worker of two slots, with room for two readers.
SPECIFICATION FairSpec
CONSTANTS
  LLM_PROVIDER = "openai"
  Keyed = {"openai"}
  j1 = j1
  j2 = j2
  j3 = j3
  en = en
  fr = fr
  de = de
  base = base
  Jobs = {j1, j2, j3}
  Mixes <- MCMixes
  Models = {en, fr, de, base}
  MaxReaders = 2
  Slots = 2
  Frames = 2
  NoJob = NoJob
INVARIANTS
  MediaTypeOK
  ReadersBounded
  KeyErrorNeedsMore
  FilesGone
  SlotsHold
PROPERTY
  JobsEnd
CHECK_DEADLOCK FALSE
