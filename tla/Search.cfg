\* Two documents, of two or three chunks, and a query of each mode.
SPECIFICATION FairSearchSpec
CONSTANTS
  LLM_PROVIDER = "openai"
  Keyed = {"openai"}
  r1 = r1
  r2 = r2
  r3 = r3
  t1 = t1
  t2 = t2
  ada = ada
  hello = hello
  world = world
  asked = asked
  Runs = {r1, r2, r3}
  Mixes <- MCMixes
  Texts = {hello, world, asked}
  Names = {ada}
  Tenants = {t1, t2}
  None = None
  MaxTopK = 200
  RrfK = 60
  PreFactor = 4
  PreMax = 200
  EfFactor = 2
  EfMin = 1
  EfMax = 100
INVARIANTS
  SearchTypeOK
  VectorsMatch
  FusionMonotone
PROPERTIES
  AnswersComplete
  ProseFound
  
CHECK_DEADLOCK FALSE
