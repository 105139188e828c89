SPECIFICATION Spec
CONSTANTS
  short = short
  long = long
  indexer = indexer
  job = job
  Stores = {indexer, job}
  Roles <- TwoStores
  Docs = {short, long}
  ChunksOf <- Sizes
  PersistEvery = 2
  CompactEvery = 3
  Models = 2
  MaxId = 4
  MaxFaults = 2
INVARIANTS TypeOK VectorsTellTheirText SaveLagBounded NeverMixed NothingForgotten
PROPERTY SavedSurvive
CHECK_DEADLOCK FALSE
