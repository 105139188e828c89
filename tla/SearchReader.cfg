SPECIFICATION ReaderSpec
CONSTANTS
  ua = ua
  ub = ub
  x = x
  y = y
  z = z
  None = None
  Garbled = Garbled
  Urls <- PairUrls
  Bodies = {x, y, z}
  Serves <- Own
  MaxCaptures = 3
  MaxFaults = 0
  May = {}
  Queries <- SomeQueries
  ChunksOf <- Lengths
  MostChunks = 2
  Window = 4
  TopK = 4
INVARIANTS SettledAgree CurrentIsLatest OnePerUrl AnswerTellsCurrent
CHECK_DEADLOCK FALSE
