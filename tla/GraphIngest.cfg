SPECIFICATION Spec
CONSTANTS
  feed = feed
  page = page
  x = x
  y = y
  z = z
  None = None
  Urls <- Pair
  Docs = {x, y, z}
  Serves <- Own
  May = {"overlap", "redeliver", "replay"}
  MaxSlips = 2
  MaxCaptures = 3
  MaxWrites = 3
INVARIANTS TypeOK OneActive CurrentActive
PROPERTY ImplementsActiveGraph
SYMMETRY FeedBodies
CHECK_DEADLOCK FALSE
