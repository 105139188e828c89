SPECIFICATION FairSpec
CONSTANTS
  ua = ua
  ub = ub
  x = x
  y = y
  z = z
  None = None
  Garbled = Garbled
  Urls <- PairUrls
  Bodies = {x}
  Serves <- AllX
  MaxCaptures = 2
  MaxFaults = 2
  May = {"unpublished", "exception", "late", "garble", "crash", "replay_job"}
INVARIANTS TypeOK RowsAreBacked NothingLost
CHECK_DEADLOCK FALSE
