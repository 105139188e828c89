SPECIFICATION FairSpec
CONSTANTS
  ua = ua
  ub = ub
  x = x
  y = y
  z = z
  None = None
  Garbled = Garbled
  Urls = {ua}
  Bodies = {x}
  Serves <- OnlyA
  MaxCaptures = 2
  MaxFaults = 2
  May = {"unpublished", "exception", "late", "garble", "crash", "replay_job"}
PROPERTY EventuallySearchable
CHECK_DEADLOCK FALSE
