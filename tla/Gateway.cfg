SPECIFICATION Spec
CONSTANTS
  Processes = {p1, p2}
  Requests = {r1, r2}
  Emails = {ann, bob}
  Keys = {k1}
  None = None
  Buckets <- AllBuckets
  Limit <- AnonymousLimits
  Day = 2
  MaxKeys = 1
  MaxClock = 5
  MaxFaults = 1
  MaxRequests = 4
INVARIANTS WithinLimit OneAdmin OnlyAdminsRunJobs
CONSTRAINT AccountsAtZero
SYMMETRY Alike
CHECK_DEADLOCK FALSE
