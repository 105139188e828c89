SPECIFICATION FairSpec
CONSTANTS
  Children = {"scheduler", "api"}
  None = None
  Empty = Empty
  Garbled = Garbled
  compact = compact
  health = health
  Jobs <- TwoJobs
  Interval <- Intervals
  ApiThreads = {"thread"}
  MaxClock = 2
  MaxTriggers = 1
  MaxDeaths = 1
INVARIANTS CountsAreRuns OnlyOverlapFails
PROPERTIES NotTooSoon DueJobsRun ServiceEnds
CHECK_DEADLOCK FALSE
