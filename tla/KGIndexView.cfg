\* Two projects, two jobs, two list requests at a time, one poll and one submission.
CONSTANTS
  CanIndex = TRUE
  Roots = {own, other}
  Served = own
  MaxJobs = 2
  MaxFlight = 2
  MaxPolls = 1
  MaxSubmits = 1
  Failed = Failed
  Nothing = Nothing
SPECIFICATION IndexFairSpec
INVARIANT ListCatchesUp
PROPERTY PollingEnds
CHECK_DEADLOCK FALSE
