SPECIFICATION MCFairSpec
CONSTANTS
  None = None
  d1 = d1
  d2 = d2
  Device = {d1, d2}
  QueueSize = 2
  Core0Size = 2
  EmptyLimit = 0
  MaxRequests = 2
  MaxPlugs = 2
  MaxUnplugs = 1
  MaxReports = 1
INVARIANTS TypeOK LastRequestWins NamesFollowDevice PausedWithReason
PROPERTIES QueueDrains
CHECK_DEADLOCK FALSE
