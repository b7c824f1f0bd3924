SPECIFICATION Spec
CONSTANTS
  None = None
  Device = {d1, d2}
  QueueSize = 3
  Core0Size = 3
  EmptyLimit = 3
  MaxRequests = 0
  MaxPlugs = 2
  MaxUnplugs = 0
  MaxReports = 4
INVARIANT SilentOnlyWhenSpamming
CHECK_DEADLOCK FALSE
