SPECIFICATION Spec
CONSTANTS
  Size = 6
  Header = 2
  MaxBody = 1
  ReplySize = 5
  MaxLogs0 = 0
  MaxLogs1 = 3
INVARIANT NeverPanics
CHECK_DEADLOCK FALSE
