SPECIFICATION Spec
CONSTANTS
  CtrlQueueSize = 2
  NodeQueueSize = 2
  MaxCtrlMsgs = 1
  MaxNodeMsgs = 2
  MaxFaults = 0
INVARIANTS DataAnnounced
CHECK_DEADLOCK FALSE
