SPECIFICATION FairSpec
CONSTANTS
  CtrlQueueSize = 2
  NodeQueueSize = 2
  MaxCtrlMsgs = 4
  MaxNodeMsgs = 4
  MaxFaults = 0
INVARIANTS TypeOK
PROPERTIES CtrlToNodeExactlyOnce NodeToCtrlExactlyOnce CtrlToNodeLive NodeQueueMoves
CHECK_DEADLOCK FALSE
