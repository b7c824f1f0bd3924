SPECIFICATION FairSpec
CONSTANTS
  CtrlQueueSize = 2
  NodeQueueSize = 2
  MaxCtrlMsgs = 3
  MaxNodeMsgs = 2
  MaxFaults = 3
INVARIANTS PhaseAgreement DamageBounded
PROPERTIES CtrlReturns CtrlQueueMoves
CHECK_DEADLOCK FALSE
