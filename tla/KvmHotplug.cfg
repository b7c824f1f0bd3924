SPECIFICATION Spec
CONSTANTS
  None = None
  MaxComputer = 2
  MaxHidDevice = 2
  MaxInterface = 1
  BootInterface = {}
  Slot <- MCSlot2
  Shortcut <- MCNext
  ActionQueueSize = 20
  MessageQueueSize = 16
  MaxPlugs = 2
  MaxUnplugs = 1
  MaxReports = 2
  MaxSets = 0
  MaxRestarts = 1
ACTION_CONSTRAINT RestartOrReports
INVARIANTS CountExact TableFollowsHost NodeTableFollows EveryHidExposed NodeMixedOnlyUntilStart
  MixedOnlyUntilRestart
CHECK_DEADLOCK FALSE
