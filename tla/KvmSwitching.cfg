SPECIFICATION Spec
CONSTANTS
  None = None
  MaxComputer = 2
  MaxHidDevice = 2
  MaxInterface = 1
  BootInterface = {}
  Slot <- MCSlot2
  Shortcut <- MCSwitch
  ActionQueueSize = 2
  MessageQueueSize = 2
  MaxPlugs = 2
  MaxUnplugs = 0
  MaxReports = 1
  MaxSets = 2
  MaxRestarts = 0
INVARIANTS TypeOK LedsFollowActive
CHECK_DEADLOCK FALSE
