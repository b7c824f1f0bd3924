SPECIFICATION Spec
CONSTANTS
  None = None
  MAX_KEYBOARD_SHORTCUT = 2
  MAX_KEYS_PER_SHORTCUT = 2
  MAX_DATA_PER_SHORTCUT = 1
  Magic = 77
  Version = 1
  Packet <- MCPacket
  MaxSetups = 2
  MaxPowerLosses = 2
  Slot <- MCSlot
  DescriptorLength <- MCLength
  MaxMounts = 2
  MaxSuspends = 1
INVARIANTS TypeOK FlashHoldsConfig NeverMixed OwnData MatchBySet KeptConnected OpenedAsRegistered
CHECK_DEADLOCK FALSE
