SPECIFICATION Spec
CONSTANTS
  GLOBAL_STATE_STACK_SIZE = 2
  COLLECTION_STACK_SIZE = 2
  MAX_USAGES = 8
  MAX_USAGE_PER_FIELD = 2
  Counter = 16
  SizeLimit = 65536
  PressedLen = 4
  Keyboard = 7
  LeftCtrl = 224
  Null = Null
  Memory <- MCMemory
  BootKeyboard <- MCBootKeyboard
  Openings <- MCOpenings
  Items <- MCItems
  Reports <- MCReports
  MaxItems = 2
INVARIANTS CountedIsFilled LayoutAsDeclared UsagesAsDeclared CollectionsAsDeclared KeysAsHeld BootKeyboardAgrees KeyboardsFound
CHECK_DEADLOCK FALSE
