SPECIFICATION Spec
CONSTANTS
  Size = 7
  Header = 2
  MaxBody = 1
  ReplySize = 5
  MaxLogs0 = 1
  MaxLogs1 = 3
INVARIANTS TypeOK FramedUnlessRaced PanicOnlyAfterRace OrderedButForInFlight
CONSTRAINT NoDropRaceYet
CHECK_DEADLOCK FALSE
