SPECIFICATION LiveSpec
CONSTANTS
  Kinds = {"binance", "bitstamp"}
  NumLevels = 2
  MaxPending = 3
  RefetchLimit = 1
  MaxUpdates = 3
  MaxCommands = 3
  MaxSessions = 2
INVARIANTS ReadyBookIsVenues FetchesAreBounded WireMatchesTable
PROPERTY AttemptEnds
CHECK_DEADLOCK FALSE
