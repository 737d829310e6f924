SPECIFICATION Spec
CONSTANTS
  Kinds = {"binance"}
  NumLevels = 2
  MaxPending = 3
  RefetchLimit = 1
  MaxUpdates = 3
  MaxCommands = 1
  MaxSessions = 2
INVARIANTS NoBookWithoutSocket
CHECK_DEADLOCK FALSE
