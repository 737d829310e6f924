SPECIFICATION Spec
CONSTANTS
  Kinds = {"bitstamp"}
  NumLevels = 2
  MaxPending = 3
  RefetchLimit = 1
  MaxUpdates = 3
  MaxCommands = 3
  MaxSessions = 1
INVARIANTS CurrentWhateverTheOrders
CHECK_DEADLOCK FALSE
