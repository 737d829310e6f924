CONSTANTS
  Symbols = {s1, s2}
  Capacity = 1
  QueueSize = 1
  MaxRequests = 3
  MaxBacklog = 1
  MaxListings = 1
  MaxDeaths = 2
SPECIFICATION Spec
INVARIANTS TableFollowsRouter OneSlotPerSymbol AnsweredOnce
PROPERTIES EverySubscribeEnds OrphansAreFreed
CHECK_DEADLOCK FALSE
