SPECIFICATION Spec
CONSTANTS
  Window = 5
  Keys = {1, 2, 3, 4, 5, 6}
  Values = {1, 2}
  PUBLISHED = 2
  Prices = {1, 2, 3, 4, 5, 6}
  Quantities = {0, 1}
  MaxUpdates = 4
  MaxPending = 3
  Streams = {"a", "b", "c"}
  CHUNK = 2
  GAP = 2
  INFLIGHT_IDS = 2
  BASE = 1
  MAX_BACKOFF = 4
  HEALTHY = 3
  MaxTime = 5
  MaxOrders = 3
  Routed = {"p", "q"}
  Sockets = {"A", "B"}
  PERMITS = 1
  SNAP_CHANNEL = 1
  REFETCHES = 1
  MaxAttempts = 2
  Word = 2
  Holders = {h1, h2, h3}
  Registrars = {r1, r2}
  MaxAllocs = 2
  MaxCount = 4
  LEVELS = 2
  Ticks = {0, 1, 2}
  PREFIX = 2
  MAX_MESSAGE_LEN = 2
  MaxExtra = 2
  Symbols = {"x", "y"}
  MaxEntries = 2
  MaxSubs = 1
  MaxRestarts = 1
INVARIANTS MapIsPlainMap BinanceBookIsVenues RepliesAreHeard BitstampBookIsWhole
INVARIANTS PacedInOrder PermitsGoRound StringsAreWhole OneHandlePerName FrameIsMergedBook OneVerdict PicksWhatItNamed
PROPERTY ImplementsPlainBook
CHECK_DEADLOCK FALSE
