SPECIFICATION ChannelSpec
CONSTANTS
  Readers = {r1, r2}
  MaxReaders = 2
  MaxUpdates = 4
  Torn = Torn
  Wakers = {w1, w2}
  Uninit = Uninit
  MaxNotify = 3
INVARIANTS GuardIsStable NeverStale ClaimableSlot SpinMeansLapped
INVARIANTS CellIsSafe NoLostWakeup
PROPERTIES CallsReturn ImplementsLatestValue ImplementsNotification
CHECK_DEADLOCK FALSE
