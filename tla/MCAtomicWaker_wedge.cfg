SPECIFICATION WakerSpec
CONSTANTS
  Wakers = {w1}
  Uninit = Uninit
  MaxNotify = 3
INVARIANTS NotWakingComesBack
CHECK_DEADLOCK FALSE
