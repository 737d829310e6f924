SPECIFICATION ClientSpec
CONSTANTS
  Symbols = {"x"}
  MaxEntries = 2
  MaxSubs = 2
  MaxRestarts = 1
INVARIANT OneStream
CHECK_DEADLOCK FALSE
