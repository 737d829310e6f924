SPECIFICATION Spec
CONSTANTS
  Readers = {r1}
  MaxReaders = 1
  MaxUpdates = 3
  Torn = Torn
PROPERTIES ReadsNeverGoBack
CHECK_DEADLOCK FALSE
