SPECIFICATION LiveSpec
CONSTANTS
  Venues = {v1}
  Clients = {c1, c2}
  Relisting = FALSE
PROPERTIES EveryClientAnswered UnwatchedIsReleased ShutdownCompletes
CHECK_DEADLOCK FALSE
