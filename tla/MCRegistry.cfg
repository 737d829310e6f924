SPECIFICATION Spec
CONSTANTS
  Venues = {v1, v2}
  Clients = {c1, c2}
  Relisting = TRUE
SYMMETRY Symmetry
INVARIANTS OneBroadcaster SubscriptionsAreOwned StoppedForCause
CHECK_DEADLOCK FALSE
