SPECIFICATION LiveSpec
CONSTANTS
  Venues = {v1, v2}
  Clients = {c1}
  MaxPublished = 2
  Quiet = {v2}
  POOL = 1
  COOLING = 1
  Credit = 1
INVARIANTS FramesAreIntact FrameIsNewest
PROPERTIES BooksReachClients StreamsEnd
CHECK_DEADLOCK FALSE
