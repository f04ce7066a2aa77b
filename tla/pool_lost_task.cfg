SPECIFICATION FairSpec
CONSTANTS
  NUM_THREADS = 2
  Restless = {}
  OPEN_MAX = 2
  Connections = {c1, c2}
  NoConnection = NoConnection
PROPERTIES TaskIsStarted
CHECK_DEADLOCK FALSE
