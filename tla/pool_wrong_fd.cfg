SPECIFICATION Spec
CONSTANTS
  NUM_THREADS = 2
  Restless = {}
  OPEN_MAX = 2
  Connections = {c1, c2}
  NoConnection = NoConnection
INVARIANTS RunsWithDescriptor
SYMMETRY Symmetry
CHECK_DEADLOCK FALSE
