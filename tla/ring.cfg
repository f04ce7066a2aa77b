SPECIFICATION Spec
CONSTANTS
  NUM_THREADS = 3
  ThreadIds = {t1, t2}
  OPEN_MAX = 3
  Connections = {c1, c2, c3}
  NoConnection = NoConnection
SYMMETRY Symmetry
INVARIANTS TypeOK PromptThreadReadsOwnDescriptor OpenDescriptorHasOwner
CHECK_DEADLOCK FALSE
