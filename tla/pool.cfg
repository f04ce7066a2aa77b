SPECIFICATION FairSpec
CONSTANTS
  NUM_THREADS = 2
  Restless = {1}
  OPEN_MAX = 2
  Connections = {c1, c2}
  NoConnection = NoConnection
INVARIANTS TypeOK LockedMutexHasHolder ExclusionUnlessDisturbed
           AssignsUnlessDisturbed SignalledUnlessDisturbed RunsUnlessDisturbed
PROPERTIES SearchTerminates WorkersReturnToWait
CHECK_DEADLOCK FALSE
