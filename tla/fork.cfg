SPECIFICATION FairServerSpec
CONSTANTS
  PORTS = 4
  DEFAULT_PORT = 1
  Invalid = Invalid
  CommandLines <- MCCommandLines
  AddressLists <- MCAddressLists
  StartBuilds <- MCStartBuilds
  BACKLOG = 2
  MaxFailures = 2
  Children = {p1, p2}
  OPEN_MAX = 2
  Connections = {c1, c2, c3}
  NoConnection = NoConnection
INVARIANTS TypeOK HoldsOnlyItsOwn ServesOnlyWhenReady
PROPERTIES ImplementsService StartupEnds
CHECK_DEADLOCK FALSE
