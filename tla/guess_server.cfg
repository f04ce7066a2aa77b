SPECIFICATION FairSpec
CONSTANTS
  MAX = 2
  Unreadable = Unreadable
  MAX_CONNECTIONS = 2
  Children = {p1, p2, p3}
  Files <- MCFiles
  MaxClients = 4
INVARIANTS NumbersInTurn ZombieIsNoticed
PROPERTIES ZombiesAreReaped
CHECK_DEADLOCK FALSE
