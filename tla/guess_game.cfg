SPECIFICATION GameSpec
CONSTANTS
  MAX = 6
  Unreadable = Unreadable
  GUESS_BYTES = 2
  BASE = 3
  MAX_ATTEMPTS = 3
  MaxInFlight = 2
INVARIANTS NeverMisled HalvingClientWins
CHECK_DEADLOCK FALSE
