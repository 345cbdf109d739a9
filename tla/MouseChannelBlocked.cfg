SPECIFICATION FairSpec
CONSTANTS
  Nothing = Nothing
  Blocked = TRUE
  MaxSessions = 2
  MaxMoves = 2
PROPERTY MovesArrive
CHECK_DEADLOCK FALSE
