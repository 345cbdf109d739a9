SPECIFICATION FairSpec
CONSTANTS
  Nothing = Nothing
  Blocked = FALSE
  MaxSessions = 2
  MaxMoves = 2
INVARIANTS
  KeyFollowsSlot
PROPERTIES
  ImplementsLatest
  MovesArrive
CHECK_DEADLOCK FALSE
