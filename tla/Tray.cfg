SPECIFICATION FairSpec
CONSTANTS
  Calls <- MCCalls
  Names = {p, q}
  None = None
  MaxLines = 2
INVARIANTS
  OneAtATime
  ShowsRunning
  ConnShown
PROPERTY DeathNoticed
CHECK_DEADLOCK FALSE
