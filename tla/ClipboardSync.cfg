SPECIFICATION FairSpec
CONSTANTS
  Presses <- MCPresses
  Nobody = Nobody
  Garbage = Garbage
INVARIANTS
  OwnReplyUnlessLate
  NoCrossingUnlessLate
PROPERTY TransfersEnd
CHECK_DEADLOCK FALSE
