SPECIFICATION FairSpec
CONSTANTS
  Edge = "right"
  TargetW = 2
  TargetH = 1
  Screen <- MCScreen
  QCap = 2
  Deltas <- MCDeltas
  MaxCross = 2
CHECK_DEADLOCK FALSE
INVARIANTS
  SuppressedWhileServing
  OneCrossingPending
  ForwardsCurrentCrossing
  CaptureOrder
PROPERTIES
  NothingAfterRelease
  ImplementsHandover
  CrossingServed
