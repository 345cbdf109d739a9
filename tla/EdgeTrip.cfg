SPECIFICATION Spec
CONSTANTS
  Sizes <- MCSizes
  Screens <- MCScreens
  Deltas <- MCDeltas
INVARIANTS
  WarpClearsEdge
  SimOnScreen
  LatchHolds
  ReturnsNearby
