SPECIFICATION FairSpec
CONSTANTS
  Conns <- MCConns
  Modes <- MCModes
  None = None
INVARIANTS
  OneController
  RunsServed
  ClipboardOfSession
  HandshakeInStep
PROPERTIES
  HandshakeEnds
  SlotsFreed
CHECK_DEADLOCK FALSE
