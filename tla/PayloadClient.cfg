SPECIFICATION Spec
CONSTANTS
  p = p
  q = q
  Pieces <- MCPieces
  RobotFile <- MCRobotFile
  PeerPackets <- MCPeerPackets
  TRANSFER_MAX_FILE_SIZE = 2
  RSSI_SAMPLE_COUNT = 2
  REQUIRED_CLOSE_AVERAGES = 2
  CLEANUP_TIMEOUT = 1
  SCAN_WINDOW = 1
  PHASE_TIMEOUT = 1
  SETUP_TIMEOUT = 2
  ATTEMPT_TIMEOUT = 2
VIEW PayloadView
INVARIANTS Inv RadioReleased RetryPossible CompleteIsVerified SlotDrained
PROPERTIES TxStable AbortStartsNothing
CHECK_DEADLOCK FALSE
