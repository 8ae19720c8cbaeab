SPECIFICATION Spec
CONSTANTS
  p = p
  q = q
  Pieces <- MCPieces
  RobotFile <- MCRobotFile
  PeerPackets <- MCFewPackets
  TRANSFER_MAX_FILE_SIZE = 1
  RSSI_SAMPLE_COUNT = 1
  REQUIRED_CLOSE_AVERAGES = 1
  CLEANUP_TIMEOUT = 1
  SCAN_WINDOW = 2
  PHASE_TIMEOUT = 2
  SETUP_TIMEOUT = 3
  ATTEMPT_TIMEOUT = 4
PROPERTIES PhaseRunsItsTimeout
CHECK_DEADLOCK FALSE
