SPECIFICATION MCSpec
CONSTANTS
  p = p
  q = q
  Pieces <- MCPieces
  RobotFile <- MCRobotFile
  BeaconReply <- MCBeaconReply
  PeerPackets <- MCPeerPackets
  TRANSFER_MAX_FILE_SIZE = 2
  RSSI_SAMPLE_COUNT = 1
  REQUIRED_CLOSE_AVERAGES = 1
  CLEANUP_TIMEOUT = 1
  SCAN_WINDOW = 1
  PHASE_TIMEOUT = 1
  SETUP_TIMEOUT = 1
  ATTEMPT_TIMEOUT = 2
VIEW ExchangeView
INVARIANTS RefusalEndsTransfer BeaconNeverRefuses NoMutualWait AnswersFit
PROPERTIES NotificationKept FreshLink HandoverKept
CHECK_DEADLOCK FALSE
