SPECIFICATION Spec
CONSTANTS
  AccessPoints = {ap1, other}
  SCANS_PER_SAMPLE = 3
  MIN_VALID_SCANS = 2
  SCAN_IDS = 4
  PLACES = 3
  Alarms <- MCAlarms
  MAX_PAYLOAD_ATTEMPTS = 3
  MAX_MISSING_SAMPLES = 3
INVARIANTS QuietRadio ReadingsAreOurs OneAlarm
PROPERTIES EndsQuietly
VIEW RobotView
