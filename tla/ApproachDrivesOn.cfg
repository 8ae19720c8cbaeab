SPECIFICATION Spec
CONSTANTS
  ColourReadings <- MCColourReadings
  COLOUR_ARRIVAL_SAMPLES = 3
  SCAN_STEPS = 12
  MAX_FAILED_CHECKS = 2
  LINE_BLOCK = 2
  FORWARD_BLOCK = 2
  MAT_BLOCK = 1
  DIP_PROBE = 1
  BLOCK_RESERVE = 1
  DIRECTION_TEST = 2
  SWEEP = 6
  TRANSLATION = 9
  DECLINE_POSITIONS = 1
  DIP_MAX_PROBES = 1
  PROFILE_CAPACITY = 3
  SEARCH_DIRECTIONS = 1
  MAX_MISSING_SAMPLES = 2
  MAT_MAX_SCANS = 2
  MAT_STEPS_PER_SCAN = 2
  MAT_ARRIVED_RETRIES = 2
  Readings <- MCReadings
PROPERTY NeverDrivesOnFromArrival
CHECK_DEADLOCK FALSE
