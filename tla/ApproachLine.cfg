SPECIFICATION Spec
CONSTANTS
  ColourReadings <- MCNoReadings
  COLOUR_ARRIVAL_SAMPLES = 3
  SCAN_STEPS = 12
  MAX_FAILED_CHECKS = 1
  LINE_BLOCK = 2
  FORWARD_BLOCK = 2
  MAT_BLOCK = 1
  DIP_PROBE = 1
  BLOCK_RESERVE = 1
  DIRECTION_TEST = 1
  SWEEP = 12
  TRANSLATION = 32
  DECLINE_POSITIONS = 3
  DIP_MAX_PROBES = 1
  PROFILE_CAPACITY = 5
  SEARCH_DIRECTIONS = 2
  MAX_MISSING_SAMPLES = 1
  MAT_MAX_SCANS = 1
  MAT_STEPS_PER_SCAN = 2
  MAT_ARRIVED_RETRIES = 2
  Readings <- MCReadings
INVARIANTS ApproachTypeOK ReturnAffordable BackWhereItWas ReferenceHolds ProgressIsReal TriesEveryDirection DeclineSpansSteps
CHECK_DEADLOCK FALSE
