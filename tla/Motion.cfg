SPECIFICATION Spec
CONSTANTS
  FULL = 16
  GYRO_RANGE = 3
  GYRO_SATURATION = 3
  MAX_STRAIGHT_YAW = 7
  MAX_GYRO_RECOVERY_GAP = 2
  MAX_GYRO_UNCERTAINTY = 6
  IMU_RECOVERY_ATTEMPTS = 2
  MAX_MOVING_RECOVERIES = 2
  TURN_TOLERANCE = 1
  TURN_COAST = 1
  TURN_MAX_CORRECTIONS = 1
  TURN_CORRECTION_MAX = 1
  TURN_TIMEOUT = 6
  TURN_START_TIMEOUT = 2
  MIN_PROGRESS = 1
  MAX_OPPOSITE = 1
  SIGN_RATE = 1
  SIGN_SAMPLES = 2
  GYRO_DIRECTION_CHECK = 2
  MOTOR_SETTLE = 1
  CALIBRATION_SAMPLES = 1
  CALLS = 1
  Headings <- MCHeadings
  Durations <- MCDurations
INVARIANTS MotionInv ArrivesAsTold StopWithinSample ChargedAsDriven
PROPERTIES MotionReturns
