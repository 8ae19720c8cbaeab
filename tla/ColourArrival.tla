--------------------------- MODULE ColourArrival ---------------------------
(***************************************************************************)
(* When the colour sensor says that the robot has arrived,                 *)
(* src/getting_there/colour_sensor.c.  ColourMat says what a reading shows *)
(* and how deep in the mat that is: -1 for a reading that means nothing, 0 *)
(* the floor, 1 the white edge, then the rings.  The I2C transfers are     *)
(* left out but for their failing.                                         *)
(***************************************************************************)
EXTENDS ColourMat, FiniteSets

CONSTANTS
  ColourReadings,     \* what the sensor may read, nothing if there is none
  COLOUR_ARRIVAL_SAMPLES,
  MAX_FAILED_CHECKS

ColourAssumption ==
  /\ ColourReadings \subseteq ColourReading
  /\ COLOUR_ARRIVAL_SAMPLES \in Nat \ {0}
  /\ MAX_FAILED_CHECKS \in Nat \ {0}
ASSUME ColourAssumed == ColourAssumption

VARIABLES
  available, lighterSeen, onMat, lastDepth, failedChecks,
  arrived    \* what the latest colour_arrival_check returned

colourVars == <<available, lighterSeen, onMat, lastDepth, failedChecks, arrived>>

\* COLOUR_ARRIVAL_ZONE, and the depths that readings can have.
ARRIVAL_DEPTH == ZoneDepths.RING4
Depths == {DepthOf(reading) : reading \in ColourReadings}
DepthsSeen(readings) == {seen \in SUBSET Depths \ {{}} : Cardinality(seen) <= readings}

\* colour_sensor_init has found the sensor, or not; then colour_arrival_reset.
ColourInit ==
  /\ available \in (IF ColourReadings = {} THEN {FALSE} ELSE BOOLEAN)
  /\ lighterSeen = FALSE /\ onMat = FALSE /\ lastDepth = -1 /\ failedChecks = 0
  /\ arrived = FALSE

colour_on_mat == available /\ onMat
colour_last_depth == IF available THEN lastDepth ELSE -1

LighterMat(depth) == depth >= 1 /\ depth < ARRIVAL_DEPTH
Dark(depth) == depth >= ARRIVAL_DEPTH

\* A check whose readings show the depths seen, the last of them last.
CheckReads_DarkIsEnough(seen, last) ==
  /\ available /\ failedChecks' = 0 /\ UNCHANGED available
  /\ lighterSeen' = (lighterSeen \/ \E d \in seen : LighterMat(d))
  /\ onMat' = (\E d \in seen : d >= 1)
  /\ lastDepth' = last
  /\ arrived' = (\A d \in seen : Dark(d))
CheckReads(seen, last) ==
  /\ available /\ failedChecks' = 0 /\ UNCHANGED available
  /\ lighterSeen' = (lighterSeen \/ \E d \in seen : LighterMat(d))
  /\ onMat' = (\E d \in seen : d >= 1)
  /\ lastDepth' = last
  /\ arrived' = ((\A d \in seen : Dark(d)) /\ lighterSeen)

\* A check with a failed reading; the sensor is given up after too many in a row.
CheckFails ==
  /\ available
  /\ onMat' = FALSE /\ lastDepth' = -1 /\ arrived' = FALSE
  /\ failedChecks' = failedChecks + 1
  /\ available' = (failedChecks' < MAX_FAILED_CHECKS)
  /\ UNCHANGED lighterSeen

colour_arrival_check ==
  \/ ~available /\ arrived' = FALSE
     /\ UNCHANGED <<available, lighterSeen, onMat, lastDepth, failedChecks>>
  \/ CheckFails
  \/ \E seen \in DepthsSeen(COLOUR_ARRIVAL_SAMPLES) : \E last \in seen : CheckReads(seen, last)

colour_note_lighter_mat ==
  lighterSeen' = TRUE /\ UNCHANGED <<available, onMat, lastDepth, failedChecks, arrived>>

\* The static variables of colour_sensor.c have their types.
ColourTypeOK ==
  /\ available \in BOOLEAN /\ lighterSeen \in BOOLEAN /\ onMat \in BOOLEAN /\ arrived \in BOOLEAN
  /\ lastDepth \in -1..6 /\ failedChecks \in 0..MAX_FAILED_CHECKS
=============================================================================
