------------------------------- MODULE Motion -------------------------------
(***************************************************************************)
(* The robot's motion control, src/getting_there/motion.c: the STOP latch, *)
(* the PWM switch, the gyro heading with its recovery from I2C errors, the *)
(* straight drive and the turn.                                            *)
(*                                                                         *)
(* One thread runs these calls; every loop body is split where it sleeps,  *)
(* where it waits for the bus and where STOP can be seen or missed.  The   *)
(* button may be pressed and released at any moment, and BTstack callbacks *)
(* poll it too.                                                            *)
(*                                                                         *)
(* Time is counted in samples of MOTION_SAMPLE_MS; an angle is an integer  *)
(* and a rate an angle per sample.  Duty cycles and the steering           *)
(* correction are left out: the rotation of a moving robot is any rate up  *)
(* to the sensor's range, whatever the motors were told.                   *)
(***************************************************************************)
EXTENDS Integers

CONSTANTS
  FULL,                         \* a full turn
  GYRO_RANGE,                   \* the largest rate, in either direction
  GYRO_SATURATION,              \* readings from here on are not trusted
  MAX_STRAIGHT_YAW,
  MAX_GYRO_RECOVERY_GAP, MAX_GYRO_UNCERTAINTY,
  IMU_RECOVERY_ATTEMPTS, MAX_MOVING_RECOVERIES,
  TURN_TOLERANCE, TURN_COAST, TURN_MAX_CORRECTIONS, TURN_CORRECTION_MAX,
  TURN_TIMEOUT, TURN_START_TIMEOUT, MIN_PROGRESS, MAX_OPPOSITE,
  SIGN_RATE,                    \* readings up to here say nothing of the gyro's sign
  SIGN_SAMPLES,                 \* equal readings that settle it
  GYRO_DIRECTION_CHECK,         \* the turn it is learnt in
  MOTOR_SETTLE, CALIBRATION_SAMPLES,
  Headings, Durations,          \* what the callers ask for
  CALLS                         \* bound on the turns and drives of one run

AngleAssumption ==
  /\ FULL \in Nat \ {0} /\ FULL % 2 = 0
  /\ GYRO_RANGE \in Nat /\ GYRO_SATURATION \in Nat \ {0}
  /\ MAX_STRAIGHT_YAW \in Nat /\ MAX_GYRO_UNCERTAINTY \in Nat
  /\ TURN_TOLERANCE \in Nat /\ TURN_COAST \in Nat
  /\ MIN_PROGRESS \in Nat /\ MAX_OPPOSITE \in Nat /\ SIGN_RATE \in Nat
  /\ GYRO_DIRECTION_CHECK \in Nat \ {0} /\ Headings \subseteq Int
LimitAssumption ==
  /\ MAX_GYRO_RECOVERY_GAP \in Nat
  /\ IMU_RECOVERY_ATTEMPTS \in Nat \ {0} /\ MAX_MOVING_RECOVERIES \in Nat
  /\ TURN_MAX_CORRECTIONS \in Nat /\ TURN_CORRECTION_MAX \in Nat
  /\ TURN_TIMEOUT \in Nat /\ TURN_START_TIMEOUT \in Nat
  /\ SIGN_SAMPLES \in Nat \ {0} /\ MOTOR_SETTLE \in Nat
  /\ CALIBRATION_SAMPLES \in Nat \ {0} /\ Durations \subseteq Nat \ {0} /\ CALLS \in Nat
ASSUME AnglesAssumed == AngleAssumption
ASSUME LimitsAssumed == LimitAssumption

VARIABLES
  \* The STOP button, its arming and the FAULT_STOP_LATCHED bit
  button, stopArmed, stopLatched,
  \* motors_powered, and what motors_set's test of STOP has let through
  powered, granted,
  \* The gyro
  gyroHeading, turnSign, uncertainty, recoveries,
  \* drive; pc stands for its pending and failed flags
  driveActive, driveElapsed, driveAge, duration,
  \* The locals of turn_degrees
  degrees, startHeading, segmentHeading, attempt, direction,
  signCandidate, signSamples, turnAge, segmentAge,
  \* The call in progress
  stage,                        \* how far main() has come
  call, pc, returned, callsLeft,
  asked,                        \* the heading the call was given
  count,                        \* samples of a settling or a calibration; motors_set's place
  resume, gap, retries,         \* what was being read when the bus failed, samples missed
  faults,
  trueHeading,                  \* history: where the robot points, in gyro coordinates
  lateSamples                   \* history: samples under power since STOP was pressed

stopVars == <<button, stopArmed, stopLatched>>
motorVars == <<powered, granted>>
gyroVars == <<gyroHeading, uncertainty, recoveries>>
driveVars == <<driveActive, driveElapsed, driveAge, duration>>
signVars == <<turnSign, signCandidate, signSamples>>
segmentVars == <<segmentHeading, attempt, direction, segmentAge>>
turnVars == <<degrees, startHeading, turnAge, segmentVars>>
callVars == <<stage, call, callsLeft, asked>>
busVars == <<resume, gap, retries>>
motionVars == <<stopVars, motorVars, gyroVars, driveVars, signVars, turnVars, callVars, busVars,
                pc, returned, count, faults, trueHeading, lateSamples>>

\* main() before GP20: nothing is armed, the motors are off.
MotionInit ==
  /\ button = FALSE /\ stopArmed = FALSE /\ stopLatched = FALSE
  /\ powered = FALSE /\ granted = FALSE
  /\ gyroHeading = 0 /\ turnSign = 0 /\ uncertainty = 0 /\ recoveries = 0
  /\ driveActive = FALSE /\ driveElapsed = 0 /\ driveAge = 0 /\ duration = 0
  /\ degrees = 0 /\ startHeading = 0 /\ segmentHeading = 0 /\ attempt = 0 /\ direction = 1
  /\ signCandidate = 0 /\ signSamples = 0 /\ turnAge = 0 /\ segmentAge = 0
  /\ stage = "boot" /\ call = "none" /\ pc = "caller" /\ returned = "none" /\ callsLeft = CALLS
  /\ asked = 0 /\ count = 0 /\ resume = "none" /\ gap = 0 /\ retries = 0
  /\ faults = {} /\ trueHeading = 0 /\ lateSamples = 0

-----------------------------------------------------------------------------
(* Building blocks                                                          *)

Magnitude(x) == IF x < 0 THEN -x ELSE x
Older(age, bound) == IF age < bound THEN age + 1 ELSE age

\* normalise_degrees.
Normalise(angle) == ((angle + FULL \div 2) % FULL) - FULL \div 2

\* stop_pressed: true for ever once the armed button was seen pressed.
stop_pressed_Unlatched == stopArmed /\ button
stop_pressed == stopLatched \/ (stopArmed /\ button)
PollStop == stopLatched' = stop_pressed /\ UNCHANGED <<button, stopArmed>>

motors_stop == powered' = FALSE /\ granted' = FALSE

\* stop_drive, late samples after the last one.
stop_drive_NoMinimum(late) ==
  /\ motors_stop /\ driveActive' = FALSE
  /\ driveElapsed' = IF driveActive THEN driveAge + late ELSE driveElapsed
  /\ UNCHANGED <<driveAge, duration>>
stop_drive(late) ==
  /\ motors_stop /\ driveActive' = FALSE
  /\ driveElapsed' = IF ~driveActive THEN driveElapsed
                     ELSE IF powered /\ driveAge + late = 0 THEN 1 ELSE driveAge + late
  /\ UNCHANGED <<driveAge, duration>>

\* What the gyro is being read for.
Place == IF pc = "recover" THEN resume ELSE pc
ForDrive == Place = "drive" \/ (Place = "settle" /\ call = "drive")
ForTurn == Place = "turn" \/ (Place = "settle" /\ call # "drive")

\* The rates it may find: any while the robot is driven or coasts, none at rest.
Rates == IF ForDrive \/ ForTurn THEN -GYRO_RANGE..GYRO_RANGE ELSE {0}
Saturated(rate) == Magnitude(rate) >= GYRO_SATURATION

\* The call is over but for what it reports.
Reports(result) == pc' = "report" /\ returned' = result /\ count' = 0
Fails(fault) == Reports("failed") /\ faults' = faults \cup fault

\* motors_set comes next; from the loop, the thread sleeps after it.
SetMotors(looping) ==
  /\ pc' = "set" /\ count' = IF looping THEN 1 ELSE 0
  /\ UNCHANGED <<returned, faults>>

-----------------------------------------------------------------------------
(* turn_degrees: its loops between two samples                              *)

Error(heading, sign) == degrees - sign * (heading - startHeading)
Reached(error) == Magnitude(error) <= TURN_TOLERANCE

BeginSegment(heading, sign, n) ==
  /\ attempt' = n /\ segmentHeading' = heading /\ segmentAge' = 0
  /\ direction' = IF degrees - sign * (heading - startHeading') > 0 THEN 1 ELSE -1
  /\ signCandidate' = 0 /\ signSamples' = 0
  /\ SetMotors(FALSE)

\* A turn to an angle from here; a turn by nothing is done.
turn_degrees(angle) ==
  /\ degrees' = angle /\ PollStop
  /\ IF stop_pressed THEN motors_stop ELSE UNCHANGED motorVars
  /\ IF stop_pressed THEN Reports("failed")
     ELSE IF angle = 0 THEN Reports("ok")
     ELSE pc' = "preflight" /\ count' = 0 /\ UNCHANGED returned

ToHeading(heading) == Normalise(heading - turnSign * gyroHeading)

\* Three readings of one sign in a row settle which way a positive turn reads; one in
\* the dead band starts the count over.
LearnSign(rate) ==
  LET candidate == IF rate > SIGN_RATE THEN 1 ELSE IF rate < -SIGN_RATE THEN -1 ELSE 0 IN
  IF turnSign # 0 THEN UNCHANGED signVars
  ELSE /\ signCandidate' = IF candidate = 0 THEN signCandidate ELSE candidate
       /\ signSamples' = IF candidate = 0 THEN 0
                         ELSE IF candidate = signCandidate THEN signSamples + 1 ELSE 1
       /\ turnSign' = IF signSamples' >= SIGN_SAMPLES THEN direction * candidate ELSE 0

\* One turn of the inner loop, the sample taken.
Turning(rate) ==
  LET remaining == direction * Error(gyroHeading', turnSign')
      coast == direction * turnSign' * rate * TURN_COAST
      segment == direction * turnSign' * (gyroHeading' - segmentHeading)
      close == \/ remaining <= TURN_TOLERANCE
               \/ attempt = 0 /\ (remaining <= 0 \/ remaining <= coast)
  IN /\ LearnSign(rate)
     /\ \/ /\ turnSign' # 0 /\ close
           /\ motors_stop /\ pc' = "settle" /\ count' = 0 /\ UNCHANGED <<returned, faults>>
        \/ /\ ~(turnSign' # 0 /\ close) /\ segment < -MAX_OPPOSITE
           /\ motors_stop /\ Fails({"HEADING"})
        \/ /\ ~(turnSign' # 0 /\ close) /\ segment >= -MAX_OPPOSITE
           /\ segmentAge >= TURN_START_TIMEOUT /\ segment < MIN_PROGRESS
           /\ motors_stop /\ Fails({"TURN"})
        \/ /\ ~(turnSign' # 0 /\ close) /\ segment >= -MAX_OPPOSITE
           /\ ~(segmentAge >= TURN_START_TIMEOUT /\ segment < MIN_PROGRESS)
           /\ IF attempt > 0 /\ segmentAge >= TURN_CORRECTION_MAX
                THEN motors_stop /\ pc' = "settle" /\ count' = 0 /\ UNCHANGED <<returned, faults>>
                ELSE SetMotors(TRUE) /\ UNCHANGED motorVars
  /\ UNCHANGED <<driveVars, turnVars>>

\* The turn has settled: within the tolerance, or one more correction, or none left.
TurnSettled ==
  LET error == Error(gyroHeading', turnSign) IN
  /\ UNCHANGED <<driveVars, degrees, startHeading, turnAge, turnSign>>
  /\ motors_stop
  /\ \/ Reached(error) /\ Reports("ok") /\ UNCHANGED <<faults, segmentVars, signCandidate, signSamples>>
     \/ ~Reached(error) /\ attempt < TURN_MAX_CORRECTIONS
        /\ BeginSegment(gyroHeading', turnSign, attempt + 1)
     \/ ~Reached(error) /\ attempt = TURN_MAX_CORRECTIONS
        /\ Fails({"TURN"}) /\ UNCHANGED <<segmentVars, signCandidate, signSamples>>

-----------------------------------------------------------------------------
(* motion_drive_start, _update and _finish between two samples              *)

Straight_Trusting(heading, doubt) == Magnitude(Normalise(heading - turnSign * asked)) <= MAX_STRAIGHT_YAW
Straight(heading, doubt) ==
  Magnitude(Normalise(heading - turnSign * asked)) + doubt <= MAX_STRAIGHT_YAW

StartDrive ==
  /\ UNCHANGED <<turnVars, signVars, motorVars>>
  /\ IF Straight(gyroHeading', uncertainty')
       THEN /\ driveActive' = TRUE /\ driveElapsed' = 0 /\ driveAge' = 0
            /\ UNCHANGED duration /\ SetMotors(FALSE)
       ELSE Fails({"HEADING"}) /\ UNCHANGED driveVars

\* The rest of motion_drive_update.  A block that a recovery ended goes on to
\* settle; so does one that has run its time.
Driving ==
  /\ UNCHANGED <<turnVars, signVars>>
  /\ \/ /\ ~Straight(gyroHeading', uncertainty')
        /\ stop_drive(0) /\ Fails({"HEADING"})
     \/ /\ Straight(gyroHeading', uncertainty') /\ (~driveActive \/ driveAge >= duration)
        /\ stop_drive(0) /\ pc' = "settle" /\ count' = 0 /\ UNCHANGED <<returned, faults>>
     \/ /\ Straight(gyroHeading', uncertainty') /\ driveActive /\ driveAge < duration
        /\ SetMotors(TRUE) /\ UNCHANGED <<driveVars, motorVars>>

DriveSettled ==
  /\ UNCHANGED <<driveVars, turnVars, signVars, motorVars>>
  /\ IF Straight(gyroHeading', uncertainty') THEN Reports("ok") /\ UNCHANGED faults
                                             ELSE Fails({"HEADING"})

-----------------------------------------------------------------------------
(* What follows a good sample, wherever it was taken                        *)

\* Called with the new heading; count' and the rest of the sample's effects.
Sample(rate) ==
  \/ /\ Place = "calibrate"
     /\ UNCHANGED <<motorVars, driveVars, signVars, turnVars, faults>>
     /\ IF stop_pressed THEN Reports("failed")
        ELSE IF count + 1 = CALIBRATION_SAMPLES THEN Reports("ok")
        ELSE pc' = "calibrate" /\ count' = count + 1 /\ UNCHANGED returned
  \/ /\ Place # "calibrate" /\ Saturated(rate)
     /\ motors_stop /\ Fails({"GYRO_SATURATED"})
     /\ driveActive' = FALSE
     /\ driveElapsed' = IF driveActive THEN driveAge ELSE driveElapsed
     /\ UNCHANGED <<driveAge, duration, signVars, turnVars>>
  \/ /\ Place = "preflight" /\ ~Saturated(rate) /\ call = "drive" /\ StartDrive
  \/ /\ Place = "preflight" /\ ~Saturated(rate) /\ call # "drive"
     /\ startHeading' = gyroHeading' /\ turnAge' = 0
     /\ UNCHANGED <<driveVars, motorVars, degrees, turnSign>>
     /\ IF turnSign # 0 /\ Reached(degrees)
          THEN Reports("ok") /\ UNCHANGED <<faults, segmentVars, signCandidate, signSamples>>
          ELSE BeginSegment(gyroHeading', turnSign, 0)
  \/ /\ Place = "turn" /\ ~Saturated(rate) /\ Turning(rate)
  \/ /\ Place = "drive" /\ ~Saturated(rate) /\ Driving
  \/ /\ Place = "settle" /\ ~Saturated(rate) /\ count < MOTOR_SETTLE
     /\ pc' = "settle" /\ count' = count + 1 /\ turnAge' = Older(turnAge, TURN_TIMEOUT)
     /\ UNCHANGED <<motorVars, driveVars, signVars, degrees, startHeading, segmentVars,
                    returned, faults>>
  \/ /\ Place = "settle" /\ ~Saturated(rate) /\ count = MOTOR_SETTLE
     /\ IF call = "drive" THEN DriveSettled ELSE TurnSettled

\* Samples since the previous one: none when a loop or a settling begins.
SinceSample ==
  IF \/ pc = "drive" /\ driveAge > 0
     \/ pc = "turn" /\ segmentAge > 0
     \/ pc = "settle" /\ count > 0
  THEN 1 ELSE 0

\* The heading adds rate over samples; the robot has turned by angle meanwhile.
AddSample(rate, samples, angle) ==
  /\ gyroHeading' = gyroHeading + rate * samples
  /\ trueHeading' = trueHeading + angle

-----------------------------------------------------------------------------
(* read_motion_gyro and recover_gyro_stopped                                *)

Reading == pc \in {"preflight", "turn", "drive", "settle", "calibrate"}
Timely_NoDeadline == TRUE
Timely == ~(pc = "turn" /\ turnAge >= TURN_TIMEOUT)

\* STOP seen before the read: the motors go off, no fault but the latch.
ReadStopped ==
  /\ Reading /\ Timely /\ pc # "calibrate" /\ stop_pressed
  /\ PollStop /\ motors_stop /\ Reports("failed")
  /\ driveActive' = FALSE /\ driveElapsed' = IF driveActive THEN driveAge ELSE driveElapsed
  /\ UNCHANGED <<driveAge, duration, gyroVars, signVars, turnVars, callVars, busVars,
                 faults, trueHeading, lateSamples>>

ReadSample(rate) ==
  /\ Reading /\ Timely /\ (pc = "calibrate" \/ ~stop_pressed) /\ rate \in Rates
  /\ IF Saturated(rate) THEN AddSample(0, 0, rate * SinceSample)
                        ELSE AddSample(rate, SinceSample, rate * SinceSample)
  /\ UNCHANGED <<uncertainty, recoveries>>
  /\ Sample(rate)
  /\ PollStop /\ UNCHANGED <<callVars, busVars, lateSamples>>

\* The I2C transaction fails, late samples after the read began: the motors
\* stop before anything else.  A turn is lost, and a drive after too many.
ReadError(late) ==
  /\ Reading /\ Timely /\ (pc = "calibrate" \/ ~stop_pressed)
  /\ IF pc = "calibrate" THEN UNCHANGED <<motorVars, driveVars>> ELSE stop_drive(late)
  /\ gap' = SinceSample + late /\ retries' = 0 /\ resume' = pc
  /\ IF ForTurn \/ (ForDrive /\ recoveries >= MAX_MOVING_RECOVERIES)
       THEN Fails({"IMU"})
       ELSE pc' = "recover" /\ UNCHANGED <<returned, count, faults>>
  /\ UNCHANGED <<stopVars, gyroVars, signVars, turnVars, callVars, trueHeading, lateSamples>>

\* The retry sees STOP, or fails: the last one ends the call.
RecoveryFails ==
  /\ pc = "recover" /\ PollStop
  /\ IF stop_pressed \/ retries + 1 = IMU_RECOVERY_ATTEMPTS
       THEN Fails({"IMU"}) /\ UNCHANGED busVars
       ELSE retries' = retries + 1 /\ gap' = gap + 1
            /\ UNCHANGED <<resume, pc, returned, count, faults>>
  /\ UNCHANGED <<motorVars, gyroVars, driveVars, signVars, turnVars, callVars,
                 trueHeading, lateSamples>>

\* Nobody saw the robot turn during the gap: by up to the sensor's range each
\* way, when the gyro adds the last rate throughout.
Doubt_NoRange(rate, samples) == Magnitude(rate) * samples
Doubt(rate, samples) == (GYRO_RANGE + Magnitude(rate)) * samples

RecoverySample(rate, angle) ==
  /\ pc = "recover" /\ ~stop_pressed /\ rate \in Rates
  /\ angle \in IF ForDrive THEN (-GYRO_RANGE * gap)..(GYRO_RANGE * gap) ELSE {0}
  /\ UNCHANGED <<stopVars, callVars, busVars, lateSamples>>
  /\ LET doubt == uncertainty + Doubt(rate, gap)
         lost == gap > MAX_GYRO_RECOVERY_GAP \/ doubt > MAX_GYRO_UNCERTAINTY
     IN /\ uncertainty' = IF ForDrive THEN doubt ELSE uncertainty
        /\ recoveries' = IF ForDrive /\ ~lost THEN recoveries + 1 ELSE recoveries
        /\ \/ /\ ForDrive /\ lost
              /\ Fails({"IMU"}) /\ AddSample(0, 0, angle)
              /\ UNCHANGED <<motorVars, driveVars, signVars, turnVars>>
           \/ /\ ~(ForDrive /\ lost)
              /\ AddSample(IF Saturated(rate) THEN 0 ELSE rate, gap, angle)
              /\ Sample(rate)

-----------------------------------------------------------------------------
(* motors_set, and what the loops do around their samples                   *)

\* motors_set lets a speed through unless STOP is seen...
motors_set == granted' = (stopArmed /\ ~stop_pressed) /\ PollStop

TestMotors ==
  /\ pc = "set" /\ pc' = "write" /\ motors_set
  /\ UNCHANGED <<powered, gyroVars, driveVars, signVars, turnVars, callVars, busVars, returned,
                 count, faults, trueHeading, lateSamples>>

\* ...and writes it: a press in between is seen at the next sample.
WriteMotors ==
  /\ pc = "write" /\ powered' = granted
  /\ pc' = IF count = 1 THEN "sleep" ELSE IF call = "drive" THEN "drive" ELSE "turn"
  /\ count' = 0
  /\ UNCHANGED <<stopVars, granted, gyroVars, driveVars, signVars, turnVars, callVars, busVars,
                 returned, faults, trueHeading, lateSamples>>

\* STOP has been held or latched; what the history counts by.
StopWanted == stopLatched \/ (stopArmed /\ button)

\* sleep_ms(MOTION_SAMPLE_MS) with the motors on.
Sleep ==
  /\ pc = "sleep"
  /\ pc' = IF call = "drive" THEN "drive" ELSE "turn"
  /\ IF call = "drive"
       THEN driveAge' = driveAge + 1 /\ UNCHANGED <<turnAge, segmentAge>>
       ELSE /\ turnAge' = Older(turnAge, TURN_TIMEOUT)
            /\ segmentAge' = Older(segmentAge, TURN_TIMEOUT) /\ UNCHANGED driveAge
  /\ lateSamples' = IF powered /\ StopWanted THEN Older(lateSamples, 2) ELSE lateSamples
  /\ UNCHANGED <<stopVars, motorVars, gyroVars, driveActive, driveElapsed, duration, signVars,
                 degrees, startHeading, segmentHeading, attempt, direction, callVars, busVars,
                 returned, count, faults, trueHeading>>

\* The whole turn has a deadline, checked before each sample.
TurnTimesOut ==
  /\ pc = "turn" /\ turnAge >= TURN_TIMEOUT
  /\ motors_stop /\ Fails({"TURN"})
  /\ UNCHANGED <<stopVars, gyroVars, driveVars, signVars, turnVars, callVars, busVars,
                 trueHeading, lateSamples>>

-----------------------------------------------------------------------------
(* The callers                                                              *)

Calls(name, heading) == pc = "caller" /\ call' = name /\ asked' = heading

\* motion_arm_stop: GP21 is STOP from here; held already, it cancels the start.
motion_arm_stop ==
  /\ stage = "boot" /\ pc = "caller"
  /\ stopArmed' = TRUE /\ stopLatched' = button /\ UNCHANGED button
  /\ stage' = IF button THEN "ended" ELSE "calibrate"
  /\ UNCHANGED <<motorVars, gyroVars, driveVars, signVars, turnVars, call, callsLeft, asked,
                 busVars, pc, returned, count, faults, trueHeading, lateSamples>>

motion_calibrate ==
  /\ stage = "calibrate" /\ Calls("calibrate", 0)
  /\ pc' = "calibrate" /\ count' = 0
  /\ motors_stop /\ driveActive' = FALSE
  /\ gyroHeading' = 0 /\ trueHeading' = 0 /\ uncertainty' = 0 /\ recoveries' = 0 /\ turnSign' = 0
  /\ UNCHANGED <<stopVars, driveElapsed, driveAge, duration, signCandidate, signSamples,
                 turnVars, stage, callsLeft, busVars, returned, faults, lateSamples>>

\* The first turn of motion_learn_direction.
motion_learn_direction ==
  /\ stage = "learn" /\ Calls("learn", GYRO_DIRECTION_CHECK)
  /\ turn_degrees(GYRO_DIRECTION_CHECK)
  /\ UNCHANGED <<gyroVars, driveVars, signVars, startHeading, turnAge, segmentVars, stage,
                 callsLeft, busVars, faults, trueHeading, lateSamples>>

motion_turn_to_heading(heading) ==
  /\ stage = "run" /\ callsLeft > 0 /\ Calls("turn", heading) /\ callsLeft' = callsLeft - 1
  /\ turn_degrees(ToHeading(heading))
  /\ UNCHANGED <<gyroVars, driveVars, signVars, startHeading, turnAge, segmentVars,
                 stage, busVars, faults, trueHeading, lateSamples>>

\* motion_drive_start up to its preflight sample.
motion_drive_start(heading, samples) ==
  /\ stage = "run" /\ callsLeft > 0 /\ Calls("drive", heading) /\ callsLeft' = callsLeft - 1
  /\ PollStop
  /\ IF stop_pressed \/ turnSign = 0
       THEN stop_drive(0) /\ Reports("failed")
       ELSE /\ pc' = "preflight" /\ duration' = samples
            /\ UNCHANGED <<motorVars, driveActive, driveElapsed, driveAge, returned, count>>
  /\ UNCHANGED <<gyroVars, signVars, turnVars, stage, busVars, faults, trueHeading, lateSamples>>

\* translate_block gives a drive up when the run has ended: motion_stop, then settle.
GivesUpDrive ==
  /\ pc = "drive" /\ stop_drive(0) /\ pc' = "settle" /\ count' = 0
  /\ UNCHANGED <<stopVars, gyroVars, signVars, turnVars, callVars, busVars, returned, faults,
                 trueHeading, lateSamples>>

\* The outcome is printed and returned, the call's locals with it.  A learnt
\* direction is turned back; after a failure nothing moves again.
Return ==
  /\ pc = "report"
  /\ startHeading' = 0 /\ segmentHeading' = 0 /\ attempt' = 0 /\ direction' = 1
  /\ signCandidate' = 0 /\ signSamples' = 0 /\ turnAge' = 0 /\ segmentAge' = 0
  /\ driveAge' = 0 /\ duration' = 0 /\ resume' = "none" /\ gap' = 0 /\ retries' = 0
  /\ IF call = "learn" /\ returned = "ok"
       THEN /\ call' = "learn_back" /\ asked' = 0
            /\ turn_degrees(ToHeading(0)) /\ UNCHANGED stage
       ELSE /\ pc' = "caller" /\ degrees' = 0
            /\ stage' = IF returned = "failed" THEN "ended"
                        ELSE IF call = "calibrate" THEN "learn" ELSE "run"
            /\ UNCHANGED <<stopVars, motorVars, call, asked, returned, count>>
  /\ UNCHANGED <<gyroVars, driveActive, driveElapsed, turnSign, callsLeft, faults,
                 trueHeading, lateSamples>>

-----------------------------------------------------------------------------
(* The button and the callbacks that ask about it                           *)

inertVars == <<motorVars, gyroVars, driveVars, signVars, turnVars, callVars, busVars, pc,
               returned, count, faults, trueHeading>>

Press == ~button /\ button' = TRUE /\ UNCHANGED <<stopArmed, stopLatched, lateSamples, inertVars>>

\* A press nobody has polled is forgotten.
Release ==
  /\ button /\ button' = FALSE
  /\ lateSamples' = IF stopLatched THEN lateSamples ELSE 0
  /\ UNCHANGED <<stopArmed, stopLatched, inertVars>>

\* payload_client.c asks motion_stop_requested from its BTstack callbacks.
CallbackPolls == PollStop /\ UNCHANGED <<lateSamples, inertVars>>

-----------------------------------------------------------------------------
ThreadStep ==
  \/ ReadStopped
  \/ \E rate \in -GYRO_RANGE..GYRO_RANGE : ReadSample(rate)
  \/ \E late \in 0..1 : ReadError(late)
  \/ RecoveryFails
  \/ \E rate \in -GYRO_RANGE..GYRO_RANGE :
       \E angle \in (-GYRO_RANGE * gap)..(GYRO_RANGE * gap) : RecoverySample(rate, angle)
  \/ TestMotors \/ WriteMotors \/ Sleep \/ TurnTimesOut \/ GivesUpDrive \/ Return

Caller ==
  \/ motion_arm_stop \/ motion_calibrate \/ motion_learn_direction
  \/ \E heading \in Headings :
       \/ motion_turn_to_heading(heading)
       \/ \E samples \in Durations : motion_drive_start(heading, samples)

Next == ThreadStep \/ Caller \/ Press \/ Release \/ CallbackPolls

\* The thread runs; nobody has to press the button or to ask for a movement.
Spec == MotionInit /\ [][Next]_motionVars /\ WF_motionVars(ThreadStep)

-----------------------------------------------------------------------------
(* Properties                                                               *)

Moving == {"set", "write", "sleep", "turn", "drive"}

MotionTypes ==
  /\ {button, stopArmed, stopLatched, powered, granted, driveActive} \subseteq BOOLEAN
  /\ turnSign \in -1..1 /\ direction \in {-1, 1} /\ attempt \in 0..TURN_MAX_CORRECTIONS
  /\ uncertainty \in Nat /\ recoveries \in 0..MAX_MOVING_RECOVERIES
  /\ retries \in 0..(IMU_RECOVERY_ATTEMPTS - 1) /\ callsLeft \in 0..CALLS
  /\ pc \in Moving \cup {"caller", "calibrate", "recover", "preflight", "settle", "report"}
  /\ stage \in {"boot", "calibrate", "learn", "run", "ended"}
  /\ faults \subseteq {"IMU", "GYRO_SATURATED", "HEADING", "TURN"}

\* The gyro is off by no more than the uncertainty it has admitted, however
\* many samples I2C errors cost: motion.c:228 adds what the robot may have
\* turned unseen.  Only a reported gyro fault may lose the heading.
HeadingTrusted ==
  Magnitude(trueHeading - gyroHeading) <= uncertainty \/ faults \cap {"IMU", "GYRO_SATURATED"} # {}

\* No error path of a turn or a drive reports, recovers, settles or returns
\* with the motors on: motion.c:216 and each motors_stop before a report.
StoppedWhenNotMoving == powered => pc \in Moving

\* Nothing moves by heading before the gyro's sign is learnt.
SignLearntFirst == stage = "run" => turnSign # 0

MotionInv == MotionTypes /\ HeadingTrusted /\ StoppedWhenNotMoving /\ SignLearntFirst

\* A call that reports success left the robot, not just the gyro, where it was
\* asked to be: a drive within MAX_STRAIGHT_YAW_DEGREES of its heading, a turn
\* within the tolerance and the uncertainty (motion.c:331, 366 and 476).
ArrivesAsTold ==
  pc = "report" /\ returned = "ok" /\ call \in {"turn", "learn_back", "drive"} =>
    Magnitude(Normalise(turnSign * trueHeading - asked)) <=
      IF call = "drive" THEN MAX_STRAIGHT_YAW ELSE TURN_TOLERANCE + uncertainty

\* A held or latched STOP leaves the motors powered for one sample at most,
\* though motors_set tests it before it writes (motion.c:112).
StopWithinSample == lateSamples <= 1

\* A drive that succeeds is charged for the time it was powered: never nothing,
\* never more than it was given and the transaction that ended it (motion.c:277).
ChargedAsDriven ==
  pc = "report" /\ call = "drive" /\ returned = "ok" => driveElapsed \in 1..(duration + 1)

\* Every call returns, whatever the gyro and the bus do: each loop of motion.c
\* has a deadline, a count or a limit.
MotionReturns == pc # "caller" ~> pc = "caller"
=============================================================================
