--------------------------- MODULE Motion_proofs ---------------------------
(***************************************************************************)
(* The motion control is right for every circle, sensor, deadline and      *)
(* number of movements: the heading's doubt is honest, STOP and every      *)
(* error take the power away, and a call that reports success left the     *)
(* robot where it was asked to be.                                         *)
(***************************************************************************)
EXTENDS Motion, TLAPS

-----------------------------------------------------------------------------
(* The inductive invariant                                                  *)

Turns == {"learn", "learn_back", "turn"}
Called == Turns \cup {"drive"}

NumbersOK ==
  /\ gyroHeading \in Int /\ trueHeading \in Int /\ asked \in Int /\ degrees \in Int
  /\ startHeading \in Int /\ segmentHeading \in Int
  /\ gap \in Nat /\ count \in Nat /\ driveAge \in Nat /\ driveElapsed \in Nat /\ duration \in Nat
  /\ turnAge \in Nat /\ segmentAge \in Nat /\ signSamples \in Nat /\ signCandidate \in -1..1

\* Which statements belong to which call.
CallOK ==
  /\ call \in Called \cup {"none", "calibrate"} /\ returned \in {"none", "ok", "failed"}
  /\ stage # "boot" => stopArmed
  /\ pc # "caller" => call # "none" /\ stage \notin {"boot", "ended"}
  /\ pc = "report" => returned # "none"
  /\ pc = "turn" => call \in Turns
  /\ pc = "drive" => call = "drive"
  /\ pc = "calibrate" => call = "calibrate"
  /\ pc \in {"preflight", "set", "write", "sleep", "settle"} => call \in Called
  /\ pc = "recover" => \/ resume = "preflight" /\ call \in Called
                       \/ /\ resume \in {"drive", "settle"} /\ call = "drive"
                          /\ recoveries < MAX_MOVING_RECOVERIES
                       \/ resume = "calibrate" /\ call = "calibrate"

\* A call that failed ends the run, so that no other follows a fault.
GaveUp == (pc = "report" /\ returned = "failed") \/ (pc = "caller" /\ stage = "ended")
TrustOK == HeadingTrusted /\ (faults # {} => GaveUp)

\* The motors are on, or STOP has been latched, when the time of a drive runs.
PowerOK ==
  /\ StoppedWhenNotMoving
  /\ driveActive <=> call = "drive" /\ pc \in {"set", "write", "sleep", "drive"}
  /\ pc = "write" => granted \/ stopLatched
  /\ pc \in {"sleep", "drive"} => powered \/ stopLatched

SignOK ==
  /\ SignLearntFirst
  /\ call \in {"learn_back", "turn", "drive"} => turnSign # 0
  /\ pc = "settle" => turnSign # 0
  /\ attempt > 0 => turnSign # 0
  /\ pc = "caller" => attempt = 0
  /\ pc = "report" /\ returned = "ok" /\ call # "calibrate" => turnSign # 0

\* A sample under power with STOP wanted is the last one of the run.
LateOK ==
  /\ lateSamples \in 0..1
  /\ lateSamples = 1 => StopWanted /\ (pc \in {"turn", "drive", "settle"} \/ GaveUp)

\* What a drive has been charged, once it has stopped.
Stopped == pc = "settle" \/ (pc = "recover" /\ resume \in {"drive", "settle"})
DriveOK ==
  call = "drive" =>
    /\ pc \notin {"caller", "report"} => duration >= 1
    /\ pc \in {"set", "write", "sleep"} => driveAge < duration
    /\ pc = "drive" => driveAge <= duration
    /\ Stopped => driveElapsed \in 1..(duration + 1) \/ stopLatched
    /\ pc = "report" /\ returned = "ok" => driveElapsed \in 1..(duration + 1)

\* Whole turns apart.
SameAngle(a, b) == (a - b) % FULL = 0
\* A turn by degrees from that heading leads to the one that was asked for.
LeadsThere(heading) == SameAngle(asked - turnSign * heading, degrees)
TurnOK ==
  call \in {"turn", "learn_back"} =>
    /\ pc = "preflight" \/ (pc = "recover" /\ resume = "preflight") => LeadsThere(gyroHeading)
    /\ pc \in {"set", "write", "sleep", "turn", "settle"} => LeadsThere(startHeading)

IInv ==
  /\ MotionTypes /\ NumbersOK /\ CallOK /\ TrustOK /\ PowerOK /\ SignOK /\ LateOK /\ DriveOK /\ TurnOK
  /\ ArrivesAsTold

-----------------------------------------------------------------------------
(* Angles                                                                   *)

LEMMA Division ==
  ASSUME NEW a \in Int, NEW b \in Nat, b > 0
  PROVE  a = (a \div b) * b + (a % b) /\ a \div b \in Int /\ a % b \in 0..(b - 1)
<1>1. a = (a \div b) * b + (a % b)
  OBVIOUS
<1>2. a \div b \in Int
  OBVIOUS
<1>3. a % b \in 0..(b - 1)
  OBVIOUS
<1> QED
  BY <1>1, <1>2, <1>3

LEMMA FullIsEven == FULL \in Nat /\ FULL > 0 /\ FULL \div 2 \in Nat /\ FULL = 2 * (FULL \div 2)
<1>1. FULL \in Nat /\ FULL > 0 /\ FULL % 2 = 0
  BY AnglesAssumed DEF AngleAssumption
<1> QED
  BY <1>1

LEMMA SameAngleIsTurns ==
  ASSUME NEW a \in Int, NEW b \in Int
  PROVE  SameAngle(a, b) <=> \E k \in Int : a - b = k * FULL
<1>1. FULL \in Nat /\ FULL > 0
  BY FullIsEven
<1>2. ASSUME SameAngle(a, b)
      PROVE  \E k \in Int : a - b = k * FULL
  <2>1. a - b = ((a - b) \div FULL) * FULL + ((a - b) % FULL) /\ (a - b) \div FULL \in Int
    BY <1>1, Division
  <2>2. (a - b) % FULL = 0
    BY <1>2 DEF SameAngle
  <2>3. a - b = ((a - b) \div FULL) * FULL
    BY <1>1, <2>1, <2>2
  <2> QED
    BY <2>1, <2>3
<1>3. ASSUME NEW k \in Int, a - b = k * FULL
      PROVE  SameAngle(a, b)
  <2>1. (k * FULL) % FULL = 0
    BY <1>1
  <2> QED
    BY <1>3, <2>1 DEF SameAngle
<1> QED
  BY <1>2, <1>3

LEMMA NormaliseIsNear ==
  ASSUME NEW a \in Int
  PROVE  /\ Normalise(a) \in Int /\ SameAngle(a, Normalise(a))
         /\ -(FULL \div 2) <= Normalise(a) /\ Normalise(a) < FULL \div 2
<1> DEFINE H == FULL \div 2
           m == (a + H) % FULL
           q == (a + H) \div FULL
<1>1. FULL \in Nat /\ FULL > 0 /\ H \in Nat /\ FULL = 2 * H
  BY FullIsEven
<1>2. a + H = q * FULL + m /\ q \in Int /\ m \in 0..(FULL - 1)
  BY <1>1, Division
<1>3. Normalise(a) = m - H
  BY DEF Normalise
<1> HIDE DEF H, m, q
<1>4. Normalise(a) \in Int /\ -H <= Normalise(a) /\ Normalise(a) < H
  BY <1>1, <1>2, <1>3
<1>5. a - Normalise(a) = q * FULL
  BY <1>1, <1>2, <1>3
<1>6. SameAngle(a, Normalise(a))
  BY <1>2, <1>4, <1>5, SameAngleIsTurns
<1> QED
  BY <1>4, <1>6 DEF H

\* Whole turns cannot bring an angle closer to nothing than its normal form is.
LEMMA NormaliseIsSmallest ==
  ASSUME NEW a \in Int, NEW m \in Int, SameAngle(a, m)
  PROVE  Magnitude(Normalise(a)) <= Magnitude(m)
<1> DEFINE H == FULL \div 2
           n == Normalise(a)
<1>1. FULL \in Nat /\ FULL > 0 /\ H \in Nat /\ FULL = 2 * H
  BY FullIsEven
<1>2. n \in Int /\ SameAngle(a, n) /\ -H <= n /\ n < H
  BY NormaliseIsNear
<1> HIDE DEF H, n
<1>3. PICK j \in Int : a - m = j * FULL
  BY SameAngleIsTurns
<1>4. PICK k \in Int : a - n = k * FULL
  BY <1>2, SameAngleIsTurns
<1>5. m - n = (k - j) * FULL
  BY <1>1, <1>2, <1>3, <1>4
<1>6. CASE k = j
  BY <1>1, <1>2, <1>5, <1>6 DEF Magnitude, n
<1>7. CASE k > j
  <2>1. PICK i \in Nat : k - j = i + 1
    BY <1>7
  <2>2. m - n = (i + 1) * FULL
    BY <1>5, <2>1
  <2>3. (i + 1) * FULL = i * FULL + FULL /\ i * FULL \in Nat
    BY <1>1
  <2>4. Magnitude(n) <= H /\ m >= H
    BY <1>1, <1>2, <2>2, <2>3 DEF Magnitude
  <2> QED
    BY <1>1, <1>2, <2>4 DEF Magnitude, n
<1>8. CASE k < j
  <2>1. PICK i \in Nat : j - k = i + 1
    BY <1>8
  <2>2. n - m = (j - k) * FULL
    BY <1>1, <1>2, <1>5
  <2>3. n - m = (i + 1) * FULL
    BY <2>1, <2>2
  <2>4. (i + 1) * FULL = i * FULL + FULL /\ i * FULL \in Nat
    BY <1>1
  <2>5. Magnitude(n) <= H /\ -m >= H
    BY <1>1, <1>2, <2>3, <2>4 DEF Magnitude
  <2> QED
    BY <1>1, <1>2, <2>5 DEF Magnitude, n
<1> QED
  BY <1>6, <1>7, <1>8

LEMMA SameAngleAdds ==
  ASSUME NEW a \in Int, NEW b \in Int, NEW c \in Int, NEW d \in Int, c - a = d - b
  PROVE  SameAngle(a, b) => SameAngle(c, d)
<1>1. a - b = c - d
  OBVIOUS
<1> QED
  BY <1>1 DEF SameAngle

LEMMA SameAngleReverses ==
  ASSUME NEW a \in Int, NEW b \in Int, SameAngle(a, b)
  PROVE  SameAngle(-a, -b) /\ SameAngle(b, a)
<1>1. FULL \in Nat /\ FULL > 0
  BY FullIsEven
<1>2. PICK k \in Int : a - b = k * FULL
  BY SameAngleIsTurns
<1>3. (-a) - (-b) = (-k) * FULL /\ b - a = (-k) * FULL
  BY <1>1, <1>2
<1> QED
  BY <1>1, <1>3, SameAngleIsTurns

\* A drive that the gyro sees straight is straight but for the doubt it admits.
LEMMA StraightIsClose ==
  ASSUME NEW g \in Int, NEW t \in Int, NEW h \in Int, NEW s \in {-1, 1}, NEW u \in Nat, NEW m \in Nat,
         Magnitude(Normalise(g - s * h)) + u <= m, Magnitude(t - g) <= u
  PROVE  Magnitude(Normalise(s * t - h)) <= m
<1> DEFINE n == Normalise(g - s * h)
<1>1. g - s * h \in Int /\ s * t - h \in Int
  OBVIOUS
<1>2. n \in Int /\ SameAngle(g - s * h, n)
  BY <1>1, NormaliseIsNear
<1>3. Magnitude(n) + u <= m
  OBVIOUS
<1> HIDE DEF n
<1>4. SameAngle(s * t - h, s * (n + t - g))
  <2>1. CASE s = 1
    <3>1. SameAngle(g - h, n)
      BY <1>2, <2>1
    <3>2. SameAngle(t - h, n + t - g)
      BY <1>2, <3>1, SameAngleAdds
    <3> QED
      BY <1>2, <2>1, <3>2
  <2>2. CASE s = -1
    <3>1. SameAngle(g + h, n)
      BY <1>2, <2>2
    <3>2. SameAngle(-(g + h), -n)
      BY <1>2, <3>1, SameAngleReverses
    <3>3. SameAngle(-t - h, -(n + t - g))
      BY <1>2, <3>2, SameAngleAdds
    <3> QED
      BY <1>2, <2>2, <3>3
  <2> QED
    BY <2>1, <2>2
<1>5. Magnitude(s * (n + t - g)) <= m /\ s * (n + t - g) \in Int
  BY <1>2, <1>3 DEF Magnitude
<1>6. Magnitude(Normalise(s * t - h)) <= Magnitude(s * (n + t - g))
  BY <1>1, <1>4, <1>5, NormaliseIsSmallest
<1>7. Magnitude(Normalise(s * t - h)) \in Int
  BY <1>1, NormaliseIsNear DEF Magnitude
<1>8. Magnitude(s * (n + t - g)) \in Int
  BY <1>5 DEF Magnitude
<1> QED
  BY <1>5, <1>6, <1>7, <1>8

\* A turn that the gyro sees close is close but for the doubt it admits.
LEMMA ReachedIsClose ==
  ASSUME NEW g \in Int, NEW t \in Int, NEW h \in Int, NEW s \in {-1, 1}, NEW u \in Nat, NEW m \in Nat,
         NEW from \in Int, NEW d \in Int,
         SameAngle(h - s * from, d), Magnitude(d - s * (g - from)) <= m, Magnitude(t - g) <= u
  PROVE  Magnitude(Normalise(s * t - h)) <= m + u
<1>1. s * t - h \in Int /\ s * t - s * from - d \in Int
  OBVIOUS
<1>2. SameAngle(s * t - h, s * t - s * from - d)
  <2>1. SameAngle(-(h - s * from), -d)
    BY SameAngleReverses
  <2>2. (s * t - h) - (-(h - s * from)) = (s * t - s * from - d) - (-d)
    OBVIOUS
  <2> QED
    BY <2>1, <2>2, SameAngleAdds
<1>3. Magnitude(s * t - s * from - d) <= m + u
  <2>1. s * t - s * from - d = s * (t - g) - (d - s * (g - from))
    OBVIOUS
  <2>2. Magnitude(s * (t - g)) <= u
    BY DEF Magnitude
  <2> QED
    BY <2>1, <2>2 DEF Magnitude
<1>4. Magnitude(Normalise(s * t - h)) <= Magnitude(s * t - s * from - d)
  BY <1>1, <1>2, NormaliseIsSmallest
<1>5. Magnitude(Normalise(s * t - h)) \in Int /\ Magnitude(s * t - s * from - d) \in Int
  BY <1>1, NormaliseIsNear DEF Magnitude
<1> QED
  BY <1>3, <1>4, <1>5

\* A turn by nothing is done where the robot stands, but for the doubt it admits.
LEMMA AlreadyThere ==
  ASSUME NEW g \in Int, NEW t \in Int, NEW h \in Int, NEW s \in {-1, 1}, NEW u \in Nat, NEW m \in Nat,
         SameAngle(h - s * g, 0), Magnitude(t - g) <= u
  PROVE  Magnitude(Normalise(s * t - h)) <= m + u
<1>1. Magnitude(0 - s * (g - g)) <= m
  BY DEF Magnitude
<1>2. 0 \in Int
  OBVIOUS
<1> QED
  BY <1>1, <1>2, ReachedIsClose

\* What the robot may have turned unseen is what recover_gyro_stopped adds to the doubt.
LEMMA DoubtCovers ==
  ASSUME NEW r \in -GYRO_RANGE..GYRO_RANGE, NEW n \in Nat, NEW angle \in (-GYRO_RANGE * n)..(GYRO_RANGE * n)
  PROVE  /\ Magnitude(angle - r * n) <= Doubt(r, n)
         /\ Doubt(r, n) \in Nat /\ angle \in Int /\ r * n \in Int
<1>1. GYRO_RANGE \in Nat /\ r \in Int
  BY AnglesAssumed DEF AngleAssumption
<1>2. GYRO_RANGE * n \in Nat /\ r * n \in Int /\ -GYRO_RANGE * n = -(GYRO_RANGE * n)
  BY <1>1
<1>3. angle \in Int /\ -(GYRO_RANGE * n) <= angle /\ angle <= GYRO_RANGE * n
  BY <1>2
<1>4. CASE r >= 0
  <2>1. Doubt(r, n) = GYRO_RANGE * n + r * n /\ r * n >= 0
    BY <1>1, <1>4 DEF Doubt, Magnitude
  <2> QED
    BY <1>2, <1>3, <2>1 DEF Magnitude
<1>5. CASE r < 0
  <2>1. Doubt(r, n) = GYRO_RANGE * n - r * n /\ r * n <= 0
    BY <1>1, <1>5 DEF Doubt, Magnitude
  <2> QED
    BY <1>2, <1>3, <2>1 DEF Magnitude
<1> QED
  BY <1>1, <1>4, <1>5

-----------------------------------------------------------------------------
(* A good sample, read at once or after a recovery                          *)

Trusts == Magnitude(trueHeading - gyroHeading) <= uncertainty

SampleTaken(rate) ==
  /\ Sample(rate)
  /\ Place \in {"preflight", "turn", "drive", "settle", "calibrate"}
  /\ pc = Place \/ (pc = "recover" /\ Place # "turn" /\ (Place = "settle" => call = "drive"))
  /\ UNCHANGED <<callVars, busVars, lateSamples, button, stopArmed>>
  /\ Place = "calibrate" \/ (~StopWanted /\ stopLatched' = stopLatched)
  /\ stopLatched' \in BOOLEAN
  /\ gyroHeading' \in Int /\ trueHeading' \in Int /\ uncertainty' \in Nat
  /\ recoveries' \in 0..MAX_MOVING_RECOVERIES
  /\ faults = {}
  /\ Trusts' \/ (Saturated(rate) /\ Place # "calibrate")
  /\ Place \in {"preflight", "calibrate"} => gyroHeading' = gyroHeading

LEMMA RatesAreIntegers == -GYRO_RANGE..GYRO_RANGE \subseteq Int /\ GYRO_SATURATION \in Nat /\ GYRO_SATURATION > 0
BY AnglesAssumed DEF AngleAssumption

\* Where the gyro is read, nothing has failed yet.
LEMMA NothingFailedYet ==
  ASSUME IInv, pc \notin {"caller", "report"}
  PROVE  faults = {} /\ Trusts
<1>1. faults = {}
  BY DEF IInv, TrustOK, GaveUp
<1> QED
  BY <1>1 DEF IInv, TrustOK, HeadingTrusted, Trusts

LEMMA ReadIsTaken ==
  ASSUME IInv, NEW rate \in -GYRO_RANGE..GYRO_RANGE, ReadSample(rate)
  PROVE  SampleTaken(rate)
<1>1. Reading /\ Place = pc /\ pc \in {"preflight", "turn", "drive", "settle", "calibrate"}
  BY DEF ReadSample, Reading, Place
<1>2. faults = {} /\ Trusts
  BY <1>1, NothingFailedYet
<1>3. /\ Sample(rate) /\ PollStop /\ UNCHANGED <<callVars, busVars, lateSamples>>
      /\ UNCHANGED <<uncertainty, recoveries>> /\ rate \in Rates
      /\ pc = "calibrate" \/ ~stop_pressed
  BY DEF ReadSample
<1>4. rate \in Int
  BY RatesAreIntegers
<1>5. gyroHeading \in Int /\ trueHeading \in Int /\ uncertainty \in Nat /\ recoveries \in 0..MAX_MOVING_RECOVERIES
  BY DEF IInv, NumbersOK, MotionTypes
<1>6. \/ ~Saturated(rate) /\ AddSample(rate, SinceSample, rate * SinceSample)
      \/ Saturated(rate) /\ AddSample(0, 0, rate * SinceSample)
  BY DEF ReadSample
<1>7. SinceSample \in {0, 1} /\ (pc \in {"preflight", "calibrate"} => SinceSample = 0)
  BY DEF SinceSample
<1>8. pc = "calibrate" => ~Saturated(rate)
  BY <1>1, <1>3, RatesAreIntegers DEF Rates, ForDrive, ForTurn, Saturated, Magnitude
<1>9. /\ gyroHeading' \in Int /\ trueHeading' \in Int
      /\ pc \in {"preflight", "calibrate"} => gyroHeading' = gyroHeading
      /\ Trusts' \/ Saturated(rate)
  BY <1>2, <1>3, <1>4, <1>5, <1>6, <1>7 DEF AddSample, Trusts, Magnitude
<1>10. /\ pc = "calibrate" \/ (~StopWanted /\ stopLatched' = stopLatched)
       /\ stopLatched' \in BOOLEAN /\ UNCHANGED <<button, stopArmed>>
  BY <1>3 DEF IInv, MotionTypes, PollStop, stop_pressed, StopWanted
<1> QED
  BY <1>1, <1>2, <1>3, <1>5, <1>8, <1>9, <1>10 DEF SampleTaken

RecoveryLost ==
  /\ pc = "recover" /\ Fails({"IMU"})
  /\ uncertainty' \in Nat /\ recoveries' \in 0..MAX_MOVING_RECOVERIES
  /\ gyroHeading' \in Int /\ trueHeading' \in Int
  /\ UNCHANGED <<stopVars, callVars, busVars, lateSamples, motorVars, driveVars, signVars, turnVars>>

LEMMA RecoveryIsTakenOrLost ==
  ASSUME IInv, NEW rate \in -GYRO_RANGE..GYRO_RANGE,
         NEW angle \in (-GYRO_RANGE * gap)..(GYRO_RANGE * gap), RecoverySample(rate, angle)
  PROVE  SampleTaken(rate) \/ RecoveryLost
<1> DEFINE doubt == uncertainty + Doubt(rate, gap)
           lost == gap > MAX_GYRO_RECOVERY_GAP \/ doubt > MAX_GYRO_UNCERTAINTY
<1>1. /\ pc = "recover" /\ Place = resume /\ ~stop_pressed /\ rate \in Rates
      /\ resume \in {"preflight", "drive", "settle", "calibrate"} /\ (resume = "settle" => call = "drive")
      /\ UNCHANGED <<stopVars, callVars, busVars, lateSamples>>
  BY DEF RecoverySample, Place, IInv, CallOK
<1>2. faults = {} /\ Trusts
  BY <1>1, NothingFailedYet
<1>3. /\ gyroHeading \in Int /\ trueHeading \in Int /\ uncertainty \in Nat /\ gap \in Nat
      /\ recoveries \in 0..MAX_MOVING_RECOVERIES /\ rate \in Int
      /\ MAX_MOVING_RECOVERIES \in Nat
      /\ ForDrive => recoveries < MAX_MOVING_RECOVERIES
  BY <1>1, RatesAreIntegers, LimitsAssumed DEF LimitAssumption, IInv, NumbersOK, MotionTypes, CallOK, ForDrive
<1>4. Magnitude(angle - rate * gap) <= Doubt(rate, gap) /\ Doubt(rate, gap) \in Nat /\ angle \in Int /\ rate * gap \in Int
  BY <1>3, DoubtCovers
<1>5. doubt \in Nat
  BY <1>3, <1>4
<1>6. /\ angle \in IF ForDrive THEN (-GYRO_RANGE * gap)..(GYRO_RANGE * gap) ELSE {0}
      /\ uncertainty' = IF ForDrive THEN doubt ELSE uncertainty
      /\ recoveries' = IF ForDrive /\ ~lost THEN recoveries + 1 ELSE recoveries
      /\ \/ /\ Fails({"IMU"}) /\ AddSample(0, 0, angle)
            /\ UNCHANGED <<motorVars, driveVars, signVars, turnVars>>
         \/ /\ AddSample(IF Saturated(rate) THEN 0 ELSE rate, gap, angle)
            /\ Sample(rate)
  BY DEF RecoverySample
<1> HIDE DEF doubt, lost
<1>7. uncertainty' \in Nat /\ recoveries' \in 0..MAX_MOVING_RECOVERIES
  BY <1>3, <1>5, <1>6
<1>8. CASE Fails({"IMU"}) /\ AddSample(0, 0, angle) /\ UNCHANGED <<motorVars, driveVars, signVars, turnVars>>
  <2>1. gyroHeading' \in Int /\ trueHeading' \in Int
    BY <1>3, <1>4, <1>8 DEF AddSample
  <2> QED
    BY <1>1, <1>7, <1>8, <2>1 DEF RecoveryLost
<1>9. CASE AddSample(IF Saturated(rate) THEN 0 ELSE rate, gap, angle) /\ Sample(rate)
  <2>1. gyroHeading' \in Int /\ trueHeading' \in Int
    BY <1>3, <1>4, <1>9 DEF AddSample
  <2>2. ~ForDrive => rate = 0 /\ ~Saturated(rate) /\ angle = 0
    BY <1>1, <1>6, RatesAreIntegers DEF Rates, ForDrive, ForTurn, Saturated, Magnitude
  <2>3. resume \in {"preflight", "calibrate"} => ~ForDrive
    BY <1>1 DEF ForDrive
  <2>4. resume \in {"preflight", "calibrate"} => gyroHeading' = gyroHeading
    BY <1>3, <1>9, <2>2, <2>3 DEF AddSample
  <2>5. Trusts' \/ Saturated(rate)
    <3>1. CASE ForDrive /\ ~Saturated(rate)
      <4>1. /\ gyroHeading' = gyroHeading + rate * gap /\ trueHeading' = trueHeading + angle
            /\ uncertainty' = uncertainty + Doubt(rate, gap)
        BY <1>6, <1>9, <3>1 DEF AddSample, doubt
      <4> QED
        BY <1>2, <1>3, <1>4, <4>1 DEF Trusts, Magnitude
    <3>2. CASE ~ForDrive
      <4>1. gyroHeading' = gyroHeading /\ trueHeading' = trueHeading /\ uncertainty' = uncertainty
        BY <1>3, <1>6, <1>9, <2>2, <3>2 DEF AddSample
      <4> QED
        BY <1>2, <4>1 DEF Trusts
    <3> QED
      BY <3>1, <3>2
  <2>6. ~StopWanted /\ stopLatched' = stopLatched /\ stopLatched' \in BOOLEAN /\ UNCHANGED <<button, stopArmed>>
    BY <1>1 DEF IInv, MotionTypes, stop_pressed, StopWanted, stopVars
  <2>7. Saturated(rate) => Place # "calibrate"
    BY <1>1, <2>2, <2>3
  <2> QED
    BY <1>1, <1>2, <1>7, <1>9, <2>1, <2>4, <2>5, <2>6, <2>7 DEF SampleTaken
<1> QED
  BY <1>6, <1>8, <1>9

-----------------------------------------------------------------------------
(* What a good sample leads to                                              *)

\* A call that fails has only to leave the motors off and the heading's doubt honest.
LEMMA FailureKeeps ==
  ASSUME IInv, MotionTypes', NumbersOK', HeadingTrusted',
         pc # "caller", pc' = "report", returned' = "failed",
         powered' = FALSE, driveActive' = FALSE,
         UNCHANGED <<stage, call, stopArmed, lateSamples>>,
         turnSign # 0 => turnSign' # 0, attempt' > 0 => turnSign' # 0,
         lateSamples = 1 => StopWanted'
  PROVE  IInv'
<1>1. CallOK'
  BY DEF IInv, CallOK
<1>2. TrustOK'
  BY DEF TrustOK, GaveUp
<1>3. PowerOK'
  BY DEF PowerOK, StoppedWhenNotMoving
<1>4. SignOK'
  BY DEF IInv, SignOK, SignLearntFirst
<1>5. LateOK'
  BY DEF IInv, LateOK, GaveUp
<1>6. DriveOK' /\ TurnOK' /\ ArrivesAsTold'
  BY DEF DriveOK, Stopped, TurnOK, ArrivesAsTold
<1> QED
  BY <1>1, <1>2, <1>3, <1>4, <1>5, <1>6 DEF IInv

\* No sample is taken after the last one of a run that is being stopped.
LEMMA SampleIsNotLate ==
  ASSUME IInv, NEW rate \in Int, SampleTaken(rate)
  PROVE  LateOK' /\ lateSamples = 0
<1>1. lateSamples = 0
  BY DEF IInv, LateOK, GaveUp, CallOK, SampleTaken, Place
<1> QED
  BY <1>1 DEF SampleTaken, LateOK

LEMMA CalibrationSampleKeeps ==
  ASSUME IInv, NEW rate \in Int, SampleTaken(rate), Place = "calibrate"
  PROVE  IInv'
<1>1. /\ UNCHANGED <<motorVars, driveVars, signVars, turnVars, faults>>
      /\ \/ pc' = "report" /\ returned' \in {"failed", "ok"} /\ count' = 0
         \/ pc' = "calibrate" /\ count' = count + 1 /\ returned' = returned
  BY DEF SampleTaken, Sample, Reports
<1>2. /\ pc \in {"calibrate", "recover"} /\ call = "calibrate" /\ UNCHANGED <<callVars, busVars, button, stopArmed>>
      /\ powered = FALSE /\ driveActive = FALSE
  BY DEF IInv, CallOK, PowerOK, StoppedWhenNotMoving, MotionTypes, Moving, SampleTaken, Place
<1>3. faults' = {} /\ Trusts' /\ gyroHeading' \in Int /\ trueHeading' \in Int /\ uncertainty' \in Nat
      /\ recoveries' \in 0..MAX_MOVING_RECOVERIES /\ stopLatched' \in BOOLEAN
  BY <1>1 DEF SampleTaken
<1>4. MotionTypes'
  BY <1>1, <1>2, <1>3 DEF IInv, MotionTypes, motorVars, driveVars, signVars, turnVars, segmentVars, callVars, busVars
<1>5. NumbersOK'
  BY <1>1, <1>2, <1>3 DEF IInv, NumbersOK, motorVars, driveVars, signVars, turnVars, segmentVars, callVars, busVars
<1>6. CallOK'
  BY <1>1, <1>2 DEF IInv, CallOK, callVars, busVars
<1>7. TrustOK'
  BY <1>3 DEF TrustOK, HeadingTrusted, Trusts
<1>8. PowerOK'
  BY <1>1, <1>2 DEF PowerOK, StoppedWhenNotMoving, motorVars, driveVars, callVars
<1>9. SignOK'
  BY <1>1, <1>2 DEF IInv, SignOK, SignLearntFirst, signVars, turnVars, segmentVars, callVars
<1>10. DriveOK' /\ TurnOK' /\ ArrivesAsTold'
  BY <1>2 DEF DriveOK, TurnOK, ArrivesAsTold, callVars
<1> QED
  BY <1>4, <1>5, <1>6, <1>7, <1>8, <1>9, <1>10, SampleIsNotLate DEF IInv

LEMMA SaturatedSampleKeeps ==
  ASSUME IInv, NEW rate \in Int, SampleTaken(rate), Place # "calibrate", Saturated(rate)
  PROVE  IInv'
<1>1. /\ powered' = FALSE /\ granted' = FALSE /\ driveActive' = FALSE
      /\ pc' = "report" /\ returned' = "failed" /\ count' = 0
      /\ faults' = faults \cup {"GYRO_SATURATED"}
      /\ driveElapsed' \in {driveAge, driveElapsed}
      /\ UNCHANGED <<driveAge, duration, signVars, turnVars>>
  BY DEF SampleTaken, Sample, Fails, Reports, motors_stop
<1>2. /\ pc \notin {"caller", "report"} /\ UNCHANGED <<callVars, busVars, lateSamples, button, stopArmed>>
      /\ gyroHeading' \in Int /\ trueHeading' \in Int /\ uncertainty' \in Nat
      /\ recoveries' \in 0..MAX_MOVING_RECOVERIES /\ stopLatched' \in BOOLEAN
  BY DEF SampleTaken
<1>3. MotionTypes'
  BY <1>1, <1>2 DEF IInv, MotionTypes, signVars, turnVars, segmentVars, callVars, busVars
<1>4. NumbersOK'
  BY <1>1, <1>2 DEF IInv, NumbersOK, signVars, turnVars, segmentVars, callVars, busVars
<1>5. HeadingTrusted'
  BY <1>1 DEF HeadingTrusted
<1>6. /\ turnSign # 0 => turnSign' # 0
      /\ attempt' > 0 => turnSign' # 0
      /\ UNCHANGED <<stage, call, stopArmed, lateSamples>>
  BY <1>1, <1>2 DEF IInv, SignOK, signVars, turnVars, segmentVars, callVars
<1>7. lateSamples = 1 => StopWanted'
  BY SampleIsNotLate
<1> QED
  BY <1>1, <1>2, <1>3, <1>4, <1>5, <1>6, <1>7, FailureKeeps

\* The preflight sample of a drive.
LEMMA TakeOffKeeps ==
  ASSUME IInv, NEW rate \in Int, SampleTaken(rate), Place = "preflight", ~Saturated(rate), call = "drive"
  PROVE  IInv'
<1>1. StartDrive
  BY DEF SampleTaken, Sample
<1>2. /\ pc \in {"preflight", "recover"} /\ UNCHANGED <<callVars, busVars, lateSamples, button, stopArmed>>
      /\ powered = FALSE /\ driveActive = FALSE
  BY DEF IInv, PowerOK, StoppedWhenNotMoving, MotionTypes, Moving, SampleTaken, Place
<1>3. /\ faults = {} /\ Trusts' /\ gyroHeading' \in Int /\ trueHeading' \in Int /\ uncertainty' \in Nat
      /\ recoveries' \in 0..MAX_MOVING_RECOVERIES /\ stopLatched' \in BOOLEAN
  BY DEF SampleTaken
<1>4. UNCHANGED <<turnVars, signVars, motorVars>>
  BY <1>1 DEF StartDrive
<1>5. CASE Fails({"HEADING"}) /\ UNCHANGED driveVars
  <2>1. MotionTypes'
    BY <1>2, <1>3, <1>4, <1>5 DEF IInv, MotionTypes, motorVars, driveVars, signVars, turnVars, segmentVars,
                                  callVars, busVars, Fails, Reports
  <2>2. NumbersOK'
    BY <1>2, <1>3, <1>4, <1>5 DEF IInv, NumbersOK, motorVars, driveVars, signVars, turnVars, segmentVars,
                                  callVars, busVars, Fails, Reports
  <2>3. HeadingTrusted'
    BY <1>3 DEF HeadingTrusted, Trusts
  <2>4. /\ turnSign # 0 => turnSign' # 0
        /\ attempt' > 0 => turnSign' # 0
        /\ UNCHANGED <<stage, call, stopArmed, lateSamples>>
        /\ powered' = FALSE /\ driveActive' = FALSE
    BY <1>2, <1>4, <1>5 DEF IInv, SignOK, motorVars, driveVars, signVars, turnVars, segmentVars, callVars
  <2>5. lateSamples = 1 => StopWanted'
    BY SampleIsNotLate
  <2>6. pc # "caller" /\ pc' = "report" /\ returned' = "failed"
    BY <1>2, <1>5 DEF Fails, Reports
  <2> QED
    BY <2>1, <2>2, <2>3, <2>4, <2>5, <2>6, FailureKeeps
<1>6. CASE ~(Fails({"HEADING"}) /\ UNCHANGED driveVars)
  <2>1. /\ driveActive' = TRUE /\ driveElapsed' = 0 /\ driveAge' = 0 /\ duration' = duration
        /\ pc' = "set" /\ count' = 0 /\ UNCHANGED <<returned, faults>>
    BY <1>1, <1>6 DEF StartDrive, SetMotors
  <2>2. MotionTypes'
    BY <1>2, <1>3, <1>4, <2>1 DEF IInv, MotionTypes, Moving, motorVars, signVars, turnVars, segmentVars, callVars, busVars
  <2>3. NumbersOK'
    BY <1>2, <1>3, <1>4, <2>1 DEF IInv, NumbersOK, signVars, turnVars, segmentVars, callVars, busVars
  <2>4. CallOK'
    BY <1>2, <2>1 DEF IInv, CallOK, Called, callVars, busVars
  <2>5. TrustOK'
    BY <1>3, <2>1 DEF TrustOK, HeadingTrusted, Trusts
  <2>6. PowerOK'
    BY <1>2, <2>1 DEF PowerOK, StoppedWhenNotMoving, Moving, callVars
  <2>7. SignOK'
    BY <1>2, <1>4, <2>1 DEF IInv, SignOK, SignLearntFirst, signVars, turnVars, segmentVars, callVars
  <2>8. DriveOK'
    BY <1>2, <2>1 DEF IInv, DriveOK, NumbersOK, Stopped, callVars
  <2>9. TurnOK' /\ ArrivesAsTold'
    BY <1>2, <2>1 DEF TurnOK, ArrivesAsTold, callVars
  <2> QED
    BY <2>2, <2>3, <2>4, <2>5, <2>6, <2>7, <2>8, <2>9, SampleIsNotLate DEF IInv
<1> QED
  BY <1>5, <1>6

\* A segment of a turn begins, the first or a correction.
LEMMA SegmentBegins ==
  ASSUME NEW heading \in Int, NEW sign \in Int, NEW n \in Nat, BeginSegment(heading, sign, n)
  PROVE  /\ attempt' = n /\ segmentHeading' = heading /\ segmentAge' = 0 /\ direction' \in {-1, 1}
         /\ signCandidate' = 0 /\ signSamples' = 0
         /\ pc' = "set" /\ count' = 0 /\ UNCHANGED <<returned, faults>>
BY DEF BeginSegment, SetMotors

\* The preflight sample of a turn.
LEMMA FirstSegmentKeeps ==
  ASSUME IInv, NEW rate \in Int, SampleTaken(rate), Place = "preflight", ~Saturated(rate), call # "drive"
  PROVE  IInv'
<1>1. /\ startHeading' = gyroHeading' /\ turnAge' = 0
      /\ UNCHANGED <<driveVars, motorVars, degrees, turnSign>>
      /\ IF turnSign # 0 /\ Reached(degrees)
           THEN Reports("ok") /\ UNCHANGED <<faults, segmentVars, signCandidate, signSamples>>
           ELSE BeginSegment(gyroHeading', turnSign, 0)
  BY DEF SampleTaken, Sample
<1>2. /\ pc \in {"preflight", "recover"} /\ UNCHANGED <<callVars, busVars, lateSamples, button, stopArmed>>
      /\ powered = FALSE /\ driveActive = FALSE /\ call \in Turns
      /\ pc = "preflight" \/ (pc = "recover" /\ resume = "preflight")
  BY DEF IInv, CallOK, Called, PowerOK, StoppedWhenNotMoving, MotionTypes, Moving, SampleTaken, Place
<1>3. /\ faults = {} /\ Trusts' /\ gyroHeading' = gyroHeading /\ trueHeading' \in Int /\ uncertainty' \in Nat
      /\ recoveries' \in 0..MAX_MOVING_RECOVERIES /\ stopLatched' \in BOOLEAN
  BY DEF SampleTaken
<1>4. gyroHeading \in Int /\ degrees \in Int /\ asked \in Int /\ turnSign \in -1..1 /\ TURN_MAX_CORRECTIONS \in Nat
      /\ TURN_TOLERANCE \in Nat
  BY AnglesAssumed, LimitsAssumed DEF AngleAssumption, LimitAssumption, IInv, NumbersOK, MotionTypes
<1>5. call \in {"turn", "learn_back"} => LeadsThere(gyroHeading)
  BY <1>2 DEF IInv, TurnOK
<1>6. /\ faults' = {} /\ returned' \in {returned, "ok"} /\ count' = 0
      /\ attempt' \in {0, attempt} /\ segmentHeading' \in Int /\ segmentAge' \in Nat /\ direction' \in {-1, 1}
      /\ signCandidate' \in -1..1 /\ signSamples' \in Nat
      /\ \/ pc' = "set"
         \/ pc' = "report" /\ returned' = "ok" /\ turnSign # 0 /\ Reached(degrees)
  <2>1. CASE turnSign # 0 /\ Reached(degrees)
    BY <1>1, <1>3, <2>1 DEF IInv, NumbersOK, MotionTypes, Reports, segmentVars
  <2>2. CASE ~(turnSign # 0 /\ Reached(degrees))
    <3>1. BeginSegment(gyroHeading', turnSign, 0) /\ gyroHeading' \in Int /\ turnSign \in Int
      BY <1>1, <1>3, <1>4, <2>2
    <3> QED
      BY <1>3, <1>4, <3>1, SegmentBegins
  <2> QED
    BY <2>1, <2>2
<1>7. MotionTypes'
  BY <1>1, <1>2, <1>3, <1>4, <1>6 DEF IInv, MotionTypes, Moving, motorVars, driveVars, callVars, busVars
<1>8. NumbersOK'
  BY <1>1, <1>2, <1>3, <1>4, <1>6 DEF IInv, NumbersOK, driveVars, callVars, busVars
<1>9. CallOK'
  BY <1>2, <1>6 DEF IInv, CallOK, Called, callVars, busVars
<1>10. TrustOK'
  BY <1>3, <1>6 DEF TrustOK, HeadingTrusted, Trusts
<1>11. PowerOK'
  BY <1>1, <1>2, <1>6 DEF PowerOK, StoppedWhenNotMoving, Moving, motorVars, driveVars, callVars, Turns
<1>12. SignOK'
  BY <1>1, <1>2, <1>6 DEF IInv, SignOK, SignLearntFirst, callVars
<1>13. DriveOK'
  BY <1>2 DEF DriveOK, callVars
<1>14. TurnOK'
  BY <1>1, <1>2, <1>3, <1>5, <1>6 DEF TurnOK, LeadsThere, callVars
<1>15. ArrivesAsTold'
  <2>1. SUFFICES ASSUME pc' = "report", call \in {"turn", "learn_back"}
                 PROVE  Magnitude(Normalise(turnSign * trueHeading' - asked)) <= TURN_TOLERANCE + uncertainty'
    BY <1>1, <1>2 DEF ArrivesAsTold, callVars
  <2>2. turnSign \in {-1, 1} /\ Magnitude(degrees) <= TURN_TOLERANCE /\ trueHeading' \in Int
    BY <1>3, <1>4, <1>6, <2>1 DEF Reached
  <2>3. SameAngle(asked - turnSign * gyroHeading, degrees)
    BY <1>5, <2>1 DEF LeadsThere
  <2>4. Magnitude(degrees - turnSign * (gyroHeading - gyroHeading)) <= TURN_TOLERANCE
    BY <1>4, <2>2
  <2>5. Magnitude(trueHeading' - gyroHeading) <= uncertainty'
    BY <1>3 DEF Trusts
  <2> QED
    BY <1>3, <1>4, <2>2, <2>3, <2>4, <2>5, ReachedIsClose
<1> QED
  BY <1>7, <1>8, <1>9, <1>10, <1>11, <1>12, <1>13, <1>14, <1>15, SampleIsNotLate DEF IInv

\* A sign that was learnt stays.
LEMMA SignStays ==
  ASSUME IInv, NEW rate \in Int, LearnSign(rate)
  PROVE  /\ turnSign' \in -1..1 /\ signCandidate' \in -1..1 /\ signSamples' \in Nat
         /\ turnSign # 0 => turnSign' = turnSign
<1>1. turnSign \in -1..1 /\ signCandidate \in -1..1 /\ signSamples \in Nat /\ direction \in {-1, 1}
  BY DEF IInv, MotionTypes, NumbersOK
<1>2. CASE turnSign # 0
  BY <1>1, <1>2 DEF LearnSign, signVars
<1>3. CASE turnSign = 0
  <2> DEFINE candidate == IF rate > SIGN_RATE THEN 1 ELSE IF rate < -SIGN_RATE THEN -1 ELSE 0
  <2>1. candidate \in -1..1
    OBVIOUS
  <2>2. /\ signCandidate' = IF candidate = 0 THEN signCandidate ELSE candidate
        /\ signSamples' = IF candidate = 0 THEN 0
                          ELSE IF candidate = signCandidate THEN signSamples + 1 ELSE 1
        /\ turnSign' = IF signSamples' >= SIGN_SAMPLES THEN direction * candidate ELSE 0
    BY <1>3 DEF LearnSign
  <2> HIDE DEF candidate
  <2>3. direction * candidate \in -1..1
    BY <1>1, <2>1
  <2> QED
    BY <1>1, <1>3, <2>1, <2>2, <2>3
<1> QED
  BY <1>2, <1>3

LEMMA TurningKeeps ==
  ASSUME IInv, NEW rate \in Int, SampleTaken(rate), Place = "turn", ~Saturated(rate)
  PROVE  IInv'
<1>1. Turning(rate)
  BY DEF SampleTaken, Sample
<1>2. /\ pc = "turn" /\ call \in Turns /\ UNCHANGED <<callVars, busVars, lateSamples, button, stopArmed>>
      /\ driveActive = FALSE
  BY DEF IInv, CallOK, PowerOK, MotionTypes, SampleTaken, Place
<1>3. /\ faults = {} /\ Trusts' /\ gyroHeading' \in Int /\ trueHeading' \in Int /\ uncertainty' \in Nat
      /\ recoveries' \in 0..MAX_MOVING_RECOVERIES /\ stopLatched' \in BOOLEAN
  BY <1>2 DEF SampleTaken
<1>4. LearnSign(rate) /\ UNCHANGED <<driveVars, turnVars>>
  BY <1>1 DEF Turning
<1>5. /\ turnSign' \in -1..1 /\ signCandidate' \in -1..1 /\ signSamples' \in Nat
      /\ turnSign # 0 => turnSign' = turnSign
  BY <1>4, SignStays
<1>6. UNCHANGED <<driveActive, driveElapsed, driveAge, duration>>
  BY <1>4 DEF driveVars
<1>7. UNCHANGED <<degrees, startHeading, turnAge, segmentHeading, attempt, direction, segmentAge>>
  BY <1>4 DEF turnVars, segmentVars
<1>8. /\ stage' = stage /\ call' = call /\ callsLeft' = callsLeft /\ asked' = asked
      /\ resume' = resume /\ gap' = gap /\ retries' = retries
  BY <1>2 DEF callVars, busVars
<1>9. \/ pc' = "report" /\ returned' = "failed" /\ count' = 0 /\ faults' \in SUBSET {"HEADING", "TURN"} /\ motors_stop
      \/ pc' = "settle" /\ (turnSign' # 0 \/ attempt > 0) /\ count' = 0 /\ motors_stop
         /\ UNCHANGED <<returned, faults>>
      \/ pc' = "set" /\ count' = 1 /\ UNCHANGED <<motorVars, returned, faults>>
  BY <1>1, <1>3 DEF Turning, Fails, Reports, SetMotors
<1>10. MotionTypes'
  BY <1>2, <1>3, <1>5, <1>6, <1>7, <1>8, <1>9 DEF IInv, MotionTypes, Moving, motorVars, motors_stop
<1>11. NumbersOK'
  BY <1>3, <1>5, <1>6, <1>7, <1>8, <1>9 DEF IInv, NumbersOK
<1>12. HeadingTrusted'
  BY <1>3 DEF HeadingTrusted, Trusts
<1>13. CASE pc' = "report" /\ returned' = "failed" /\ motors_stop
  <2>1. /\ turnSign # 0 => turnSign' # 0
        /\ attempt' > 0 => turnSign' # 0
        /\ UNCHANGED <<stage, call, stopArmed, lateSamples>>
    BY <1>2, <1>5, <1>7, <1>8 DEF IInv, SignOK
  <2>2. lateSamples = 1 => StopWanted'
    BY SampleIsNotLate
  <2>3. pc # "caller" /\ powered' = FALSE /\ driveActive' = FALSE
    BY <1>2, <1>6, <1>13 DEF motors_stop
  <2> QED
    BY <1>10, <1>11, <1>12, <1>13, <2>1, <2>2, <2>3, FailureKeeps
<1>14. CASE \/ pc' = "settle" /\ (turnSign' # 0 \/ attempt > 0) /\ motors_stop /\ UNCHANGED <<returned, faults>>
            \/ pc' = "set" /\ UNCHANGED <<motorVars, returned, faults>>
  <2>1. CallOK'
    BY <1>2, <1>8, <1>14 DEF IInv, CallOK, Called
  <2>2. TrustOK'
    BY <1>3, <1>12, <1>14 DEF TrustOK
  <2>3. PowerOK'
    BY <1>2, <1>6, <1>8, <1>14 DEF PowerOK, StoppedWhenNotMoving, Moving, motors_stop, Turns
  <2>4. SignOK'
    BY <1>2, <1>5, <1>7, <1>8, <1>14 DEF IInv, SignOK, SignLearntFirst
  <2>5. DriveOK'
    BY <1>2, <1>8 DEF DriveOK, Turns
  <2>6. TurnOK'
    BY <1>2, <1>5, <1>7, <1>8, <1>14 DEF IInv, TurnOK, LeadsThere, SignOK
  <2>7. ArrivesAsTold'
    BY <1>14 DEF ArrivesAsTold
  <2> QED
    BY <1>10, <1>11, <2>1, <2>2, <2>3, <2>4, <2>5, <2>6, <2>7, SampleIsNotLate DEF IInv
<1> QED
  BY <1>9, <1>13, <1>14

\* A drive has ended, or goes on to its next sample.
LEMMA DrivingKeeps ==
  ASSUME IInv, NEW rate \in Int, SampleTaken(rate), Place = "drive", ~Saturated(rate)
  PROVE  IInv'
<1>1. Driving
  BY DEF SampleTaken, Sample
<1>2. /\ pc = "drive" \/ (pc = "recover" /\ resume = "drive")
      /\ call = "drive" /\ UNCHANGED <<callVars, busVars, lateSamples, button, stopArmed>>
      /\ driveActive => pc = "drive" /\ (powered \/ stopLatched)
      /\ driveActive = (pc = "drive")
  BY DEF IInv, CallOK, PowerOK, MotionTypes, SampleTaken, Place
<1>3. /\ faults = {} /\ Trusts' /\ gyroHeading' \in Int /\ trueHeading' \in Int /\ uncertainty' \in Nat
      /\ recoveries' \in 0..MAX_MOVING_RECOVERIES /\ stopLatched' = stopLatched /\ stopLatched \in BOOLEAN
      /\ ~stopLatched
  BY DEF SampleTaken, StopWanted
<1>4. UNCHANGED <<turnSign, signCandidate, signSamples, degrees, startHeading, turnAge, segmentHeading, attempt,
                  direction, segmentAge>>
  BY <1>1 DEF Driving, turnVars, signVars, segmentVars
<1>5. /\ stage' = stage /\ call' = call /\ callsLeft' = callsLeft /\ asked' = asked
      /\ resume' = resume /\ gap' = gap /\ retries' = retries
  BY <1>2 DEF callVars, busVars
<1>6. \/ /\ stop_drive(0) /\ count' = 0
         /\ \/ pc' = "report" /\ returned' = "failed" /\ faults' = {"HEADING"}
            \/ pc' = "settle" /\ (~driveActive \/ driveAge >= duration) /\ UNCHANGED <<returned, faults>>
      \/ /\ pc' = "set" /\ count' = 1 /\ driveActive /\ driveAge < duration
         /\ UNCHANGED <<driveVars, motorVars, returned, faults>>
  BY <1>1, <1>3 DEF Driving, Fails, Reports, SetMotors
<1>7. /\ driveActive \in BOOLEAN /\ powered \in BOOLEAN /\ granted \in BOOLEAN
      /\ driveElapsed \in Nat /\ driveAge \in Nat /\ duration \in Nat /\ duration >= 1
      /\ driveActive => driveAge <= duration
      /\ ~driveActive => driveElapsed \in 1..(duration + 1)
  BY <1>2, <1>3 DEF IInv, MotionTypes, NumbersOK, DriveOK, Stopped
<1>8. /\ driveActive' \in BOOLEAN /\ powered' \in BOOLEAN /\ granted' \in BOOLEAN
      /\ driveElapsed' \in Nat /\ driveAge' = driveAge /\ duration' = duration
  <2>1. CASE stop_drive(0)
    <3>1. driveActive' = FALSE /\ powered' = FALSE /\ granted' = FALSE /\ driveAge' = driveAge /\ duration' = duration
      BY <2>1 DEF stop_drive, motors_stop
    <3>2. driveElapsed' \in Nat
      BY <1>7, <2>1 DEF stop_drive
    <3> QED
      BY <3>1, <3>2
  <2>2. CASE UNCHANGED <<driveVars, motorVars>>
    BY <1>7, <2>2, Zenon DEF driveVars, motorVars
  <2> QED
    BY <1>6, <2>1, <2>2
<1>9. MotionTypes'
  BY <1>2, <1>3, <1>4, <1>5, <1>6, <1>8 DEF IInv, MotionTypes, Moving
<1>10. NumbersOK'
  BY <1>3, <1>4, <1>5, <1>6, <1>8 DEF IInv, NumbersOK
<1>11. HeadingTrusted'
  BY <1>3 DEF HeadingTrusted, Trusts
<1>12. CASE pc' = "report" /\ returned' = "failed" /\ stop_drive(0)
  <2>1. /\ turnSign # 0 => turnSign' # 0
        /\ attempt' > 0 => turnSign' # 0
        /\ UNCHANGED <<stage, call, stopArmed, lateSamples>>
    BY <1>2, <1>4, <1>5 DEF IInv, SignOK
  <2>2. lateSamples = 1 => StopWanted'
    BY SampleIsNotLate
  <2>3. pc # "caller" /\ powered' = FALSE /\ driveActive' = FALSE
    BY <1>2, <1>12 DEF stop_drive, motors_stop
  <2> QED
    BY <1>9, <1>10, <1>11, <1>12, <2>1, <2>2, <2>3, FailureKeeps
<1>13. CASE \/ /\ stop_drive(0) /\ pc' = "settle" /\ (~driveActive \/ driveAge >= duration)
               /\ UNCHANGED <<returned, faults>>
            \/ /\ pc' = "set" /\ driveActive /\ driveAge < duration
               /\ UNCHANGED <<driveVars, motorVars, returned, faults>>
  <2>1. CallOK'
    BY <1>2, <1>5, <1>13 DEF IInv, CallOK, Called
  <2>2. TrustOK'
    BY <1>3, <1>11, <1>13 DEF TrustOK
  <2>3. PowerOK'
    BY <1>2, <1>5, <1>13 DEF PowerOK, StoppedWhenNotMoving, Moving, stop_drive, motors_stop, driveVars, motorVars
  <2>4. SignOK'
    BY <1>2, <1>4, <1>5, <1>13 DEF IInv, SignOK, SignLearntFirst
  <2>5. DriveOK'
    <3>1. pc' = "settle" => driveElapsed' \in 1..(duration + 1)
      BY <1>2, <1>3, <1>7, <1>13 DEF stop_drive
    <3> QED
      BY <1>2, <1>5, <1>7, <1>8, <1>13, <3>1 DEF DriveOK, Stopped, driveVars
  <2>6. TurnOK' /\ ArrivesAsTold'
    BY <1>2, <1>5, <1>13 DEF TurnOK, ArrivesAsTold
  <2> QED
    BY <1>9, <1>10, <2>1, <2>2, <2>3, <2>4, <2>5, <2>6, SampleIsNotLate DEF IInv
<1> QED
  BY <1>6, <1>12, <1>13

\* The robot is still coming to rest.
LEMMA SettlingKeeps ==
  ASSUME IInv, NEW rate \in Int, SampleTaken(rate), Place = "settle", ~Saturated(rate), count < MOTOR_SETTLE
  PROVE  IInv'
<1>1. /\ pc' = "settle" /\ count' = count + 1 /\ turnAge' = Older(turnAge, TURN_TIMEOUT)
      /\ UNCHANGED <<motorVars, driveVars, signVars, degrees, startHeading, segmentVars, returned, faults>>
  BY LimitsAssumed DEF LimitAssumption, IInv, NumbersOK, SampleTaken, Sample
<1>2. /\ pc = "settle" \/ (pc = "recover" /\ resume = "settle" /\ call = "drive")
      /\ call \in Called /\ UNCHANGED <<callVars, busVars, lateSamples, button, stopArmed>>
      /\ powered = FALSE /\ driveActive = FALSE
  BY DEF IInv, CallOK, Called, PowerOK, StoppedWhenNotMoving, MotionTypes, Moving, SampleTaken, Place
<1>3. /\ faults = {} /\ Trusts' /\ gyroHeading' \in Int /\ trueHeading' \in Int /\ uncertainty' \in Nat
      /\ recoveries' \in 0..MAX_MOVING_RECOVERIES /\ stopLatched' = stopLatched /\ stopLatched \in BOOLEAN
  BY DEF SampleTaken
<1>4. turnAge' \in Nat
  BY <1>1 DEF IInv, NumbersOK, Older
<1>5. MotionTypes'
  BY <1>1, <1>2, <1>3 DEF IInv, MotionTypes, motorVars, driveVars, signVars, segmentVars, callVars, busVars
<1>6. NumbersOK'
  BY <1>1, <1>2, <1>3, <1>4 DEF IInv, NumbersOK, driveVars, signVars, segmentVars, callVars, busVars
<1>7. CallOK'
  BY <1>1, <1>2 DEF IInv, CallOK, callVars
<1>8. TrustOK'
  BY <1>1, <1>3 DEF TrustOK, HeadingTrusted, Trusts
<1>9. PowerOK'
  BY <1>1, <1>2 DEF PowerOK, StoppedWhenNotMoving, motorVars, driveVars
<1>10. SignOK'
  BY <1>1, <1>2 DEF IInv, SignOK, SignLearntFirst, signVars, segmentVars, callVars
<1>11. DriveOK'
  BY <1>1, <1>2, <1>3 DEF IInv, DriveOK, Stopped, driveVars, callVars
<1>12. TurnOK' /\ ArrivesAsTold'
  BY <1>1, <1>2 DEF IInv, TurnOK, LeadsThere, ArrivesAsTold, signVars, callVars
<1> QED
  BY <1>5, <1>6, <1>7, <1>8, <1>9, <1>10, <1>11, <1>12, SampleIsNotLate DEF IInv

\* A drive that has settled is charged, and straight.
LEMMA DriveSettledKeeps ==
  ASSUME IInv, NEW rate \in Int, SampleTaken(rate), Place = "settle", ~Saturated(rate),
         count = MOTOR_SETTLE, call = "drive"
  PROVE  IInv'
<1>1. DriveSettled
  BY LimitsAssumed DEF LimitAssumption, SampleTaken, Sample
<1>2. /\ pc = "settle" \/ (pc = "recover" /\ resume = "settle")
      /\ UNCHANGED <<callVars, busVars, lateSamples, button, stopArmed>>
      /\ powered = FALSE /\ driveActive = FALSE
  BY DEF IInv, PowerOK, StoppedWhenNotMoving, MotionTypes, Moving, SampleTaken, Place
<1>3. /\ faults = {} /\ Trusts' /\ gyroHeading' \in Int /\ trueHeading' \in Int /\ uncertainty' \in Nat
      /\ recoveries' \in 0..MAX_MOVING_RECOVERIES /\ stopLatched' = stopLatched /\ stopLatched = FALSE
  BY DEF SampleTaken, StopWanted, IInv, MotionTypes
<1>4. UNCHANGED <<driveVars, turnVars, signVars, motorVars>>
  BY <1>1 DEF DriveSettled
<1>5. /\ pc' = "report" /\ count' = 0
      /\ \/ returned' = "ok" /\ faults' = faults /\ Straight(gyroHeading', uncertainty')
         \/ returned' = "failed" /\ faults' = {"HEADING"}
  BY <1>1, <1>3 DEF DriveSettled, Fails, Reports
<1>6. MotionTypes'
  BY <1>2, <1>3, <1>4, <1>5 DEF IInv, MotionTypes, motorVars, driveVars, signVars, turnVars, segmentVars,
                                callVars, busVars
<1>7. NumbersOK'
  BY <1>2, <1>3, <1>4, <1>5 DEF IInv, NumbersOK, motorVars, driveVars, signVars, turnVars, segmentVars,
                                callVars, busVars
<1>8. CallOK'
  BY <1>2, <1>5 DEF IInv, CallOK, callVars
<1>9. TrustOK'
  BY <1>3, <1>5 DEF TrustOK, HeadingTrusted, Trusts, GaveUp
<1>10. PowerOK'
  BY <1>2, <1>4, <1>5 DEF PowerOK, StoppedWhenNotMoving, motorVars, driveVars
<1>11. SignOK'
  BY <1>2, <1>4, <1>5 DEF IInv, SignOK, SignLearntFirst, signVars, turnVars, segmentVars, callVars
<1>12. DriveOK'
  BY <1>2, <1>3, <1>4, <1>5 DEF IInv, DriveOK, Stopped, driveVars, callVars
<1>13. TurnOK'
  BY <1>2 DEF TurnOK, callVars
<1>14. ArrivesAsTold'
  <2>1. SUFFICES ASSUME returned' = "ok"
                 PROVE  Magnitude(Normalise(turnSign * trueHeading' - asked)) <= MAX_STRAIGHT_YAW
    BY <1>2, <1>4 DEF ArrivesAsTold, callVars, signVars
  <2>2. turnSign \in {-1, 1} /\ asked \in Int /\ MAX_STRAIGHT_YAW \in Nat
    BY AnglesAssumed DEF AngleAssumption, IInv, MotionTypes, SignOK, NumbersOK
  <2>3. Magnitude(Normalise(gyroHeading' - turnSign * asked)) + uncertainty' <= MAX_STRAIGHT_YAW
    BY <1>5, <2>1 DEF Straight
  <2>4. Magnitude(trueHeading' - gyroHeading') <= uncertainty'
    BY <1>3 DEF Trusts
  <2> QED
    BY <1>3, <2>2, <2>3, <2>4, StraightIsClose
<1> QED
  BY <1>6, <1>7, <1>8, <1>9, <1>10, <1>11, <1>12, <1>13, <1>14, SampleIsNotLate DEF IInv

\* A turn that has settled is where it was asked to be, or corrects itself.
LEMMA TurnSettledKeeps ==
  ASSUME IInv, NEW rate \in Int, SampleTaken(rate), Place = "settle", ~Saturated(rate),
         count = MOTOR_SETTLE, call # "drive"
  PROVE  IInv'
<1>1. TurnSettled
  BY LimitsAssumed DEF LimitAssumption, SampleTaken, Sample
<1>2. /\ pc = "settle" /\ call \in Turns /\ turnSign \in {-1, 1}
      /\ UNCHANGED <<callVars, busVars, lateSamples, button, stopArmed>>
      /\ driveActive = FALSE
  BY DEF IInv, CallOK, Called, PowerOK, SignOK, MotionTypes, SampleTaken, Place
<1>3. /\ faults = {} /\ Trusts' /\ gyroHeading' \in Int /\ trueHeading' \in Int /\ uncertainty' \in Nat
      /\ recoveries' \in 0..MAX_MOVING_RECOVERIES /\ stopLatched' \in BOOLEAN
  BY <1>2 DEF SampleTaken
<1>4. UNCHANGED <<driveVars, degrees, startHeading, turnAge, turnSign>> /\ powered' = FALSE /\ granted' = FALSE
  BY <1>1 DEF TurnSettled, motors_stop
<1>5. /\ TURN_MAX_CORRECTIONS \in Nat /\ TURN_TOLERANCE \in Nat /\ attempt \in 0..TURN_MAX_CORRECTIONS
      /\ degrees \in Int /\ startHeading \in Int /\ asked \in Int
  BY AnglesAssumed, LimitsAssumed DEF AngleAssumption, LimitAssumption, IInv, MotionTypes, NumbersOK
<1>6. /\ count' = 0 /\ attempt' \in 0..TURN_MAX_CORRECTIONS /\ segmentHeading' \in Int /\ segmentAge' \in Nat
      /\ direction' \in {-1, 1} /\ signCandidate' \in -1..1 /\ signSamples' \in Nat
      /\ \/ pc' = "set" /\ UNCHANGED <<returned, faults>>
         \/ pc' = "report" /\ returned' = "ok" /\ faults' = faults /\ Reached(Error(gyroHeading', turnSign))
         \/ pc' = "report" /\ returned' = "failed" /\ faults' = {"TURN"}
  <2>1. CASE Reached(Error(gyroHeading', turnSign))
    BY <1>1, <1>5, <2>1 DEF TurnSettled, Reports, IInv, NumbersOK, MotionTypes, segmentVars
  <2>2. CASE ~Reached(Error(gyroHeading', turnSign)) /\ attempt < TURN_MAX_CORRECTIONS
    <3>1. BeginSegment(gyroHeading', turnSign, attempt + 1)
      BY <1>1, <1>5, <2>2 DEF TurnSettled
    <3>2. attempt + 1 \in Nat /\ attempt + 1 \in 0..TURN_MAX_CORRECTIONS /\ turnSign \in Int
      BY <1>2, <1>5, <2>2
    <3> QED
      BY <1>3, <3>1, <3>2, SegmentBegins
  <2>3. CASE ~Reached(Error(gyroHeading', turnSign)) /\ ~(attempt < TURN_MAX_CORRECTIONS)
    BY <1>1, <1>3, <1>5, <2>3 DEF TurnSettled, Fails, Reports, IInv, NumbersOK, MotionTypes, segmentVars
  <2> QED
    BY <2>1, <2>2, <2>3
<1>7. MotionTypes'
  BY <1>2, <1>3, <1>4, <1>6 DEF IInv, MotionTypes, Moving, driveVars, callVars, busVars
<1>8. NumbersOK'
  BY <1>2, <1>3, <1>4, <1>6 DEF IInv, NumbersOK, driveVars, callVars, busVars
<1>9. CallOK'
  BY <1>2, <1>6 DEF IInv, CallOK, Called, callVars, busVars
<1>10. TrustOK'
  BY <1>3, <1>6 DEF TrustOK, HeadingTrusted, Trusts, GaveUp
<1>11. PowerOK'
  BY <1>2, <1>4, <1>6 DEF PowerOK, StoppedWhenNotMoving, Moving, driveVars, callVars, Turns
<1>12. SignOK'
  BY <1>2, <1>4, <1>6 DEF IInv, SignOK, SignLearntFirst, callVars
<1>13. DriveOK'
  BY <1>2 DEF DriveOK, Turns, callVars
<1>14. TurnOK'
  BY <1>2, <1>4, <1>6 DEF IInv, TurnOK, LeadsThere, callVars
<1>15. ArrivesAsTold'
  <2>1. SUFFICES ASSUME pc' = "report", returned' = "ok", call \in {"turn", "learn_back"}
                 PROVE  Magnitude(Normalise(turnSign * trueHeading' - asked)) <= TURN_TOLERANCE + uncertainty'
    BY <1>2, <1>4 DEF ArrivesAsTold, callVars, Turns
  <2>2. Magnitude(degrees - turnSign * (gyroHeading' - startHeading)) <= TURN_TOLERANCE
    BY <1>6, <2>1 DEF Reached, Error
  <2>3. SameAngle(asked - turnSign * startHeading, degrees)
    BY <1>2, <2>1 DEF IInv, TurnOK, LeadsThere
  <2>4. Magnitude(trueHeading' - gyroHeading') <= uncertainty'
    BY <1>3 DEF Trusts
  <2> QED
    BY <1>2, <1>3, <1>5, <2>2, <2>3, <2>4, ReachedIsClose
<1> QED
  BY <1>7, <1>8, <1>9, <1>10, <1>11, <1>12, <1>13, <1>14, <1>15, SampleIsNotLate DEF IInv

\* Whatever a good sample is taken for, the invariant outlives it.
LEMMA SampleKeeps ==
  ASSUME IInv, NEW rate \in Int, SampleTaken(rate)
  PROVE  IInv'
<1>1. CASE Place = "calibrate"
  BY <1>1, CalibrationSampleKeeps
<1>2. CASE Place # "calibrate" /\ Saturated(rate)
  BY <1>2, SaturatedSampleKeeps
<1>3. CASE Place = "preflight" /\ ~Saturated(rate)
  BY <1>3, TakeOffKeeps, FirstSegmentKeeps
<1>4. CASE Place = "turn" /\ ~Saturated(rate)
  BY <1>4, TurningKeeps
<1>5. CASE Place = "drive" /\ ~Saturated(rate)
  BY <1>5, DrivingKeeps
<1>6. CASE Place = "settle" /\ ~Saturated(rate)
  <2>1. count < MOTOR_SETTLE \/ count = MOTOR_SETTLE
    BY <1>6 DEF SampleTaken, Sample
  <2> QED
    BY <1>6, <2>1, SettlingKeeps, DriveSettledKeeps, TurnSettledKeeps
<1> QED
  BY <1>1, <1>2, <1>3, <1>4, <1>5, <1>6 DEF SampleTaken

-----------------------------------------------------------------------------
(* Errors, STOP and deadlines                                               *)

\* What a poll of STOP does to the latch.
LEMMA PollKeeps ==
  ASSUME IInv, PollStop
  PROVE  /\ stopLatched' \in BOOLEAN /\ (stopLatched' <=> StopWanted) /\ (StopWanted' <=> StopWanted)
         /\ button' = button /\ stopArmed' = stopArmed
BY DEF IInv, MotionTypes, PollStop, stop_pressed, StopWanted

LEMMA ReadStoppedKeeps ==
  ASSUME IInv, ReadStopped
  PROVE  IInv'
<1>1. /\ pc \notin {"caller", "report"} /\ pc' = "report" /\ returned' = "failed" /\ count' = 0
      /\ PollStop /\ powered' = FALSE /\ granted' = FALSE /\ driveActive' = FALSE
      /\ driveElapsed' \in {driveAge, driveElapsed}
      /\ UNCHANGED <<driveAge, duration, gyroVars, signVars, turnVars, callVars, busVars, faults,
                     trueHeading, lateSamples>>
  BY DEF ReadStopped, Reading, Reports, motors_stop
<1>2. MotionTypes'
  BY <1>1, PollKeeps DEF IInv, MotionTypes, gyroVars, signVars, turnVars, segmentVars, callVars, busVars
<1>3. NumbersOK'
  BY <1>1 DEF IInv, NumbersOK, gyroVars, signVars, turnVars, segmentVars, callVars, busVars
<1>4. HeadingTrusted'
  BY <1>1 DEF IInv, TrustOK, HeadingTrusted, gyroVars
<1>5. /\ turnSign # 0 => turnSign' # 0
      /\ attempt' > 0 => turnSign' # 0
      /\ UNCHANGED <<stage, call, stopArmed, lateSamples>>
  BY <1>1, PollKeeps DEF IInv, SignOK, signVars, turnVars, segmentVars, callVars
<1>6. lateSamples = 1 => StopWanted'
  BY <1>1, PollKeeps DEF IInv, LateOK
<1> QED
  BY <1>1, <1>2, <1>3, <1>4, <1>5, <1>6, FailureKeeps

LEMMA RecoveryLostKeeps ==
  ASSUME IInv, RecoveryLost
  PROVE  IInv'
<1>1. /\ pc = "recover" /\ pc' = "report" /\ returned' = "failed" /\ count' = 0
      /\ faults' = faults \cup {"IMU"}
      /\ UNCHANGED <<stopVars, callVars, busVars, lateSamples, motorVars, driveVars, signVars, turnVars>>
      /\ uncertainty' \in Nat /\ recoveries' \in 0..MAX_MOVING_RECOVERIES
      /\ gyroHeading' \in Int /\ trueHeading' \in Int
  BY DEF RecoveryLost, Fails, Reports
<1>2. MotionTypes'
  BY <1>1 DEF IInv, MotionTypes, stopVars, motorVars, driveVars, signVars, turnVars, segmentVars, callVars, busVars
<1>3. NumbersOK'
  BY <1>1 DEF IInv, NumbersOK, driveVars, signVars, turnVars, segmentVars, callVars, busVars
<1>4. HeadingTrusted'
  BY <1>1 DEF HeadingTrusted
<1>5. /\ turnSign # 0 => turnSign' # 0
      /\ attempt' > 0 => turnSign' # 0
      /\ UNCHANGED <<stage, call, stopArmed, lateSamples>>
  BY <1>1 DEF IInv, SignOK, stopVars, signVars, turnVars, segmentVars, callVars
<1>6. lateSamples = 1 => StopWanted'
  BY <1>1 DEF IInv, LateOK, StopWanted, stopVars
<1>7. powered' = FALSE /\ driveActive' = FALSE
  BY <1>1 DEF IInv, MotionTypes, PowerOK, StoppedWhenNotMoving, Moving, motorVars, driveVars
<1> QED
  BY <1>1, <1>2, <1>3, <1>4, <1>5, <1>6, <1>7, FailureKeeps

\* A bus error stops the motors and charges the drive for the samples it lost.
LEMMA ReadErrorKeeps ==
  ASSUME IInv, NEW late \in 0..1, ReadError(late)
  PROVE  IInv'
<1>1. /\ pc \in {"preflight", "turn", "drive", "settle", "calibrate"} /\ Place = pc
      /\ pc = "calibrate" \/ ~StopWanted
      /\ UNCHANGED <<stopVars, gyroVars, signVars, turnVars, callVars, trueHeading, lateSamples>>
      /\ gap' = SinceSample + late /\ retries' = 0 /\ resume' = pc
      /\ IF pc = "calibrate" THEN UNCHANGED <<motorVars, driveVars>> ELSE stop_drive(late)
  BY DEF ReadError, Reading, Place, stop_pressed, StopWanted
<1>2. \/ pc' = "report" /\ returned' = "failed" /\ count' = 0 /\ faults' = faults \cup {"IMU"}
      \/ pc' = "recover" /\ UNCHANGED <<returned, count, faults>> /\ ~ForTurn
         /\ ~(ForDrive /\ recoveries >= MAX_MOVING_RECOVERIES)
  BY DEF ReadError, Fails, Reports
<1>3. gap' \in Nat /\ late \in Nat
  BY <1>1 DEF SinceSample
<1>4. /\ driveElapsed \in Nat /\ driveAge \in Nat /\ duration \in Nat
      /\ IMU_RECOVERY_ATTEMPTS \in Nat \ {0} /\ MAX_MOVING_RECOVERIES \in Nat
      /\ recoveries \in 0..MAX_MOVING_RECOVERIES
  BY LimitsAssumed DEF LimitAssumption, IInv, NumbersOK, MotionTypes
<1>5. powered' = FALSE /\ granted' \in BOOLEAN /\ driveActive' = FALSE
  BY <1>1 DEF IInv, CallOK, MotionTypes, PowerOK, StoppedWhenNotMoving, Moving, stop_drive, motors_stop, motorVars, driveVars
<1>6. driveElapsed' \in Nat /\ driveAge' = driveAge /\ duration' = duration
  <2>1. CASE stop_drive(late)
    BY <1>3, <1>4, <2>1 DEF stop_drive
  <2>2. CASE UNCHANGED driveVars
    BY <1>4, <2>2 DEF driveVars
  <2> QED
    BY <1>1, <2>1, <2>2
<1>7. MotionTypes'
  <2>1. retries' \in 0..(IMU_RECOVERY_ATTEMPTS - 1)
    BY <1>1, <1>4
  <2>2. pc' \in {"report", "recover"} /\ faults' \in {faults, faults \cup {"IMU"}}
    BY <1>2
  <2>3. faults' \subseteq {"IMU", "GYRO_SATURATED", "HEADING", "TURN"}
    BY <2>2 DEF IInv, MotionTypes
  <2> QED
    BY <1>1, <1>4, <1>5, <2>1, <2>2, <2>3 DEF IInv, MotionTypes, stopVars, gyroVars, signVars, turnVars, segmentVars, callVars
<1>8. NumbersOK'
  BY <1>1, <1>2, <1>3, <1>6 DEF IInv, NumbersOK, gyroVars, signVars, turnVars, segmentVars, callVars
<1>9. HeadingTrusted' /\ faults = {}
  BY <1>1, <1>2, NothingFailedYet DEF HeadingTrusted, Trusts, gyroVars
<1>10. CASE pc' = "report" /\ returned' = "failed"
  <2>1. /\ turnSign # 0 => turnSign' # 0
        /\ attempt' > 0 => turnSign' # 0
        /\ UNCHANGED <<stage, call, stopArmed, lateSamples>>
    BY <1>1 DEF IInv, SignOK, stopVars, signVars, turnVars, segmentVars, callVars
  <2>2. lateSamples = 1 => StopWanted'
    BY <1>1 DEF IInv, LateOK, StopWanted, stopVars
  <2>3. pc # "caller"
    BY <1>1
  <2> QED
    BY <1>5, <1>7, <1>8, <1>9, <1>10, <2>1, <2>2, <2>3, FailureKeeps
<1>11. CASE pc' = "recover" /\ UNCHANGED <<returned, count, faults>> /\ ~ForTurn
            /\ ~(ForDrive /\ recoveries >= MAX_MOVING_RECOVERIES)
  <2>1. CallOK'
    <3>1. pc \in {"drive", "settle"} => call = "drive" /\ recoveries < MAX_MOVING_RECOVERIES
      BY <1>1, <1>4, <1>11 DEF ForTurn, ForDrive, IInv, CallOK
    <3>2. pc # "turn"
      BY <1>1, <1>11 DEF ForTurn
    <3> QED
      BY <1>1, <1>11, <3>1, <3>2 DEF IInv, CallOK, callVars, gyroVars, stopVars
  <2>2. TrustOK'
    BY <1>9, <1>11 DEF TrustOK
  <2>3. PowerOK'
    BY <1>5, <1>11 DEF PowerOK, StoppedWhenNotMoving
  <2>4. SignOK'
    BY <1>1, <1>11 DEF IInv, SignOK, SignLearntFirst, signVars, turnVars, segmentVars, callVars
  <2>5. LateOK'
    BY <1>1 DEF IInv, LateOK, GaveUp, CallOK
  <2>6. DriveOK'
    <3>1. SUFFICES ASSUME call = "drive"
                   PROVE  DriveOK'
      BY <1>1 DEF DriveOK, callVars
    <3>2. duration >= 1 /\ stop_drive(late) /\ ~stopLatched
      BY <1>1, <3>1 DEF IInv, DriveOK, CallOK, Turns, StopWanted
    <3>3. pc = "drive" => driveElapsed' \in 1..(duration + 1)
      <4>1. pc = "drive" => driveActive /\ powered /\ driveAge <= duration
        BY <3>1, <3>2 DEF IInv, PowerOK, DriveOK
      <4> QED
        BY <1>3, <1>4, <3>2, <4>1 DEF stop_drive
    <3>4. pc = "settle" => driveElapsed' \in 1..(duration + 1)
      <4>1. pc = "settle" => ~driveActive /\ driveElapsed \in 1..(duration + 1)
        BY <3>1, <3>2 DEF IInv, PowerOK, DriveOK, Stopped
      <4> QED
        BY <3>2, <4>1 DEF stop_drive
    <3> QED
      BY <1>1, <1>6, <1>11, <3>2, <3>3, <3>4 DEF DriveOK, Stopped
  <2>7. TurnOK'
    BY <1>1, <1>11 DEF IInv, TurnOK, LeadsThere, gyroVars, signVars, turnVars, callVars
  <2>8. ArrivesAsTold'
    BY <1>11 DEF ArrivesAsTold
  <2> QED
    BY <1>7, <1>8, <2>1, <2>2, <2>3, <2>4, <2>5, <2>6, <2>7, <2>8 DEF IInv
<1> QED
  BY <1>2, <1>10, <1>11

LEMMA RecoveryFailsKeeps ==
  ASSUME IInv, RecoveryFails
  PROVE  IInv'
<1>1. /\ pc = "recover" /\ PollStop
      /\ UNCHANGED <<motorVars, gyroVars, driveVars, signVars, turnVars, callVars, trueHeading, lateSamples>>
      /\ powered = FALSE /\ driveActive = FALSE
  BY DEF RecoveryFails, IInv, MotionTypes, PowerOK, StoppedWhenNotMoving, Moving
<1>2. \/ /\ pc' = "report" /\ returned' = "failed" /\ count' = 0 /\ faults' = faults \cup {"IMU"}
         /\ UNCHANGED busVars
      \/ /\ retries + 1 # IMU_RECOVERY_ATTEMPTS /\ retries' = retries + 1 /\ gap' = gap + 1
         /\ UNCHANGED <<resume, pc, returned, count, faults>> /\ ~StopWanted
  BY DEF RecoveryFails, Fails, Reports, stop_pressed, StopWanted
<1>3. /\ IMU_RECOVERY_ATTEMPTS \in Nat /\ retries \in 0..(IMU_RECOVERY_ATTEMPTS - 1)
      /\ retries' \in 0..(IMU_RECOVERY_ATTEMPTS - 1)
  BY <1>2, LimitsAssumed DEF LimitAssumption, IInv, MotionTypes, busVars
<1>4. MotionTypes'
  BY <1>1, <1>2, <1>3, PollKeeps DEF IInv, MotionTypes, motorVars, gyroVars, driveVars, signVars, turnVars,
                                     segmentVars, callVars
<1>5. NumbersOK'
  BY <1>1, <1>2 DEF IInv, NumbersOK, gyroVars, driveVars, signVars, turnVars, segmentVars, callVars, busVars
<1>6. HeadingTrusted' /\ faults = {}
  BY <1>1, <1>2, NothingFailedYet DEF HeadingTrusted, Trusts, gyroVars
<1>7. powered' = FALSE /\ driveActive' = FALSE
  BY <1>1 DEF motorVars, driveVars
<1>8. CASE pc' = "report" /\ returned' = "failed"
  <2>1. /\ turnSign # 0 => turnSign' # 0
        /\ attempt' > 0 => turnSign' # 0
        /\ UNCHANGED <<stage, call, stopArmed, lateSamples>>
    BY <1>1, PollKeeps DEF IInv, SignOK, signVars, turnVars, segmentVars, callVars
  <2>2. lateSamples = 1 => StopWanted'
    BY <1>1, PollKeeps DEF IInv, LateOK
  <2>3. pc # "caller"
    BY <1>1
  <2> QED
    BY <1>4, <1>5, <1>6, <1>7, <1>8, <2>1, <2>2, <2>3, FailureKeeps
<1>9. CASE UNCHANGED <<resume, pc, returned, count, faults>>
  <2>1. CallOK'
    BY <1>1, <1>9, PollKeeps DEF IInv, CallOK, callVars, gyroVars
  <2>2. TrustOK'
    BY <1>6, <1>9 DEF TrustOK
  <2>3. PowerOK'
    BY <1>1, <1>7, <1>9 DEF PowerOK, StoppedWhenNotMoving
  <2>4. SignOK'
    BY <1>1, <1>9 DEF IInv, SignOK, SignLearntFirst, signVars, turnVars, segmentVars, callVars
  <2>5. LateOK'
    BY <1>1 DEF IInv, LateOK, GaveUp
  <2>6. DriveOK'
    BY <1>1, <1>9, PollKeeps DEF IInv, DriveOK, Stopped, StopWanted, driveVars, callVars
  <2>7. TurnOK' /\ ArrivesAsTold'
    BY <1>1, <1>9 DEF IInv, TurnOK, LeadsThere, ArrivesAsTold, gyroVars, signVars, turnVars, callVars
  <2> QED
    BY <1>4, <1>5, <2>1, <2>2, <2>3, <2>4, <2>5, <2>6, <2>7 DEF IInv
<1> QED
  BY <1>2, <1>8, <1>9

LEMMA TurnTimesOutKeeps ==
  ASSUME IInv, TurnTimesOut
  PROVE  IInv'
<1>1. /\ pc = "turn" /\ pc' = "report" /\ returned' = "failed" /\ count' = 0
      /\ faults' = faults \cup {"TURN"} /\ powered' = FALSE /\ granted' = FALSE
      /\ UNCHANGED <<stopVars, gyroVars, driveVars, signVars, turnVars, callVars, busVars, trueHeading, lateSamples>>
  BY DEF TurnTimesOut, Fails, Reports, motors_stop
<1>2. MotionTypes'
  BY <1>1 DEF IInv, MotionTypes, stopVars, gyroVars, driveVars, signVars, turnVars, segmentVars, callVars, busVars
<1>3. NumbersOK'
  BY <1>1 DEF IInv, NumbersOK, gyroVars, driveVars, signVars, turnVars, segmentVars, callVars, busVars
<1>4. HeadingTrusted'
  BY <1>1, NothingFailedYet DEF HeadingTrusted, Trusts, gyroVars
<1>5. /\ turnSign # 0 => turnSign' # 0
      /\ attempt' > 0 => turnSign' # 0
      /\ UNCHANGED <<stage, call, stopArmed, lateSamples>>
  BY <1>1 DEF IInv, SignOK, stopVars, signVars, turnVars, segmentVars, callVars
<1>6. lateSamples = 1 => StopWanted'
  BY <1>1 DEF IInv, LateOK, StopWanted, stopVars
<1>7. powered' = FALSE /\ driveActive' = FALSE
  BY <1>1 DEF IInv, MotionTypes, PowerOK, driveVars
<1> QED
  BY <1>1, <1>2, <1>3, <1>4, <1>5, <1>6, <1>7, FailureKeeps

\* A drive that is given up is charged like any other, unless STOP was latched.
LEMMA GivesUpDriveKeeps ==
  ASSUME IInv, GivesUpDrive
  PROVE  IInv'
<1>1. /\ pc = "drive" /\ call = "drive" /\ stop_drive(0) /\ pc' = "settle" /\ count' = 0
      /\ UNCHANGED <<stopVars, gyroVars, signVars, turnVars, callVars, busVars, returned, faults,
                     trueHeading, lateSamples>>
  BY DEF GivesUpDrive, IInv, CallOK
<1>2. /\ driveElapsed \in Nat /\ driveAge \in Nat /\ duration \in Nat /\ duration >= 1 /\ driveAge <= duration
      /\ driveActive /\ (powered \/ stopLatched)
  BY <1>1 DEF IInv, NumbersOK, DriveOK, PowerOK
<1>3. powered' = FALSE /\ granted' = FALSE /\ driveActive' = FALSE /\ driveAge' = driveAge /\ duration' = duration
  BY <1>1 DEF stop_drive, motors_stop
<1>4. driveElapsed' \in Nat /\ (driveElapsed' \in 1..(duration + 1) \/ stopLatched)
  <2>1. driveElapsed' = IF powered /\ driveAge = 0 THEN 1 ELSE driveAge
    BY <1>1, <1>2 DEF stop_drive
  <2>2. CASE powered
    BY <1>2, <2>1, <2>2
  <2>3. CASE ~powered
    BY <1>2, <2>1, <2>3
  <2> QED
    BY <2>2, <2>3
<1>5. MotionTypes'
  BY <1>1, <1>3 DEF IInv, MotionTypes, stopVars, gyroVars, signVars, turnVars, segmentVars, callVars, busVars
<1>6. NumbersOK'
  BY <1>1, <1>3, <1>4 DEF IInv, NumbersOK, gyroVars, signVars, turnVars, segmentVars, callVars, busVars
<1>7. CallOK'
  BY <1>1 DEF IInv, CallOK, Called, stopVars, callVars
<1>8. TrustOK'
  BY <1>1, NothingFailedYet DEF TrustOK, HeadingTrusted, Trusts, gyroVars
<1>9. PowerOK'
  BY <1>1, <1>3 DEF PowerOK, StoppedWhenNotMoving
<1>10. SignOK'
  BY <1>1 DEF IInv, SignOK, SignLearntFirst, signVars, turnVars, segmentVars, callVars
<1>11. LateOK'
  BY <1>1 DEF IInv, LateOK, StopWanted, GaveUp, stopVars
<1>12. DriveOK'
  BY <1>1, <1>2, <1>3, <1>4 DEF DriveOK, Stopped, stopVars, callVars
<1>13. TurnOK' /\ ArrivesAsTold'
  BY <1>1 DEF TurnOK, ArrivesAsTold, callVars
<1> QED
  BY <1>5, <1>6, <1>7, <1>8, <1>9, <1>10, <1>11, <1>12, <1>13 DEF IInv

-----------------------------------------------------------------------------
(* The motors and the time between samples                                  *)

\* motors_set lets a speed through unless it latches STOP.
LEMMA TestMotorsKeeps ==
  ASSUME IInv, TestMotors
  PROVE  IInv'
<1>1. /\ pc = "set" /\ pc' = "write" /\ granted' = (stopArmed /\ ~stop_pressed) /\ PollStop
      /\ UNCHANGED <<powered, gyroVars, driveVars, signVars, turnVars, callVars, busVars, returned,
                     count, faults, trueHeading, lateSamples>>
  BY DEF TestMotors, motors_set
<1>2. /\ UNCHANGED <<gyroHeading, uncertainty, recoveries, driveActive, driveElapsed, driveAge, duration>>
      /\ UNCHANGED <<turnSign, signCandidate, signSamples, degrees, startHeading, turnAge, segmentHeading, attempt,
                     direction, segmentAge>>
      /\ UNCHANGED <<stage, call, callsLeft, asked, resume, gap, retries, powered, returned, count, faults,
                     trueHeading, lateSamples>>
  BY <1>1 DEF gyroVars, driveVars, signVars, turnVars, segmentVars, callVars, busVars
<1>3. granted' \in BOOLEAN /\ (granted' \/ stopLatched')
  <2>1. stopArmed = TRUE
    BY <1>1 DEF IInv, CallOK, MotionTypes
  <2>2. granted' = ~stop_pressed /\ stopLatched' = stop_pressed
    BY <1>1, <2>1 DEF PollStop
  <2>3. stop_pressed \in BOOLEAN
    BY DEF IInv, MotionTypes, stop_pressed
  <2> QED
    BY <2>2, <2>3
<1>4. MotionTypes'
  BY <1>1, <1>2, <1>3, PollKeeps DEF IInv, MotionTypes, Moving
<1>5. NumbersOK'
  BY <1>2 DEF IInv, NumbersOK
<1>6. CallOK'
  BY <1>1, <1>2, PollKeeps DEF IInv, CallOK
<1>7. TrustOK'
  BY <1>1, <1>2, NothingFailedYet DEF TrustOK, HeadingTrusted, Trusts
<1>8. PowerOK'
  BY <1>1, <1>2, <1>3 DEF IInv, PowerOK, StoppedWhenNotMoving, Moving
<1>9. SignOK'
  BY <1>1, <1>2 DEF IInv, SignOK, SignLearntFirst
<1>10. LateOK'
  BY <1>1, <1>2 DEF IInv, LateOK, GaveUp
<1>11. DriveOK' /\ ArrivesAsTold'
  BY <1>1, <1>2 DEF IInv, DriveOK, Stopped, ArrivesAsTold
<1>12. TurnOK'
  BY <1>1, <1>2 DEF IInv, TurnOK, LeadsThere
<1> QED
  BY <1>4, <1>5, <1>6, <1>7, <1>8, <1>9, <1>10, <1>11, <1>12 DEF IInv

LEMMA WriteMotorsKeeps ==
  ASSUME IInv, WriteMotors
  PROVE  IInv'
<1>1. /\ pc = "write" /\ powered' = granted /\ count' = 0 /\ granted' = granted
      /\ UNCHANGED <<button, stopArmed, stopLatched>>
      /\ pc' = "sleep" \/ (call = "drive" /\ pc' = "drive") \/ (call \in Turns /\ pc' = "turn")
  BY DEF WriteMotors, stopVars, IInv, CallOK, Called
<1>2. /\ UNCHANGED <<gyroHeading, uncertainty, recoveries, driveActive, driveElapsed, driveAge, duration>>
      /\ UNCHANGED <<turnSign, signCandidate, signSamples, degrees, startHeading, turnAge, segmentHeading, attempt,
                     direction, segmentAge>>
      /\ UNCHANGED <<stage, call, callsLeft, asked, resume, gap, retries, returned, faults,
                     trueHeading, lateSamples>>
  BY DEF WriteMotors, gyroVars, driveVars, signVars, turnVars, segmentVars, callVars, busVars
<1>3. granted \/ stopLatched
  BY <1>1 DEF IInv, PowerOK
<1>4. MotionTypes'
  BY <1>1, <1>2 DEF IInv, MotionTypes, Moving
<1>5. NumbersOK'
  BY <1>1, <1>2 DEF IInv, NumbersOK
<1>6. CallOK'
  BY <1>1, <1>2 DEF IInv, CallOK
<1>7. TrustOK'
  BY <1>1, <1>2, NothingFailedYet DEF TrustOK, HeadingTrusted, Trusts
<1>8. PowerOK'
  BY <1>1, <1>2, <1>3 DEF IInv, PowerOK, StoppedWhenNotMoving, Moving, Turns
<1>9. SignOK'
  BY <1>1, <1>2 DEF IInv, SignOK, SignLearntFirst
<1>10. LateOK'
  BY <1>1, <1>2 DEF IInv, LateOK, GaveUp
<1>11. DriveOK' /\ ArrivesAsTold'
  BY <1>1, <1>2 DEF IInv, NumbersOK, DriveOK, Stopped, ArrivesAsTold, Turns
<1>12. TurnOK'
  BY <1>1, <1>2 DEF IInv, TurnOK, LeadsThere
<1> QED
  BY <1>4, <1>5, <1>6, <1>7, <1>8, <1>9, <1>10, <1>11, <1>12 DEF IInv

\* A sample passes; with STOP wanted and the motors on it is the first such one.
LEMMA SleepKeeps ==
  ASSUME IInv, Sleep
  PROVE  IInv'
<1>1. /\ pc = "sleep"
      /\ (call = "drive" /\ pc' = "drive") \/ (call \in Turns /\ pc' = "turn")
      /\ UNCHANGED <<button, stopArmed, stopLatched, powered, granted>>
  BY DEF Sleep, stopVars, motorVars, IInv, CallOK, Called
<1>2. /\ UNCHANGED <<gyroHeading, uncertainty, recoveries, driveActive, driveElapsed, duration>>
      /\ UNCHANGED <<turnSign, signCandidate, signSamples, degrees, startHeading, segmentHeading, attempt, direction>>
      /\ UNCHANGED <<stage, call, callsLeft, asked, resume, gap, retries, returned, count, faults, trueHeading>>
  BY DEF Sleep, gyroVars, signVars, callVars, busVars
<1>3. /\ driveAge \in Nat /\ turnAge \in Nat /\ segmentAge \in Nat /\ duration \in Nat
      /\ call = "drive" => driveAge < duration
      /\ powered \/ stopLatched
  BY <1>1 DEF IInv, NumbersOK, DriveOK, PowerOK
<1>4. /\ driveAge' \in Nat /\ turnAge' \in Nat /\ segmentAge' \in Nat
      /\ call = "drive" => driveAge' <= duration
  <2>1. CASE call = "drive"
    BY <1>3, <2>1 DEF Sleep
  <2>2. CASE call # "drive"
    BY <1>3, <2>2 DEF Sleep, Older
  <2> QED
    BY <2>1, <2>2
<1>5. MotionTypes'
  BY <1>1, <1>2 DEF IInv, MotionTypes, Moving
<1>6. NumbersOK'
  BY <1>2, <1>4 DEF IInv, NumbersOK
<1>7. CallOK'
  BY <1>1, <1>2 DEF IInv, CallOK
<1>8. TrustOK'
  BY <1>1, <1>2, NothingFailedYet DEF TrustOK, HeadingTrusted, Trusts
<1>9. PowerOK'
  BY <1>1, <1>2, <1>3 DEF IInv, PowerOK, StoppedWhenNotMoving, Moving, Turns
<1>10. SignOK'
  BY <1>1, <1>2 DEF IInv, SignOK, SignLearntFirst
<1>11. LateOK'
  <2>1. lateSamples = 0
    BY <1>1 DEF IInv, LateOK, GaveUp
  <2>2. lateSamples' \in 0..1 /\ (lateSamples' = 1 => StopWanted)
    BY <2>1 DEF Sleep, Older
  <2>3. StopWanted' <=> StopWanted
    BY <1>1 DEF StopWanted
  <2> QED
    BY <1>1, <2>2, <2>3 DEF LateOK
<1>12. DriveOK' /\ ArrivesAsTold'
  BY <1>1, <1>2, <1>3, <1>4 DEF IInv, DriveOK, Stopped, ArrivesAsTold, Turns
<1>13. TurnOK'
  BY <1>1, <1>2 DEF IInv, TurnOK, LeadsThere
<1> QED
  BY <1>5, <1>6, <1>7, <1>8, <1>9, <1>10, <1>11, <1>12, <1>13 DEF IInv

-----------------------------------------------------------------------------
(* The callers                                                              *)

\* Between two calls, and when one has just ended, nothing moves.
LEMMA AtRest ==
  ASSUME IInv, pc \in {"caller", "report"}
  PROVE  powered = FALSE /\ driveActive = FALSE /\ granted \in BOOLEAN
BY DEF IInv, MotionTypes, PowerOK, StoppedWhenNotMoving, Moving

\* How a turn begins: refused by STOP, done at once, or with its preflight sample.
LEMMA TurnBegins ==
  ASSUME IInv, pc \in {"caller", "report"}, NEW angle \in Int, turn_degrees(angle)
  PROVE  /\ degrees' = angle /\ count' \in Nat /\ PollStop /\ powered' = FALSE /\ granted' \in BOOLEAN
         /\ \/ pc' = "report" /\ returned' = "failed"
            \/ pc' = "report" /\ returned' = "ok" /\ angle = 0
            \/ pc' = "preflight" /\ returned' = returned
<1>1. powered = FALSE /\ granted \in BOOLEAN
  BY AtRest
<1>2. powered' = FALSE /\ granted' \in BOOLEAN
  <2>1. CASE stop_pressed
    BY <2>1 DEF turn_degrees, motors_stop
  <2>2. CASE ~stop_pressed
    BY <1>1, <2>2 DEF turn_degrees, motorVars
  <2> QED
    BY <2>1, <2>2
<1>3. /\ degrees' = angle /\ count' = 0 /\ PollStop
      /\ \/ pc' = "report" /\ returned' = "failed"
         \/ pc' = "report" /\ returned' = "ok" /\ angle = 0
         \/ pc' = "preflight" /\ returned' = returned
  BY DEF turn_degrees, Reports
<1> QED
  BY <1>2, <1>3

\* Any of the three keeps the invariant, if the turn is one by an angle that leads there.
LEMMA TurnCallKeeps ==
  ASSUME IInv, pc \in {"caller", "report"}, stage \notin {"boot", "ended"}, faults = {}, lateSamples = 0,
         call' \in Turns, asked' \in Int, stage' = stage, callsLeft' \in 0..CALLS,
         call' # "learn" => turnSign # 0 /\ degrees' = Normalise(asked' - turnSign * gyroHeading),
         degrees' # 0 \/ turnSign # 0,
         NEW angle \in Int, turn_degrees(angle),
         attempt' = 0, direction' \in {-1, 1}, NumbersOK',
         retries' \in 0..(IMU_RECOVERY_ATTEMPTS - 1),
         UNCHANGED <<gyroVars, driveActive, turnSign, faults, trueHeading, lateSamples>>
  PROVE  IInv'
<1>1. /\ degrees' = angle /\ count' \in Nat /\ PollStop /\ powered' = FALSE /\ granted' \in BOOLEAN
      /\ \/ pc' = "report" /\ returned' = "failed"
         \/ pc' = "report" /\ returned' = "ok" /\ angle = 0
         \/ pc' = "preflight" /\ returned' = returned
  BY TurnBegins
<1>2. /\ gyroHeading' = gyroHeading /\ uncertainty' = uncertainty /\ recoveries' = recoveries
      /\ turnSign' = turnSign /\ faults' = {} /\ trueHeading' = trueHeading /\ lateSamples' = 0
      /\ driveActive' = FALSE
  BY AtRest DEF gyroVars
<1>3. Trusts
  BY DEF IInv, TrustOK, HeadingTrusted, Trusts
<1>4. /\ turnSign \in -1..1 /\ gyroHeading \in Int /\ trueHeading \in Int /\ uncertainty \in Nat
      /\ TURN_MAX_CORRECTIONS \in Nat /\ TURN_TOLERANCE \in Nat
  BY AnglesAssumed, LimitsAssumed DEF AngleAssumption, LimitAssumption, IInv, NumbersOK, MotionTypes
<1>5. stopLatched' \in BOOLEAN /\ button' = button /\ stopArmed' = stopArmed
  BY <1>1, PollKeeps
<1>6. MotionTypes'
  <2>1. {button', stopArmed', stopLatched', powered', granted', driveActive'} \subseteq BOOLEAN
    BY <1>1, <1>2, <1>5 DEF IInv, MotionTypes
  <2>2. attempt' \in 0..TURN_MAX_CORRECTIONS /\ pc' \in {"report", "preflight"}
    BY <1>1, <1>4
  <2> QED
    BY <1>2, <2>1, <2>2 DEF IInv, MotionTypes
<1>7. CallOK'
  BY <1>1, <1>5 DEF IInv, CallOK, Called, Turns
<1>8. TrustOK'
  BY <1>2, <1>3 DEF TrustOK, HeadingTrusted, Trusts
<1>9. PowerOK'
  BY <1>1, <1>2 DEF PowerOK, StoppedWhenNotMoving
<1>10. SignOK'
  BY <1>1, <1>2 DEF IInv, SignOK, SignLearntFirst, Turns
<1>11. LateOK'
  BY <1>2 DEF LateOK
<1>12. DriveOK'
  BY DEF DriveOK, Turns
<1>13. call' \in {"turn", "learn_back"} => SameAngle(asked' - turnSign * gyroHeading, degrees')
  <2>1. asked' - turnSign * gyroHeading \in Int
    BY <1>4
  <2> QED
    BY <2>1, NormaliseIsNear
<1>14. TurnOK'
  BY <1>1, <1>2, <1>13 DEF TurnOK, LeadsThere
<1>15. ArrivesAsTold'
  <2>1. SUFFICES ASSUME returned' = "ok", pc' = "report", call' \in {"turn", "learn_back"}
                 PROVE  Magnitude(Normalise(turnSign * trueHeading - asked')) <= TURN_TOLERANCE + uncertainty
    BY <1>2 DEF ArrivesAsTold, Turns
  <2>2. degrees' = 0 /\ turnSign \in {-1, 1}
    BY <1>1, <1>4, <2>1
  <2>3. SameAngle(asked' - turnSign * gyroHeading, 0)
    BY <1>13, <2>1, <2>2
  <2>4. Magnitude(trueHeading - gyroHeading) <= uncertainty
    BY <1>3 DEF Trusts
  <2>5. asked' \in Int
    OBVIOUS
  <2> QED
    BY <1>4, <2>2, <2>3, <2>4, <2>5, AlreadyThere
<1> QED
  BY <1>6, <1>7, <1>8, <1>9, <1>10, <1>11, <1>12, <1>14, <1>15 DEF IInv

\* motion_learn_direction may turn by its own angle before the sign is known.
LEMMA LearnCallKeeps ==
  ASSUME IInv, motion_learn_direction
  PROVE  IInv'
<1>1. /\ stage = "learn" /\ pc = "caller" /\ call' = "learn" /\ asked' = GYRO_DIRECTION_CHECK
      /\ turn_degrees(GYRO_DIRECTION_CHECK)
      /\ UNCHANGED <<gyroVars, driveVars, signVars, startHeading, turnAge, segmentVars, stage,
                     callsLeft, busVars, faults, trueHeading, lateSamples>>
  BY DEF motion_learn_direction, Calls
<1>2. GYRO_DIRECTION_CHECK \in Int /\ GYRO_DIRECTION_CHECK # 0
  BY AnglesAssumed DEF AngleAssumption
<1>3. degrees' = GYRO_DIRECTION_CHECK /\ count' \in Nat
  BY <1>1, <1>2, TurnBegins
<1>4. faults = {} /\ lateSamples = 0
  BY <1>1 DEF IInv, TrustOK, LateOK, GaveUp
<1>5. NumbersOK'
  BY <1>1, <1>2, <1>3 DEF IInv, NumbersOK, gyroVars, driveVars, signVars, segmentVars, busVars
<1>6. /\ attempt' = 0 /\ direction' \in {-1, 1} /\ retries' \in 0..(IMU_RECOVERY_ATTEMPTS - 1)
      /\ callsLeft' \in 0..CALLS /\ stage' = stage
      /\ UNCHANGED <<gyroVars, driveActive, turnSign, faults, trueHeading, lateSamples>>
  BY <1>1 DEF IInv, MotionTypes, SignOK, driveVars, signVars, segmentVars, busVars
<1>7. call' \in Turns /\ call' = "learn" /\ asked' \in Int /\ stage \notin {"boot", "ended"}
  BY <1>1, <1>2 DEF Turns
<1> QED
  BY <1>1, <1>2, <1>3, <1>4, <1>5, <1>6, <1>7, TurnCallKeeps

LEMMA TurnToHeadingKeeps ==
  ASSUME IInv, NEW heading \in Headings, motion_turn_to_heading(heading)
  PROVE  IInv'
<1> DEFINE angle == ToHeading(heading)
<1>1. /\ stage = "run" /\ pc = "caller" /\ call' = "turn" /\ asked' = heading
      /\ callsLeft > 0 /\ callsLeft' = callsLeft - 1
      /\ turn_degrees(angle)
      /\ UNCHANGED <<gyroVars, driveVars, signVars, startHeading, turnAge, segmentVars,
                     stage, busVars, faults, trueHeading, lateSamples>>
  BY DEF motion_turn_to_heading, Calls
<1>2. heading \in Int
  BY AnglesAssumed DEF AngleAssumption
<1>3. turnSign \in -1..1 /\ gyroHeading \in Int /\ turnSign # 0
  BY <1>1 DEF IInv, MotionTypes, NumbersOK, SignOK, SignLearntFirst
<1>4. angle \in Int /\ angle = Normalise(heading - turnSign * gyroHeading)
  <2>1. heading - turnSign * gyroHeading \in Int
    BY <1>2, <1>3
  <2> QED
    BY <2>1, NormaliseIsNear DEF ToHeading
<1> HIDE DEF angle
<1>5. degrees' = angle /\ count' \in Nat
  BY <1>1, <1>4, TurnBegins
<1>6. faults = {} /\ lateSamples = 0
  BY <1>1 DEF IInv, TrustOK, LateOK, GaveUp
<1>7. NumbersOK'
  BY <1>1, <1>2, <1>4, <1>5 DEF IInv, NumbersOK, gyroVars, driveVars, signVars, segmentVars, busVars
<1>8. /\ attempt' = 0 /\ direction' \in {-1, 1} /\ retries' \in 0..(IMU_RECOVERY_ATTEMPTS - 1)
      /\ UNCHANGED <<gyroVars, driveActive, turnSign, faults, trueHeading, lateSamples>>
  BY <1>1 DEF IInv, MotionTypes, SignOK, driveVars, signVars, segmentVars, busVars
<1>9. callsLeft' \in 0..CALLS /\ stage' = stage
  BY <1>1, LimitsAssumed DEF LimitAssumption, IInv, MotionTypes
<1>10. call' \in Turns /\ asked' \in Int /\ stage \notin {"boot", "ended"}
  BY <1>1, <1>2 DEF Turns
<1>11. degrees' = Normalise(asked' - turnSign * gyroHeading)
  BY <1>1, <1>4, <1>5
<1> QED
  BY <1>1, <1>3, <1>4, <1>6, <1>7, <1>8, <1>9, <1>10, <1>11, TurnCallKeeps

\* The button and the callbacks change nothing but STOP and its history.
LEMMA InertKeeps ==
  ASSUME IInv, UNCHANGED inertVars, stopArmed' = stopArmed, button' \in BOOLEAN, stopLatched' \in BOOLEAN,
         stopLatched => stopLatched', lateSamples' \in 0..1,
         lateSamples' = 1 => lateSamples = 1 /\ StopWanted'
  PROVE  IInv'
<1>1. /\ UNCHANGED <<gyroHeading, uncertainty, recoveries, driveActive, driveElapsed, driveAge, duration>>
      /\ UNCHANGED <<turnSign, signCandidate, signSamples, degrees, startHeading, turnAge, segmentHeading, attempt,
                     direction, segmentAge>>
      /\ UNCHANGED <<stage, call, callsLeft, asked, resume, gap, retries, powered, granted, pc, returned, count,
                     faults, trueHeading>>
  BY DEF inertVars, motorVars, gyroVars, driveVars, signVars, turnVars, segmentVars, callVars, busVars
<1>2. MotionTypes'
  BY <1>1 DEF IInv, MotionTypes
<1>3. NumbersOK'
  BY <1>1 DEF IInv, NumbersOK
<1>4. CallOK'
  BY <1>1 DEF IInv, CallOK
<1>5. TrustOK'
  BY <1>1 DEF IInv, TrustOK, HeadingTrusted, GaveUp
<1>6. PowerOK'
  BY <1>1 DEF IInv, PowerOK, StoppedWhenNotMoving
<1>7. SignOK'
  BY <1>1 DEF IInv, SignOK, SignLearntFirst
<1>8. LateOK'
  BY <1>1 DEF IInv, LateOK, GaveUp
<1>9. DriveOK'
  BY <1>1 DEF IInv, DriveOK, Stopped
<1>10. TurnOK' /\ ArrivesAsTold'
  BY <1>1 DEF IInv, TurnOK, LeadsThere, ArrivesAsTold
<1> QED
  BY <1>2, <1>3, <1>4, <1>5, <1>6, <1>7, <1>8, <1>9, <1>10 DEF IInv

LEMMA ButtonKeeps ==
  ASSUME IInv, Press \/ Release \/ CallbackPolls
  PROVE  IInv'
<1>1. /\ button \in BOOLEAN /\ stopLatched \in BOOLEAN /\ lateSamples \in 0..1
      /\ lateSamples = 1 => StopWanted
  BY DEF IInv, MotionTypes, LateOK
<1>2. CASE Press
  <2>1. UNCHANGED inertVars /\ stopArmed' = stopArmed /\ stopLatched' = stopLatched /\ button' = TRUE
        /\ lateSamples' = lateSamples
    BY <1>2 DEF Press
  <2>2. StopWanted => StopWanted'
    BY <2>1 DEF StopWanted
  <2> QED
    BY <1>1, <2>1, <2>2, InertKeeps
<1>3. CASE Release
  <2>1. UNCHANGED inertVars /\ stopArmed' = stopArmed /\ stopLatched' = stopLatched /\ button' = FALSE
    BY <1>3 DEF Release
  <2>2. lateSamples' = IF stopLatched THEN lateSamples ELSE 0
    BY <1>3 DEF Release
  <2>3. stopLatched => StopWanted'
    BY <2>1 DEF StopWanted
  <2>4. lateSamples' \in 0..1 /\ (lateSamples' = 1 => lateSamples = 1 /\ StopWanted')
    BY <1>1, <2>2, <2>3
  <2> QED
    BY <1>1, <2>1, <2>4, InertKeeps
<1>4. CASE CallbackPolls
  <2>1. UNCHANGED inertVars /\ PollStop /\ lateSamples' = lateSamples
    BY <1>4 DEF CallbackPolls
  <2>2. /\ stopLatched' \in BOOLEAN /\ button' = button /\ stopArmed' = stopArmed
        /\ StopWanted' <=> StopWanted
    BY <2>1, PollKeeps
  <2>3. stopLatched => stopLatched'
    BY <2>1, PollKeeps DEF StopWanted
  <2>4. button' \in BOOLEAN /\ lateSamples' \in 0..1 /\ (lateSamples' = 1 => lateSamples = 1 /\ StopWanted')
    BY <1>1, <2>1, <2>2
  <2> QED
    BY <2>1, <2>2, <2>3, <2>4, InertKeeps
<1> QED
  BY <1>2, <1>3, <1>4

-----------------------------------------------------------------------------
(* Start-up, a drive, and the return from a call                            *)

\* motion_arm_stop starts the calibration, or ends the run before it began.
LEMMA ArmStopKeeps ==
  ASSUME IInv, motion_arm_stop
  PROVE  IInv'
<1>1. /\ stage = "boot" /\ pc = "caller" /\ stopArmed' = TRUE /\ stopLatched' = button /\ button' = button
      /\ stage' \in {"ended", "calibrate"}
      /\ UNCHANGED <<pc, returned, count, faults, trueHeading, lateSamples, turnSign, call>>
  BY DEF motion_arm_stop, signVars
<1>2. UNCHANGED <<motorVars, gyroVars, driveVars, signVars, turnVars, callsLeft, asked, busVars>>
  BY DEF motion_arm_stop
<1>3. /\ UNCHANGED <<gyroHeading, uncertainty, recoveries, driveActive, driveElapsed, driveAge, duration>>
      /\ UNCHANGED <<signCandidate, signSamples, degrees, startHeading, turnAge, segmentHeading, attempt,
                     direction, segmentAge>>
      /\ UNCHANGED <<callsLeft, asked, resume, gap, retries, powered, granted>>
  BY <1>2 DEF motorVars, gyroVars, driveVars, signVars, turnVars, segmentVars, busVars
<1>4. MotionTypes'
  <2>1. stopLatched' \in BOOLEAN /\ button' \in BOOLEAN
    BY <1>1 DEF IInv, MotionTypes
  <2> QED
    BY <1>1, <1>3, <2>1 DEF IInv, MotionTypes
<1>5. NumbersOK'
  BY <1>1, <1>3 DEF IInv, NumbersOK
<1>6. CallOK'
  BY <1>1 DEF IInv, CallOK
<1>7. TrustOK' /\ LateOK'
  BY <1>1, <1>3, NothingFailedYet DEF IInv, TrustOK, HeadingTrusted, Trusts, LateOK, GaveUp
<1>8. PowerOK'
  BY <1>1, <1>3 DEF IInv, PowerOK, StoppedWhenNotMoving
<1>9. SignOK'
  BY <1>1, <1>3 DEF IInv, SignOK, SignLearntFirst
<1>10. DriveOK' /\ TurnOK' /\ ArrivesAsTold'
  BY <1>1 DEF DriveOK, TurnOK, ArrivesAsTold, Stopped
<1> QED
  BY <1>4, <1>5, <1>6, <1>7, <1>8, <1>9, <1>10 DEF IInv

\* motion_calibrate starts the heading anew.
LEMMA CalibrateKeeps ==
  ASSUME IInv, motion_calibrate
  PROVE  IInv'
<1>1. /\ stage = "calibrate" /\ pc = "caller" /\ call' = "calibrate" /\ asked' = 0
      /\ pc' = "calibrate" /\ count' = 0 /\ powered' = FALSE /\ granted' = FALSE /\ driveActive' = FALSE
      /\ gyroHeading' = 0 /\ trueHeading' = 0 /\ uncertainty' = 0 /\ recoveries' = 0 /\ turnSign' = 0
  BY DEF motion_calibrate, Calls, motors_stop
<1>2. UNCHANGED <<stopVars, driveElapsed, driveAge, duration, signCandidate, signSamples,
                   turnVars, stage, callsLeft, busVars, returned, faults, lateSamples>>
  BY DEF motion_calibrate
<1>3. /\ UNCHANGED <<button, stopArmed, stopLatched, driveElapsed, driveAge, duration>>
      /\ UNCHANGED <<signCandidate, signSamples, degrees, startHeading, turnAge, segmentHeading, attempt,
                     direction, segmentAge>>
      /\ UNCHANGED <<stage, callsLeft, resume, gap, retries, returned, faults, lateSamples>>
  BY <1>2 DEF stopVars, turnVars, segmentVars, busVars
<1>4. faults = {} /\ lateSamples = 0 /\ attempt = 0
  BY <1>1 DEF IInv, TrustOK, LateOK, GaveUp, SignOK, MotionTypes
<1>5. MotionTypes'
  <2>1. MAX_MOVING_RECOVERIES \in Nat
    BY LimitsAssumed DEF LimitAssumption
  <2>2. recoveries' \in 0..MAX_MOVING_RECOVERIES /\ turnSign' \in -1..1 /\ uncertainty' \in Nat
    BY <1>1, <2>1
  <2> QED
    BY <1>1, <1>3, <2>2 DEF IInv, MotionTypes
<1>6. NumbersOK'
  BY <1>1, <1>3 DEF IInv, NumbersOK
<1>7. CallOK'
  BY <1>1, <1>3 DEF IInv, CallOK
<1>8. TrustOK'
  <2>1. Magnitude(trueHeading' - gyroHeading') <= uncertainty'
    BY <1>1 DEF Magnitude
  <2> QED
    BY <1>3, <1>4, <2>1 DEF TrustOK, HeadingTrusted
<1>9. LateOK'
  BY <1>3, <1>4 DEF LateOK
<1>10. PowerOK'
  BY <1>1 DEF PowerOK, StoppedWhenNotMoving
<1>11. SignOK'
  BY <1>1, <1>3, <1>4 DEF SignOK, SignLearntFirst
<1>12. DriveOK' /\ TurnOK' /\ ArrivesAsTold'
  BY <1>1 DEF DriveOK, TurnOK, ArrivesAsTold
<1> QED
  BY <1>5, <1>6, <1>7, <1>8, <1>9, <1>10, <1>11, <1>12 DEF IInv

\* motion_drive_start is refused, or reads its preflight sample.
LEMMA DriveStartKeeps ==
  ASSUME IInv, NEW heading \in Headings, NEW samples \in Durations, motion_drive_start(heading, samples)
  PROVE  IInv'
<1>1. /\ stage = "run" /\ pc = "caller" /\ call' = "drive" /\ asked' = heading /\ PollStop
      /\ callsLeft > 0 /\ callsLeft' = callsLeft - 1
      /\ UNCHANGED <<gyroVars, signVars, turnVars, stage, busVars, faults, trueHeading, lateSamples>>
  BY DEF motion_drive_start, Calls
<1>2. /\ heading \in Int /\ samples \in Nat /\ samples >= 1 /\ callsLeft' \in 0..CALLS
      /\ turnSign # 0
  BY <1>1, AnglesAssumed, LimitsAssumed
     DEF AngleAssumption, LimitAssumption, IInv, MotionTypes, SignOK, SignLearntFirst
<1>3. /\ powered' = FALSE /\ granted' \in BOOLEAN /\ driveActive' = FALSE /\ count' \in Nat
      /\ driveElapsed' = driveElapsed /\ driveAge' = driveAge
      /\ \/ pc' = "report" /\ returned' = "failed" /\ duration' = duration
         \/ pc' = "preflight" /\ returned' = returned /\ duration' = samples
  <2>1. powered = FALSE /\ driveActive = FALSE /\ granted \in BOOLEAN /\ count \in Nat
    BY <1>1, AtRest DEF IInv, NumbersOK
  <2>2. CASE stop_pressed \/ turnSign = 0
    <3>1. stop_drive(0) /\ pc' = "report" /\ returned' = "failed" /\ count' = 0
      BY <2>2 DEF motion_drive_start, Reports
    <3>2. powered' = FALSE /\ granted' = FALSE /\ driveActive' = FALSE /\ driveAge' = driveAge /\ duration' = duration
      BY <3>1 DEF stop_drive, motors_stop
    <3>3. driveElapsed' = driveElapsed
      BY <2>1, <3>1 DEF stop_drive
    <3> QED
      BY <3>1, <3>2, <3>3
  <2>3. CASE ~(stop_pressed \/ turnSign = 0)
    BY <2>1, <2>3 DEF motion_drive_start, motorVars
  <2> QED
    BY <2>2, <2>3
<1>4. faults = {} /\ lateSamples = 0 /\ attempt = 0 /\ Trusts
  BY <1>1, NothingFailedYet DEF IInv, TrustOK, LateOK, GaveUp, SignOK, MotionTypes, HeadingTrusted, Trusts
<1>5. /\ UNCHANGED <<gyroHeading, uncertainty, recoveries, turnSign, signCandidate, signSamples, degrees,
                     startHeading, turnAge, segmentHeading, attempt, direction, segmentAge>>
      /\ UNCHANGED <<stage, resume, gap, retries, faults, trueHeading, lateSamples>>
  BY <1>1 DEF gyroVars, signVars, turnVars, segmentVars, busVars
<1>6. stopLatched' \in BOOLEAN /\ button' = button /\ stopArmed' = stopArmed
  BY <1>1, PollKeeps
<1>7. MotionTypes'
  <2>1. {button', stopArmed', stopLatched', powered', granted', driveActive'} \subseteq BOOLEAN
    BY <1>3, <1>6 DEF IInv, MotionTypes
  <2>2. pc' \in {"report", "preflight"}
    BY <1>3
  <2> QED
    BY <1>2, <1>5, <2>1, <2>2 DEF IInv, MotionTypes
<1>8. NumbersOK'
  BY <1>1, <1>2, <1>3, <1>5 DEF IInv, NumbersOK
<1>9. CallOK'
  BY <1>1, <1>3, <1>5, <1>6 DEF IInv, CallOK, Called
<1>10. TrustOK'
  BY <1>4, <1>5 DEF TrustOK, HeadingTrusted, Trusts
<1>11. PowerOK'
  BY <1>3 DEF PowerOK, StoppedWhenNotMoving
<1>12. SignOK'
  BY <1>2, <1>3, <1>4, <1>5 DEF SignOK, SignLearntFirst
<1>13. LateOK'
  BY <1>4, <1>5 DEF LateOK
<1>14. DriveOK'
  BY <1>2, <1>3 DEF DriveOK, Stopped
<1>15. TurnOK' /\ ArrivesAsTold'
  BY <1>1, <1>3 DEF TurnOK, ArrivesAsTold
<1> QED
  BY <1>7, <1>8, <1>9, <1>10, <1>11, <1>12, <1>13, <1>14, <1>15 DEF IInv

\* What a call's return leaves of its locals.
LocalsGone ==
  /\ startHeading' = 0 /\ segmentHeading' = 0 /\ attempt' = 0 /\ direction' = 1
  /\ signCandidate' = 0 /\ signSamples' = 0 /\ turnAge' = 0 /\ segmentAge' = 0
  /\ driveAge' = 0 /\ duration' = 0 /\ resume' = "none" /\ gap' = 0 /\ retries' = 0
  /\ UNCHANGED <<gyroVars, driveActive, driveElapsed, turnSign, callsLeft, faults, trueHeading, lateSamples>>

\* The direction was learnt; the robot turns back to where it started.
LEMMA TurnBackKeeps ==
  ASSUME IInv, Return, call = "learn", returned = "ok"
  PROVE  IInv'
<1> DEFINE angle == ToHeading(0)
<1>1. /\ pc = "report" /\ LocalsGone /\ call' = "learn_back" /\ asked' = 0 /\ stage' = stage
      /\ turn_degrees(angle)
  BY DEF Return, LocalsGone
<1>2. turnSign \in -1..1 /\ gyroHeading \in Int /\ turnSign # 0
  BY <1>1 DEF IInv, MotionTypes, NumbersOK, SignOK
<1>3. angle \in Int /\ angle = Normalise(0 - turnSign * gyroHeading)
  <2>1. 0 - turnSign * gyroHeading \in Int
    BY <1>2
  <2> QED
    BY <2>1, NormaliseIsNear DEF ToHeading
<1> HIDE DEF angle
<1>4. degrees' = angle /\ count' \in Nat
  BY <1>1, <1>3, TurnBegins
<1>5. faults = {} /\ lateSamples = 0
  BY <1>1 DEF IInv, TrustOK, LateOK, GaveUp
<1>6. NumbersOK'
  BY <1>1, <1>3, <1>4 DEF IInv, NumbersOK, LocalsGone, gyroVars
<1>7. attempt' = 0 /\ direction' \in {-1, 1} /\ callsLeft' \in 0..CALLS
  BY <1>1 DEF LocalsGone, IInv, MotionTypes
<1>8. retries' \in 0..(IMU_RECOVERY_ATTEMPTS - 1)
  BY <1>1, LimitsAssumed DEF LocalsGone, LimitAssumption
<1>9. UNCHANGED <<gyroVars, driveActive, turnSign, faults, trueHeading, lateSamples>>
  BY <1>1 DEF LocalsGone
<1>10. call' \in Turns /\ asked' \in Int /\ stage \notin {"boot", "ended"}
  <2>1. stage \notin {"boot", "ended"}
    BY <1>1 DEF IInv, CallOK
  <2> QED
    BY <1>1, <2>1 DEF Turns
<1>11. degrees' = Normalise(asked' - turnSign * gyroHeading)
  BY <1>1, <1>3, <1>4
<1> QED
  BY <1>1, <1>2, <1>3, <1>5, <1>6, <1>7, <1>8, <1>9, <1>10, <1>11, TurnCallKeeps

\* The run goes on after a call that succeeded, and is over after one that failed.
LEMMA ReturnKeeps ==
  ASSUME IInv, Return
  PROVE  IInv'
<1>1. CASE call = "learn" /\ returned = "ok"
  BY <1>1, TurnBackKeeps
<1>2. CASE ~(call = "learn" /\ returned = "ok")
  <2>1. /\ pc = "report" /\ LocalsGone /\ pc' = "caller" /\ degrees' = 0
        /\ stage' = IF returned = "failed" THEN "ended" ELSE IF call = "calibrate" THEN "learn" ELSE "run"
        /\ UNCHANGED <<stopVars, motorVars, call, asked, returned, count>>
    BY <1>2 DEF Return, LocalsGone
  <2>2. /\ UNCHANGED <<gyroHeading, uncertainty, recoveries, driveActive, driveElapsed, turnSign, callsLeft>>
        /\ UNCHANGED <<faults, trueHeading, lateSamples, button, stopArmed, stopLatched, call, asked, returned, count>>
    BY <2>1 DEF LocalsGone, gyroVars, stopVars
  <2>3. /\ startHeading' = 0 /\ segmentHeading' = 0 /\ attempt' = 0 /\ direction' = 1
        /\ signCandidate' = 0 /\ signSamples' = 0 /\ turnAge' = 0 /\ segmentAge' = 0
        /\ driveAge' = 0 /\ duration' = 0 /\ gap' = 0 /\ retries' = 0
    BY <2>1 DEF LocalsGone
  <2>4. powered' = FALSE /\ driveActive' = FALSE /\ granted' \in BOOLEAN
    BY <2>1, <2>2, AtRest DEF motorVars
  <2>5. MotionTypes'
    <3>1. attempt' \in 0..TURN_MAX_CORRECTIONS /\ retries' \in 0..(IMU_RECOVERY_ATTEMPTS - 1)
      BY <2>3, LimitsAssumed DEF LimitAssumption
    <3>2. stage' \in {"ended", "learn", "run"} /\ direction' \in {-1, 1}
      BY <2>1, <2>3
    <3>3. {button', stopArmed', stopLatched', powered', granted', driveActive'} \subseteq BOOLEAN
      BY <2>2, <2>4 DEF IInv, MotionTypes
    <3> QED
      BY <2>1, <2>2, <3>1, <3>2, <3>3 DEF IInv, MotionTypes
  <2>6. NumbersOK'
    BY <2>1, <2>2, <2>3 DEF IInv, NumbersOK
  <2>7. CallOK'
    BY <2>1, <2>2 DEF IInv, CallOK
  <2>8. TrustOK' /\ LateOK'
    <3>1. GaveUp => GaveUp'
      BY <2>1 DEF GaveUp
    <3>2. HeadingTrusted' <=> HeadingTrusted
      BY <2>2 DEF HeadingTrusted
    <3>3. StopWanted' <=> StopWanted
      BY <2>2 DEF StopWanted
    <3>4. lateSamples = 1 => GaveUp
      BY <2>1 DEF IInv, LateOK
    <3> QED
      BY <2>2, <3>1, <3>2, <3>3, <3>4 DEF IInv, TrustOK, LateOK
  <2>9. PowerOK'
    BY <2>1, <2>4 DEF PowerOK, StoppedWhenNotMoving
  <2>10. SignOK'
    BY <1>2, <2>1, <2>2, <2>3 DEF IInv, CallOK, Called, Turns, SignOK, SignLearntFirst
  <2>11. DriveOK' /\ TurnOK' /\ ArrivesAsTold'
    BY <2>1 DEF DriveOK, TurnOK, ArrivesAsTold, Stopped
  <2> QED
    BY <2>5, <2>6, <2>7, <2>8, <2>9, <2>10, <2>11 DEF IInv
<1> QED
  BY <1>1, <1>2

-----------------------------------------------------------------------------
(* The invariant of the specification                                       *)

LEMMA InitHolds == MotionInit => IInv
<1> SUFFICES ASSUME MotionInit
             PROVE  IInv
  OBVIOUS
<1>1. /\ button = FALSE /\ stopArmed = FALSE /\ stopLatched = FALSE
      /\ powered = FALSE /\ granted = FALSE /\ driveActive = FALSE
  BY DEF MotionInit
<1>2. /\ gyroHeading = 0 /\ turnSign = 0 /\ uncertainty = 0 /\ recoveries = 0
      /\ driveElapsed = 0 /\ driveAge = 0 /\ duration = 0
      /\ degrees = 0 /\ startHeading = 0 /\ segmentHeading = 0 /\ attempt = 0 /\ direction = 1
      /\ signCandidate = 0 /\ signSamples = 0 /\ turnAge = 0 /\ segmentAge = 0
      /\ asked = 0 /\ count = 0 /\ gap = 0 /\ retries = 0 /\ trueHeading = 0 /\ lateSamples = 0
  BY DEF MotionInit
<1>3. /\ stage = "boot" /\ call = "none" /\ pc = "caller" /\ returned = "none" /\ callsLeft = CALLS
      /\ resume = "none" /\ faults = {}
  BY DEF MotionInit
<1>4. MotionTypes
  <2>1. attempt \in 0..TURN_MAX_CORRECTIONS /\ retries \in 0..(IMU_RECOVERY_ATTEMPTS - 1)
        /\ recoveries \in 0..MAX_MOVING_RECOVERIES /\ callsLeft \in 0..CALLS
    BY <1>2, <1>3, LimitsAssumed DEF LimitAssumption
  <2>2. {button, stopArmed, stopLatched, powered, granted, driveActive} \subseteq BOOLEAN
    BY <1>1
  <2>3. turnSign \in -1..1 /\ direction \in {-1, 1} /\ uncertainty \in Nat
    BY <1>2
  <2>4. /\ pc \in Moving \cup {"caller", "calibrate", "recover", "preflight", "settle", "report"}
        /\ stage \in {"boot", "calibrate", "learn", "run", "ended"}
        /\ faults \subseteq {"IMU", "GYRO_SATURATED", "HEADING", "TURN"}
    BY <1>3
  <2> QED
    BY <2>1, <2>2, <2>3, <2>4 DEF MotionTypes
<1>5. NumbersOK
  BY <1>2 DEF NumbersOK
<1>6. CallOK /\ PowerOK
  BY <1>1, <1>3 DEF CallOK, PowerOK, StoppedWhenNotMoving
<1>7. TrustOK /\ LateOK
  BY <1>2, <1>3 DEF TrustOK, HeadingTrusted, Magnitude, LateOK
<1>8. SignOK
  BY <1>2, <1>3 DEF SignOK, SignLearntFirst
<1>9. DriveOK /\ TurnOK /\ ArrivesAsTold
  BY <1>3 DEF DriveOK, TurnOK, ArrivesAsTold
<1> QED
  BY <1>4, <1>5, <1>6, <1>7, <1>8, <1>9 DEF IInv

LEMMA ThreadStepKeeps ==
  ASSUME IInv, ThreadStep
  PROVE  IInv'
<1>1. CASE ReadStopped
  BY <1>1, ReadStoppedKeeps
<1>2. ASSUME NEW rate \in -GYRO_RANGE..GYRO_RANGE, ReadSample(rate)
      PROVE  IInv'
  <2>1. SampleTaken(rate)
    BY <1>2, ReadIsTaken
  <2>2. rate \in Int
    BY RatesAreIntegers
  <2> QED
    BY <2>1, <2>2, SampleKeeps
<1>3. ASSUME NEW late \in 0..1, ReadError(late)
      PROVE  IInv'
  BY <1>3, ReadErrorKeeps
<1>4. CASE RecoveryFails
  BY <1>4, RecoveryFailsKeeps
<1>5. ASSUME NEW rate \in -GYRO_RANGE..GYRO_RANGE,
             NEW angle \in (-GYRO_RANGE * gap)..(GYRO_RANGE * gap), RecoverySample(rate, angle)
      PROVE  IInv'
  <2>1. rate \in Int
    BY RatesAreIntegers
  <2> QED
    BY <1>5, <2>1, RecoveryIsTakenOrLost, RecoveryLostKeeps, SampleKeeps
<1>6. CASE TestMotors \/ WriteMotors \/ Sleep
  BY <1>6, TestMotorsKeeps, WriteMotorsKeeps, SleepKeeps
<1>7. CASE TurnTimesOut \/ GivesUpDrive \/ Return
  BY <1>7, TurnTimesOutKeeps, GivesUpDriveKeeps, ReturnKeeps
<1> QED
  BY <1>1, <1>2, <1>3, <1>4, <1>5, <1>6, <1>7 DEF ThreadStep

LEMMA CallerKeeps ==
  ASSUME IInv, Caller
  PROVE  IInv'
<1>1. CASE motion_arm_stop \/ motion_calibrate \/ motion_learn_direction
  BY <1>1, ArmStopKeeps, CalibrateKeeps, LearnCallKeeps
<1>2. ASSUME NEW heading \in Headings, motion_turn_to_heading(heading)
      PROVE  IInv'
  BY <1>2, TurnToHeadingKeeps
<1>3. ASSUME NEW heading \in Headings, NEW samples \in Durations, motion_drive_start(heading, samples)
      PROVE  IInv'
  BY <1>3, DriveStartKeeps
<1> QED
  BY <1>1, <1>2, <1>3 DEF Caller

LEMMA StepKeeps == IInv /\ [Next]_motionVars => IInv'
<1> SUFFICES ASSUME IInv, [Next]_motionVars
             PROVE  IInv'
  OBVIOUS
<1>1. CASE ThreadStep
  BY <1>1, ThreadStepKeeps
<1>2. CASE Caller
  BY <1>2, CallerKeeps
<1>3. CASE Press \/ Release \/ CallbackPolls
  BY <1>3, ButtonKeeps
<1>4. CASE UNCHANGED motionVars
  <2>1. UNCHANGED <<inertVars, stopVars, lateSamples>>
    BY <1>4 DEF motionVars, inertVars
  <2>2. UNCHANGED <<button, stopArmed, stopLatched>>
    BY <2>1 DEF stopVars
  <2>3. button' \in BOOLEAN /\ stopLatched' \in BOOLEAN /\ lateSamples' \in 0..1
    BY <2>1, <2>2 DEF IInv, MotionTypes, LateOK
  <2>4. lateSamples' = 1 => lateSamples = 1 /\ StopWanted'
    BY <2>1, <2>2 DEF IInv, LateOK, StopWanted
  <2> QED
    BY <2>1, <2>2, <2>3, <2>4, InertKeeps
<1> QED
  BY <1>1, <1>2, <1>3, <1>4 DEF Next

\* Every state of the motion control satisfies the inductive invariant.
THEOREM MotionInvariance == Spec => []IInv
<1>1. MotionInit => IInv
  BY InitHolds
<1>2. IInv /\ [Next]_motionVars => IInv'
  BY StepKeeps
<1> QED
  BY <1>1, <1>2, PTL DEF Spec

\* The gyro is off by no more than the doubt recover_gyro_stopped has admitted
\* (motion.c:228), no path out of a movement leaves the motors on, and nothing
\* moves by heading before the sign is learnt - for every sensor range, recovery
\* limit and length of an outage.
THEOREM MotionIsTrusted == Spec => []MotionInv
<1>1. IInv => MotionInv
  BY DEF IInv, MotionInv, TrustOK, PowerOK, SignOK
<1> QED
  BY <1>1, MotionInvariance, PTL

\* A drive or a turn that reports success left the robot, not just its gyro,
\* where it was asked to be (motion.c:331, 366 and 476).
THEOREM SuccessIsTrue == Spec => []ArrivesAsTold
<1>1. IInv => ArrivesAsTold
  BY DEF IInv
<1> QED
  BY <1>1, MotionInvariance, PTL

\* A wanted STOP leaves the motors on for one sample at most (motion.c:112),
\* whenever it is pressed, released or polled by a callback.
THEOREM StopIsPrompt == Spec => []StopWithinSample
<1>1. IInv => StopWithinSample
  BY DEF IInv, LateOK, StopWithinSample
<1> QED
  BY <1>1, MotionInvariance, PTL

\* A drive that succeeds is charged for at least one sample and for no more than
\* it was given and the transaction that ended it (motion.c:277).
THEOREM ChargeIsHonest == Spec => []ChargedAsDriven
<1>1. IInv => ChargedAsDriven
  BY DEF IInv, DriveOK, ChargedAsDriven
<1> QED
  BY <1>1, MotionInvariance, PTL
=============================================================================
