-------------------------- MODULE Approach_proofs --------------------------
(***************************************************************************)
(* The approach keeps its safety properties for all step lengths, budgets, *)
(* counts and readings that the assumptions of Approach allow.             *)
(***************************************************************************)
EXTENDS Approach, ColourMat_proofs

-----------------------------------------------------------------------------
(* The inductive invariant                                                  *)

Places == {"start", "measure", "follow", "recheck", "probe", "return",
           "mat", "mat_turned", "mat_wait", "mat_step", "done"}
Purposes == {"none", "initial", "baseline", "follow", "dip", "returned", "trial_returned"}

\* A line is being followed: its points, dips and probes, but not its return.
Forwards ==
  \/ pc \in {"follow", "recheck", "probe"}
  \/ pc = "measure" /\ after \in {"follow", "dip"}
AtPoint == pc = "measure" /\ after = "follow"
AtBaseline == pc = "measure" /\ after = "baseline"

\* What the calls of the code can be in the middle of.
PlaceOK ==
  /\ pc \in Places /\ after \in Purposes
  /\ pc = "return" => after \in {"returned", "trial_returned"}
  /\ pc # "done" => outcome = "NONE" /\ fault = "NONE"
  /\ sampleNo \in 1..2 /\ missing \in 0..(MAX_MISSING_SAMPLES - 1)

\* The budget is kept until a runaway block ends the run.
TravelOK ==
  /\ translation \in 0..(TRANSLATION + BLOCK_RESERVE + 1)
  /\ pc # "done" => translation <= TRANSLATION
  /\ net \in Int /\ position \in Nat /\ bestPosition \in 0..position /\ remaining \in Nat
  /\ step \in {FORWARD_BLOCK, MAT_BLOCK} /\ trial \in Nat
  /\ direction \in 0..SEARCH_DIRECTIONS /\ fruitless \in Nat
  /\ pc # "done" /\ direction > 0 => fruitless = direction - 1

\* The motors are where the powered position says, less what a return has left.
NetOK ==
  /\ AtBaseline => position = 0 /\ net = 0
  /\ Forwards => net = position
  /\ pc = "return" => /\ remaining > 0
                      /\ net = remaining + (IF after = "returned" THEN bestPosition ELSE 0)

\* Readings, and what was concluded from them.
ChoiceOK ==
  /\ best \in PairSet /\ baseline \in PairSet /\ reference \in PairSet
  /\ recent \in [1..3 -> PairSet] /\ recentNext \in 1..3 /\ recentCount \in 0..3
  /\ progress \in BOOLEAN /\ dipActive \in BOOLEAN
  /\ pc \in {"measure", "return"} /\ after = "trial_returned" => ~progress

\* The reference is a gain on every other the line has had.
NoWeaker ==
  \A earlier \in references :
    earlier \in PairSet /\ (earlier = reference \/ line_confirmed_gain(earlier, reference) > 0)
ReferenceOK == OnLine => NoWeaker

\* A list of n weak positions past a point, the latest of them at last: a step apart,
\* and judged by one reference.
CountedAs(list, n, against, from, last) ==
  /\ list \in Seq([at : Nat, step : Nat, against : PairSet]) /\ Len(list) = n
  /\ \A i \in 1..n :
       /\ list[i].at > from /\ list[i].against = against
       /\ i > 1 => list[i].at - list[i - 1].at >= list[i].step
  /\ n > 0 => list[n].at = last
Counting ==
  /\ CountedAs(counted, declines, reference, bestPosition, lastDecline)
  /\ declines > 0 => dipActive
CountingOK == Forwards => Counting

DeclineOK ==
  /\ declines \in 0..DECLINE_POSITIONS /\ profileCount \in 0..PROFILE_CAPACITY
  /\ (pc \in {"measure", "done"} => after # "baseline") =>
       lastDecline \in 0..position /\ segmentStart \in 0..position
  /\ AtPoint => position > bestPosition
  /\ pc = "follow" \/ AtPoint => declines < DECLINE_POSITIONS
  /\ pc = "recheck" => declines = DECLINE_POSITIONS

MatOK ==
  /\ probe \in 0..DIP_MAX_PROBES /\ (pc = "probe" => probe < DIP_MAX_PROBES)
  /\ scans \in 0..MAT_MAX_SCANS /\ matStep \in 0..(MAT_STEPS_PER_SCAN + 1)
  /\ pc = "mat_wait" => resume \in {"mat", "mat_step"}
  /\ pc = "mat_step" \/ (pc = "mat_wait" /\ resume = "mat_step") => matStep \in 1..MAT_STEPS_PER_SCAN
  /\ pc = "mat_step" => ~arrived

SensorOK ==
  /\ ColourTypeOK
  /\ available => failedChecks < MAX_FAILED_CHECKS
  /\ arrived /\ available => lighterSeen /\ onMat /\ lastDepth >= ARRIVAL_DEPTH

IInv ==
  /\ PlaceOK /\ TravelOK /\ NetOK /\ ChoiceOK /\ DeclineOK /\ CountingOK /\ MatOK /\ SensorOK
  /\ ReturnAffordable /\ ReferenceOK /\ ProgressIsReal
  /\ BackWhereItWas /\ TriesEveryDirection /\ CollectsAtTheCentre

-----------------------------------------------------------------------------
(* What comparing readings guarantees                                       *)

\* The four numbers a pair is judged by.
LEMMA PairNumbers ==
  ASSUME NEW pair \in PairSet
  PROVE  /\ Strongest(pair) \in Nat /\ Weakest(pair) \in Nat /\ Spread(pair) \in Nat
         /\ Strongest(pair) <= Weakest(pair)
         /\ valid_pair(pair) \in BOOLEAN
<1>1. /\ pair.first.code \in Nat /\ pair.second.code \in Nat
      /\ pair.first.spread \in Nat /\ pair.second.spread \in Nat
  BY DEF PairSet, SampleSet, RSSI_MISSING_CODE
<1> QED
  BY <1>1 DEF Strongest, Weakest, Spread, Smaller, Larger, valid_pair

LEMMA GainIsNumber ==
  ASSUME NEW p \in PairSet, NEW q \in PairSet
  PROVE  /\ line_confirmed_gain(p, q) \in Int /\ line_pair_margin(p, q) \in Int
         /\ line_pair_margin(p, q) >= 3
         /\ line_pair_margin(p, q) > Spread(p) /\ line_pair_margin(p, q) > Spread(q)
         /\ line_pair_margin(p, q) = 3 \/ line_pair_margin(p, q) = Spread(p) + 1
              \/ line_pair_margin(p, q) = Spread(q) + 1
BY PairNumbers DEF line_confirmed_gain, line_pair_margin, Larger, MIN_PROGRESS_DB

\* A gain confirmed on a gain is confirmed on the start: what makes the reference
\* and the best point safe to replace over and over (line_confirmed_gain).
LEMMA GainsAddUp ==
  ASSUME NEW p \in PairSet, NEW q \in PairSet, NEW r \in PairSet,
         line_confirmed_gain(p, q) > 0, line_confirmed_gain(q, r) > 0
  PROVE  line_confirmed_gain(p, r) > 0
<1>1. valid_pair(p) /\ valid_pair(q) /\ valid_pair(r)
  BY DEF line_confirmed_gain
<1>2. Strongest(p) - Weakest(q) > 0 /\ Strongest(q) - Weakest(r) > 0
  BY <1>1 DEF line_confirmed_gain
<1>3. Strongest(p) - Weakest(r) > 0
  BY <1>2, PairNumbers
<1> QED
  BY <1>1, <1>3 DEF line_confirmed_gain

\* A stronger reference calls a decline whatever the weaker one did, unless its own
\* batches disagree more (line_reference_declined).
LEMMA StrongerHidesNothing ==
  ASSUME NEW p \in PairSet, NEW q \in PairSet, line_confirmed_gain(p, q) > 0
  PROVE  /\ Weakest(q) <= Weakest(p)
         /\ \A current \in PairSet :
              line_reference_declined(p, current) =>
                line_reference_declined(q, current) \/ Spread(q) > Spread(p)
<1>1. valid_pair(p) /\ valid_pair(q) /\ Strongest(p) - Weakest(q) > 0
  BY DEF line_confirmed_gain
<1>2. Weakest(q) < Weakest(p)
  BY <1>1, PairNumbers
<1>3. ASSUME NEW current \in PairSet, line_reference_declined(p, current),
             ~(Spread(q) > Spread(p))
      PROVE  line_reference_declined(q, current)
  <2>1. valid_pair(current) /\ Strongest(current) - Weakest(p) > line_pair_margin(p, current)
    BY <1>1, <1>3 DEF line_reference_declined, line_confirmed_gain
  <2>2. line_pair_margin(q, current) <= line_pair_margin(p, current)
    BY <1>3, PairNumbers DEF line_pair_margin, Larger, MIN_PROGRESS_DB
  <2>3. Strongest(current) - Weakest(q) > line_pair_margin(q, current)
    BY <1>2, <2>1, <2>2, PairNumbers, GainIsNumber
  <2> QED
    BY <1>1, <2>1, <2>3 DEF line_reference_declined, line_confirmed_gain
<1> QED
  BY <1>2, <1>3, PairNumbers

LEMMA ComparedStronger ==
  ASSUME NEW p \in PairSet, NEW q \in PairSet
  PROVE  line_compare(p, q) > 0 <=>
           /\ valid_pair(p) /\ valid_pair(q)
           /\ Strongest(p) - Weakest(q) >= line_pair_margin(p, q)
BY DEF line_compare, line_confirmed_gain

\* Nor does a chain of confirmed improvements lose the margin (line_compare).
LEMMA ImprovementsAddUp ==
  ASSUME NEW p \in PairSet, NEW q \in PairSet, NEW r \in PairSet,
         line_compare(p, q) > 0, line_compare(q, r) > 0
  PROVE  line_compare(p, r) > 0
<1>1. valid_pair(p) /\ valid_pair(q) /\ valid_pair(r)
  BY ComparedStronger
<1>2. /\ Strongest(p) - Weakest(q) >= line_pair_margin(p, q)
      /\ Strongest(q) - Weakest(r) >= line_pair_margin(q, r)
  BY ComparedStronger
<1>3. Strongest(p) - Weakest(r) >= line_pair_margin(p, q) + line_pair_margin(q, r)
  BY <1>2, PairNumbers, GainIsNumber
<1>4. line_pair_margin(p, q) + line_pair_margin(q, r) >= line_pair_margin(p, r)
  BY PairNumbers, GainIsNumber
<1>5. Strongest(p) - Weakest(r) >= line_pair_margin(p, r)
  BY <1>3, <1>4, PairNumbers, GainIsNumber
<1> QED
  BY <1>1, <1>5, ComparedStronger

\* The median of three pairs is one of them, or the pair that measured nothing.
LEMMA MedianIsPair ==
  ASSUME NEW samples \in [1..3 -> PairSet]
  PROVE  line_median_reference(samples) \in PairSet
<1> DEFINE rank(i) == line_reference(samples[i]).code
           before(i, j) == rank(i) < rank(j) \/ (rank(i) = rank(j) /\ i < j)
<1>1. Pair(Sample(RSSI_MISSING_CODE, 0), Sample(RSSI_MISSING_CODE, 0)) \in PairSet
  BY DEF Pair, Sample, PairSet, SampleSet, RSSI_MISSING_CODE
<1>2. ASSUME \A i \in 1..3 : valid_pair(samples[i])
      PROVE  samples[CHOOSE i \in 1..3 : \E a, b \in (1..3) \ {i} : before(a, i) /\ before(i, b)] \in PairSet
  <2>1. \A i \in 1..3 : rank(i) \in Nat
    BY <1>2, PairNumbers DEF line_reference, Sample
  <2>2. \E i \in 1..3 : \E a, b \in (1..3) \ {i} : before(a, i) /\ before(i, b)
    <3> HIDE DEF rank
    <3>1. rank(1) \in Nat /\ rank(2) \in Nat /\ rank(3) \in Nat
      BY <2>1
    <3>2. \E i, a, b \in 1..3 : a # i /\ b # i /\ before(a, i) /\ before(i, b)
      <4>1. before(1, 2) \/ before(2, 1)
        BY <3>1
      <4>2. before(1, 3) \/ before(3, 1)
        BY <3>1
      <4>3. before(2, 3) \/ before(3, 2)
        BY <3>1
      <4>4. 1 \in 1..3 /\ 2 \in 1..3 /\ 3 \in 1..3 /\ 1 # 2 /\ 1 # 3 /\ 2 # 3
        OBVIOUS
      <4>5. ~(before(1, 2) /\ before(2, 3) /\ before(3, 1))
        BY <3>1
      <4>6. ~(before(2, 1) /\ before(1, 3) /\ before(3, 2))
        BY <3>1
      <4> HIDE DEF before
      <4> QED
        BY <4>1, <4>2, <4>3, <4>4, <4>5, <4>6
    <3> HIDE DEF before
    <3> QED
      BY <3>2
  <2> HIDE DEF before
  <2> QED
    BY <2>2
<1>3. CASE \A i \in 1..3 : valid_pair(samples[i])
  BY <1>2, <1>3 DEF line_median_reference
<1>4. CASE ~(\A i \in 1..3 : valid_pair(samples[i]))
  BY <1>1, <1>4 DEF line_median_reference
<1> QED
  BY <1>3, <1>4

-----------------------------------------------------------------------------
(* What a distance costs                                                    *)

\* The powered blocks a distance takes.
Blocks(duration) == (duration + LINE_BLOCK - 1) \div LINE_BLOCK

\* Enough blocks, and none to spare.
LEMMA BlocksCover ==
  ASSUME NEW d \in Nat
  PROVE  /\ Blocks(d) \in Nat
         /\ d <= Blocks(d) * LINE_BLOCK
         /\ Blocks(d) * LINE_BLOCK < d + LINE_BLOCK
<1> DEFINE x == d + LINE_BLOCK - 1
<1>1. LINE_BLOCK \in Nat /\ LINE_BLOCK > 0
  BY TravelAssumed DEF TravelAssumption
<1>2. x \in Nat
  BY <1>1
<1>3. ASSUME NEW y \in Nat, NEW b \in Nat, b > 0
      PROVE  y \div b \in Nat /\ (y \div b) * b <= y /\ y < (y \div b) * b + b
  BY <1>3, SMT
<1>4. x \div LINE_BLOCK \in Nat /\ (x \div LINE_BLOCK) * LINE_BLOCK <= x
      /\ x < (x \div LINE_BLOCK) * LINE_BLOCK + LINE_BLOCK
  <2> HIDE DEF x
  <2> QED
    BY <1>1, <1>2, <1>3
<1>5. (x \div LINE_BLOCK) * LINE_BLOCK \in Nat
  BY <1>1, <1>4
<1>6. Blocks(d) = x \div LINE_BLOCK
  BY DEF Blocks
<1>7. Blocks(d) * LINE_BLOCK \in Nat /\ Blocks(d) * LINE_BLOCK <= d + LINE_BLOCK - 1
      /\ d + LINE_BLOCK - 1 < Blocks(d) * LINE_BLOCK + LINE_BLOCK
  BY <1>4, <1>5, <1>6
<1> DEFINE p == Blocks(d) * LINE_BLOCK
<1> HIDE DEF p
<1>8. p \in Nat /\ p <= d + LINE_BLOCK - 1 /\ d + LINE_BLOCK - 1 < p + LINE_BLOCK
  BY <1>7 DEF p
<1>9. d <= p /\ p < d + LINE_BLOCK
  BY <1>1, <1>8
<1> QED
  BY <1>4, <1>6, <1>9 DEF p

LEMMA BlocksGrow ==
  ASSUME NEW d \in Nat, NEW e \in Nat, d <= e
  PROVE  Blocks(d) <= Blocks(e)
<1>1. LINE_BLOCK \in Nat /\ LINE_BLOCK > 0
  BY TravelAssumed DEF TravelAssumption
<1>2. ASSUME NEW m \in Nat, NEW n \in Nat, NEW b \in Nat, m > n
      PROVE  m * b >= n * b + b
  <2>1. PICK k \in Nat : m = n + 1 + k
    <3>1. m - n - 1 \in Nat /\ m = n + 1 + (m - n - 1)
      BY <1>2
    <3> QED
      BY <3>1
  <2>2. m * b = n * b + b + k * b
    BY <2>1
  <2>3. k * b \in Nat /\ n * b \in Nat
    OBVIOUS
  <2> QED
    BY <2>2, <2>3
<1>3. SUFFICES ASSUME Blocks(d) > Blocks(e) PROVE FALSE
  BY BlocksCover
<1>4. Blocks(d) * LINE_BLOCK >= Blocks(e) * LINE_BLOCK + LINE_BLOCK
  BY <1>1, <1>2, <1>3, BlocksCover
<1>5. Blocks(d) * LINE_BLOCK \in Nat /\ Blocks(e) * LINE_BLOCK \in Nat
  BY <1>1, BlocksCover
<1>6. Blocks(d) * LINE_BLOCK < d + LINE_BLOCK /\ e <= Blocks(e) * LINE_BLOCK
  BY BlocksCover
<1> DEFINE m == Blocks(d) * LINE_BLOCK
           n == Blocks(e) * LINE_BLOCK
<1> HIDE DEF m, n
<1>7. /\ m \in Nat /\ n \in Nat /\ m >= n + LINE_BLOCK /\ m < d + LINE_BLOCK /\ e <= n
  BY <1>4, <1>5, <1>6 DEF m, n
<1> QED
  BY <1>1, <1>7

\* A cost covers the distance, and every block of it may run over; costs grow with
\* the distance (translation_cost).
LEMMA CostCovers ==
  ASSUME NEW d \in Nat
  PROVE  /\ translation_cost(d) \in Nat
         /\ translation_cost(d) = d + Blocks(d) * BLOCK_RESERVE
         /\ translation_cost(0) = 0
         /\ d > 0 => translation_cost(d) >= d + BLOCK_RESERVE
<1>1. LINE_BLOCK \in Nat /\ LINE_BLOCK > 0 /\ BLOCK_RESERVE \in Nat
  BY TravelAssumed DEF TravelAssumption
<1>2. translation_cost(d) = d + Blocks(d) * BLOCK_RESERVE
  BY DEF translation_cost, Blocks
<1>3. Blocks(d) \in Nat
  BY BlocksCover
<1>4. Blocks(d) * BLOCK_RESERVE \in Nat
  BY <1>1, <1>3
<1>5. translation_cost(0) = 0
  <2>1. Blocks(0) * LINE_BLOCK < LINE_BLOCK /\ Blocks(0) \in Nat
    BY <1>1, BlocksCover
  <2>2. ASSUME NEW m \in Nat, NEW b \in Nat, m * b < b PROVE m = 0
    <3>1. ASSUME NEW k \in Nat, m = k + 1 PROVE FALSE
      <4>1. m * b = k * b + b /\ k * b \in Nat
        BY <3>1
      <4> QED
        BY <4>1, <2>2
    <3>2. m # 0 => m - 1 \in Nat /\ m = (m - 1) + 1
      OBVIOUS
    <3> QED
      BY <3>1, <3>2
  <2>3. Blocks(0) = 0
    BY <1>1, <2>1, <2>2
  <2> QED
    BY <1>1, <2>3 DEF translation_cost, Blocks
<1>6. ASSUME d > 0 PROVE Blocks(d) * BLOCK_RESERVE >= BLOCK_RESERVE
  <2>1. Blocks(d) # 0
    <3>1. d <= Blocks(d) * LINE_BLOCK
      BY BlocksCover
    <3> QED
      BY <1>1, <1>6, <3>1
  <2>2. PICK k \in Nat : Blocks(d) = k + 1
    <3>1. Blocks(d) - 1 \in Nat /\ Blocks(d) = (Blocks(d) - 1) + 1
      BY <1>3, <2>1
    <3> QED
      BY <3>1
  <2>3. Blocks(d) * BLOCK_RESERVE = k * BLOCK_RESERVE + BLOCK_RESERVE /\ k * BLOCK_RESERVE \in Nat
    BY <1>1, <2>2
  <2> QED
    BY <1>1, <2>3
<1> DEFINE p == Blocks(d) * BLOCK_RESERVE
<1> HIDE DEF p
<1>7. p \in Nat /\ translation_cost(d) = d + p /\ (d > 0 => p >= BLOCK_RESERVE)
  BY <1>2, <1>4, <1>6 DEF p
<1>8. translation_cost(d) \in Nat /\ (d > 0 => translation_cost(d) >= d + BLOCK_RESERVE)
  BY <1>1, <1>7
<1> QED
  BY <1>2, <1>5, <1>8

LEMMA CostGrows ==
  ASSUME NEW d \in Nat, NEW e \in Nat, d <= e
  PROVE  /\ Blocks(d) * BLOCK_RESERVE <= Blocks(e) * BLOCK_RESERVE
         /\ translation_cost(d) <= translation_cost(e)
<1>1. BLOCK_RESERVE \in Nat
  BY TravelAssumed DEF TravelAssumption
<1>2. Blocks(d) \in Nat /\ Blocks(e) \in Nat /\ Blocks(d) <= Blocks(e)
  BY BlocksCover, BlocksGrow
<1>3. PICK k \in Nat : Blocks(e) = Blocks(d) + k
  <2>1. Blocks(e) - Blocks(d) \in Nat /\ Blocks(e) = Blocks(d) + (Blocks(e) - Blocks(d))
    BY <1>2
  <2> QED
    BY <2>1
<1>4. Blocks(e) * BLOCK_RESERVE = Blocks(d) * BLOCK_RESERVE + k * BLOCK_RESERVE
  BY <1>1, <1>2, <1>3
<1>5. k * BLOCK_RESERVE \in Nat /\ Blocks(d) * BLOCK_RESERVE \in Nat
      /\ Blocks(e) * BLOCK_RESERVE \in Nat
  BY <1>1, <1>2
<1>6. Blocks(d) * BLOCK_RESERVE <= Blocks(e) * BLOCK_RESERVE
  BY <1>4, <1>5
<1> DEFINE m == Blocks(d) * BLOCK_RESERVE
           n == Blocks(e) * BLOCK_RESERVE
<1> HIDE DEF m, n
<1>7. m \in Nat /\ n \in Nat /\ m <= n
      /\ translation_cost(d) = d + m /\ translation_cost(e) = e + n
  BY <1>5, <1>6, CostCovers DEF m, n
<1>8. translation_cost(d) <= translation_cost(e)
  BY <1>7
<1> QED
  BY <1>6, <1>8

\* Driving part of a way leaves the rest within what the whole way cost, however
\* the driving is cut into blocks (return_along_line).
LEMMA CostOfTheRest ==
  ASSUME NEW whole \in Nat, NEW done \in Nat, done <= whole
  PROVE  done + translation_cost(whole - done) <= translation_cost(whole)
<1> DEFINE rest == whole - done
           m == Blocks(rest) * BLOCK_RESERVE
           n == Blocks(whole) * BLOCK_RESERVE
<1>1. rest \in Nat /\ rest <= whole /\ done + rest = whole
  OBVIOUS
<1>2. BLOCK_RESERVE \in Nat
  BY TravelAssumed DEF TravelAssumption
<1> HIDE DEF rest
<1>3. m <= n /\ m \in Int /\ n \in Int
  BY <1>1, <1>2, BlocksCover, CostGrows
<1>4. translation_cost(rest) = rest + m /\ translation_cost(whole) = whole + n
  BY <1>1, CostCovers
<1> HIDE DEF m, n
<1>5. done + translation_cost(rest) <= translation_cost(whole)
  BY <1>1, <1>3, <1>4
<1> QED
  BY <1>5 DEF rest

-----------------------------------------------------------------------------
(* What a payload check leaves                                              *)

LEMMA DepthsKnown ==
  /\ Depths \subseteq -1..6 /\ ARRIVAL_DEPTH = 5
  /\ \A seen \in DepthsSeen(SCAN_STEPS) : seen \subseteq -1..6
  /\ \A seen \in DepthsSeen(COLOUR_ARRIVAL_SAMPLES) : seen \subseteq -1..6
<1>1. Depths \subseteq -1..6
  BY DepthIsKnown, ColourAssumed DEF Depths, ColourAssumption
<1>2. ARRIVAL_DEPTH = 5
  BY DEF ARRIVAL_DEPTH, ZoneDepths
<1> QED
  BY <1>1, <1>2 DEF DepthsSeen

\* A check of the colour sensor keeps what is known of it: it has arrived only on
\* the arrival ring with a lighter ring seen (colour_arrival_check).
LEMMA CheckKeepsSensor ==
  ASSUME SensorOK, colour_arrival_check
  PROVE  SensorOK'
<1>1. MAX_FAILED_CHECKS \in Nat /\ MAX_FAILED_CHECKS > 0
  BY ColourAssumed DEF ColourAssumption
<1>2. CASE ~available /\ arrived' = FALSE
           /\ UNCHANGED <<available, lighterSeen, onMat, lastDepth, failedChecks>>
  BY <1>2, ZenonT(30) DEF SensorOK, ColourTypeOK
<1>3. CASE CheckFails
  <2>1. failedChecks \in 0..MAX_FAILED_CHECKS /\ failedChecks < MAX_FAILED_CHECKS
    BY <1>3, Zenon DEF SensorOK, ColourTypeOK, CheckFails
  <2>2. /\ failedChecks' \in 0..MAX_FAILED_CHECKS /\ lastDepth' \in -1..6
        /\ available' => failedChecks' < MAX_FAILED_CHECKS
    <3>1. /\ failedChecks' = failedChecks + 1 /\ lastDepth' = -1
          /\ available' = (failedChecks' < MAX_FAILED_CHECKS)
      BY <1>3 DEF CheckFails
    <3>2. failedChecks' \in 0..MAX_FAILED_CHECKS /\ lastDepth' \in -1..6
      BY <1>1, <2>1, <3>1
    <3> QED
      BY <3>1, <3>2, Zenon
  <2>3. available' \in BOOLEAN /\ lighterSeen' \in BOOLEAN /\ onMat' \in BOOLEAN
        /\ arrived' = FALSE
    <3>1. onMat' = FALSE /\ arrived' = FALSE /\ lighterSeen' = lighterSeen
          /\ available' = (failedChecks' < MAX_FAILED_CHECKS)
      BY <1>3 DEF CheckFails
    <3>2. (failedChecks' < MAX_FAILED_CHECKS) \in BOOLEAN
      BY <1>3 DEF CheckFails
    <3>3. lighterSeen \in BOOLEAN
      BY DEF SensorOK, ColourTypeOK
    <3> QED
      BY <3>1, <3>2, <3>3, Zenon
  <2> QED
    BY <2>2, <2>3, Zenon DEF SensorOK, ColourTypeOK
<1>4. ASSUME NEW seen \in DepthsSeen(COLOUR_ARRIVAL_SAMPLES), NEW last \in seen,
             CheckReads(seen, last)
      PROVE  SensorOK'
  <2>1. seen \subseteq -1..6 /\ ARRIVAL_DEPTH = 5
    BY DepthsKnown
  <2>2. last \in -1..6
    BY <2>1
  <2>3. /\ failedChecks' = 0 /\ lastDepth' = last /\ available' = available /\ available
        /\ onMat' = (\E d \in seen : d >= 1)
        /\ lighterSeen' = (lighterSeen \/ \E d \in seen : LighterMat(d))
        /\ arrived' = ((\A d \in seen : Dark(d)) /\ lighterSeen)
    BY <1>4 DEF CheckReads
  <2>4. failedChecks' \in 0..MAX_FAILED_CHECKS /\ failedChecks' < MAX_FAILED_CHECKS
        /\ lastDepth' \in -1..6
    BY <1>1, <2>2, <2>3
  <2>5. available' \in BOOLEAN /\ lighterSeen' \in BOOLEAN /\ onMat' \in BOOLEAN /\ arrived' \in BOOLEAN
    BY <2>3, Zenon DEF SensorOK, ColourTypeOK
  <2>6. ASSUME arrived' PROVE lighterSeen' /\ onMat' /\ lastDepth' >= ARRIVAL_DEPTH
    <3>1. lighterSeen /\ \A d \in seen : Dark(d)
      BY <2>3, <2>6, Zenon
    <3>2. last >= 5
      BY <2>1, <3>1 DEF Dark
    <3>3. \E d \in seen : d >= 1
      BY <2>2, <3>2
    <3>4. lighterSeen' /\ onMat'
      BY <2>3, <3>1, <3>3, Zenon
    <3> QED
      BY <2>1, <2>3, <3>2, <3>4
  <2> QED
    BY <2>4, <2>5, <2>6, Zenon DEF SensorOK, ColourTypeOK
<1> QED
  BY <1>2, <1>3, <1>4, Zenon DEF colour_arrival_check

LEMMA PayloadCheckKeepsSensor ==
  ASSUME SensorOK, NEW result, check_payload(result)
  PROVE  /\ SensorOK'
         /\ result \in PayloadResults
         /\ result = "COMPLETE" /\ available' => arrived'
<1>1. colour_arrival_check /\ result \in PayloadResults
      /\ (available' /\ ~arrived' => result = "NOT_CLOSE")
  BY DEF check_payload
<1> QED
  BY <1>1, CheckKeepsSensor

-----------------------------------------------------------------------------
(* Steps that end the approach, wait, or start a line                       *)

LEMMA ConstantsAreNumbers ==
  /\ LINE_BLOCK \in Nat /\ FORWARD_BLOCK \in Nat /\ MAT_BLOCK \in Nat /\ DIP_PROBE \in Nat
  /\ LINE_BLOCK > 0 /\ FORWARD_BLOCK > 0 /\ MAT_BLOCK > 0 /\ DIP_PROBE > 0
  /\ BLOCK_RESERVE \in Nat /\ TRANSLATION \in Nat /\ DIRECTION_TEST \in Nat /\ SWEEP \in Nat
  /\ DECLINE_POSITIONS \in Nat /\ DECLINE_POSITIONS > 0
  /\ DIP_MAX_PROBES \in Nat /\ DIP_MAX_PROBES > 0
  /\ PROFILE_CAPACITY \in Nat /\ PROFILE_CAPACITY > 0
  /\ SEARCH_DIRECTIONS \in Nat /\ SEARCH_DIRECTIONS > 0
  /\ MAX_MISSING_SAMPLES \in Nat /\ MAX_MISSING_SAMPLES > 0
  /\ MAT_MAX_SCANS \in Nat /\ MAT_STEPS_PER_SCAN \in Nat /\ MAT_STEPS_PER_SCAN > 0
  /\ MAT_ARRIVED_RETRIES \in Nat
BY TravelAssumed, CountAssumed DEF TravelAssumption, CountAssumption

LEMMA SensorUnmoved ==
  ASSUME SensorOK, UNCHANGED colourVars
  PROVE  SensorOK'
BY ZenonT(30) DEF SensorOK, ColourTypeOK, colourVars

\* Whatever a last step drove or counted, the end of the approach keeps the
\* invariant if the outcome it reports is a true one.
LEMMA EndKeeps ==
  ASSUME IInv, pc # "done", pc' = "done", UNCHANGED <<after, sampleNo, missing>>,
         fruitless' \in Nat, fault' = "NO_DIRECTION" => fruitless' = SEARCH_DIRECTIONS,
         outcome' = "COMPLETE" /\ available' => arrived',
         SensorOK',
         translation' \in 0..(TRANSLATION + BLOCK_RESERVE + 1), net' \in Int,
         position' \in Nat, position' >= position, step' \in {FORWARD_BLOCK, MAT_BLOCK},
         UNCHANGED <<direction, trial, best, bestPosition, baseline, progress, historyVars,
                     segmentStart, profileCount>>,
         remaining' \in Nat, probe' \in 0..DIP_MAX_PROBES, UNCHANGED scans,
         matStep' \in 0..(MAT_STEPS_PER_SCAN + 1)
  PROVE  IInv'
<1>1. PlaceOK'
  BY DEF IInv, PlaceOK, Places
<1>2. TravelOK'
  BY DEF IInv, TravelOK
<1>3. NetOK' /\ ReturnAffordable' /\ ReferenceOK' /\ ProgressIsReal' /\ BackWhereItWas'
  BY DEF NetOK, AtBaseline, Forwards, ReturnAffordable, ReferenceOK, ProgressIsReal,
         BackWhereItWas, OnLine
<1>4. ChoiceOK'
  BY DEF IInv, ChoiceOK, historyVars
<1>5. DeclineOK' /\ CountingOK'
  BY DEF IInv, TravelOK, DeclineOK, CountingOK, AtPoint, Forwards, historyVars
<1>6. MatOK'
  BY DEF IInv, MatOK
<1>7. TriesEveryDirection'
  BY Zenon DEF TriesEveryDirection
<1>8. CollectsAtTheCentre'
  BY Zenon DEF SensorOK, CollectsAtTheCentre
<1> QED
  BY <1>1, <1>2, <1>3, <1>4, <1>5, <1>6, <1>7, <1>8 DEF IInv

\* What was counted stays as it is while the line's values do.
LEMMA CountingStays ==
  ASSUME Counting, UNCHANGED <<historyVars, bestPosition>>
  PROVE  Counting'
BY Zenon DEF Counting, CountedAs, historyVars

LEMMA NoneCounted ==
  ASSUME NEW against, NEW from, NEW last
  PROVE  CountedAs(<<>>, 0, against, from, last)
BY DEF CountedAs

LEMMA NobodyCounted ==
  ASSUME NEW list, NEW against, NEW from, NEW last, NEW against2, NEW from2, NEW last2,
         CountedAs(list, 0, against, from, last)
  PROVE  CountedAs(list, 0, against2, from2, last2)
BY DEF CountedAs

\* One more weak position, a step past the last and judged by the same reference.
LEMMA CountingAppends ==
  ASSUME NEW list, NEW n \in Nat, NEW against \in PairSet, NEW from \in Nat, NEW last,
         CountedAs(list, n, against, from, last),
         NEW place \in Nat, NEW pace \in Nat, place > from, n > 0 => place - last >= pace
  PROVE  CountedAs(Append(list, [at |-> place, step |-> pace, against |-> against]),
                   n + 1, against, from, place)
<1> DEFINE Point == [at : Nat, step : Nat, against : PairSet]
           point == [at |-> place, step |-> pace, against |-> against]
           longer == Append(list, point)
<1>1. point \in Point /\ point.at = place /\ point.step = pace /\ point.against = against
  OBVIOUS
<1> DEFINE Fits(i) == /\ list[i].at > from /\ list[i].against = against
                      /\ i > 1 => list[i].at - list[i - 1].at >= list[i].step
<1>2. /\ list \in Seq(Point) /\ Len(list) = n
      /\ \A i \in 1..n : Fits(i)
      /\ n > 0 => list[n].at = last
  BY DEF CountedAs
<1> HIDE DEF Point, point
<1>3. /\ longer \in Seq(Point) /\ Len(longer) = n + 1 /\ longer[n + 1] = point
      /\ \A i \in 1..n : longer[i] = list[i]
  BY <1>1, <1>2
<1> HIDE DEF longer
<1>4. ASSUME NEW i \in 1..(n + 1)
      PROVE  /\ longer[i].at > from /\ longer[i].against = against
             /\ i > 1 => longer[i].at - longer[i - 1].at >= longer[i].step
  <2>1. CASE i \in 1..n
    <3>1. longer[i] = list[i] /\ (i > 1 => i - 1 \in 1..n /\ longer[i - 1] = list[i - 1])
      BY <1>3, <2>1
    <3>2. Fits(i)
      <4> HIDE DEF Fits
      <4> QED
        BY ONLY <1>2, <2>1, Zenon
    <3>3. CASE i > 1
      <4>1. longer[i] = list[i] /\ longer[i - 1] = list[i - 1]
        BY <3>1, <3>3
      <4>2. longer[i].at - longer[i - 1].at >= longer[i].step
        BY <3>2, <3>3, <4>1, ZenonT(30)
      <4>3. longer[i].at > from /\ longer[i].against = against
        BY <3>2, <4>1, ZenonT(30)
      <4> QED
        BY <4>2, <4>3
    <3>4. CASE ~(i > 1)
      <4>1. longer[i].at > from /\ longer[i].against = against
        BY <3>1, <3>2, ZenonT(30)
      <4> QED
        BY <3>4, <4>1
    <3> QED
      BY <3>3, <3>4
  <2>2. CASE i = n + 1
    <3>1. longer[i] = point /\ (i > 1 => i - 1 = n /\ n > 0 /\ longer[i - 1] = list[n])
      BY <1>3, <2>2
    <3> QED
      BY <1>1, <1>2, <3>1
  <2> QED
    BY <2>1, <2>2
<1>5. n + 1 > 0 => longer[n + 1].at = place
  BY <1>1, <1>3
<1>6. CountedAs(longer, n + 1, against, from, place)
  BY <1>3, <1>4, <1>5 DEF CountedAs, Point
<1> QED
  BY <1>6 DEF longer, point

\* A step that changes nothing but the sensor, the count of misses, the number of
\* the sample or the retries of an arrival.
LEMMA WaitKeeps ==
  ASSUME IInv, SensorOK', pc # "mat_step",
         sampleNo' \in 1..2, missing' \in 0..(MAX_MISSING_SAMPLES - 1),
         pc # "done",
         UNCHANGED <<pc, after, endVars, travelVars, lineVars, tripVars, scans, matStep, resume>>
  PROVE  IInv'
<1>1. PlaceOK'
  BY DEF IInv, PlaceOK, endVars
<1>2. TravelOK'
  BY DEF IInv, TravelOK, travelVars, lineVars, tripVars
<1>3. NetOK'
  BY DEF IInv, NetOK, AtBaseline, Forwards, travelVars, lineVars, tripVars
<1>4. ChoiceOK'
  BY DEF IInv, ChoiceOK, lineVars, historyVars
<1>5. DeclineOK'
  BY DEF IInv, DeclineOK, AtPoint, Forwards, travelVars, lineVars, historyVars
<1>11. CountingOK'
  BY CountingStays DEF IInv, CountingOK, Forwards, lineVars, historyVars
<1>6. MatOK'
  BY DEF IInv, MatOK, tripVars
<1>7. ReturnAffordable'
  BY DEF IInv, ReturnAffordable, OnLine, Affordable, translation_cost, travelVars, lineVars, tripVars
<1>8. ReferenceOK' /\ ProgressIsReal'
  BY Zenon DEF IInv, ReferenceOK, ProgressIsReal, OnLine, NoWeaker, lineVars, historyVars
<1>9. BackWhereItWas'
  BY DEF IInv, BackWhereItWas, travelVars, lineVars
<1>10. TriesEveryDirection' /\ CollectsAtTheCentre'
  BY DEF IInv, PlaceOK, TriesEveryDirection, CollectsAtTheCentre, endVars
<1> QED
  BY <1>1, <1>2, <1>3, <1>4, <1>5, <1>6, <1>7, <1>8, <1>9, <1>10, <1>11, SensorUnmoved DEF IInv

\* A new line starts from where the robot is.
LEMMA StartKeeps ==
  ASSUME IInv, pc # "done", SensorOK',
         NEW side \in 0..SEARCH_DIRECTIONS, NEW length \in Nat, StartLine(side, length),
         UNCHANGED <<translation, tripVars, matStep, resume>>, scans' \in 0..MAT_MAX_SCANS,
         side > 0 => Fruitless = side - 1
  PROVE  IInv'
<1>1. /\ pc' = "measure" /\ after' = "baseline" /\ sampleNo' = 1 /\ missing' = 0
      /\ UNCHANGED endVars
      /\ direction' = side /\ trial' = length /\ fruitless' = (IF side = 0 THEN 0 ELSE Fruitless)
      /\ position' = 0 /\ net' = 0 /\ bestPosition' = 0
      /\ UNCHANGED <<step, best, baseline, progress, historyVars, segmentStart, profileCount>>
  BY DEF StartLine, Measure
<1>2. PlaceOK'
  BY <1>1, ConstantsAreNumbers DEF IInv, PlaceOK, Places, Purposes, endVars
<1>3. TravelOK' /\ NetOK'
  <2>1. direction' \in 0..SEARCH_DIRECTIONS /\ direction' = side /\ side \in Nat
    BY <1>1, ConstantsAreNumbers
  <2>2. fruitless' \in Nat /\ (direction' > 0 => fruitless' = direction' - 1)
    <3>1. CASE side = 0
      BY <1>1, <3>1
    <3>2. CASE side > 0
      BY <1>1, <2>1, <3>2
    <3> QED
      BY <2>1, <3>1, <3>2
  <2>3. pc' # "done" /\ translation' \in 0..(TRANSLATION + BLOCK_RESERVE + 1) /\ translation' <= TRANSLATION
        /\ UNCHANGED <<remaining, step>>
    BY <1>1, SMTT(30) DEF IInv, TravelOK, tripVars
  <2>4. net' \in Int /\ position' \in Nat /\ bestPosition' \in 0..position' /\ trial' \in Nat
    BY <1>1
  <2>5. remaining' \in Nat /\ step' \in {FORWARD_BLOCK, MAT_BLOCK}
    BY <2>3 DEF IInv, TravelOK
  <2>6. TravelOK'
    BY ONLY <2>1, <2>2, <2>3, <2>4, <2>5 DEF TravelOK
  <2> QED
    BY <1>1, <2>6 DEF NetOK, AtBaseline, Forwards
<1>4. ChoiceOK'
  BY <1>1 DEF IInv, ChoiceOK, historyVars
<1>5. DeclineOK' /\ CountingOK'
  BY <1>1 DEF IInv, DeclineOK, CountingOK, AtPoint, Forwards, historyVars
<1>6. MatOK'
  BY <1>1 DEF IInv, MatOK, tripVars
<1>7. ReturnAffordable' /\ ReferenceOK' /\ ProgressIsReal' /\ BackWhereItWas'
  BY <1>1 DEF ReturnAffordable, ReferenceOK, ProgressIsReal, BackWhereItWas, OnLine
<1>8. TriesEveryDirection' /\ CollectsAtTheCentre'
  BY <1>1 DEF IInv, PlaceOK, TriesEveryDirection, CollectsAtTheCentre, endVars
<1> QED
  BY <1>2, <1>3, <1>4, <1>5, <1>6, <1>7, <1>8 DEF IInv

\* A step to a place that is not on a line, nor at the start of one.
LEMMA OffLineKeeps ==
  ASSUME IInv, pc # "done", pc = "measure" => after # "baseline", SensorOK',
         \/ (pc' \in {"mat", "mat_turned", "mat_wait", "mat_step"} /\ after' = after)
         \/ (pc' = "measure" /\ after' = "initial"),
         sampleNo' \in 1..2, missing' \in 0..(MAX_MISSING_SAMPLES - 1), UNCHANGED endVars,
         translation' \in Nat, translation' <= TRANSLATION, net' \in Int,
         position' \in Nat, position' >= position, step' \in {FORWARD_BLOCK, MAT_BLOCK},
         UNCHANGED <<direction, trial, fruitless, best, bestPosition, baseline, progress, historyVars,
                     segmentStart, profileCount>>,
         UNCHANGED tripVars, scans' \in 0..MAT_MAX_SCANS,
         matStep' \in 0..(MAT_STEPS_PER_SCAN + 1),
         pc' = "mat_wait" => resume' \in {"mat", "mat_step"},
         pc' = "mat_step" \/ (pc' = "mat_wait" /\ resume' = "mat_step") =>
           matStep' \in 1..MAT_STEPS_PER_SCAN,
         pc' = "mat_step" => ~arrived'
  PROVE  IInv'
<1>1. PlaceOK'
  BY DEF IInv, PlaceOK, Places, Purposes, endVars
<1>2. TravelOK'
  BY ConstantsAreNumbers DEF IInv, TravelOK, tripVars
<1>3. NetOK' /\ ReturnAffordable' /\ ReferenceOK' /\ ProgressIsReal' /\ BackWhereItWas'
  BY DEF NetOK, AtBaseline, Forwards, ReturnAffordable, ReferenceOK, ProgressIsReal,
         BackWhereItWas, OnLine
<1>4. ChoiceOK'
  BY DEF IInv, ChoiceOK, historyVars
<1>5. DeclineOK' /\ CountingOK'
  BY DEF IInv, TravelOK, DeclineOK, CountingOK, AtPoint, Forwards, historyVars
<1>6. MatOK'
  BY DEF IInv, MatOK, tripVars
<1>7. TriesEveryDirection' /\ CollectsAtTheCentre'
  BY DEF IInv, PlaceOK, TriesEveryDirection, CollectsAtTheCentre, endVars
<1> QED
  BY <1>1, <1>2, <1>3, <1>4, <1>5, <1>6, <1>7 DEF IInv

-----------------------------------------------------------------------------
(* The actions                                                              *)

LEMMA RunStopsKeeps == ASSUME IInv, RunStops PROVE IInv'
<1>1. /\ pc # "done" /\ pc' = "done" /\ outcome' = "FATAL"
      /\ UNCHANGED <<after, sampleNo, missing, fault>>
      /\ UNCHANGED <<travelVars, lineVars, tripVars, matVars, colourVars>>
  BY DEF RunStops, End
<1>2. fault = "NONE" /\ SensorOK
  BY <1>1 DEF IInv, PlaceOK
<1>3. SensorOK'
  BY <1>1, <1>2, SensorUnmoved
<1>4. /\ translation' \in 0..(TRANSLATION + BLOCK_RESERVE + 1) /\ net' \in Int
      /\ position' \in Nat /\ position' >= position /\ step' \in {FORWARD_BLOCK, MAT_BLOCK}
      /\ remaining' \in Nat /\ fruitless' \in Nat
  BY <1>1 DEF IInv, TravelOK, travelVars, lineVars, tripVars
<1>5. probe' \in 0..DIP_MAX_PROBES /\ matStep' \in 0..(MAT_STEPS_PER_SCAN + 1) /\ scans' = scans
  BY <1>1 DEF IInv, MatOK, tripVars, matVars
<1> QED
  BY <1>1, <1>2, <1>3, <1>4, <1>5, EndKeeps DEF lineVars

\* A check that ends the approach where it stands.
LEMMA CheckEndKeeps ==
  ASSUME IInv, pc # "done", NEW result, check_payload(result), Ended(result),
         UNCHANGED <<travelVars, lineVars, remaining, scans>>,
         probe' \in 0..DIP_MAX_PROBES, matStep' \in 0..(MAT_STEPS_PER_SCAN + 1)
  PROVE  IInv'
<1>1. pc' = "done" /\ outcome' \in {result, "FATAL"} /\ fault' \in {fault, "PAYLOAD"}
      /\ UNCHANGED <<after, sampleNo, missing>>
  BY DEF Ended, End, FailWith
<1>2. fault' # "NO_DIRECTION" /\ SensorOK
  BY <1>1 DEF IInv, PlaceOK
<1>3. SensorOK' /\ (outcome' = "COMPLETE" /\ available' => arrived')
  BY <1>1, <1>2, PayloadCheckKeepsSensor
<1>4. /\ translation' \in 0..(TRANSLATION + BLOCK_RESERVE + 1) /\ net' \in Int
      /\ position' \in Nat /\ position' >= position /\ step' \in {FORWARD_BLOCK, MAT_BLOCK}
      /\ remaining' \in Nat /\ fruitless' \in Nat
  BY DEF IInv, TravelOK, travelVars, lineVars
<1> QED
  BY <1>1, <1>2, <1>3, <1>4, EndKeeps DEF lineVars

LEMMA FirstCheckKeeps == ASSUME IInv, FirstCheck PROVE IInv'
<1>1. pc = "start" /\ UNCHANGED <<travelVars, lineVars, tripVars, matVars>>
  BY DEF FirstCheck
<1>2. PICK result \in PayloadResults :
        check_payload(result) /\ Outcome(result, Measure("initial"))
  BY DEF FirstCheck
<1>3. SensorOK'
  BY <1>2, PayloadCheckKeepsSensor DEF IInv
<1>4. probe' \in 0..DIP_MAX_PROBES /\ matStep' \in 0..(MAT_STEPS_PER_SCAN + 1) /\ scans' = scans
      /\ scans \in 0..MAT_MAX_SCANS
  BY <1>1 DEF IInv, MatOK, tripVars, matVars
<1>5. CASE result # "NOT_CLOSE"
  BY <1>1, <1>2, <1>4, <1>5, CheckEndKeeps DEF Outcome, tripVars
<1>6. CASE result = "NOT_CLOSE"
  <2>1. pc' = "measure" /\ after' = "initial" /\ sampleNo' = 1 /\ missing' = 0 /\ UNCHANGED endVars
    BY <1>2, <1>6 DEF Outcome, Measure
  <2>2. sampleNo' \in 1..2 /\ missing' \in 0..(MAX_MISSING_SAMPLES - 1)
    BY <2>1, ConstantsAreNumbers
  <2>3. /\ translation' \in Nat /\ translation' <= TRANSLATION /\ net' \in Int
        /\ position' \in Nat /\ position' >= position /\ step' \in {FORWARD_BLOCK, MAT_BLOCK}
    BY <1>1, ConstantsAreNumbers DEF IInv, TravelOK, travelVars, lineVars
  <2> QED
    BY <1>1, <1>3, <1>4, <2>1, <2>2, <2>3, OffLineKeeps DEF lineVars
<1> QED
  BY <1>5, <1>6

LEMMA SampleMissingKeeps == ASSUME IInv, SampleMissing PROVE IInv'
<1>1. pc = "measure" /\ UNCHANGED <<travelVars, lineVars, tripVars, matVars>>
  BY DEF SampleMissing
<1>2. PICK result \in PayloadResults :
        /\ check_payload(result)
        /\ Outcome(result,
             IF Misses = MAX_MISSING_SAMPLES THEN End("FATAL")
             ELSE missing' = Misses /\ UNCHANGED <<pc, after, sampleNo, endVars>>)
  BY DEF SampleMissing
<1>3. SensorOK'
  BY <1>2, PayloadCheckKeepsSensor DEF IInv
<1>4. probe' \in 0..DIP_MAX_PROBES /\ matStep' \in 0..(MAT_STEPS_PER_SCAN + 1) /\ scans' = scans
  BY <1>1 DEF IInv, MatOK, tripVars, matVars
<1>5. CASE result # "NOT_CLOSE"
  BY <1>1, <1>2, <1>4, <1>5, CheckEndKeeps DEF Outcome, tripVars
<1>6. CASE result = "NOT_CLOSE" /\ Misses = MAX_MISSING_SAMPLES
  <2>1. /\ pc' = "done" /\ outcome' = "FATAL" /\ UNCHANGED <<after, sampleNo, missing, fault>>
    BY <1>2, <1>6 DEF Outcome, End
  <2>2. fault' = "NONE"
    BY <1>1, <2>1 DEF IInv, PlaceOK
  <2>3. /\ translation' \in 0..(TRANSLATION + BLOCK_RESERVE + 1) /\ net' \in Int
        /\ position' \in Nat /\ position' >= position /\ step' \in {FORWARD_BLOCK, MAT_BLOCK}
        /\ remaining' \in Nat /\ fruitless' \in Nat
    BY <1>1 DEF IInv, TravelOK, travelVars, lineVars, tripVars
  <2> QED
    BY <1>1, <1>3, <1>4, <2>1, <2>2, <2>3, EndKeeps DEF lineVars
<1>7. CASE result = "NOT_CLOSE" /\ Misses # MAX_MISSING_SAMPLES
  <2>1. missing' = missing + 1 /\ UNCHANGED <<pc, after, sampleNo, endVars>>
    BY <1>2, <1>7 DEF Outcome, Misses
  <2>2. sampleNo' \in 1..2 /\ missing' \in 0..(MAX_MISSING_SAMPLES - 1)
    BY <1>7, <2>1, ConstantsAreNumbers DEF IInv, PlaceOK, Misses
  <2> QED
    BY <1>1, <1>3, <2>1, <2>2, WaitKeeps DEF matVars
<1> QED
  BY <1>5, <1>6, <1>7

LEMMA FirstSampleKeeps == ASSUME IInv, FirstSample PROVE IInv'
<1>1. /\ pc = "measure" /\ sampleNo' = 2 /\ missing' = 0
      /\ UNCHANGED <<pc, after, endVars, travelVars, lineVars, tripVars, matVars, colourVars>>
  BY DEF FirstSample
<1>2. sampleNo' \in 1..2 /\ missing' \in 0..(MAX_MISSING_SAMPLES - 1)
  BY <1>1, ConstantsAreNumbers
<1>3. SensorOK'
  BY <1>1, SensorUnmoved DEF IInv
<1> QED
  BY <1>1, <1>2, <1>3, WaitKeeps DEF matVars

LEMMA InitialSampleKeeps == ASSUME IInv, InitialSample PROVE IInv'
<1>1. pc = "measure" /\ after = "initial" /\ UNCHANGED <<translation, tripVars, matVars, colourVars>>
  BY DEF InitialSample
<1>2. SensorOK'
  BY <1>1, SensorUnmoved DEF IInv
<1>3. scans' \in 0..MAT_MAX_SCANS /\ UNCHANGED <<matStep, resume>>
  BY <1>1 DEF IInv, MatOK, matVars
<1>4. CASE colour_on_mat /\ scans < MAT_MAX_SCANS
  <2>1. pc' = "mat" /\ UNCHANGED <<after, sampleNo, missing, endVars>> /\ UNCHANGED <<position, net, lineVars>>
    BY <1>4 DEF InitialSample, Go
  <2>2. /\ translation' \in Nat /\ translation' <= TRANSLATION /\ net' \in Int
        /\ position' \in Nat /\ position' >= position /\ step' \in {FORWARD_BLOCK, MAT_BLOCK}
    BY <1>1, <2>1, ConstantsAreNumbers DEF IInv, TravelOK, lineVars
  <2>3. sampleNo' \in 1..2 /\ missing' \in 0..(MAX_MISSING_SAMPLES - 1)
    BY <2>1 DEF IInv, PlaceOK
  <2>4. matStep' \in 0..(MAT_STEPS_PER_SCAN + 1)
    BY <1>3 DEF IInv, MatOK
  <2> QED
    BY <1>1, <1>2, <1>3, <2>1, <2>2, <2>3, <2>4, OffLineKeeps DEF lineVars
<1>5. CASE ~(colour_on_mat /\ scans < MAT_MAX_SCANS)
  <2>1. StartLine(0, 0)
    BY <1>5 DEF InitialSample
  <2>2. 0 \in 0..SEARCH_DIRECTIONS
    BY ConstantsAreNumbers
  <2> QED
    BY <1>1, <1>2, <1>3, <2>1, <2>2, StartKeeps
<1> QED
  BY <1>4, <1>5

\* The first point of a line is its best, its reference and its start.
LEMMA BaselineKeeps == ASSUME IInv, Baseline PROVE IInv'
<1>1. PICK pair \in Readings :
        /\ best' = pair /\ baseline' = pair /\ reference' = pair /\ references' = {pair}
        /\ recent' = [i \in 1..3 |-> IF i = 1 THEN pair ELSE NoPair]
  BY DEF Baseline
<1>2. /\ pc = "measure" /\ after = "baseline"
      /\ recentCount' = 1 /\ recentNext' = 2
      /\ dipActive' = FALSE /\ declines' = 0 /\ lastDecline' = 0 /\ counted' = <<>>
      /\ progress' = FALSE /\ bestPosition' = 0 /\ segmentStart' = 0 /\ profileCount' = 1
      /\ pc' = "follow" /\ UNCHANGED <<after, sampleNo, missing, endVars>>
      /\ UNCHANGED <<travelVars, direction, trial, fruitless, step, tripVars, matVars, colourVars>>
  BY DEF Baseline, Measured, Go
<1>3. pair \in PairSet /\ NoPair \in PairSet
  BY ReadingAssumed DEF ReadingAssumption, NoPair, Pair, Sample, PairSet, SampleSet, RSSI_MISSING_CODE
<1>4. position = 0 /\ net = 0 /\ translation \in Nat /\ translation <= TRANSLATION
  BY <1>2, ConstantsAreNumbers DEF IInv, NetOK, AtBaseline, TravelOK
<1>5. PlaceOK'
  BY <1>2 DEF IInv, PlaceOK, Places, endVars
<1>6. TravelOK'
  BY <1>2 DEF IInv, TravelOK, travelVars, tripVars
<1>7. NetOK'
  BY <1>2, <1>4 DEF NetOK, AtBaseline, Forwards, travelVars
<1>8. ChoiceOK'
  <2>1. recent' \in [1..3 -> PairSet]
    BY <1>1, <1>3
  <2>2. recentNext' \in 1..3 /\ recentCount' \in 0..3
    BY <1>2
  <2>3. progress' \in BOOLEAN /\ dipActive' \in BOOLEAN
    BY <1>2
  <2>4. best' \in PairSet /\ baseline' \in PairSet /\ reference' \in PairSet
    BY <1>1, <1>3
  <2>5. pc' = "follow"
    BY <1>2
  <2> QED
    BY <2>1, <2>2, <2>3, <2>4, <2>5 DEF ChoiceOK
<1>9. DeclineOK'
  BY <1>2, <1>4, ConstantsAreNumbers DEF DeclineOK, AtPoint, Forwards, travelVars
<1>15. CountingOK'
  BY <1>2, NoneCounted DEF CountingOK, Counting
<1>10. MatOK'
  BY <1>2 DEF IInv, MatOK, tripVars, matVars
<1>11. SensorOK'
  BY <1>2, SensorUnmoved DEF IInv
<1>12. ReturnAffordable'
  <2>1. position' = 0 /\ bestPosition' = 0 /\ translation' = translation /\ pc' = "follow"
    BY <1>2, <1>4 DEF travelVars
  <2>2. translation_cost(0) = 0
    BY CostCovers
  <2>3. translation <= TRANSLATION /\ translation_cost(0) <= TRANSLATION - translation
    BY <1>4, <2>2, ConstantsAreNumbers
  <2> QED
    BY <2>1, <2>3 DEF ReturnAffordable, Affordable, translation_cost
<1>13. ReferenceOK' /\ ProgressIsReal'
  BY <1>1, <1>2, <1>3 DEF ReferenceOK, NoWeaker, ProgressIsReal
<1>14. BackWhereItWas' /\ TriesEveryDirection' /\ CollectsAtTheCentre'
  BY <1>2 DEF IInv, PlaceOK, BackWhereItWas, TriesEveryDirection, CollectsAtTheCentre, endVars
<1> QED
  BY <1>5, <1>6, <1>7, <1>8, <1>9, <1>10, <1>11, <1>12, <1>13, <1>14, <1>15 DEF IInv

\* A search fails only where every side was tried without a gain.
LEMMA NextDirectionKeeps ==
  ASSUME IInv, pc # "done", ~progress, NextDirection,
         UNCHANGED <<translation, tripVars, matVars, colourVars>>
  PROVE  IInv'
<1>1. SensorOK'
  BY SensorUnmoved DEF IInv
<1>2. /\ scans' \in 0..MAT_MAX_SCANS /\ scans' = scans /\ UNCHANGED <<matStep, resume>>
      /\ probe' \in 0..DIP_MAX_PROBES /\ matStep' \in 0..(MAT_STEPS_PER_SCAN + 1)
  BY DEF IInv, MatOK, matVars, tripVars
<1>3. /\ direction \in 0..SEARCH_DIRECTIONS /\ fruitless \in Nat /\ Fruitless = direction
  BY ConstantsAreNumbers DEF IInv, TravelOK, Fruitless
<1>4. CASE direction < SEARCH_DIRECTIONS
  <2>1. direction + 1 \in 0..SEARCH_DIRECTIONS /\ DIRECTION_TEST \in Nat
    BY <1>3, <1>4, ConstantsAreNumbers
  <2>3. direction + 1 > 0 => Fruitless = (direction + 1) - 1
    BY <1>3
  <2>2. StartLine(direction + 1, DIRECTION_TEST)
    BY <1>4 DEF NextDirection
  <2> QED
    BY <1>1, <1>2, <2>1, <2>2, <2>3, StartKeeps
<1>5. CASE ~(direction < SEARCH_DIRECTIONS)
  <2>1. direction = SEARCH_DIRECTIONS
    BY <1>3, <1>5, ConstantsAreNumbers
  <2>2. /\ pc' = "done" /\ outcome' = "FATAL" /\ UNCHANGED <<after, sampleNo, missing>>
        /\ fruitless' = SEARCH_DIRECTIONS
        /\ UNCHANGED <<position, net, direction, trial, bestPosition, step, best, baseline,
                       progress, historyVars, segmentStart, profileCount>>
    BY <1>3, <1>5, <2>1 DEF NextDirection, FailWith
  <2>3. /\ translation' \in 0..(TRANSLATION + BLOCK_RESERVE + 1) /\ net' \in Int
        /\ position' \in Nat /\ position' >= position /\ step' \in {FORWARD_BLOCK, MAT_BLOCK}
        /\ remaining' \in Nat /\ fruitless' \in Nat
    BY <2>2, ConstantsAreNumbers DEF IInv, TravelOK, tripVars
  <2> QED
    BY <1>1, <1>2, <2>1, <2>2, <2>3, EndKeeps
<1> QED
  BY <1>4, <1>5

LEMMA ReturnedKeeps == ASSUME IInv, Returned PROVE IInv'
<1>1. UNCHANGED <<translation, tripVars, matVars, colourVars>> /\ pc = "measure"
  BY DEF Returned, Measured
<1>2. CASE after = "returned" /\ (direction = 0 \/ progress)
  <2>1. StartLine(1, DIRECTION_TEST)
    BY <1>2 DEF Returned, Measured, AfterDecline
  <2>2. SensorOK' /\ scans' \in 0..MAT_MAX_SCANS /\ UNCHANGED <<matStep, resume>>
    BY <1>1, SensorUnmoved DEF IInv, MatOK, matVars
  <2>4. 1 > 0 => Fruitless = 1 - 1
    BY <1>2 DEF Fruitless
  <2>3. 1 \in 0..SEARCH_DIRECTIONS /\ DIRECTION_TEST \in Nat
    BY ConstantsAreNumbers
  <2> QED
    BY <1>1, <2>1, <2>2, <2>3, <2>4, StartKeeps
<1>3. CASE after = "returned" /\ ~(direction = 0 \/ progress)
  <2>1. NextDirection
    BY <1>3 DEF Returned, Measured, AfterDecline
  <2> QED
    BY <1>1, <1>3, <2>1, NextDirectionKeeps
<1>4. CASE after = "trial_returned"
  <2>1. NextDirection
    BY <1>4 DEF Returned, Measured
  <2>2. ~progress
    BY <1>1, <1>4 DEF IInv, ChoiceOK
  <2> QED
    BY <1>1, <2>1, <2>2, NextDirectionKeeps
<1> QED
  BY <1>2, <1>3, <1>4 DEF Returned, Measured

\* A block that was refused ends the approach where it stands.
LEMMA RefusedKeeps ==
  ASSUME IInv, pc # "done", NEW d, NEW reserved, Refused(d, reserved)
  PROVE  IInv'
<1>1. /\ pc' = "done" /\ outcome' = "FATAL" /\ fault' = "TRANSLATION_LIMIT"
      /\ UNCHANGED <<after, sampleNo, missing>>
      /\ UNCHANGED <<travelVars, lineVars, tripVars, matVars, colourVars>>
  BY DEF Refused, FailWith
<1>2. SensorOK'
  BY <1>1, SensorUnmoved DEF IInv
<1>3. /\ translation' \in 0..(TRANSLATION + BLOCK_RESERVE + 1) /\ net' \in Int
      /\ position' \in Nat /\ position' >= position /\ step' \in {FORWARD_BLOCK, MAT_BLOCK}
      /\ remaining' \in Nat /\ fruitless' \in Nat
  BY <1>1 DEF IInv, TravelOK, travelVars, lineVars, tripVars
<1>4. probe' \in 0..DIP_MAX_PROBES /\ matStep' \in 0..(MAT_STEPS_PER_SCAN + 1) /\ scans' = scans
  BY <1>1 DEF IInv, MatOK, tripVars, matVars
<1> QED
  BY <1>1, <1>2, <1>3, <1>4, EndKeeps DEF lineVars

\* A block that went too far was reserved for all but its last step.
LEMMA RunawayKeeps ==
  ASSUME IInv, pc # "done", NEW forwards \in BOOLEAN, NEW d \in Nat, d > 0,
         NEW reserved \in Nat, Runaway(forwards, d, reserved)
  PROVE  IInv'
<1>1. PICK actual \in {0, d + BLOCK_RESERVE + 1} : Drive(forwards, actual)
  BY DEF Runaway
<1>2. /\ pc' = "done" /\ outcome' = "FATAL" /\ fault' = "TRANSLATION_LIMIT"
      /\ UNCHANGED <<after, sampleNo, missing>>
      /\ UNCHANGED <<position, lineVars, tripVars, matVars, colourVars>>
      /\ translation' = translation + actual
      /\ net' = IF forwards THEN net + actual ELSE net - actual
  BY <1>1 DEF Runaway, FailWith, Drive
<1>3. SensorOK'
  BY <1>2, SensorUnmoved DEF IInv
<1>4. translation' \in 0..(TRANSLATION + BLOCK_RESERVE + 1)
  <2>1. /\ translation <= TRANSLATION
        /\ translation_cost(d) + reserved <= TRANSLATION - translation
    BY DEF Runaway, Affordable
  <2>2. translation \in Nat /\ translation_cost(d) \in Nat /\ translation_cost(d) >= d + BLOCK_RESERVE
    BY CostCovers, ConstantsAreNumbers DEF IInv, TravelOK
  <2> QED
    BY <1>1, <1>2, <2>1, <2>2, ConstantsAreNumbers
<1>5. /\ net' \in Int /\ position' \in Nat /\ position' >= position
      /\ step' \in {FORWARD_BLOCK, MAT_BLOCK} /\ remaining' \in Nat /\ fruitless' \in Nat
  BY <1>1, <1>2, ConstantsAreNumbers DEF IInv, TravelOK, lineVars, tripVars
<1>6. probe' \in 0..DIP_MAX_PROBES /\ matStep' \in 0..(MAT_STEPS_PER_SCAN + 1) /\ scans' = scans
  BY <1>2 DEF IInv, MatOK, tripVars, matVars
<1> QED
  BY <1>2, <1>3, <1>4, <1>5, <1>6, EndKeeps DEF lineVars

\* What is reserved for a block ahead and the way back from its end covers the way
\* back from wherever in it the motors stop.
LEMMA ReserveCovers ==
  ASSUME NEW d \in Nat, d > 0, NEW actual \in Nat, actual <= d + BLOCK_RESERVE,
         translation \in Nat, position \in Nat, bestPosition \in 0..position,
         Affordable(translation_cost(d)
                    + translation_cost(position + d + BLOCK_RESERVE - bestPosition))
  PROVE  /\ translation + actual <= TRANSLATION
         /\ translation_cost(position + actual - bestPosition) <= TRANSLATION - (translation + actual)
<1> DEFINE way == position + actual - bestPosition
           reserve == position + d + BLOCK_RESERVE - bestPosition
<1>1. way \in Nat /\ reserve \in Nat /\ way <= reserve
  BY ConstantsAreNumbers
<1> HIDE DEF way, reserve
<1>2. translation_cost(way) <= translation_cost(reserve)
      /\ translation_cost(way) \in Nat /\ translation_cost(reserve) \in Nat
  BY <1>1, CostCovers, CostGrows
<1>3. translation_cost(d) \in Nat /\ translation_cost(d) >= d + BLOCK_RESERVE
  BY CostCovers
<1>4. translation_cost(d) + translation_cost(reserve) <= TRANSLATION - translation
  BY DEF Affordable, reserve
<1>5. /\ translation + actual <= TRANSLATION
      /\ translation_cost(way) <= TRANSLATION - (translation + actual)
  BY <1>2, <1>3, <1>4, ConstantsAreNumbers
<1> QED
  BY <1>5 DEF way

\* A block ahead on a line, or none, and then a measurement.
LEMMA AheadKeeps ==
  ASSUME IInv, pc \in {"follow", "recheck", "probe"}, SensorOK', NEW actual \in Nat,
         pc' = "measure", after' = "dip" \/ (after' = "follow" /\ pc = "follow" /\ actual > 0),
         sampleNo' = 1, missing' = 0, UNCHANGED endVars,
         translation' = translation + actual, net' = net + actual, position' = position + actual,
         translation' <= TRANSLATION,
         translation_cost(position' - bestPosition) <= TRANSLATION - translation',
         step' \in {FORWARD_BLOCK, MAT_BLOCK},
         UNCHANGED <<direction, trial, fruitless, best, bestPosition, baseline, progress, historyVars,
                     segmentStart, profileCount>>,
         UNCHANGED remaining, probe' \in 0..DIP_MAX_PROBES, UNCHANGED <<scans, matStep, resume>>
  PROVE  IInv'
<1>1. PlaceOK'
  BY ConstantsAreNumbers DEF IInv, PlaceOK, Places, Purposes, endVars
<1>2. TravelOK'
  BY ConstantsAreNumbers DEF IInv, TravelOK
<1>3. NetOK'
  BY DEF IInv, NetOK, AtBaseline, Forwards
<1>4. ChoiceOK'
  BY DEF IInv, ChoiceOK, historyVars
<1>5. DeclineOK'
  BY DEF IInv, TravelOK, DeclineOK, AtPoint, Forwards, historyVars
<1>10. CountingOK'
  <2>1. Counting'
    BY CountingStays DEF IInv, CountingOK, Forwards
  <2> QED
    BY <2>1 DEF CountingOK
<1>6. MatOK'
  BY DEF IInv, MatOK
<1>7. ReturnAffordable'
  BY DEF ReturnAffordable, Affordable, translation_cost
<1>8. ReferenceOK' /\ ProgressIsReal'
  BY Zenon DEF IInv, ReferenceOK, ProgressIsReal, OnLine, NoWeaker, historyVars
<1>9. BackWhereItWas' /\ TriesEveryDirection' /\ CollectsAtTheCentre'
  BY DEF IInv, PlaceOK, BackWhereItWas, TriesEveryDirection, CollectsAtTheCentre, endVars
<1> QED
  BY <1>1, <1>2, <1>3, <1>4, <1>5, <1>6, <1>7, <1>8, <1>9, <1>10 DEF IInv

\* A check after a block that ends the approach.
LEMMA MovedEndKeeps ==
  ASSUME IInv, pc # "done", NEW result, check_payload(result), Ended(result),
         NEW actual \in Nat, translation' = translation + actual, translation' <= TRANSLATION,
         net' \in Int, position' \in Nat, position' >= position,
         step' \in {FORWARD_BLOCK, MAT_BLOCK},
         UNCHANGED <<direction, trial, fruitless, best, bestPosition, baseline, progress, historyVars,
                     segmentStart, profileCount, scans>>,
         remaining' \in Nat, probe' \in 0..DIP_MAX_PROBES,
         matStep' \in 0..(MAT_STEPS_PER_SCAN + 1)
  PROVE  IInv'
<1>1. pc' = "done" /\ outcome' \in {result, "FATAL"} /\ fault' \in {fault, "PAYLOAD"}
      /\ UNCHANGED <<after, sampleNo, missing>>
  BY DEF Ended, End, FailWith
<1>2. fault' # "NO_DIRECTION" /\ SensorOK
  BY <1>1 DEF IInv, PlaceOK
<1>3. SensorOK' /\ (outcome' = "COMPLETE" /\ available' => arrived')
  BY <1>1, <1>2, PayloadCheckKeepsSensor
<1>4. translation' \in 0..(TRANSLATION + BLOCK_RESERVE + 1) /\ fruitless' \in Nat
  BY ConstantsAreNumbers DEF IInv, TravelOK
<1> QED
  BY <1>1, <1>2, <1>3, <1>4, EndKeeps

LEMMA RecheckKeeps == ASSUME IInv, Recheck PROVE IInv'
<1>1. /\ pc = "recheck" /\ probe' = 0
      /\ UNCHANGED <<travelVars, lineVars, remaining, matVars>>
  BY DEF Recheck
<1>2. PICK result \in PayloadResults :
        check_payload(result) /\ Outcome(result, Measure("dip"))
  BY DEF Recheck
<1>3. SensorOK'
  BY <1>2, PayloadCheckKeepsSensor DEF IInv
<1>4. probe' \in 0..DIP_MAX_PROBES /\ matStep' \in 0..(MAT_STEPS_PER_SCAN + 1)
      /\ UNCHANGED <<scans, matStep, resume>>
  BY <1>1, ConstantsAreNumbers DEF IInv, MatOK, matVars
<1>5. CASE result # "NOT_CLOSE"
  BY <1>1, <1>2, <1>4, <1>5, CheckEndKeeps DEF Outcome
<1>6. CASE result = "NOT_CLOSE"
  <2>1. pc' = "measure" /\ after' = "dip" /\ sampleNo' = 1 /\ missing' = 0 /\ UNCHANGED endVars
    BY <1>2, <1>6 DEF Outcome, Measure
  <2>2. /\ translation' = translation + 0 /\ net' = net + 0 /\ position' = position + 0
        /\ translation' <= TRANSLATION /\ step' \in {FORWARD_BLOCK, MAT_BLOCK}
    BY <1>1, ConstantsAreNumbers DEF IInv, TravelOK, travelVars, lineVars
  <2>3. translation_cost(position' - bestPosition) <= TRANSLATION - translation'
    BY <1>1 DEF IInv, ReturnAffordable, OnLine, Affordable, travelVars
  <2> QED
    BY <1>1, <1>3, <1>4, <2>1, <2>2, <2>3, AheadKeeps DEF lineVars
<1> QED
  BY <1>5, <1>6

\* The next block of a line, and a trial's last, go somewhere.
LEMMA FollowBlockGoes ==
  ASSUME TravelOK
  PROVE  FollowBlock \in Nat /\ FollowBlock > 0 /\ forward_block \in {FORWARD_BLOCK, MAT_BLOCK}
<1>1. forward_block \in {FORWARD_BLOCK, MAT_BLOCK} /\ forward_block \in Nat /\ forward_block > 0
  BY ConstantsAreNumbers DEF forward_block
<1>2. position \in Nat /\ trial \in Nat
  BY DEF TravelOK
<1> QED
  BY <1>1, <1>2 DEF FollowBlock, Smaller

LEMMA FollowMoveKeeps == ASSUME IInv, FollowMove PROVE IInv'
<1>1. pc = "follow"
  BY DEF FollowMove
<1>2. /\ FollowBlock \in Nat /\ FollowBlock > 0 /\ forward_block \in {FORWARD_BLOCK, MAT_BLOCK}
      /\ FollowReserve(FollowBlock) =
           translation_cost(position + FollowBlock + BLOCK_RESERVE - bestPosition)
  BY FollowBlockGoes DEF IInv, FollowReserve
<1>3. /\ translation \in Nat /\ position \in Nat /\ bestPosition \in 0..position /\ net \in Int
      /\ remaining \in Nat
  BY ConstantsAreNumbers DEF IInv, TravelOK
<1>4. FollowReserve(FollowBlock) \in Nat
  <2>1. position + FollowBlock + BLOCK_RESERVE - bestPosition \in Nat
    BY <1>2, <1>3, ConstantsAreNumbers
  <2> QED
    BY <1>2, <2>1, CostCovers
<1>5. CASE Refused(FollowBlock, FollowReserve(FollowBlock))
  BY <1>1, <1>5, RefusedKeeps
<1>6. CASE Runaway(TRUE, FollowBlock, FollowReserve(FollowBlock))
  BY <1>1, <1>2, <1>4, <1>6, RunawayKeeps
<1>7. CASE /\ Affordable(translation_cost(FollowBlock) + FollowReserve(FollowBlock))
           /\ step' = forward_block
           /\ \E actual \in 1..(FollowBlock + BLOCK_RESERVE), result \in PayloadResults :
                /\ Expected(FollowBlock, actual) /\ Drive(TRUE, actual)
                /\ position' = position + actual
                /\ check_payload(result)
                /\ Outcome(result,
                     IF available' /\ onMat' /\ scans < MAT_MAX_SCANS THEN Go("mat") ELSE Measure("follow"))
           /\ UNCHANGED <<direction, trial, fruitless, best, bestPosition, baseline, progress, historyVars,
                          segmentStart, profileCount, tripVars, matVars>>
  <2>1. PICK actual \in 1..(FollowBlock + BLOCK_RESERVE), result \in PayloadResults :
          /\ Expected(FollowBlock, actual) /\ Drive(TRUE, actual)
          /\ position' = position + actual
          /\ check_payload(result)
          /\ Outcome(result,
               IF available' /\ onMat' /\ scans < MAT_MAX_SCANS THEN Go("mat") ELSE Measure("follow"))
    BY <1>7
  <2>2. /\ actual \in Nat /\ actual > 0 /\ actual <= FollowBlock + BLOCK_RESERVE
        /\ translation' = translation + actual /\ net' = net + actual /\ position' = position + actual
        /\ net' \in Int /\ position' \in Nat /\ position' >= position /\ translation' \in Nat
    BY <1>2, <1>3, <2>1, ConstantsAreNumbers DEF Drive
  <2>3. /\ translation' <= TRANSLATION
        /\ translation_cost(position' - bestPosition) <= TRANSLATION - translation'
    BY <1>2, <1>3, <1>7, <2>2, ReserveCovers, SMTT(30)
  <2>4. /\ UNCHANGED <<direction, trial, fruitless, best, bestPosition, baseline, progress, historyVars,
                       segmentStart, profileCount, tripVars, matVars>>
        /\ UNCHANGED <<remaining, probe, scans, matStep, resume>>
        /\ step' \in {FORWARD_BLOCK, MAT_BLOCK}
    BY <1>2, <1>7 DEF tripVars, matVars
  <2>5. /\ probe' \in 0..DIP_MAX_PROBES /\ matStep' \in 0..(MAT_STEPS_PER_SCAN + 1)
        /\ scans' \in 0..MAT_MAX_SCANS /\ remaining' \in Nat
    BY <1>3, <2>4 DEF IInv, MatOK
  <2>6. SensorOK'
    BY <2>1, PayloadCheckKeepsSensor DEF IInv
  <2>7. CASE result # "NOT_CLOSE"
    <3>1. Ended(result)
      BY <2>1, <2>7 DEF Outcome
    <3> QED
      BY <1>1, <2>1, <2>2, <2>3, <2>4, <2>5, <3>1, MovedEndKeeps
  <2>8. CASE result = "NOT_CLOSE" /\ available' /\ onMat' /\ scans < MAT_MAX_SCANS
    <3>1. pc' = "mat" /\ UNCHANGED <<after, sampleNo, missing, endVars>>
      BY <2>1, <2>8 DEF Outcome, Go
    <3>2. sampleNo' \in 1..2 /\ missing' \in 0..(MAX_MISSING_SAMPLES - 1)
      BY <3>1 DEF IInv, PlaceOK
    <3> QED
      <4>1. pc # "done" /\ (pc = "measure" => after # "baseline") /\ UNCHANGED tripVars
        BY <1>1, <2>4
      <4> QED
        BY <2>2, <2>3, <2>4, <2>5, <2>6, <3>1, <3>2, <4>1, OffLineKeeps
  <2>9. CASE result = "NOT_CLOSE" /\ ~(available' /\ onMat' /\ scans < MAT_MAX_SCANS)
    <3>1. Measure("follow")
      BY <2>1, <2>9 DEF Outcome
    <3>2. pc' = "measure" /\ after' = "follow" /\ sampleNo' = 1 /\ missing' = 0 /\ UNCHANGED endVars
      BY <3>1 DEF Measure
    <3> QED
      BY <1>1, <2>2, <2>3, <2>4, <2>5, <2>6, <3>2, AheadKeeps
  <2> QED
    BY <2>7, <2>8, <2>9
<1> QED
  BY <1>5, <1>6, <1>7 DEF FollowMove

LEMMA ProbeKeeps == ASSUME IInv, Probe PROVE IInv'
<1>1. pc = "probe"
  BY DEF Probe
<1>2. DIP_PROBE \in Nat /\ DIP_PROBE > 0
  BY ConstantsAreNumbers
<1>3. /\ translation \in Nat /\ position \in Nat /\ bestPosition \in 0..position /\ net \in Int
      /\ remaining \in Nat
  BY ConstantsAreNumbers DEF IInv, TravelOK
<1>4. ProbeReserve \in Nat
  <2>1. position + DIP_PROBE + BLOCK_RESERVE - bestPosition \in Nat
    BY <1>2, <1>3, ConstantsAreNumbers
  <2> QED
    BY <2>1, CostCovers DEF ProbeReserve
<1>5. CASE Refused(DIP_PROBE, ProbeReserve)
  BY <1>1, <1>5, RefusedKeeps
<1>6. CASE Runaway(TRUE, DIP_PROBE, ProbeReserve)
  BY <1>1, <1>2, <1>4, <1>6, RunawayKeeps
<1>7. CASE /\ Affordable(translation_cost(DIP_PROBE) + ProbeReserve)
           /\ probe' = probe + 1
           /\ \E actual \in 1..(DIP_PROBE + BLOCK_RESERVE), result \in PayloadResults :
                /\ Expected(DIP_PROBE, actual) /\ Drive(TRUE, actual)
                /\ position' = position + actual
                /\ check_payload(result) /\ Outcome(result, Measure("dip"))
           /\ UNCHANGED <<lineVars, remaining, matVars>>
  <2>1. PICK actual \in 1..(DIP_PROBE + BLOCK_RESERVE), result \in PayloadResults :
          /\ Expected(DIP_PROBE, actual) /\ Drive(TRUE, actual)
          /\ position' = position + actual
          /\ check_payload(result) /\ Outcome(result, Measure("dip"))
    BY <1>7
  <2>2. /\ actual \in Nat /\ actual > 0 /\ actual <= DIP_PROBE + BLOCK_RESERVE
        /\ translation' = translation + actual /\ net' = net + actual /\ position' = position + actual
        /\ net' \in Int /\ position' \in Nat /\ position' >= position
    BY <1>2, <1>3, <2>1, ConstantsAreNumbers DEF Drive
  <2>3. /\ translation' <= TRANSLATION
        /\ translation_cost(position' - bestPosition) <= TRANSLATION - translation'
    <3>1. Affordable(translation_cost(DIP_PROBE)
                     + translation_cost(position + DIP_PROBE + BLOCK_RESERVE - bestPosition))
      BY <1>7 DEF ProbeReserve
    <3>2. /\ translation + actual <= TRANSLATION
          /\ translation_cost(position + actual - bestPosition) <= TRANSLATION - (translation + actual)
      BY <1>2, <1>3, <2>2, <3>1, ReserveCovers
    <3> QED
      BY <1>3, <2>2, <3>2
  <2>4. /\ UNCHANGED <<direction, trial, fruitless, best, bestPosition, baseline, progress, historyVars,
                       segmentStart, profileCount>>
        /\ UNCHANGED <<remaining, scans, matStep, resume>> /\ step' \in {FORWARD_BLOCK, MAT_BLOCK}
    BY <1>7 DEF IInv, TravelOK, lineVars, matVars
  <2>5. /\ probe' \in 0..DIP_MAX_PROBES /\ matStep' \in 0..(MAT_STEPS_PER_SCAN + 1)
        /\ remaining' \in Nat /\ fruitless' \in Nat
    BY <1>1, <1>3, <1>7, <2>4, ConstantsAreNumbers DEF IInv, MatOK, TravelOK
  <2>6. SensorOK'
    BY <2>1, PayloadCheckKeepsSensor DEF IInv
  <2>7. CASE result # "NOT_CLOSE"
    <3>1. Ended(result)
      BY <2>1, <2>7 DEF Outcome
    <3> QED
      BY <1>1, <2>1, <2>2, <2>3, <2>4, <2>5, <3>1, MovedEndKeeps
  <2>8. CASE result = "NOT_CLOSE"
    <3>1. pc' = "measure" /\ after' = "dip" /\ sampleNo' = 1 /\ missing' = 0 /\ UNCHANGED endVars
      BY <2>1, <2>8 DEF Outcome, Measure
    <3> QED
      BY <1>1, <2>2, <2>3, <2>4, <2>5, <2>6, <3>1, AheadKeeps
  <2> QED
    BY <2>7, <2>8
<1> QED
  BY <1>5, <1>6, <1>7 DEF Probe

\* A block backwards leaves the motors where the rest of the return begins; the
\* last one leaves them at its end, an overrun past it at most.
LEMMA ReturnDriveKeeps ==
  ASSUME IInv, pc = "return", SensorOK', NEW actual \in Nat, actual > 0,
         actual <= ReturnBlock + BLOCK_RESERVE,
         translation' = translation + actual, translation' <= TRANSLATION, net' = net - actual,
         remaining' = Left(actual),
         remaining' = 0 => Measure(after), remaining' # 0 => UNCHANGED <<placeVars, endVars>>,
         UNCHANGED <<position, lineVars, probe, matVars>>
  PROVE  IInv'
<1>1. /\ translation \in Nat /\ position \in Nat /\ bestPosition \in 0..position /\ net \in Int
      /\ remaining \in Nat /\ after \in {"returned", "trial_returned"}
      /\ net = remaining + (IF after = "returned" THEN bestPosition ELSE 0)
  BY ConstantsAreNumbers DEF IInv, TravelOK, PlaceOK, NetOK, Forwards
<1>2. /\ after' = after /\ UNCHANGED endVars
      /\ pc' = IF remaining' = 0 THEN "measure" ELSE "return"
      /\ remaining' = 0 => sampleNo' = 1 /\ missing' = 0
      /\ remaining' # 0 => sampleNo' = sampleNo /\ missing' = missing
  BY DEF Measure, placeVars
<1>3. remaining' \in Nat
  BY <1>1 DEF Left
<1>4. PlaceOK'
  BY <1>1, <1>2, ConstantsAreNumbers DEF IInv, PlaceOK, Places, Purposes, endVars
<1>5. TravelOK'
  BY <1>1, <1>3, ConstantsAreNumbers DEF IInv, TravelOK, lineVars
<1>6. NetOK'
  <2>1. pc' = "return" => /\ remaining' > 0
                          /\ net' = remaining' + (IF after = "returned" THEN bestPosition ELSE 0)
    BY <1>1, <1>2, <1>3 DEF Left
  <2>2. bestPosition' = bestPosition
    BY DEF lineVars
  <2> QED
    BY <1>1, <1>2, <2>1, <2>2 DEF NetOK, AtBaseline, Forwards
<1>7. ChoiceOK'
  BY <1>2 DEF IInv, ChoiceOK, lineVars, historyVars
<1>8. DeclineOK' /\ CountingOK'
  BY <1>1, <1>2 DEF IInv, DeclineOK, CountingOK, AtPoint, Forwards, lineVars, historyVars
<1>9. MatOK'
  BY <1>2 DEF IInv, MatOK, matVars
<1>10. ReturnAffordable'
  <2>1. CASE remaining' = 0
    BY <1>1, <1>2, <2>1 DEF ReturnAffordable, OnLine
  <2>2. CASE remaining' # 0
    <3>1. actual < remaining /\ remaining' = remaining - actual
      BY <1>1, <2>2 DEF Left
    <3>2. actual + translation_cost(remaining - actual) <= translation_cost(remaining)
      BY <1>1, <3>1, CostOfTheRest
    <3>3. translation_cost(remaining) <= TRANSLATION - translation
      BY DEF IInv, ReturnAffordable, OnLine, Affordable
    <3>4. translation_cost(remaining) \in Nat /\ translation_cost(remaining - actual) \in Nat
      BY <1>1, <3>1, CostCovers
    <3>5. translation_cost(remaining') <= TRANSLATION - translation'
      BY <1>1, <3>1, <3>2, <3>3, <3>4, ConstantsAreNumbers
    <3> QED
      BY <1>2, <2>2, <3>5 DEF ReturnAffordable, Affordable, translation_cost
  <2> QED
    BY <2>1, <2>2
<1>11. ReferenceOK' /\ ProgressIsReal'
  <2>1. OnLine
    BY DEF OnLine
  <2> QED
    BY <2>1, Zenon DEF IInv, ReferenceOK, NoWeaker, ProgressIsReal, lineVars, historyVars
<1>12. BackWhereItWas'
  <2>1. ASSUME remaining' = 0
        PROVE  actual >= remaining /\ actual <= remaining + BLOCK_RESERVE
    <3>1. actual >= remaining
      BY <1>1, <2>1 DEF Left
    <3>2. ReturnBlock <= remaining
      BY <1>1, ConstantsAreNumbers DEF ReturnBlock, Smaller
    <3>3. ReturnBlock \in Nat
      BY <1>1, ConstantsAreNumbers DEF ReturnBlock, Smaller
    <3> QED
      BY <1>1, <3>1, <3>2, <3>3, ConstantsAreNumbers
  <2>2. ASSUME remaining' = 0
        PROVE  /\ after = "returned" => net' \in (bestPosition - BLOCK_RESERVE)..bestPosition
               /\ after = "trial_returned" => net' \in (-BLOCK_RESERVE)..0
    BY <1>1, <2>1, <2>2, ConstantsAreNumbers
  <2> QED
    BY <1>2, <2>2 DEF BackWhereItWas, lineVars
<1>13. TriesEveryDirection' /\ CollectsAtTheCentre'
  BY <1>2 DEF IInv, PlaceOK, TriesEveryDirection, CollectsAtTheCentre, endVars
<1> QED
  BY <1>4, <1>5, <1>6, <1>7, <1>8, <1>9, <1>10, <1>11, <1>12, <1>13 DEF IInv

LEMMA ReturnKeeps == ASSUME IInv, Return PROVE IInv'
<1>1. pc = "return"
  BY DEF Return
<1>2. /\ remaining \in Nat /\ translation \in Nat /\ position \in Nat /\ net \in Int
      /\ ReturnBlock \in Nat /\ ReturnBlock <= remaining /\ ReturnBlock > 0
  BY <1>1, ConstantsAreNumbers DEF IInv, TravelOK, NetOK, ReturnBlock, Smaller
<1>3. translation_cost(remaining - ReturnBlock) \in Nat
  BY <1>2, CostCovers
<1>4. CASE Refused(ReturnBlock, translation_cost(remaining - ReturnBlock))
  BY <1>1, <1>4, RefusedKeeps
<1>5. CASE Runaway(FALSE, ReturnBlock, translation_cost(remaining - ReturnBlock))
  BY <1>1, <1>2, <1>3, <1>5, RunawayKeeps
<1>6. CASE /\ \E actual \in 1..(ReturnBlock + BLOCK_RESERVE), result \in PayloadResults :
                /\ Expected(ReturnBlock, actual) /\ Drive(FALSE, actual)
                /\ remaining' = Left(actual)
                /\ check_payload(result)
                /\ Outcome(result, IF remaining' = 0 THEN Measure(after) ELSE UNCHANGED <<placeVars, endVars>>)
           /\ UNCHANGED <<position, lineVars, probe, matVars>>
  <2>1. PICK actual \in 1..(ReturnBlock + BLOCK_RESERVE), result \in PayloadResults :
          /\ Expected(ReturnBlock, actual) /\ Drive(FALSE, actual)
          /\ remaining' = Left(actual)
          /\ check_payload(result)
          /\ Outcome(result, IF remaining' = 0 THEN Measure(after) ELSE UNCHANGED <<placeVars, endVars>>)
    BY <1>6
  <2>2. /\ actual \in Nat /\ actual > 0 /\ actual <= ReturnBlock + BLOCK_RESERVE
        /\ translation' = translation + actual /\ net' = net - actual /\ net' \in Int
        /\ translation' <= TRANSLATION
    BY <1>2, <2>1, ConstantsAreNumbers DEF Drive, Expected
  <2>3. SensorOK'
    BY <2>1, PayloadCheckKeepsSensor DEF IInv
  <2>4. CASE result # "NOT_CLOSE"
    <3>1. Ended(result)
      BY <2>1, <2>4 DEF Outcome
    <3>2. remaining' \in Nat
      BY <1>2, <2>1, <2>2 DEF Left
    <3>3. /\ position' \in Nat /\ position' >= position /\ step' \in {FORWARD_BLOCK, MAT_BLOCK}
      BY <1>2, <1>6 DEF IInv, TravelOK, lineVars
    <3>4. probe' \in 0..DIP_MAX_PROBES /\ matStep' \in 0..(MAT_STEPS_PER_SCAN + 1)
      BY <1>6 DEF IInv, MatOK, matVars
    <3> QED
      BY <1>1, <1>6, <2>1, <2>2, <3>1, <3>2, <3>3, <3>4, MovedEndKeeps DEF lineVars, matVars
  <2>5. CASE result = "NOT_CLOSE"
    <3>1. IF remaining' = 0 THEN Measure(after) ELSE UNCHANGED <<placeVars, endVars>>
      BY <2>1, <2>5 DEF Outcome
    <3> QED
      BY <1>1, <1>6, <2>1, <2>2, <2>3, <3>1, ReturnDriveKeeps
  <2> QED
    BY <2>4, <2>5
<1> QED
  BY <1>4, <1>5, <1>6 DEF Return

LEMMA MatScanKeeps == ASSUME IInv, MatScan PROVE IInv'
<1>1. pc = "mat" /\ UNCHANGED <<translation, tripVars>>
  BY DEF MatScan
<1>2. /\ UNCHANGED <<matStep, previousDepth, retry, resume>>
      /\ scans' \in 0..MAT_MAX_SCANS /\ matStep' \in 0..(MAT_STEPS_PER_SCAN + 1)
  BY <1>1, ConstantsAreNumbers DEF IInv, MatOK, MatScan, matVars
<1>3. ASSUME ResumeLine, SensorOK' PROVE IInv'
  <2>1. 0 \in 0..SEARCH_DIRECTIONS /\ 0 \in Nat /\ StartLine(0, 0)
    BY <1>3, ConstantsAreNumbers DEF ResumeLine
  <2> QED
    BY <1>1, <1>2, <1>3, <2>1, StartKeeps
<1>4. ASSUME UNCHANGED colourVars PROVE SensorOK'
  BY <1>4, SensorUnmoved DEF IInv
<1>5. CASE scans = MAT_MAX_SCANS /\ ResumeLine /\ UNCHANGED <<matVars, colourVars>>
  BY <1>3, <1>4, <1>5
<1>6. CASE ScanFails
  BY <1>3, <1>4, <1>6 DEF ScanFails
<1>7. ASSUME NEW depths \in DepthsSeen(SCAN_STEPS), ScanShows(depths) PROVE IInv'
  <2>1. SensorOK'
    <3>1. CASE colour_note_lighter_mat
      BY <3>1, ZenonT(30) DEF IInv, SensorOK, ColourTypeOK, colour_note_lighter_mat
    <3> QED
      BY <1>4, <1>7, <3>1 DEF ScanShows
  <2>2. CASE ScanPoints(depths)
    <3>1. /\ pc' = "mat_turned" /\ UNCHANGED <<after, sampleNo, missing, endVars>>
          /\ UNCHANGED <<position, net, lineVars>>
      BY <1>7, <2>2 DEF ScanShows, Go
    <3>2. /\ translation' \in Nat /\ translation' <= TRANSLATION /\ net' \in Int
          /\ position' \in Nat /\ position' >= position /\ step' \in {FORWARD_BLOCK, MAT_BLOCK}
      BY <1>1, <3>1, ConstantsAreNumbers DEF IInv, TravelOK, lineVars
    <3>3. sampleNo' \in 1..2 /\ missing' \in 0..(MAX_MISSING_SAMPLES - 1)
      BY <3>1 DEF IInv, PlaceOK
    <3>4. UNCHANGED <<direction, trial, fruitless, best, bestPosition, baseline, progress, historyVars,
                      segmentStart, profileCount>>
      BY <3>1 DEF lineVars
    <3>5. UNCHANGED endVars /\ UNCHANGED tripVars
      BY <1>1, <3>1
    <3> QED
      BY <1>1, <1>2, <2>1, <3>1, <3>2, <3>3, <3>4, <3>5, OffLineKeeps
  <2>3. CASE ~ScanPoints(depths)
    BY <1>3, <1>7, <2>1, <2>3 DEF ScanShows
  <2> QED
    BY <2>2, <2>3
<1> QED
  BY <1>5, <1>6, <1>7 DEF MatScan

LEMMA MatTurnedKeeps == ASSUME IInv, MatTurned PROVE IInv'
<1>1. /\ pc = "mat_turned" /\ matStep' = 1 /\ resume' = "mat_step"
      /\ UNCHANGED <<travelVars, lineVars, tripVars, scans>>
  BY DEF MatTurned
<1>2. PICK result \in PayloadResults :
        check_payload(result) /\ Outcome(result, UnlessArrived("mat_step"))
  BY DEF MatTurned
<1>3. SensorOK'
  BY <1>2, PayloadCheckKeepsSensor DEF IInv
<1>4. /\ probe' \in 0..DIP_MAX_PROBES /\ matStep' \in 0..(MAT_STEPS_PER_SCAN + 1)
      /\ matStep' \in 1..MAT_STEPS_PER_SCAN /\ scans' \in 0..MAT_MAX_SCANS
      /\ UNCHANGED <<remaining, tripVars>>
  BY <1>1, ConstantsAreNumbers DEF IInv, MatOK, tripVars
<1>5. CASE result # "NOT_CLOSE"
  <2>1. Ended(result)
    BY <1>2, <1>5 DEF Outcome
  <2> QED
    BY <1>1, <1>2, <1>4, <2>1, CheckEndKeeps
<1>6. CASE result = "NOT_CLOSE"
  <2>1. /\ pc' = IF arrived' THEN "mat_wait" ELSE "mat_step"
        /\ UNCHANGED <<after, sampleNo, missing, endVars>> /\ UNCHANGED endVars
    BY <1>2, <1>6 DEF Outcome, UnlessArrived, Go
  <2>2. sampleNo' \in 1..2 /\ missing' \in 0..(MAX_MISSING_SAMPLES - 1)
    BY <2>1 DEF IInv, PlaceOK
  <2>3. /\ translation' \in Nat /\ translation' <= TRANSLATION /\ net' \in Int
        /\ position' \in Nat /\ position' >= position /\ step' \in {FORWARD_BLOCK, MAT_BLOCK}
    BY <1>1, ConstantsAreNumbers DEF IInv, TravelOK, travelVars, lineVars
  <2>4. UNCHANGED <<direction, trial, fruitless, best, bestPosition, baseline, progress, historyVars,
                    segmentStart, profileCount>>
    BY <1>1 DEF lineVars
  <2>5. pc' \in {"mat_wait", "mat_step"} /\ (pc' = "mat_step" => ~arrived')
    BY <2>1
  <2> QED
    BY <1>1, <1>3, <1>4, <2>1, <2>2, <2>3, <2>4, <2>5, OffLineKeeps
<1> QED
  BY <1>5, <1>6

LEMMA MatWaitKeeps == ASSUME IInv, MatWait PROVE IInv'
<1>1. /\ pc = "mat_wait" /\ resume \in {"mat", "mat_step"}
      /\ UNCHANGED <<travelVars, lineVars, tripVars, scans, matStep, resume>>
  BY DEF IInv, MatOK, MatWait
<1>2. PICK result \in PayloadResults :
        /\ check_payload(result)
        /\ Outcome(result,
             IF ~arrived' THEN Go(resume)
             ELSE IF retry < MAT_ARRIVED_RETRIES THEN Go("mat_wait")
             ELSE FailWith("PAYLOAD"))
  BY DEF MatWait
<1>3. SensorOK'
  BY <1>2, PayloadCheckKeepsSensor DEF IInv
<1>4. /\ probe' \in 0..DIP_MAX_PROBES /\ matStep' \in 0..(MAT_STEPS_PER_SCAN + 1)
      /\ scans' \in 0..MAT_MAX_SCANS /\ UNCHANGED <<remaining, tripVars>>
      /\ resume = "mat_step" => matStep' \in 1..MAT_STEPS_PER_SCAN
  BY <1>1 DEF IInv, MatOK, tripVars
<1>5. /\ translation' \in Nat /\ translation' <= TRANSLATION /\ net' \in Int
      /\ position' \in Nat /\ position' >= position /\ step' \in {FORWARD_BLOCK, MAT_BLOCK}
      /\ remaining' \in Nat /\ fruitless' \in Nat
  BY <1>1, ConstantsAreNumbers DEF IInv, TravelOK, travelVars, lineVars, tripVars
<1>6. UNCHANGED <<direction, trial, fruitless, best, bestPosition, baseline, progress, historyVars,
                  segmentStart, profileCount>>
  BY <1>1 DEF lineVars
<1>7. CASE result # "NOT_CLOSE"
  <2>1. Ended(result)
    BY <1>2, <1>7 DEF Outcome
  <2> QED
    BY <1>1, <1>2, <1>4, <2>1, CheckEndKeeps
<1>8. ASSUME NEW place \in {"mat", "mat_step", "mat_wait"}, Go(place),
             place = "mat_step" => ~arrived' /\ resume = "mat_step"
      PROVE  IInv'
  <2>1. pc' = place /\ UNCHANGED <<after, sampleNo, missing, endVars>> /\ UNCHANGED endVars
    BY <1>8 DEF Go
  <2>2. sampleNo' \in 1..2 /\ missing' \in 0..(MAX_MISSING_SAMPLES - 1)
    BY <2>1 DEF IInv, PlaceOK
  <2> QED
    BY <1>1, <1>3, <1>4, <1>5, <1>6, <1>8, <2>1, <2>2, OffLineKeeps
<1>9. CASE result = "NOT_CLOSE" /\ ~arrived'
  BY <1>1, <1>2, <1>8, <1>9 DEF Outcome
<1>10. CASE result = "NOT_CLOSE" /\ arrived' /\ retry < MAT_ARRIVED_RETRIES
  BY <1>2, <1>8, <1>10 DEF Outcome
<1>11. CASE result = "NOT_CLOSE" /\ arrived' /\ ~(retry < MAT_ARRIVED_RETRIES)
  <2>1. /\ pc' = "done" /\ outcome' = "FATAL" /\ fault' = "PAYLOAD"
        /\ UNCHANGED <<after, sampleNo, missing>>
    BY <1>2, <1>11 DEF Outcome, FailWith
  <2>2. translation' \in 0..(TRANSLATION + BLOCK_RESERVE + 1)
    BY <1>5, ConstantsAreNumbers
  <2> QED
    BY <1>1, <1>3, <1>4, <1>5, <1>6, <2>1, <2>2, EndKeeps
<1> QED
  BY <1>7, <1>9, <1>10, <1>11

LEMMA MatStepKeeps == ASSUME IInv, MatStep PROVE IInv'
<1>1. pc = "mat_step" /\ matStep \in 1..MAT_STEPS_PER_SCAN /\ MAT_BLOCK \in Nat /\ MAT_BLOCK > 0
  BY ConstantsAreNumbers DEF IInv, MatOK, MatStep
<1>2. CASE Refused(MAT_BLOCK, 0)
  BY <1>1, <1>2, RefusedKeeps
<1>3. CASE Runaway(TRUE, MAT_BLOCK, 0)
  BY <1>1, <1>3, RunawayKeeps
<1>4. CASE /\ \E actual \in 1..(MAT_BLOCK + BLOCK_RESERVE), result \in PayloadResults :
                /\ Expected(MAT_BLOCK, actual) /\ Drive(TRUE, actual)
                /\ check_payload(result)
                /\ LET depth == IF available' THEN lastDepth' ELSE -1 IN
                   /\ previousDepth' = depth
                   /\ resume' = IF depth < previousDepth \/ matStep = MAT_STEPS_PER_SCAN
                                  THEN "mat" ELSE "mat_step"
                   /\ Outcome(result, UnlessArrived(resume'))
           /\ matStep' = matStep + 1 /\ retry' = 1
           /\ UNCHANGED <<position, lineVars, tripVars, scans>>
  <2>1. PICK actual \in 1..(MAT_BLOCK + BLOCK_RESERVE), result \in PayloadResults :
          /\ Expected(MAT_BLOCK, actual) /\ Drive(TRUE, actual)
          /\ check_payload(result)
          /\ resume' \in {"mat", "mat_step"}
          /\ matStep = MAT_STEPS_PER_SCAN => resume' = "mat"
          /\ Outcome(result, UnlessArrived(resume'))
    BY <1>4
  <2>2. /\ actual \in Nat /\ translation' = translation + actual /\ net' \in Int
        /\ translation' \in Nat /\ translation' <= TRANSLATION
    BY <1>1, <2>1, ConstantsAreNumbers DEF IInv, TravelOK, Drive, Expected
  <2>3. SensorOK'
    BY <2>1, PayloadCheckKeepsSensor DEF IInv
  <2>4. /\ probe' \in 0..DIP_MAX_PROBES /\ matStep' \in 0..(MAT_STEPS_PER_SCAN + 1)
        /\ scans' \in 0..MAT_MAX_SCANS /\ UNCHANGED tripVars /\ scans' = scans
        /\ resume' = "mat_step" => matStep' \in 1..MAT_STEPS_PER_SCAN
    BY <1>1, <1>4, <2>1, ConstantsAreNumbers DEF IInv, MatOK, tripVars
  <2>5. /\ position' \in Nat /\ position' >= position /\ step' \in {FORWARD_BLOCK, MAT_BLOCK}
        /\ remaining' \in Nat /\ fruitless' \in Nat
    BY <1>4 DEF IInv, TravelOK, lineVars, tripVars
  <2>6. UNCHANGED <<direction, trial, fruitless, best, bestPosition, baseline, progress, historyVars,
                    segmentStart, profileCount>>
    BY <1>4 DEF lineVars
  <2>7. CASE result # "NOT_CLOSE"
    <3>1. Ended(result)
      BY <2>1, <2>7 DEF Outcome
    <3> QED
      BY <1>1, <2>1, <2>2, <2>4, <2>5, <2>6, <3>1, MovedEndKeeps
  <2>8. CASE result = "NOT_CLOSE"
    <3>1. /\ pc' = IF arrived' THEN "mat_wait" ELSE resume'
          /\ UNCHANGED <<after, sampleNo, missing, endVars>> /\ UNCHANGED endVars
      BY <2>1, <2>8 DEF Outcome, UnlessArrived, Go
    <3>2. sampleNo' \in 1..2 /\ missing' \in 0..(MAX_MISSING_SAMPLES - 1)
      BY <3>1 DEF IInv, PlaceOK
    <3>3. /\ pc' \in {"mat", "mat_wait", "mat_step"} /\ (pc' = "mat_step" => ~arrived')
          /\ (pc' = "mat_step" => resume' = "mat_step")
      BY <2>1, <3>1
    <3> QED
      BY <1>1, <2>1, <2>2, <2>3, <2>4, <2>5, <2>6, <3>1, <3>2, <3>3, OffLineKeeps
  <2> QED
    BY <2>7, <2>8
<1> QED
  BY <1>2, <1>3, <1>4 DEF MatStep

-----------------------------------------------------------------------------
(* A measurement on a line                                                  *)

\* Back towards an earlier point: the motors have as far to go as the position says.
LEMMA BeginReturnKeeps ==
  ASSUME IInv, Forwards, NEW purpose \in {"returned", "trial_returned"},
         purpose = "trial_returned" => ~progress /\ bestPosition = 0,
         BeginReturn(position, bestPosition, purpose),
         UNCHANGED <<travelVars, direction, trial, fruitless, step, best, bestPosition, baseline, progress,
                     probe, matVars, colourVars>>,
         recent' \in [1..3 -> PairSet], recentNext' \in 1..3, recentCount' \in 0..3,
         dipActive' \in BOOLEAN, reference' \in PairSet,
         NoWeaker',
         declines' \in 0..DECLINE_POSITIONS, profileCount' \in 0..PROFILE_CAPACITY,
         lastDecline' \in 0..position, segmentStart' \in 0..position
  PROVE  IInv'
<1>1. /\ pc \in {"follow", "recheck", "probe", "measure"} /\ OnLine /\ net = position
  BY DEF IInv, NetOK, Forwards, OnLine
<1>2. /\ translation \in Nat /\ translation <= TRANSLATION /\ position \in Nat
      /\ bestPosition \in 0..position
  BY <1>1, ConstantsAreNumbers DEF IInv, TravelOK
<1>3. /\ remaining' = position - bestPosition /\ after' = purpose /\ UNCHANGED endVars
      /\ pc' = IF position = bestPosition THEN "measure" ELSE "return"
      /\ sampleNo' \in {1, sampleNo} /\ missing' \in {0, missing}
  BY DEF BeginReturn, Measure
<1>4. /\ translation' = translation /\ position' = position /\ net' = net
  BY DEF travelVars
<1>5. PlaceOK'
  BY <1>1, <1>3, ConstantsAreNumbers DEF IInv, PlaceOK, Places, Purposes, endVars
<1>6. TravelOK'
  BY <1>1, <1>2, <1>3, <1>4 DEF IInv, TravelOK
<1>7. NetOK'
  BY <1>1, <1>2, <1>3, <1>4 DEF NetOK, AtBaseline, Forwards
<1>8. ChoiceOK'
  BY <1>3 DEF IInv, ChoiceOK
<1>9. DeclineOK' /\ CountingOK'
  BY <1>3, <1>4 DEF DeclineOK, CountingOK, AtPoint, Forwards
<1>10. MatOK' /\ SensorOK'
  BY <1>3, SensorUnmoved DEF IInv, MatOK, matVars
<1>11. ReturnAffordable'
  <2>1. Affordable(translation_cost(position - bestPosition))
    BY <1>1, Zenon DEF IInv, ReturnAffordable, OnLine, Forwards
  <2>2. (pc' = "return") => Affordable(translation_cost(position - bestPosition))'
    BY <1>4, <2>1 DEF Affordable, translation_cost
  <2> QED
    BY <1>3, <1>4, <2>1 DEF ReturnAffordable, OnLine, Affordable, translation_cost
<1>12. ReferenceOK' /\ ProgressIsReal'
  <2>1. baseline' = baseline /\ progress' = progress /\ best' = best /\ bestPosition' = bestPosition
    OBVIOUS
  <2>2. IF progress THEN line_compare(baseline, best) > 0 ELSE best = baseline /\ bestPosition = 0
    BY <1>1, Zenon DEF IInv, ProgressIsReal
  <2>3. ReferenceOK'
    BY DEF ReferenceOK
  <2>4. ProgressIsReal'
    BY <2>1, <2>2 DEF ProgressIsReal
  <2> QED
    BY <2>3, <2>4
<1>13. BackWhereItWas'
  BY <1>1, <1>2, <1>3, <1>4, ConstantsAreNumbers DEF BackWhereItWas
<1>14. TriesEveryDirection' /\ CollectsAtTheCentre'
  BY <1>1, <1>3 DEF IInv, PlaceOK, TriesEveryDirection, CollectsAtTheCentre, endVars
<1> QED
  BY <1>5, <1>6, <1>7, <1>8, <1>9, <1>10, <1>11, <1>12, <1>13, <1>14 DEF IInv

\* The median of three positions replaces a reference it is a gain on, so that the
\* reference stays a gain on all that the line has had.
LEMMA RememberKeeps ==
  ASSUME ChoiceOK, NEW current \in PairSet, Remember(current), NoWeaker
  PROVE  /\ recent' \in [1..3 -> PairSet] /\ recentNext' \in 1..3 /\ recentCount' \in 0..3
         /\ reference' \in PairSet /\ NoWeaker'
<1> DEFINE next == [recent EXCEPT ![recentNext] = current]
           candidate == line_median_reference(next)
<1>1. /\ recent \in [1..3 -> PairSet] /\ recentNext \in 1..3 /\ recentCount \in 0..3
      /\ reference \in PairSet
  BY DEF ChoiceOK
<1>2. next \in [1..3 -> PairSet]
  BY <1>1
<1>3. candidate \in PairSet
  BY <1>2, MedianIsPair
<1>4. /\ recent' = next /\ recentNext' = (recentNext % 3) + 1
      /\ recentCount' = Smaller(recentCount + 1, 3)
      /\ reference' = reference
         \/ (reference' = candidate /\ line_confirmed_gain(reference, candidate) > 0)
      /\ references' = references \union {reference'}
  BY DEF Remember
<1> HIDE DEF next, candidate
<1>5. recentNext' \in 1..3 /\ recentCount' \in 0..3
  BY <1>1, <1>4 DEF Smaller
<1>6. CASE reference' = reference
  <2>1. NoWeaker'
    BY <1>1, <1>4, <1>6 DEF NoWeaker
  <2> QED
    BY <1>1, <1>2, <1>4, <1>5, <1>6, <2>1
<1>7. CASE reference' = candidate /\ line_confirmed_gain(reference, candidate) > 0
  <2>1. ASSUME NEW earlier \in references'
        PROVE  /\ earlier \in PairSet
               /\ earlier = reference' \/ line_confirmed_gain(earlier, reference') > 0
    <3>1. CASE earlier = reference'
      BY <1>3, <1>7, <3>1
    <3>2. CASE earlier \in references /\ earlier = reference
      BY <1>1, <1>7, <3>2
    <3>3. CASE earlier \in references /\ line_confirmed_gain(earlier, reference) > 0
      <4>1. earlier \in PairSet
        BY <3>3 DEF NoWeaker
      <4> QED
        BY <1>1, <1>3, <1>7, <3>3, <4>1, GainsAddUp
    <3> QED
      BY <1>4, <2>1, <3>1, <3>2, <3>3 DEF NoWeaker
  <2>2. NoWeaker'
    BY <2>1 DEF NoWeaker
  <2> QED
    BY <1>2, <1>3, <1>4, <1>5, <1>7, <2>2
<1> QED
  BY <1>4, <1>6, <1>7

\* What replaces the best point is a confirmed improvement on the baseline.
LEMMA StrongerIsProgress ==
  ASSUME ChoiceOK, NEW current \in PairSet, Stronger(current),
         IF progress THEN line_compare(baseline, best) > 0 ELSE best = baseline /\ bestPosition = 0
  PROVE  line_compare(baseline, current) > 0
<1>1. best \in PairSet /\ baseline \in PairSet
  BY DEF ChoiceOK
<1>2. CASE line_compare(best, current) > 0 /\ progress
  BY <1>1, <1>2, ImprovementsAddUp
<1>3. CASE line_compare(best, current) > 0 /\ ~progress
  BY <1>3
<1>4. CASE progress /\ line_compare(baseline, current) > 0
  BY <1>4
<1> QED
  BY <1>2, <1>3, <1>4 DEF Stronger

\* The end of one turn of the loop: a new best point, a trial given up, or on.
LEMMA AbsorbKeeps ==
  ASSUME IInv, pc = "measure", after \in {"follow", "dip"}, NEW current \in Readings,
         NEW dip \in BOOLEAN, NEW weak \in 0..(DECLINE_POSITIONS - 1),
         NEW points \in 0..PROFILE_CAPACITY,
         Absorb(current, dip, weak, points), UNCHANGED <<probe, matVars, colourVars>>,
         lastDecline' \in 0..position, weak > 0 => dip = TRUE,
         Stronger(current) => counted' = <<>>,
         ~Stronger(current) =>
           CountedAs(counted', weak, reference, bestPosition, lastDecline')
  PROVE  IInv'
<1> DEFINE stronger == Stronger(current)
<1>1. current \in PairSet
  BY ReadingAssumed DEF ReadingAssumption
<1>2. Forwards /\ OnLine
  BY DEF Forwards, OnLine
<1>3. /\ translation \in Nat /\ translation <= TRANSLATION /\ position \in Nat
      /\ bestPosition \in 0..position /\ net = position /\ segmentStart \in 0..position
      /\ declines \in 0..DECLINE_POSITIONS
  BY <1>2, ConstantsAreNumbers DEF IInv, TravelOK, NetOK, DeclineOK
<1>4. /\ best' = (IF stronger THEN current ELSE best)
      /\ bestPosition' = (IF stronger THEN position ELSE bestPosition)
      /\ progress' = (progress \/ stronger)
      /\ dipActive' = (dip /\ ~stronger)
      /\ declines' = (IF stronger THEN 0 ELSE weak)
      /\ IF dipActive' THEN UNCHANGED <<recent, recentNext, recentCount, reference, references>>
                       ELSE Remember(current)
      /\ UNCHANGED <<travelVars, direction, trial, fruitless, step, baseline>>
  BY DEF Absorb
<1>5. ChoiceOK /\ NoWeaker
  BY <1>2, Zenon DEF IInv, ReferenceOK
<1>6. /\ recent' \in [1..3 -> PairSet] /\ recentNext' \in 1..3 /\ recentCount' \in 0..3
      /\ reference' \in PairSet /\ NoWeaker'
  <2>1. CASE dipActive'
    <3>1. recent' = recent /\ recentNext' = recentNext /\ recentCount' = recentCount
          /\ reference' = reference /\ references' = references
      BY <1>4, <2>1
    <3>2. NoWeaker'
      BY <1>5, <3>1, Zenon DEF NoWeaker
    <3> QED
      BY <1>5, <3>1, <3>2 DEF ChoiceOK
  <2>2. CASE ~dipActive'
    <3>1. Remember(current)
      BY <1>4, <2>2
    <3> QED
      BY <1>1, <1>5, <3>1, RememberKeeps
  <2> QED
    BY <2>1, <2>2
<1>7. IF progress THEN line_compare(baseline, best) > 0 ELSE best = baseline /\ bestPosition = 0
  BY <1>2, Zenon DEF IInv, ProgressIsReal
<1>8. IF progress' THEN line_compare(baseline, best') > 0
                   ELSE best' = baseline /\ bestPosition' = 0
  <2>1. CASE stronger
    BY <1>1, <1>4, <1>5, <1>7, <2>1, StrongerIsProgress
  <2>2. CASE ~stronger
    BY <1>4, <1>7, <2>2
  <2> QED
    BY <2>1, <2>2
<1>9. best' \in PairSet /\ baseline' \in PairSet /\ baseline' = baseline
  BY <1>1, <1>4, <1>5 DEF ChoiceOK
<1>10. progress' \in BOOLEAN /\ dipActive' \in BOOLEAN
  BY <1>4, <1>5, Zenon DEF ChoiceOK
<1>11. /\ declines' \in 0..(DECLINE_POSITIONS - 1) /\ bestPosition' \in 0..position
       /\ declines' \in 0..DECLINE_POSITIONS
  BY <1>3, <1>4, ConstantsAreNumbers
<1>12. CASE trial > 0 /\ ~progress' /\ position >= trial /\ declines' = 0
  <2>1. /\ BeginReturn(position, 0, "trial_returned")
        /\ profileCount' = points /\ UNCHANGED segmentStart
    BY <1>12 DEF Absorb
  <2>2. ~progress /\ ~stronger
    BY <1>4, <1>12
  <2>3. best' = best /\ bestPosition' = bestPosition /\ bestPosition = 0
    BY <1>4, <1>7, <2>2
  <2>4. progress' = progress
    BY <1>4, <1>5, <2>2, Zenon DEF ChoiceOK
  <2>5. UNCHANGED <<travelVars, direction, trial, fruitless, step, best, bestPosition, baseline, progress,
                    probe, matVars, colourVars>>
    BY <1>4, <2>3, <2>4
  <2>6. BeginReturn(position, bestPosition, "trial_returned")
    BY <2>1, <2>3
  <2>7. profileCount' \in 0..PROFILE_CAPACITY /\ segmentStart' \in 0..position
    BY <1>3, <2>1, ConstantsAreNumbers
  <2> QED
    BY <1>2, <1>6, <1>10, <1>11, <2>2, <2>3, <2>5, <2>6, <2>7, BeginReturnKeeps
<1>13. CASE ~(trial > 0 /\ ~progress' /\ position >= trial /\ declines' = 0)
  <2>1. /\ pc' = "follow" /\ UNCHANGED <<after, sampleNo, missing, endVars>> /\ UNCHANGED remaining
        /\ IF position - segmentStart >= SWEEP
             THEN segmentStart' = position /\ profileCount' = 1
             ELSE profileCount' = points /\ UNCHANGED segmentStart
    BY <1>13 DEF Absorb, Go
  <2>2. translation' = translation /\ position' = position /\ net' = net
    BY <1>4 DEF travelVars
  <2>3. PlaceOK'
    BY <2>1 DEF IInv, PlaceOK, Places, endVars
  <2>4. TravelOK'
    BY <1>4, <1>11, <2>1, <2>2 DEF IInv, TravelOK
  <2>5. NetOK'
    BY <1>3, <2>1, <2>2 DEF NetOK, AtBaseline, Forwards
  <2>6. ChoiceOK'
    BY <1>6, <1>9, <1>10, <2>1 DEF ChoiceOK
  <2>7. DeclineOK'
    <3>1. profileCount' \in 0..PROFILE_CAPACITY /\ segmentStart' \in 0..position
      BY <1>3, <2>1, ConstantsAreNumbers
    <3>3. declines' < DECLINE_POSITIONS
      BY <1>11, ConstantsAreNumbers
    <3> QED
      BY <1>11, <2>1, <2>2, <3>1, <3>3 DEF DeclineOK, AtPoint, Forwards
  <2>13. CountingOK'
    <3>1. CASE stronger
      <4>1. declines' = 0 /\ counted' = <<>>
        BY <1>4, <3>1
      <4>2. Counting'
        BY <4>1, NoneCounted DEF Counting
      <4> QED
        BY <4>2 DEF CountingOK
    <3>2. CASE ~stronger /\ weak = 0
      <4>1. declines' = 0 /\ CountedAs(counted', 0, reference, bestPosition, lastDecline')
        BY <1>4, <3>2
      <4>2. CountedAs(counted', 0, reference', bestPosition', lastDecline')
        BY <4>1, NobodyCounted
      <4>3. Counting'
        BY <4>1, <4>2 DEF Counting
      <4> QED
        BY <4>3 DEF CountingOK
    <3>3. CASE ~stronger /\ weak # 0
      <4>1. weak > 0
        BY <3>3, ConstantsAreNumbers
      <4>2. dipActive' /\ declines' = weak /\ bestPosition' = bestPosition
        BY <1>4, <3>3, <4>1
      <4>3. reference' = reference
        BY <1>4, <4>2
      <4>4. CountedAs(counted', declines', reference', bestPosition', lastDecline')
        BY <3>3, <4>2, <4>3
      <4>5. Counting'
        BY <4>2, <4>4 DEF Counting
      <4> QED
        BY <4>5 DEF CountingOK
    <3> QED
      BY <3>1, <3>2, <3>3
  <2>8. MatOK' /\ SensorOK'
    BY <2>1, SensorUnmoved DEF IInv, MatOK, matVars
  <2>9. ReturnAffordable'
    <3>1. CASE stronger
      <4>1. position' - bestPosition' = 0 /\ pc' = "follow"
        BY <1>3, <1>4, <2>1, <2>2, <3>1
      <4>2. translation_cost(0) <= TRANSLATION - translation'
        BY <1>3, <2>2, CostCovers, ConstantsAreNumbers
      <4> QED
        BY <1>3, <2>2, <4>1, <4>2 DEF ReturnAffordable, Affordable, translation_cost
    <3>2. CASE ~stronger
      <4>1. Affordable(translation_cost(position - bestPosition))
        BY <1>2 DEF IInv, ReturnAffordable
      <4>2. bestPosition' = bestPosition
        BY <1>4, <3>2
      <4> QED
        BY <2>1, <2>2, <4>1, <4>2 DEF ReturnAffordable, Affordable, translation_cost
    <3> QED
      BY <3>1, <3>2
  <2>10. ReferenceOK'
    BY <1>6 DEF ReferenceOK
  <2>11. ProgressIsReal'
    BY <1>8, <1>9 DEF ProgressIsReal
  <2>12. BackWhereItWas' /\ TriesEveryDirection' /\ CollectsAtTheCentre'
    BY <2>1 DEF IInv, PlaceOK, BackWhereItWas, TriesEveryDirection, CollectsAtTheCentre, endVars
  <2> QED
    BY <2>3, <2>4, <2>5, <2>6, <2>7, <2>8, <2>9, <2>10, <2>11, <2>12, <2>13 DEF IInv
<1> QED
  BY <1>12, <1>13

\* A weak position counts only a step past the last one that counted.
LEMMA CountingSpans ==
  ASSUME IInv, pc = "measure", after = "follow"
  PROVE  /\ CountDecline \in 0..DECLINE_POSITIONS /\ CountDecline > 0
         /\ LastDecline \in 0..position
         /\ CountedAs(Counted, CountDecline, reference, bestPosition, LastDecline)
<1>1. AtPoint /\ Forwards
  BY DEF AtPoint, Forwards
<1>2. /\ position \in Nat /\ bestPosition \in Nat /\ step \in Nat /\ reference \in PairSet
      /\ declines \in Nat /\ declines < DECLINE_POSITIONS /\ lastDecline \in 0..position
      /\ position > bestPosition
  BY <1>1, ConstantsAreNumbers DEF IInv, TravelOK, ChoiceOK, DeclineOK
<1>3. CountedAs(counted, declines, reference, bestPosition, lastDecline)
  BY <1>1, Zenon DEF IInv, CountingOK, Counting
<1>4. CASE declines = 0 \/ position - lastDecline >= step
  <2>1. CountDecline = declines + 1 /\ CountDecline # declines
    BY <1>2, <1>4 DEF CountDecline
  <2>2. LastDecline = position
        /\ Counted = Append(counted, [at |-> position, step |-> step, against |-> reference])
    BY <2>1 DEF LastDecline, Counted
  <2>3. declines > 0 => position - lastDecline >= step
    BY <1>4
  <2>4. CountedAs(Counted, declines + 1, reference, bestPosition, position)
    BY <1>2, <1>3, <2>2, <2>3, CountingAppends
  <2> QED
    BY <1>2, <2>1, <2>2, <2>4, ConstantsAreNumbers
<1>5. CASE ~(declines = 0 \/ position - lastDecline >= step)
  <2>1. CountDecline = declines
    BY <1>5 DEF CountDecline
  <2>2. LastDecline = lastDecline /\ Counted = counted
    BY <2>1 DEF LastDecline, Counted
  <2> QED
    BY <1>2, <1>3, <1>5, <2>1, <2>2, ConstantsAreNumbers
<1> QED
  BY <1>4, <1>5

\* The last weak position sends the robot to look again.
LEMMA GiveUpKeeps ==
  ASSUME IInv, Measured("follow"), profileCount < PROFILE_CAPACITY,
         lastDecline' = LastDecline, counted' = Counted,
         CountDecline >= DECLINE_POSITIONS,
         Go("recheck"), dipActive' = TRUE, declines' = CountDecline,
         profileCount' = profileCount + 1,
         UNCHANGED <<travelVars, direction, trial, fruitless, step, best, bestPosition, baseline, progress,
                     recent, recentNext, recentCount, reference, references, segmentStart, tripVars>>,
         UNCHANGED <<matVars, colourVars>>
  PROVE  IInv'
<1>1. pc = "measure" /\ after = "follow" /\ Forwards /\ OnLine
  BY DEF Measured, Forwards, OnLine
<1>2. /\ CountDecline \in 0..DECLINE_POSITIONS /\ CountDecline > 0
      /\ lastDecline' \in 0..position
      /\ CountedAs(counted', CountDecline, reference, bestPosition, lastDecline')
  BY <1>1, CountingSpans
<1>3. pc' = "recheck" /\ UNCHANGED <<after, sampleNo, missing, endVars>>
  BY DEF Go
<1>4. /\ translation' = translation /\ position' = position /\ net' = net
      /\ bestPosition' = bestPosition /\ baseline' = baseline /\ best' = best
      /\ progress' = progress /\ reference' = reference /\ references' = references
  BY DEF travelVars
<1>5. PlaceOK'
  <2>1. /\ after' = after /\ sampleNo' = sampleNo /\ missing' = missing
        /\ outcome' = outcome /\ fault' = fault
    BY <1>3 DEF endVars
  <2> QED
    BY <1>1, <1>3, <2>1, Zenon DEF IInv, PlaceOK, Places
<1>6. TravelOK'
  <2>1. /\ step' = step /\ trial' = trial /\ direction' = direction /\ remaining' = remaining
        /\ fruitless' = fruitless
    BY DEF tripVars
  <2> QED
    BY <1>1, <1>4, <2>1, Zenon DEF IInv, TravelOK
<1>7. NetOK'
  BY <1>1, <1>3, <1>4 DEF IInv, NetOK, AtBaseline, Forwards
<1>8. ChoiceOK'
  <2>1. recent' = recent /\ recentNext' = recentNext /\ recentCount' = recentCount
    OBVIOUS
  <2> QED
    BY <1>3, <1>4, <2>1 DEF IInv, ChoiceOK
<1>9. DeclineOK'
  <2>1. declines' = DECLINE_POSITIONS
    BY <1>2, ConstantsAreNumbers
  <2>2. profileCount' \in 0..PROFILE_CAPACITY /\ segmentStart' \in 0..position
    BY <1>1, ConstantsAreNumbers DEF IInv, DeclineOK
  <2> QED
    BY <1>2, <1>3, <1>4, <2>1, <2>2, ConstantsAreNumbers DEF DeclineOK, AtPoint, Forwards
<1>14. CountingOK'
  <2>1. CountedAs(counted', declines', reference', bestPosition', lastDecline') /\ dipActive'
    BY <1>2, <1>4
  <2>2. Counting'
    BY <2>1 DEF Counting
  <2> QED
    BY <2>2 DEF CountingOK
<1>10. MatOK' /\ SensorOK'
  BY <1>3, SensorUnmoved DEF IInv, MatOK, matVars, tripVars
<1>11. ReturnAffordable'
  <2>1. Affordable(translation_cost(position - bestPosition))
    BY <1>1 DEF IInv, ReturnAffordable
  <2> QED
    BY <1>3, <1>4, <2>1 DEF ReturnAffordable, Affordable, translation_cost
<1>12. ReferenceOK' /\ ProgressIsReal'
  <2>1. NoWeaker
    BY <1>1, Zenon DEF IInv, ReferenceOK
  <2>2. IF progress THEN line_compare(baseline, best) > 0 ELSE best = baseline /\ bestPosition = 0
    BY <1>1, Zenon DEF IInv, ProgressIsReal
  <2>3. ReferenceOK'
    BY <1>4, <2>1, Zenon DEF ReferenceOK, NoWeaker
  <2>4. ProgressIsReal'
    BY <1>4, <2>2 DEF ProgressIsReal
  <2> QED
    BY <2>3, <2>4
<1>13. BackWhereItWas' /\ TriesEveryDirection' /\ CollectsAtTheCentre'
  BY <1>1, <1>3 DEF IInv, PlaceOK, BackWhereItWas, TriesEveryDirection, CollectsAtTheCentre, endVars
<1> QED
  BY <1>5, <1>6, <1>7, <1>8, <1>9, <1>10, <1>11, <1>12, <1>13, <1>14 DEF IInv

LEMMA FollowPointKeeps == ASSUME IInv, FollowPoint PROVE IInv'
<1>1. Measured("follow") /\ UNCHANGED <<matVars, colourVars>>
  BY DEF FollowPoint
<1>2. pc = "measure" /\ after = "follow" /\ AtPoint
  BY <1>1 DEF Measured, AtPoint
<1>3. /\ profileCount \in 0..PROFILE_CAPACITY /\ declines \in 0..(DECLINE_POSITIONS - 1)
      /\ lastDecline \in 0..position /\ position \in Nat /\ dipActive \in BOOLEAN
      /\ declines > 0 => dipActive
  BY <1>2, ConstantsAreNumbers DEF IInv, DeclineOK, TravelOK, ChoiceOK, Forwards, AtPoint,
                                   CountingOK, Counting
<1>4. CASE /\ FailWith("PROFILE") /\ UNCHANGED <<travelVars, lineVars, tripVars>>
  <2>1. /\ pc' = "done" /\ outcome' = "FATAL" /\ fault' = "PROFILE"
        /\ UNCHANGED <<after, sampleNo, missing>>
    BY <1>4 DEF FailWith
  <2>2. SensorOK'
    BY <1>1, SensorUnmoved DEF IInv
  <2>3. /\ translation' \in 0..(TRANSLATION + BLOCK_RESERVE + 1) /\ net' \in Int
        /\ position' \in Nat /\ position' >= position /\ step' \in {FORWARD_BLOCK, MAT_BLOCK}
        /\ remaining' \in Nat /\ fruitless' \in Nat
    BY <1>4 DEF IInv, TravelOK, travelVars, lineVars, tripVars
  <2>4. probe' \in 0..DIP_MAX_PROBES /\ matStep' \in 0..(MAT_STEPS_PER_SCAN + 1) /\ scans' = scans
    BY <1>1, <1>4 DEF IInv, MatOK, tripVars, matVars
  <2>5. UNCHANGED <<direction, trial, fruitless, best, bestPosition, baseline, progress, historyVars,
                    segmentStart, profileCount>>
    BY <1>4 DEF lineVars
  <2> QED
    BY <1>2, <2>1, <2>2, <2>3, <2>4, <2>5, EndKeeps
<1>5. ASSUME profileCount < PROFILE_CAPACITY, NEW current \in Readings,
             lastDecline' = LastDecline,
             counted' = IF Stronger(current) THEN <<>> ELSE Counted,
             ~(CountDecline >= DECLINE_POSITIONS),
             Absorb(current, TRUE, CountDecline, profileCount + 1), UNCHANGED probe
      PROVE  IInv'
  <2>1. /\ CountDecline \in 0..DECLINE_POSITIONS
        /\ lastDecline' \in 0..position
        /\ CountedAs(Counted, CountDecline, reference, bestPosition, lastDecline')
    BY <1>2, <1>5, CountingSpans
  <2>2. CountDecline \in 0..(DECLINE_POSITIONS - 1) /\ profileCount + 1 \in 0..PROFILE_CAPACITY
    BY <1>3, <1>5, <2>1, ConstantsAreNumbers
  <2>3. UNCHANGED <<probe, matVars, colourVars>>
    BY <1>1, <1>5
  <2>4. /\ Stronger(current) => counted' = <<>>
        /\ ~Stronger(current) =>
             CountedAs(counted', CountDecline, reference, bestPosition, lastDecline')
    BY <1>5, <2>1
  <2> HIDE DEF CountDecline
  <2> QED
    BY <1>2, <1>5, <2>1, <2>2, <2>3, <2>4, AbsorbKeeps
<1>6. ASSUME profileCount < PROFILE_CAPACITY, NEW current \in Readings,
             Absorb(current, dipActive /\ ~line_return_consistent(reference, current),
                    IF dipActive THEN 0 ELSE declines, profileCount + 1),
             counted' = <<>>, UNCHANGED <<lastDecline, probe>>
      PROVE  IInv'
  <2> DEFINE weak == IF dipActive THEN 0 ELSE declines
             dip == dipActive /\ ~line_return_consistent(reference, current)
  <2>1. weak \in 0..(DECLINE_POSITIONS - 1) /\ weak = 0
        /\ profileCount + 1 \in 0..PROFILE_CAPACITY
    BY <1>3, <1>6, ConstantsAreNumbers
  <2>2. dip \in BOOLEAN
    OBVIOUS
  <2>3. /\ lastDecline' \in 0..position /\ (weak > 0 => dip = TRUE)
        /\ CountedAs(counted', weak, reference, bestPosition, lastDecline')
    BY <1>3, <1>6, <2>1, NoneCounted
  <2>4. UNCHANGED <<probe, matVars, colourVars>> /\ Absorb(current, dip, weak, profileCount + 1)
    BY <1>1, <1>6
  <2> HIDE DEF weak, dip
  <2> QED
    BY <1>2, <1>6, <2>1, <2>2, <2>3, <2>4, AbsorbKeeps
<1>7. CASE profileCount < PROFILE_CAPACITY
  <2>1. ~(profileCount >= PROFILE_CAPACITY)
    BY <1>3, <1>7, ConstantsAreNumbers
  <2>2. PICK current \in Readings :
          \/ /\ line_reference_declined(reference, current)
             /\ lastDecline' = LastDecline
             /\ IF CountDecline >= DECLINE_POSITIONS
                  THEN /\ Go("recheck") /\ dipActive' = TRUE /\ declines' = CountDecline
                       /\ counted' = Counted
                       /\ profileCount' = profileCount + 1
                       /\ UNCHANGED <<travelVars, direction, trial, fruitless, step, best, bestPosition,
                                      baseline, progress, recent, recentNext, recentCount,
                                      reference, references, segmentStart, tripVars>>
                  ELSE /\ Absorb(current, TRUE, CountDecline, profileCount + 1) /\ UNCHANGED probe
                       /\ counted' = IF Stronger(current) THEN <<>> ELSE Counted
          \/ /\ ~line_reference_declined(reference, current)
             /\ Absorb(current, dipActive /\ ~line_return_consistent(reference, current),
                       IF dipActive THEN 0 ELSE declines, profileCount + 1)
             /\ counted' = <<>>
             /\ UNCHANGED <<lastDecline, probe>>
    BY <2>1, Zenon DEF FollowPoint
  <2>3. CASE line_reference_declined(reference, current) /\ CountDecline >= DECLINE_POSITIONS
    BY <1>1, <1>7, <2>2, <2>3, GiveUpKeeps
  <2>4. CASE line_reference_declined(reference, current) /\ ~(CountDecline >= DECLINE_POSITIONS)
    BY <1>5, <1>7, <2>2, <2>4
  <2>5. CASE ~line_reference_declined(reference, current)
    BY <1>6, <1>7, <2>2, <2>5
  <2> QED
    BY <2>3, <2>4, <2>5
<1> QED
  BY <1>4, <1>7 DEF FollowPoint

LEMMA DipMeasuredKeeps == ASSUME IInv, DipMeasured PROVE IInv'
<1>1. /\ pc = "measure" /\ after = "dip" /\ Forwards /\ OnLine
      /\ UNCHANGED <<matVars, colourVars, probe>>
  BY DEF DipMeasured, Measured, Forwards, OnLine
<1>2. /\ profileCount \in 0..PROFILE_CAPACITY /\ declines \in 0..DECLINE_POSITIONS
      /\ lastDecline \in 0..position /\ segmentStart \in 0..position /\ position \in Nat
  BY <1>1 DEF IInv, DeclineOK, TravelOK
<1>3. PICK current \in Readings :
        IF line_return_consistent(reference, current)
          THEN Absorb(current, FALSE, 0, profileCount) /\ counted' = <<>> /\ UNCHANGED lastDecline
          ELSE /\ UNCHANGED <<travelVars, lineVars>>
               /\ IF probe < DIP_MAX_PROBES
                    THEN Go("probe") /\ UNCHANGED remaining
                    ELSE BeginReturn(position, bestPosition, "returned")
  BY DEF DipMeasured
<1>4. CASE line_return_consistent(reference, current)
  <2>1. Absorb(current, FALSE, 0, profileCount) /\ counted' = <<>> /\ UNCHANGED lastDecline
    BY <1>3, <1>4
  <2>2. 0 \in 0..(DECLINE_POSITIONS - 1) /\ FALSE \in BOOLEAN /\ ~(0 > 0)
    BY ConstantsAreNumbers
  <2> QED
    BY <1>1, <1>2, <2>1, <2>2, NoneCounted, AbsorbKeeps
<1>5. CASE ~line_return_consistent(reference, current) /\ probe < DIP_MAX_PROBES
  <2>1. /\ pc' = "probe" /\ UNCHANGED <<after, sampleNo, missing, endVars>>
        /\ UNCHANGED <<travelVars, lineVars, remaining>>
    BY <1>3, <1>5 DEF Go
  <2>2. /\ translation' = translation /\ position' = position /\ net' = net
        /\ bestPosition' = bestPosition
    BY <2>1 DEF travelVars, lineVars
  <2>3. PlaceOK' /\ TravelOK' /\ NetOK'
    BY <1>1, <2>1, <2>2 DEF IInv, PlaceOK, Places, TravelOK, NetOK, AtBaseline, Forwards, endVars,
                           lineVars
  <2>4. ChoiceOK'
    BY <2>1 DEF IInv, ChoiceOK, lineVars, historyVars
  <2>10. CountingOK'
    BY <1>1, <2>1, CountingStays DEF IInv, CountingOK, lineVars
  <2>5. DeclineOK'
    BY <1>1, <2>1, <2>2 DEF IInv, DeclineOK, AtPoint, Forwards, lineVars, historyVars
  <2>6. MatOK' /\ SensorOK'
    BY <1>1, <1>5, <2>1, SensorUnmoved DEF IInv, MatOK, matVars
  <2>7. ReturnAffordable'
    <3>1. Affordable(translation_cost(position - bestPosition))
      BY <1>1 DEF IInv, ReturnAffordable
    <3> QED
      BY <2>1, <2>2, <3>1 DEF ReturnAffordable, Affordable, translation_cost
  <2>8. ReferenceOK' /\ ProgressIsReal'
    BY <1>1, <2>1, Zenon DEF IInv, ReferenceOK, NoWeaker, ProgressIsReal, lineVars, historyVars
  <2>9. BackWhereItWas' /\ TriesEveryDirection' /\ CollectsAtTheCentre'
    BY <1>1, <2>1 DEF IInv, PlaceOK, BackWhereItWas, TriesEveryDirection, CollectsAtTheCentre, endVars
  <2> QED
    BY <2>3, <2>4, <2>5, <2>6, <2>7, <2>8, <2>9, <2>10 DEF IInv
<1>6. CASE ~line_return_consistent(reference, current) /\ ~(probe < DIP_MAX_PROBES)
  <2>1. BeginReturn(position, bestPosition, "returned") /\ UNCHANGED <<travelVars, lineVars>>
    BY <1>3, <1>6
  <2>2. /\ UNCHANGED <<travelVars, direction, trial, fruitless, step, best, bestPosition, baseline, progress,
                       probe, matVars, colourVars>>
        /\ recent' = recent /\ recentNext' = recentNext /\ recentCount' = recentCount
        /\ dipActive' = dipActive /\ reference' = reference
        /\ references' = references
        /\ declines' = declines /\ profileCount' = profileCount /\ lastDecline' = lastDecline
        /\ segmentStart' = segmentStart
    BY <1>1, <2>1 DEF lineVars, historyVars
  <2>3. NoWeaker
    BY <1>1, Zenon DEF IInv, ReferenceOK
  <2>4. NoWeaker'
    BY <2>2, <2>3, Zenon DEF NoWeaker
  <2>5. /\ recent' \in [1..3 -> PairSet] /\ recentNext' \in 1..3 /\ recentCount' \in 0..3
        /\ dipActive' \in BOOLEAN /\ reference' \in PairSet
    BY <2>2, Zenon DEF IInv, ChoiceOK
  <2> QED
    BY <1>1, <1>2, <2>1, <2>2, <2>4, <2>5, BeginReturnKeeps
<1> QED
  BY <1>4, <1>5, <1>6

-----------------------------------------------------------------------------
(* The invariant, and what it gives                                         *)

LEMMA InitHolds == ASSUME Init PROVE IInv
<1>1. PlaceOK /\ TravelOK /\ NetOK
  BY ConstantsAreNumbers DEF Init, PlaceOK, Places, Purposes, TravelOK, NetOK, AtBaseline, Forwards
<1>2. ChoiceOK
  <2>1. NoPair \in PairSet
    BY DEF NoPair, Pair, Sample, PairSet, SampleSet, RSSI_MISSING_CODE
  <2>2. recent \in [1..3 -> PairSet] /\ recentNext \in 1..3 /\ recentCount \in 0..3
    BY <2>1 DEF Init
  <2>3. best = NoPair /\ baseline = NoPair /\ reference = NoPair /\ progress = FALSE
        /\ dipActive = FALSE /\ pc = "start"
    BY DEF Init
  <2> QED
    BY <2>1, <2>2, <2>3 DEF ChoiceOK
<1>3. DeclineOK /\ CountingOK
  BY ConstantsAreNumbers DEF Init, DeclineOK, CountingOK, AtPoint, Forwards
<1>4. MatOK
  BY ConstantsAreNumbers DEF Init, MatOK
<1>5. SensorOK
  <2>1. MAX_FAILED_CHECKS \in Nat /\ MAX_FAILED_CHECKS > 0
    BY ColourAssumed DEF ColourAssumption
  <2>2. failedChecks \in 0..MAX_FAILED_CHECKS /\ failedChecks < MAX_FAILED_CHECKS
        /\ lastDepth \in -1..6
    BY <2>1 DEF Init, ColourInit
  <2>3. available \in BOOLEAN /\ lighterSeen \in BOOLEAN /\ onMat \in BOOLEAN /\ arrived = FALSE
    <3>1. available \in (IF ColourReadings = {} THEN {FALSE} ELSE BOOLEAN)
          /\ lighterSeen = FALSE /\ onMat = FALSE /\ arrived = FALSE
      BY DEF Init, ColourInit
    <3> QED
      BY <3>1
  <2> QED
    BY <2>2, <2>3, Zenon DEF SensorOK, ColourTypeOK
<1>6. ReturnAffordable /\ ReferenceOK /\ ProgressIsReal /\ BackWhereItWas
  BY DEF Init, ReturnAffordable, ReferenceOK, ProgressIsReal, BackWhereItWas, OnLine
<1>7. TriesEveryDirection /\ CollectsAtTheCentre
  BY DEF Init, TriesEveryDirection, CollectsAtTheCentre
<1> QED
  BY <1>1, <1>2, <1>3, <1>4, <1>5, <1>6, <1>7 DEF IInv

LEMMA StutterKeeps == ASSUME IInv, UNCHANGED vars PROVE IInv'
<1>1. UNCHANGED <<placeVars, endVars, travelVars, lineVars, tripVars, matVars, colourVars>>
  BY DEF vars
<1>2. UNCHANGED <<pc, after, sampleNo, missing>> /\ UNCHANGED <<outcome, fault>>
      /\ UNCHANGED <<translation, position, net>>
  BY <1>1 DEF placeVars, endVars, travelVars
<1>3. UNCHANGED <<best, bestPosition, baseline, progress, step, direction, trial, fruitless>>
      /\ UNCHANGED <<recent, recentNext, recentCount, reference, dipActive, declines, lastDecline,
                    references, counted>>
      /\ UNCHANGED <<segmentStart, profileCount>>
  BY <1>1 DEF lineVars, historyVars
<1>4. UNCHANGED <<probe, remaining>> /\ UNCHANGED <<scans, matStep, previousDepth, retry, resume>>
      /\ UNCHANGED <<available, lighterSeen, onMat, lastDepth, failedChecks, arrived>>
  BY <1>1 DEF tripVars, matVars, colourVars
<1>5. PlaceOK' /\ TravelOK' /\ NetOK'
  BY <1>2, <1>3, <1>4 DEF IInv, PlaceOK, TravelOK, NetOK, AtBaseline, Forwards
<1>6. ChoiceOK' /\ DeclineOK'
  BY <1>2, <1>3 DEF IInv, ChoiceOK, DeclineOK, AtPoint, Forwards
<1>11. CountingOK'
  BY <1>1, <1>2, <1>3, CountingStays DEF IInv, CountingOK, Forwards, lineVars
<1>7. MatOK' /\ SensorOK'
  BY <1>1, <1>2, <1>4, SensorUnmoved DEF IInv, MatOK
<1>8. ReturnAffordable'
  BY <1>2, <1>3, <1>4 DEF IInv, ReturnAffordable, OnLine, Affordable, translation_cost
<1>9. ReferenceOK' /\ ProgressIsReal'
  BY <1>2, <1>3, Zenon DEF IInv, ReferenceOK, NoWeaker, ProgressIsReal, OnLine
<1>10. BackWhereItWas' /\ TriesEveryDirection' /\ CollectsAtTheCentre'
  <2>1. BackWhereItWas'
    BY <1>2, <1>3 DEF IInv, BackWhereItWas
  <2>2. TriesEveryDirection' /\ CollectsAtTheCentre'
    BY <1>2, <1>3, <1>4, Zenon DEF IInv, TriesEveryDirection, CollectsAtTheCentre
  <2> QED
    BY <2>1, <2>2
<1> QED
  BY <1>5, <1>6, <1>7, <1>8, <1>9, <1>10, <1>11 DEF IInv

LEMMA StepKeeps == ASSUME IInv, [Next]_vars PROVE IInv'
<1>1. CASE FirstCheck \/ SampleMissing \/ FirstSample \/ InitialSample
  BY <1>1, FirstCheckKeeps, SampleMissingKeeps, FirstSampleKeeps, InitialSampleKeeps
<1>2. CASE Baseline \/ FollowMove \/ FollowPoint
  BY <1>2, BaselineKeeps, FollowMoveKeeps, FollowPointKeeps
<1>3. CASE Recheck \/ Probe \/ DipMeasured \/ Return \/ Returned
  BY <1>3, RecheckKeeps, ProbeKeeps, DipMeasuredKeeps, ReturnKeeps, ReturnedKeeps
<1>4. CASE MatScan \/ MatTurned \/ MatWait \/ MatStep
  BY <1>4, MatScanKeeps, MatTurnedKeeps, MatWaitKeeps, MatStepKeeps
<1>5. CASE RunStops
  BY <1>5, RunStopsKeeps
<1>6. CASE UNCHANGED vars
  BY <1>6, StutterKeeps
<1> QED
  BY <1>1, <1>2, <1>3, <1>4, <1>5, <1>6 DEF Next, Program

\* Every state of the approach keeps the invariant (approach_beacon).
THEOREM Invariance == Spec => []IInv
<1>1. Init => IInv
  BY InitHolds
<1>2. IInv /\ [Next]_vars => IInv'
  BY StepKeeps
<1> QED
  BY <1>1, <1>2, PTL DEF Spec

\* Every variable has its type, and no difference the code takes in unsigned
\* arithmetic wraps (approach_beacon and what it calls).
THEOREM TypesHold == Spec => []ApproachTypeOK
<1>1. ASSUME IInv PROVE ApproachTypeOK
  <2>1. after # "baseline" => lastDecline \in 0..position /\ segmentStart \in 0..position
    BY <1>1 DEF IInv, DeclineOK
  <2> QED
    BY <1>1, <2>1, Zenon DEF IInv, SensorOK, PlaceOK, TravelOK, DeclineOK, MatOK, ApproachTypeOK
<1> QED
  BY <1>1, Invariance, PTL

\* The way back is always within the budget: no return is refused half-way
\* (reserve_translation, return_along_line).
THEOREM ReturnsAreAffordable == Spec => []ReturnAffordable
<1>1. IInv => ReturnAffordable
  BY DEF IInv
<1> QED
  BY <1>1, Invariance, PTL

\* A return ends where it set out for, an overrun past it at most
\* (return_along_line).
THEOREM ReturnsArrive == Spec => []BackWhereItWas
<1>1. IInv => BackWhereItWas
  BY DEF IInv
<1> QED
  BY <1>1, Invariance, PTL

\* No reading that would have been a decline from a reference the line had earlier
\* passes with the present one, unless that is noisier, after any number of positions
\* and whatever was measured (follow_direction).
THEOREM ReferenceNeverDrifts == Spec => []ReferenceHolds
<1>1. ASSUME IInv PROVE ReferenceHolds
  <2>1. SUFFICES ASSUME OnLine, NEW earlier \in references
                 PROVE  /\ Weakest(reference) <= Weakest(earlier)
                        /\ \A current \in Readings :
                             line_reference_declined(earlier, current) =>
                               \/ line_reference_declined(reference, current)
                               \/ Spread(reference) > Spread(earlier)
    BY DEF ReferenceHolds
  <2>2. /\ earlier \in PairSet /\ reference \in PairSet
        /\ earlier = reference \/ line_confirmed_gain(earlier, reference) > 0
    BY <1>1, <2>1, Zenon DEF IInv, ChoiceOK, ReferenceOK, NoWeaker
  <2>3. Readings \subseteq PairSet
    BY ReadingAssumed DEF ReadingAssumption
  <2>4. CASE earlier = reference
    BY <2>2, <2>4, PairNumbers
  <2>5. CASE line_confirmed_gain(earlier, reference) > 0
    BY <2>2, <2>3, <2>5, StrongerHidesNothing
  <2> QED
    BY <2>2, <2>4, <2>5
<1> QED
  BY <1>1, Invariance, PTL

\* The best point a line with progress returns to is a confirmed improvement on its
\* baseline (follow_direction).
THEOREM ProgressIsConfirmed == Spec => []ProgressIsReal
<1>1. IInv => ProgressIsReal
  BY DEF IInv
<1> QED
  BY <1>1, Invariance, PTL

\* Giving up for want of a direction comes after every side was tried in a row without
\* a gain (check_directions).
THEOREM SearchIsComplete == Spec => []TriesEveryDirection
<1>1. IInv => TriesEveryDirection
  BY DEF IInv
<1> QED
  BY <1>1, Invariance, PTL

\* A line is given up only on DECLINE_POSITIONS weak positions past its best point, each
\* a full step past the one before and all judged by one reference, for all step
\* lengths and overruns (follow_direction).
THEOREM DeclineIsSpread == Spec => []DeclineSpansSteps
<1>1. ASSUME IInv PROVE DeclineSpansSteps
  <2>1. SUFFICES ASSUME pc = "recheck"
                 PROVE  /\ Len(counted) = DECLINE_POSITIONS
                        /\ \A i \in 1..Len(counted) :
                             /\ counted[i].at > bestPosition /\ counted[i].against = reference
                             /\ i > 1 => counted[i].at - counted[i - 1].at >= counted[i].step
    BY DEF DeclineSpansSteps
  <2>2. declines = DECLINE_POSITIONS
    BY <1>1, <2>1 DEF IInv, DeclineOK
  <2>3. CountedAs(counted, declines, reference, bestPosition, lastDecline)
    BY <1>1, <2>1, Zenon DEF IInv, CountingOK, Counting, Forwards
  <2> QED
    BY <2>2, <2>3 DEF CountedAs
<1> QED
  BY <1>1, Invariance, PTL

\* With a working sensor the payload is collected on the arrival ring only
\* (check_payload, colour_arrival_check).
THEOREM CollectsOnlyThere == Spec => []CollectsAtTheCentre
<1>1. IInv => CollectsAtTheCentre
  BY DEF IInv
<1> QED
  BY <1>1, Invariance, PTL

\* No step of the steering by colour is driven while the latest check says the robot
\* has arrived (mat_approach).
THEOREM SteeringStops == Spec => SteeringStopsOnArrival
<1>1. IInv => (pc = "mat_step" => ~arrived)
  BY DEF IInv, MatOK
<1>2. IInv /\ [Next]_vars
        => [pc = "mat_step" /\ translation' # translation => ~arrived]_vars
  BY <1>1
<1> QED
  BY <1>2, Invariance, PTL DEF Spec, SteeringStopsOnArrival
=============================================================================
