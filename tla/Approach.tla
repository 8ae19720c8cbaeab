------------------------------ MODULE Approach ------------------------------
(***************************************************************************)
(* The approach to AP1, approach_beacon() and everything it calls in       *)
(* src/getting_there/getting_there.c: following a heading by Wi-Fi,        *)
(* recognising a decline, returning to the best point, trying the other    *)
(* directions, and steering by colour once on the mat.                     *)
(*                                                                         *)
(* It is one sequential program; what it meets is the environment: the     *)
(* readings, how far each powered block really went (an I2C error ends one *)
(* early, polling lets it run over), what a payload attempt returns, and   *)
(* a stop of the run at any point.  pc names the call the program is about *)
(* to make.  Positions are powered time along the current heading.  Turns, *)
(* headings and the optional moving samples, which the build disables, are *)
(* left out.                                                               *)
(***************************************************************************)
EXTENDS LineSearch, ColourArrival

CONSTANTS
  LINE_BLOCK, FORWARD_BLOCK, MAT_BLOCK, DIP_PROBE,   \* powered blocks
  BLOCK_RESERVE,                                     \* overrun allowed to each
  DIRECTION_TEST, SWEEP, TRANSLATION,                \* LINE_DIRECTION_TEST_MS, ...
  DECLINE_POSITIONS, DIP_MAX_PROBES, PROFILE_CAPACITY, SEARCH_DIRECTIONS,
  MAX_MISSING_SAMPLES, MAT_MAX_SCANS, MAT_STEPS_PER_SCAN, MAT_ARRIVED_RETRIES,
  SCAN_STEPS,                                        \* readings of one colour scan
  Readings                                           \* the pairs a position may measure

TravelAssumption ==
  /\ LINE_BLOCK \in Nat \ {0} /\ FORWARD_BLOCK \in 1..LINE_BLOCK /\ MAT_BLOCK \in 1..LINE_BLOCK
  /\ DIP_PROBE \in 1..LINE_BLOCK
  /\ BLOCK_RESERVE \in Nat /\ TRANSLATION \in Nat
  /\ DIRECTION_TEST \in Nat \ {0} /\ SWEEP \in Nat \ {0}
CountAssumption ==
  /\ DECLINE_POSITIONS \in Nat \ {0} /\ DIP_MAX_PROBES \in Nat \ {0}
  /\ PROFILE_CAPACITY \in Nat \ {0} /\ SEARCH_DIRECTIONS \in Nat \ {0}
  /\ MAX_MISSING_SAMPLES \in Nat \ {0} /\ MAT_MAX_SCANS \in Nat
  /\ MAT_STEPS_PER_SCAN \in Nat \ {0} /\ MAT_ARRIVED_RETRIES \in Nat \ {0}
  /\ SCAN_STEPS \in Nat \ {0}
ReadingAssumption ==
  Readings \subseteq {p \in PairSet : valid_pair(p)}
ASSUME TravelAssumed == TravelAssumption
ASSUME CountAssumed == CountAssumption
ASSUME ReadingAssumed == ReadingAssumption

VARIABLES
  pc, after,                 \* the next call, and what a measurement is for
  sampleNo, missing,         \* wait_for_wifi: which sample, misses so far
  outcome, fault,            \* what the approach returned, the fault it raised
  translation,               \* translation_ms
  position,                  \* powered position along the heading
  net,                       \* history: where the motors really took it
  direction, trial,          \* 0 for a line of its own, or the side tried
  fruitless,                 \* history: sides tried in a row without a gain
  step, best, bestPosition, baseline, progress,
  recent, recentNext, recentCount, reference, dipActive, declines, lastDecline,
  references, counted,       \* history: the references of the line, the weak positions
  segmentStart, profileCount,
  probe, remaining,          \* dip probes made; what is left of a return
  scans, matStep, previousDepth, retry, resume

placeVars == <<pc, after, sampleNo, missing>>
endVars == <<outcome, fault>>
travelVars == <<translation, position, net>>
historyVars == <<recent, recentNext, recentCount, reference, dipActive, declines, lastDecline,
                 references, counted>>
lineVars == <<direction, trial, fruitless, step, best, bestPosition, baseline, progress, historyVars,
              segmentStart, profileCount>>
tripVars == <<probe, remaining>>
matVars == <<scans, matStep, previousDepth, retry, resume>>
vars == <<placeVars, endVars, travelVars, lineVars, tripVars, matVars, colourVars>>

NoPair == Pair(Sample(0, 0), Sample(0, 0))

Init ==
  /\ ColourInit
  /\ pc = "start" /\ after = "none" /\ sampleNo = 1 /\ missing = 0
  /\ outcome = "NONE" /\ fault = "NONE"
  /\ translation = 0 /\ position = 0 /\ net = 0
  /\ direction = 0 /\ trial = 0 /\ fruitless = 0 /\ step = FORWARD_BLOCK
  /\ best = NoPair /\ bestPosition = 0 /\ baseline = NoPair /\ progress = FALSE
  /\ recent = [i \in 1..3 |-> NoPair] /\ recentNext = 1 /\ recentCount = 0
  /\ reference = NoPair /\ dipActive = FALSE /\ declines = 0 /\ lastDecline = 0
  /\ references = {} /\ counted = <<>>
  /\ segmentStart = 0 /\ profileCount = 0
  /\ probe = 0 /\ remaining = 0
  /\ scans = 0 /\ matStep = 0 /\ previousDepth = -1 /\ retry = 0 /\ resume = "none"

-----------------------------------------------------------------------------
(* Building blocks                                                          *)

End(result) == pc' = "done" /\ outcome' = result /\ UNCHANGED <<after, sampleNo, missing, fault>>
FailWith(f) ==
  pc' = "done" /\ outcome' = "FATAL" /\ fault' = f /\ UNCHANGED <<after, sampleNo, missing>>

Go(place) == pc' = place /\ UNCHANGED <<after, sampleNo, missing, endVars>>
Measure(purpose) ==
  /\ pc' = "measure" /\ after' = purpose /\ sampleNo' = 1 /\ missing' = 0 /\ UNCHANGED endVars

\* What check_payload comes to: UNCONFIRMED is the fatal result of three attempts
\* that were close and not confirmed, which raises a fault of its own.
PayloadResults == {"NOT_CLOSE", "COMPLETE", "FATAL", "UNCONFIRMED"}

\* check_payload: with a working sensor only the mat allows a transfer.
check_payload(result) ==
  /\ colour_arrival_check
  /\ result \in PayloadResults
  /\ available' /\ ~arrived' => result = "NOT_CLOSE"

translation_cost(duration) ==
  duration + ((duration + LINE_BLOCK - 1) \div LINE_BLOCK) * BLOCK_RESERVE

\* reserve_translation
Affordable(required) == translation <= TRANSLATION /\ required <= TRANSLATION - translation

\* The powered block of translate_block: how far it may go before it is an
\* unexpected duration, and what it adds up to.
Expected(duration, actual) ==
  actual > 0 /\ actual <= duration + BLOCK_RESERVE /\ translation + actual <= TRANSLATION
Drive(forwards, actual) ==
  /\ translation' = translation + actual
  /\ net' = IF forwards THEN net + actual ELSE net - actual

\* A check that is not close lets its caller continue; any other ends the approach,
\* an unconfirmed transfer with a fault of its own.
Ended(result) == IF result = "UNCONFIRMED" THEN FailWith("PAYLOAD") ELSE End(result)
Outcome(result, continuation) == IF result = "NOT_CLOSE" THEN continuation ELSE Ended(result)

\* translate_block, keeping reserved for what may have to follow.  It refuses, or
\* it drives and then checks the payload; if that is not close the caller goes on
\* from the actual travel.
Refused(duration, reserved) ==
  /\ ~Affordable(translation_cost(duration) + reserved)
  /\ FailWith("TRANSLATION_LIMIT")
  /\ UNCHANGED <<travelVars, lineVars, tripVars, matVars, colourVars>>

\* A powered block that went too far or nowhere ends the run.
Runaway(forwards, duration, reserved) ==
  /\ Affordable(translation_cost(duration) + reserved)
  /\ \E actual \in {0, duration + BLOCK_RESERVE + 1} : Drive(forwards, actual)
  /\ FailWith("TRANSLATION_LIMIT")
  /\ UNCHANGED <<position, lineVars, tripVars, matVars, colourVars>>

-----------------------------------------------------------------------------
(* Lines and what follows them                                              *)

\* The sides without a gain up to here, when another is to be tried.
Fruitless == IF direction = 0 \/ progress THEN 0 ELSE fruitless + 1

\* follow_direction up to its baseline measurement.
StartLine(side, trialLength) ==
  /\ Measure("baseline")
  /\ direction' = side /\ trial' = trialLength /\ fruitless' = IF side = 0 THEN 0 ELSE Fruitless
  /\ position' = 0 /\ net' = 0 /\ bestPosition' = 0
  /\ UNCHANGED <<step, best, baseline, progress, historyVars, segmentStart, profileCount>>

\* return_along_line: the powered time to reverse; nothing if it is there already.
BeginReturn_Swapped(from, to, purpose) ==
  /\ remaining' = to - from
  /\ IF from = to THEN Measure(purpose)
     ELSE /\ pc' = "return" /\ after' = purpose /\ UNCHANGED <<sampleNo, missing, endVars>>
BeginReturn(from, to, purpose) ==
  /\ remaining' = from - to
  /\ IF from = to THEN Measure(purpose)
     ELSE /\ pc' = "return" /\ after' = purpose /\ UNCHANGED <<sampleNo, missing, endVars>>

\* check_directions: the next side, or none is left.
NextDirection ==
  IF direction < SEARCH_DIRECTIONS
    THEN StartLine(direction + 1, DIRECTION_TEST)
    ELSE /\ FailWith("NO_DIRECTION") /\ fruitless' = Fruitless
         /\ UNCHANGED <<position, net, direction, trial, bestPosition, step, best, baseline,
                        progress, historyVars, segmentStart, profileCount>>

\* A line ended with a decline, back at its best point: its own search of the
\* directions begins, unless it was itself a trial that gained nothing.
AfterDecline_ForgetsGain ==
  IF direction = 0 THEN StartLine(1, DIRECTION_TEST) ELSE NextDirection
AfterDecline ==
  IF direction = 0 \/ progress THEN StartLine(1, DIRECTION_TEST) ELSE NextDirection

-----------------------------------------------------------------------------
(* start and wait_for_wifi                                                  *)

\* The first check of approach_beacon, before any movement.
FirstCheck ==
  /\ pc = "start"
  /\ \E result \in PayloadResults :
       check_payload(result) /\ Outcome(result, Measure("initial"))
  /\ UNCHANGED <<travelVars, lineVars, tripVars, matVars>>

Misses_NotKept == 1
Misses == missing + 1

\* A sample without AP1: check the payload while stopped, and give up after some.
SampleMissing ==
  /\ pc = "measure"
  /\ \E result \in PayloadResults :
       /\ check_payload(result)
       /\ Outcome(result,
            IF Misses = MAX_MISSING_SAMPLES THEN End("FATAL")
            ELSE missing' = Misses /\ UNCHANGED <<pc, after, sampleNo, endVars>>)
  /\ UNCHANGED <<travelVars, lineVars, tripVars, matVars>>

\* The first sample of a pair; the second completes it, see below.
FirstSample ==
  /\ pc = "measure" /\ after # "initial" /\ sampleNo = 1
  /\ sampleNo' = 2 /\ missing' = 0
  /\ UNCHANGED <<pc, after, endVars, travelVars, lineVars, tripVars, matVars, colourVars>>

Measured(purpose) == pc = "measure" /\ after = purpose /\ sampleNo = 2

\* The one sample taken before the first movement; a robot on the mat starts with
\* the colour scan, any other with the heading it has.
InitialSample ==
  /\ pc = "measure" /\ after = "initial"
  /\ IF colour_on_mat /\ scans < MAT_MAX_SCANS
       THEN Go("mat") /\ UNCHANGED <<position, net, lineVars>>
       ELSE StartLine(0, 0)
  /\ UNCHANGED <<translation, tripVars, matVars, colourVars>>

-----------------------------------------------------------------------------
(* follow_direction                                                         *)

\* The baseline is the first best, the first reference and the first point.
Baseline ==
  /\ Measured("baseline")
  /\ \E pair \in Readings :
       /\ best' = pair /\ baseline' = pair /\ reference' = pair /\ references' = {pair}
       /\ recent' = [i \in 1..3 |-> IF i = 1 THEN pair ELSE NoPair]
  /\ recentCount' = 1 /\ recentNext' = 2
  /\ dipActive' = FALSE /\ declines' = 0 /\ lastDecline' = 0 /\ counted' = <<>>
  /\ progress' = FALSE /\ bestPosition' = 0 /\ segmentStart' = 0 /\ profileCount' = 1
  /\ Go("follow")
  /\ UNCHANGED <<travelVars, direction, trial, fruitless, step, tripVars, matVars, colourVars>>

forward_block == IF colour_on_mat THEN MAT_BLOCK ELSE FORWARD_BLOCK

\* A trial's last block is cut to its length.
FollowBlock ==
  IF ~progress /\ position < trial THEN Smaller(forward_block, trial - position)
  ELSE forward_block

\* What must stay in the budget to come back from the end of the block.
FollowReserve_FromHere(block) == translation_cost(position - bestPosition)
FollowReserve(block) == translation_cost(position + block + BLOCK_RESERVE - bestPosition)

\* One block forwards; seeing the mat, colour takes over.
FollowMove ==
  /\ pc = "follow"
  /\ \/ Refused(FollowBlock, FollowReserve(FollowBlock))
     \/ Runaway(TRUE, FollowBlock, FollowReserve(FollowBlock))
     \/ /\ Affordable(translation_cost(FollowBlock) + FollowReserve(FollowBlock))
        /\ step' = forward_block
        /\ \E actual \in 1..(FollowBlock + BLOCK_RESERVE), result \in PayloadResults :
             /\ Expected(FollowBlock, actual) /\ Drive(TRUE, actual)
             /\ position' = position + actual
             /\ check_payload(result)
             /\ Outcome(result,
                  IF available' /\ onMat' /\ scans < MAT_MAX_SCANS THEN Go("mat") ELSE Measure("follow"))
        /\ UNCHANGED <<direction, trial, fruitless, best, bestPosition, baseline, progress,
                       historyVars, segmentStart, profileCount, tripVars, matVars>>

\* The median of the last three positions becomes the reference if it is stronger.
Remember_AgainstBaseline(current) ==
  LET next == [recent EXCEPT ![recentNext] = current]
      candidate == line_median_reference(next)
  IN /\ recent' = next /\ recentNext' = (recentNext % 3) + 1
     /\ recentCount' = Smaller(recentCount + 1, 3)
     /\ reference' = IF recentCount' = 3 /\ line_confirmed_gain(baseline, candidate) > 0
                       THEN candidate ELSE reference
     /\ references' = references \union {reference'}
Remember(current) ==
  LET next == [recent EXCEPT ![recentNext] = current]
      candidate == line_median_reference(next)
  IN /\ recent' = next /\ recentNext' = (recentNext % 3) + 1
     /\ recentCount' = Smaller(recentCount + 1, 3)
     /\ reference' = IF recentCount' = 3 /\ line_confirmed_gain(reference, candidate) > 0
                       THEN candidate ELSE reference
     /\ references' = references \union {reference'}

\* What replaces the best point: a confirmed improvement on it or, once the line
\* has made progress, any gain on it that is confirmed against the baseline.
Stronger_AnyGain(current) ==
  line_compare(best, current) > 0 \/ (progress /\ line_confirmed_gain(best, current) > 0)
Stronger(current) ==
  \/ line_compare(best, current) > 0
  \/ progress /\ line_compare(baseline, current) > 0 /\ line_confirmed_gain(best, current) > 0

\* The end of one turn of the loop, with the dip and the count of weak positions
\* as they stand and the number of points recorded.
Absorb(current, dip, weak, points) ==
  LET stronger == Stronger(current) IN
  /\ best' = IF stronger THEN current ELSE best
  /\ bestPosition' = IF stronger THEN position ELSE bestPosition
  /\ progress' = (progress \/ stronger)
  /\ dipActive' = (dip /\ ~stronger)
  /\ declines' = IF stronger THEN 0 ELSE weak
  /\ IF dipActive' THEN UNCHANGED <<recent, recentNext, recentCount, reference, references>>
                   ELSE Remember(current)
  /\ IF trial > 0 /\ ~progress' /\ position >= trial /\ declines' = 0
       THEN /\ BeginReturn(position, 0, "trial_returned")
            /\ profileCount' = points /\ UNCHANGED segmentStart
       ELSE /\ Go("follow") /\ UNCHANGED remaining
            /\ IF position - segmentStart >= SWEEP
                 THEN segmentStart' = position /\ profileCount' = 1
                 ELSE profileCount' = points /\ UNCHANGED segmentStart
  /\ UNCHANGED <<travelVars, direction, trial, fruitless, step, baseline>>

\* Weak positions count once per step.  The history keeps where each was counted,
\* the step in force there and the reference it was judged by.
CountDecline ==
  IF declines = 0 \/ position - lastDecline >= step THEN declines + 1 ELSE declines
LastDecline_FirstOnly == IF declines = 0 THEN position ELSE lastDecline
LastDecline == IF CountDecline # declines THEN position ELSE lastDecline
Counted ==
  IF CountDecline # declines
    THEN Append(counted, [at |-> position, step |-> step, against |-> reference])
    ELSE counted

FollowPoint ==
  /\ Measured("follow") /\ UNCHANGED <<matVars, colourVars>>
  /\ \/ /\ profileCount >= PROFILE_CAPACITY
        /\ FailWith("PROFILE") /\ UNCHANGED <<travelVars, lineVars, tripVars>>
     \/ /\ profileCount < PROFILE_CAPACITY
        /\ \E current \in Readings :
             \/ /\ line_reference_declined(reference, current)
                /\ lastDecline' = LastDecline
                /\ IF CountDecline >= DECLINE_POSITIONS
                     THEN /\ Go("recheck") /\ dipActive' = TRUE /\ declines' = CountDecline
                          /\ counted' = Counted
                          /\ profileCount' = profileCount + 1
                          /\ UNCHANGED <<travelVars, direction, trial, fruitless, step, best,
                                         bestPosition, baseline, progress, recent, recentNext, recentCount,
                                         reference, references, segmentStart, tripVars>>
                     ELSE /\ Absorb(current, TRUE, CountDecline, profileCount + 1) /\ UNCHANGED probe
                          /\ counted' = IF Stronger(current) THEN <<>> ELSE Counted
             \/ /\ ~line_reference_declined(reference, current)
                /\ Absorb(current, dipActive /\ ~line_return_consistent(reference, current),
                          IF dipActive THEN 0 ELSE declines, profileCount + 1)
                /\ counted' = <<>>
                /\ UNCHANGED <<lastDecline, probe>>

-----------------------------------------------------------------------------
(* recheck_and_probe_dip and return_along_line                              *)

\* Stopped: the payload first, then two fresh batches.
Recheck ==
  /\ pc = "recheck" /\ probe' = 0
  /\ \E result \in PayloadResults :
       check_payload(result) /\ Outcome(result, Measure("dip"))
  /\ UNCHANGED <<travelVars, lineVars, remaining, matVars>>

ProbeReserve == translation_cost(position + DIP_PROBE + BLOCK_RESERVE - bestPosition)

Probe ==
  /\ pc = "probe"
  /\ \/ Refused(DIP_PROBE, ProbeReserve) \/ Runaway(TRUE, DIP_PROBE, ProbeReserve)
     \/ /\ Affordable(translation_cost(DIP_PROBE) + ProbeReserve)
        /\ probe' = probe + 1
        /\ \E actual \in 1..(DIP_PROBE + BLOCK_RESERVE), result \in PayloadResults :
             /\ Expected(DIP_PROBE, actual) /\ Drive(TRUE, actual)
             /\ position' = position + actual
             /\ check_payload(result) /\ Outcome(result, Measure("dip"))
        /\ UNCHANGED <<lineVars, remaining, matVars>>

\* The recheck's or a probe's measurement: recovered, another probe, or back to
\* the best point.
DipMeasured ==
  /\ Measured("dip") /\ UNCHANGED <<matVars, colourVars, probe>>
  /\ \E current \in Readings :
       IF line_return_consistent(reference, current)
         THEN Absorb(current, FALSE, 0, profileCount) /\ counted' = <<>> /\ UNCHANGED lastDecline
         ELSE /\ UNCHANGED <<travelVars, lineVars>>
              /\ IF probe < DIP_MAX_PROBES
                   THEN Go("probe") /\ UNCHANGED remaining
                   ELSE BeginReturn(position, bestPosition, "returned")

ReturnBlock == Smaller(remaining, LINE_BLOCK)

\* What is left of the return: what was asked for less what was driven.
Left_AsAsked(actual) == remaining - ReturnBlock
Left(actual) == IF actual < remaining THEN remaining - actual ELSE 0

\* One block backwards.
Return ==
  /\ pc = "return"
  /\ \/ Refused(ReturnBlock, translation_cost(remaining - ReturnBlock))
     \/ Runaway(FALSE, ReturnBlock, translation_cost(remaining - ReturnBlock))
     \/ /\ Affordable(translation_cost(ReturnBlock) + translation_cost(remaining - ReturnBlock))
        /\ \E actual \in 1..(ReturnBlock + BLOCK_RESERVE), result \in PayloadResults :
             /\ Expected(ReturnBlock, actual) /\ Drive(FALSE, actual)
             /\ remaining' = Left(actual)
             /\ check_payload(result)
             /\ Outcome(result, IF remaining' = 0 THEN Measure(after) ELSE UNCHANGED <<placeVars, endVars>>)
        /\ UNCHANGED <<position, lineVars, probe, matVars>>

\* Back at the best point, or at the start of a trial.  The readings only say in
\* the log whether they agree.
Returned ==
  /\ \/ Measured("returned") /\ AfterDecline
     \/ Measured("trial_returned") /\ NextDirection
  /\ UNCHANGED <<translation, tripVars, matVars, colourVars>>

-----------------------------------------------------------------------------
(* mat_approach                                                             *)

\* The Wi-Fi search resumes on the present heading.
ResumeLine == StartLine(0, 0)

\* A colour scan on the spot: no scan is left, a reading fails, it finds no ring
\* to steer to, or it points the way.
ScanFails == ResumeLine /\ UNCHANGED colourVars
ScanShows(depths) ==
  /\ available
  /\ IF \E d \in depths : LighterMat(d) THEN colour_note_lighter_mat ELSE UNCHANGED colourVars
  /\ IF ScanPoints(depths) THEN Go("mat_turned") /\ UNCHANGED <<position, net, lineVars>>
                           ELSE ResumeLine

MatScan ==
  /\ pc = "mat" /\ UNCHANGED <<translation, tripVars>>
  /\ \/ /\ scans = MAT_MAX_SCANS /\ ResumeLine
        /\ UNCHANGED <<matVars, colourVars>>
     \/ /\ scans < MAT_MAX_SCANS /\ scans' = scans + 1
        /\ UNCHANGED <<matStep, previousDepth, retry, resume>>
        /\ ScanFails \/ \E depths \in DepthsSeen(SCAN_STEPS) : ScanShows(depths)

\* colour_arrived sends the steering into mat_wait_on_arrival first.
UnlessArrived_NotAsked(place) == Go(place)
UnlessArrived(place) == Go(IF arrived' THEN "mat_wait" ELSE place)

\* After the turn: the sensor may already be over the arrival ring.
MatTurned ==
  /\ pc = "mat_turned" /\ matStep' = 1
  /\ \E result \in PayloadResults :
       /\ check_payload(result)
       /\ Outcome(result, UnlessArrived("mat_step"))
  /\ previousDepth' = IF available' THEN lastDepth' ELSE -1
  /\ resume' = "mat_step" /\ retry' = 1
  /\ UNCHANGED <<travelVars, lineVars, tripVars, scans>>

\* mat_wait_on_arrival: retry while stopped, then end the run.
MatWait ==
  /\ pc = "mat_wait"
  /\ \E result \in PayloadResults :
       /\ check_payload(result)
       /\ Outcome(result,
            IF ~arrived' THEN Go(resume)
            ELSE IF retry < MAT_ARRIVED_RETRIES THEN Go("mat_wait")
            ELSE FailWith("PAYLOAD"))
  /\ retry' = retry + 1
  /\ previousDepth' = IF matStep = 1 /\ available' THEN lastDepth'
                      ELSE IF matStep = 1 THEN -1 ELSE previousDepth
  /\ UNCHANGED <<travelVars, lineVars, tripVars, scans, matStep, resume>>

\* A small step towards the centre; after a lighter reading, or the last step, the
\* next scan.
MatStep ==
  /\ pc = "mat_step"
  /\ \/ Refused(MAT_BLOCK, 0) \/ Runaway(TRUE, MAT_BLOCK, 0)
     \/ /\ Affordable(translation_cost(MAT_BLOCK))
        /\ \E actual \in 1..(MAT_BLOCK + BLOCK_RESERVE), result \in PayloadResults :
             /\ Expected(MAT_BLOCK, actual) /\ Drive(TRUE, actual)
             /\ check_payload(result)
             /\ LET depth == IF available' THEN lastDepth' ELSE -1 IN
                /\ previousDepth' = depth
                /\ resume' = IF depth < previousDepth \/ matStep = MAT_STEPS_PER_SCAN
                               THEN "mat" ELSE "mat_step"
                /\ Outcome(result, UnlessArrived(resume'))
        /\ matStep' = matStep + 1 /\ retry' = 1
        /\ UNCHANGED <<position, lineVars, tripVars, scans>>

-----------------------------------------------------------------------------
(* STOP, the run limit, a report that cannot be saved, a gyro, motor or radio *)
(* failure: every call that can meet one returns FATAL.                      *)
RunStops ==
  /\ pc # "done" /\ End("FATAL")
  /\ UNCHANGED <<travelVars, lineVars, tripVars, matVars, colourVars>>

Program ==
  \/ FirstCheck \/ SampleMissing \/ FirstSample \/ InitialSample
  \/ Baseline \/ FollowMove \/ FollowPoint \/ Recheck \/ Probe \/ DipMeasured \/ Return \/ Returned
  \/ MatScan \/ MatTurned \/ MatWait \/ MatStep

Next == Program \/ RunStops

\* The program is one thread that never waits for an event for ever.
Spec == Init /\ [][Next]_vars /\ WF_vars(Program)

-----------------------------------------------------------------------------
(* Properties                                                               *)

\* Every variable has its type and the unsigned differences the code takes,
\* position - best_position and the like, never wrap.
ApproachTypeOK ==
  /\ ColourTypeOK
  /\ sampleNo \in 1..2 /\ missing \in 0..(MAX_MISSING_SAMPLES - 1)
  /\ translation \in 0..(TRANSLATION + BLOCK_RESERVE + 1) /\ net \in Int /\ position \in Nat
  /\ bestPosition \in 0..position
  /\ after # "baseline" => lastDecline \in 0..position /\ segmentStart \in 0..position
  /\ remaining \in Nat /\ probe \in 0..DIP_MAX_PROBES
  /\ scans \in 0..MAT_MAX_SCANS /\ matStep \in 0..(MAT_STEPS_PER_SCAN + 1)
  /\ profileCount \in 0..PROFILE_CAPACITY /\ declines \in 0..DECLINE_POSITIONS

\* The robot is on a line it may have to reverse: from its baseline to its return.
OnLine ==
  \/ pc \in {"follow", "recheck", "probe", "return"}
  \/ pc = "measure" /\ after \in {"follow", "dip"}

\* Whatever the blocks really took, the budget still covers the way back, so no
\* return is ever refused half-way (reserve_translation and the reserves of
\* follow_direction, recheck_and_probe_dip and return_along_line).
ReturnAffordable ==
  OnLine => Affordable(translation_cost(IF pc = "return" THEN remaining ELSE position - bestPosition))

\* A return ends at the point it set out for, past it by one overrun at most,
\* however the travel was cut into blocks (return_along_line).
BackWhereItWas ==
  pc = "measure" =>
    /\ after = "returned" => net \in (bestPosition - BLOCK_RESERVE)..bestPosition
    /\ after = "trial_returned" => net \in (-BLOCK_RESERVE)..0

\* The reference for a decline never follows a deterioration down, over any number of
\* positions: it is at least as strong as every reference the line has had, and what
\* was a decline from one of those is a decline from it, unless it is itself noisier
\* (follow_direction).
ReferenceHolds ==
  OnLine => \A earlier \in references :
    /\ Weakest(reference) <= Weakest(earlier)
    /\ \A current \in Readings :
         line_reference_declined(earlier, current) =>
           line_reference_declined(reference, current) \/ Spread(reference) > Spread(earlier)

\* Progress is a confirmed improvement of the retained best point on the line's own
\* baseline; without it the best point is still the start (follow_direction).
ProgressIsReal ==
  OnLine => IF progress THEN line_compare(baseline, best) > 0 ELSE best = baseline /\ bestPosition = 0

\* A line is given up only on DECLINE_POSITIONS weak positions with no other reading
\* but weak ones since the first, all past the best point, each at least the step then
\* in force past the one before it - never several readings of one place - and all
\* judged by one frozen reference (follow_direction).
DeclineSpansSteps ==
  pc = "recheck" =>
    /\ Len(counted) = DECLINE_POSITIONS
    /\ \A i \in 1..Len(counted) :
         /\ counted[i].at > bestPosition /\ counted[i].against = reference
         /\ i > 1 => counted[i].at - counted[i - 1].at >= counted[i].step

\* The approach gives up for want of a direction only after a complete search: every
\* side was tried in a row from one best point, and no line among them gained
\* (check_directions, approach_beacon).
TriesEveryDirection == fault = "NO_DIRECTION" => fruitless = SEARCH_DIRECTIONS

\* With a sensor that works the payload is collected only on the arrival ring, after
\* a lighter ring was seen before that check (check_payload, colour_arrival_check).
CollectsAtTheCentre ==
  outcome = "COMPLETE" /\ available => arrived /\ lighterSeen /\ onMat /\ lastDepth >= ARRIVAL_DEPTH

\* Colour steering makes no step while the latest check says it has arrived
\* (mat_approach, mat_wait_on_arrival).
SteeringStopsOnArrival == [][pc = "mat_step" /\ translation' # translation => ~arrived]_vars

\* README.md says it of the whole run: having arrived, with AP1 out of range, the
\* robot never drives on.
NeverDrivesOnFromArrival == [][translation' > translation /\ net' > net => ~arrived]_vars

\* The approach always ends (approach_beacon).
ApproachEnds == <>(pc = "done")
=============================================================================
