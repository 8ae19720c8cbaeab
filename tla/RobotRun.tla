------------------------------ MODULE RobotRun ------------------------------
(***************************************************************************)
(* One run of the robot: main() of src/getting_there/getting_there.c with  *)
(* the calls by which its approach shares the flash, the radio, the motors *)
(* and the buzzer.  The Wi-Fi sampler and the buzzer are the modules that  *)
(* it extends; a turn or a drive, a BLE attempt and a flash write are one  *)
(* state each (Motion, PayloadClient and RunReport show their insides).    *)
(* Where the approach decides by RSSI or colour, any decision is allowed   *)
(* (Approach shows how it decides); what it calls, and in which order, is  *)
(* kept.                                                                   *)
(*                                                                         *)
(* pc is the statement the foreground has come to; then holds, for each    *)
(* function being called, the label after it.                              *)
(***************************************************************************)
EXTENDS WifiSampler, Buzzer

CONSTANTS MAX_PAYLOAD_ATTEMPTS, MAX_MISSING_SAMPLES

RunAssumption == MAX_PAYLOAD_ATTEMPTS \in Nat \ {0} /\ MAX_MISSING_SAMPLES \in Nat \ {0}
ASSUME RunAssumed == RunAssumption

VARIABLES
  pc, then,
  powered,                                   \* the motors
  stopArmed, stop,                           \* GP21 and its latch
  timeUp,                                    \* MAX_RUN_MS have passed
  reportOk, recording, imuReady, radioOn,
  bleActive,                                 \* BLE has something to settle
  wifiQuiescent, blockOk,
  wasClose, attempt, bleResult, inRangeCue,  \* check_payload
  missingTries                               \* wait_for_wifi

startVars == <<stopArmed, recording, imuReady, radioOn>>
payloadVars == <<wasClose, attempt, bleResult, inRangeCue, bleActive>>
blockVars == <<wifiQuiescent, blockOk>>
wifiVars == <<samplerVars, scanActive>>
eventVars == <<stop, timeUp>>
runVars == <<pc, then, powered, here, reportOk, missingTries, startVars, payloadVars, blockVars,
             wifiVars, eventVars, buzzerVars>>

NoCall == [payload |-> "none", save |-> "none", wifi |-> "none", turn |-> "none"]

\* The banner is out, GP20 has not been pressed; motion_init has had its first try.
RunInit ==
  /\ SamplerInit /\ BuzzerInit
  /\ pc = "boot" /\ then = NoCall /\ powered = FALSE
  /\ stopArmed = FALSE /\ stop = FALSE /\ timeUp = FALSE
  /\ reportOk = TRUE /\ recording = FALSE /\ imuReady \in BOOLEAN /\ radioOn = FALSE
  /\ bleActive = FALSE /\ wifiQuiescent = TRUE /\ blockOk = TRUE
  /\ wasClose = FALSE /\ attempt = 0 /\ bleResult = "none" /\ inRangeCue = FALSE
  /\ missingTries = 0

-----------------------------------------------------------------------------
(* Building blocks                                                          *)

CanContinue_Endless == ~stop /\ reportOk
\* run_can_continue.
CanContinue == ~stop /\ reportOk /\ ~timeUp

\* approach_beacon, or the start before it, is given up.
Fails == pc' = "failed" /\ UNCHANGED then
Goto(label) == pc' = label /\ UNCHANGED then
Call(function, label) ==
  /\ pc' = function
  /\ then' = [then EXCEPT ![function] = label]
Return(function) ==
  /\ pc' = then[function]
  /\ then' = [then EXCEPT ![function] = "none"]

motion_stop == powered' = FALSE
Elsewhere == here' = (here + 1) % PLACES

\* What most steps leave alone.
NoWifi == UNCHANGED <<wifiVars, here>>
NoCue == UNCHANGED buzzerVars
NoMotion == UNCHANGED <<powered, blockVars>>
NoPayload == UNCHANGED <<payloadVars, missingTries>>
NoStart == UNCHANGED <<startVars, reportOk, eventVars>>

\* motion_turn_to_heading: nothing to do, refused by STOP, or motors on.
Turn(label) ==
  /\ UNCHANGED blockVars
  /\ \/ ~stop /\ Goto(label) /\ UNCHANGED powered
     \/ stop /\ Fails /\ UNCHANGED powered
     \/ ~stop /\ Call("turn", label) /\ powered' = TRUE

-----------------------------------------------------------------------------
(* main() up to approach_beacon                                             *)

\* GP20; with GP21 held the start is cancelled.
Start ==
  /\ pc = "boot" /\ stopArmed' = TRUE /\ stop' \in BOOLEAN
  /\ IF stop' THEN Fails /\ NoCue ELSE Goto("begin") /\ cue_play("start")
  /\ UNCHANGED <<recording, imuReady, radioOn, reportOk, timeUp>> /\ NoWifi /\ NoMotion /\ NoPayload

\* report_begin writes the flash, and fails if the report already has.
Begin ==
  /\ pc = "begin" /\ recording' \in {FALSE, reportOk} /\ reportOk' = recording'
  /\ IF recording' THEN Goto("release") ELSE Fails
  /\ UNCHANGED <<stopArmed, imuReady, radioOn, eventVars>>
  /\ NoWifi /\ NoCue /\ NoMotion /\ NoPayload

\* wait_start_release ends; an IMU that was not ready is tried once more.
Released ==
  /\ pc = "release"
  /\ \/ /\ imuReady' \in (IF imuReady THEN {TRUE} ELSE BOOLEAN)
        /\ IF imuReady' /\ ~stop THEN Goto("calibrating") /\ cue_play("calibrating")
                                 ELSE Fails /\ NoCue
     \/ Fails /\ NoCue /\ UNCHANGED imuReady
  /\ UNCHANGED <<stopArmed, recording, radioOn, reportOk, eventVars>>
  /\ NoWifi /\ NoMotion /\ NoPayload

Calibrated ==
  /\ pc = "calibrating" /\ cue_stop
  /\ \/ ~stop /\ Goto("radio")
     \/ Fails
  /\ NoStart /\ NoWifi /\ NoMotion /\ NoPayload

RadioStarts ==
  /\ pc = "radio" /\ radioOn' \in BOOLEAN
  /\ IF radioOn' THEN Goto("bluetooth") ELSE Fails
  /\ UNCHANGED <<stopArmed, recording, imuReady, reportOk, eventVars>>
  /\ NoWifi /\ NoCue /\ NoMotion /\ NoPayload

\* The wait for Bluetooth ends and approach_beacon begins.
BluetoothStarts ==
  /\ pc = "bluetooth"
  /\ \/ ~stop /\ Call("payload", "initial") /\ wifi_sampler_init /\ UNCHANGED <<scanActive, here>>
     \/ Fails /\ NoWifi
  /\ NoStart /\ NoCue /\ NoMotion /\ NoPayload

-----------------------------------------------------------------------------
(* save_checkpoint                                                          *)

\* Whoever waits for the radio: the scan is over and collected, or it is given up.
Quiesces(done) ==
  /\ UNCHANGED <<scanActive, here>>
  /\ \/ samplerFailed /\ Fails /\ UNCHANGED samplerVars
     \/ sampler_quiesced /\ IF reportOk THEN done ELSE Fails /\ UNCHANGED readings
     \/ sampler_gives_up /\ Fails

Save ==
  /\ pc = "save" /\ motion_stop
  /\ IF wifiQuiescent THEN Quiesces(Goto("flash") /\ UNCHANGED readings) ELSE Fails /\ NoWifi
  /\ UNCHANGED blockVars /\ NoStart /\ NoCue /\ NoPayload

\* report_checkpoint writes the flash; a report that has failed stays failed.
Flash ==
  /\ pc = "flash"
  /\ \/ reportOk /\ Return("save") /\ UNCHANGED reportOk
     \/ Fails /\ reportOk' = FALSE
  /\ UNCHANGED <<startVars, eventVars>> /\ NoWifi /\ NoCue /\ NoMotion /\ NoPayload

-----------------------------------------------------------------------------
(* check_payload                                                            *)

Payload ==
  /\ pc = "payload" /\ IF CanContinue THEN Call("save", "gate") ELSE Fails
  /\ NoStart /\ NoWifi /\ NoCue /\ NoMotion /\ NoPayload

NotClose == Return("payload") /\ wasClose' = FALSE /\ attempt' = 0

\* Away from the mat a working colour sensor lets no attempt happen.
Gate ==
  /\ pc = "gate"
  /\ \/ ~wasClose /\ NotClose /\ UNCHANGED bleActive
     \/ Goto("ble") /\ bleActive' = TRUE /\ UNCHANGED <<wasClose, attempt>>
  /\ UNCHANGED <<bleResult, inRangeCue, missingTries>>
  /\ NoStart /\ NoWifi /\ NoCue /\ NoMotion

\* on_in_range, from the attempt.
InRange ==
  /\ pc = "ble" /\ ~inRangeCue /\ inRangeCue' = TRUE /\ cue_play("in_range")
  /\ UNCHANGED <<pc, then, wasClose, attempt, bleResult, bleActive, missingTries>>
  /\ NoStart /\ NoWifi /\ NoMotion

SavesAfter_Always(result) == TRUE
SavesAfter(result) == result # "FATAL"

\* The attempt returns.  Only a fatal one may leave BLE unsettled (ReleasesRadio
\* in PayloadClient_proofs), and its tail is saved once the radio is off.
BleEnds ==
  /\ pc = "ble" /\ bleResult' \in {"COMPLETE", "NOT_CLOSE", "RETRY", "FATAL"}
  /\ bleActive' \in (IF bleResult' = "FATAL" THEN BOOLEAN ELSE {FALSE})
  /\ inRangeCue' = FALSE /\ IF inRangeCue THEN cue_stop ELSE NoCue
  /\ IF SavesAfter(bleResult') THEN Call("save", "answer") ELSE Fails
  /\ UNCHANGED <<wasClose, attempt, missingTries>> /\ NoStart /\ NoWifi /\ NoMotion

Answer ==
  /\ pc = "answer" /\ bleResult' = "none"
  /\ \/ bleResult = "COMPLETE" /\ Goto("completed") /\ UNCHANGED <<wasClose, attempt>>
     \/ bleResult = "FATAL" /\ Fails /\ UNCHANGED <<wasClose, attempt>>
     \/ bleResult = "NOT_CLOSE" /\ ~wasClose /\ NotClose
     \/ /\ bleResult = "RETRY" \/ (bleResult = "NOT_CLOSE" /\ wasClose)
        /\ wasClose' = TRUE /\ attempt' = attempt + 1
        /\ IF attempt' < MAX_PAYLOAD_ATTEMPTS /\ ~stop THEN Goto("payload") ELSE Fails
  /\ UNCHANGED <<inRangeCue, bleActive, missingTries>>
  /\ NoStart /\ NoWifi /\ NoCue /\ NoMotion

-----------------------------------------------------------------------------
(* wait_for_wifi and wifi_sampler_sample                                    *)

WaitForWifi(label) == Call("wifi", label) /\ missingTries' = 0

Sample ==
  /\ pc = "wifi" /\ motion_stop /\ Quiesces(Goto("scan") /\ readings' = <<>>)
  /\ UNCHANGED blockVars /\ NoStart /\ NoCue /\ NoPayload

Scan ==
  /\ pc = "scan" /\ UNCHANGED here
  /\ IF MayBegin /\ CanContinue
       THEN \/ sampler_begin_ok /\ Goto("scanning")
            \/ sampler_begin_refused /\ Fails
       ELSE Fails /\ UNCHANGED wifiVars
  /\ NoStart /\ NoCue /\ NoMotion /\ NoPayload

Scanned ==
  /\ pc = "scanning" /\ motion_stop
  /\ Quiesces(/\ readings' = Append(readings, pendingResult)
              /\ Goto(IF Len(readings') = SCANS_PER_SAMPLE THEN "sampled" ELSE "scan"))
  /\ UNCHANGED blockVars /\ NoStart /\ NoCue /\ NoPayload

Sampled ==
  /\ pc = "sampled" /\ IF CanContinue THEN Call("save", "heard") ELSE Fails
  /\ NoStart /\ NoWifi /\ NoCue /\ NoMotion /\ NoPayload

\* A beacon that is missing is looked for over BLE before the next sample.
Heard ==
  /\ pc = "heard" /\ readings' = <<>>
  /\ IF SampleMissing THEN Call("payload", "missing") ELSE Return("wifi")
  /\ UNCHANGED <<scanOpen, samplerFailed, identity, scanId, position, pendingResult, scanActive, here>>
  /\ NoStart /\ NoCue /\ NoMotion /\ NoPayload

StillMissing ==
  /\ pc = "missing" /\ missingTries' = missingTries + 1
  /\ IF missingTries' < MAX_MISSING_SAMPLES /\ ~stop THEN Goto("wifi") ELSE Fails
  /\ UNCHANGED payloadVars /\ NoStart /\ NoWifi /\ NoCue /\ NoMotion

-----------------------------------------------------------------------------
(* translate_block                                                          *)

\* reserve_translation, then the checkpoint before the block.
Block == IF CanContinue THEN Call("save", "drive") \/ Fails ELSE Fails

Drive ==
  /\ pc = "drive" /\ set_position /\ UNCHANGED blockOk
  /\ \/ ~stop /\ Goto("driving") /\ powered' = TRUE /\ wifiQuiescent' = FALSE
     \/ Fails /\ UNCHANGED <<powered, wifiQuiescent>>
  /\ UNCHANGED <<scanOpen, samplerFailed, identity, scanId, pendingResult, readings, scanActive, here>>
  /\ NoStart /\ NoCue /\ NoPayload

\* The block is over, for whatever reason; the robot settles.
DriveEnds ==
  /\ pc = "driving" /\ motion_stop /\ blockOk' \in BOOLEAN /\ Elsewhere /\ Goto("settled")
  /\ UNCHANGED <<wifiQuiescent, wifiVars>> /\ NoStart /\ NoCue /\ NoPayload

Settled ==
  /\ pc = "settled" /\ motion_stop
  /\ Quiesces(/\ UNCHANGED readings
              /\ IF blockOk /\ CanContinue THEN Call("payload", "stopped") ELSE Fails)
  /\ wifiQuiescent' = (~samplerFailed' /\ reportOk)
  /\ blockOk' = TRUE
  /\ NoStart /\ NoCue /\ NoPayload

TurnEnds ==
  /\ pc = "turn" /\ motion_stop /\ Elsewhere
  /\ Return("turn") \/ Fails
  /\ UNCHANGED <<blockVars, wifiVars>> /\ NoStart /\ NoCue /\ NoPayload

-----------------------------------------------------------------------------
(* approach_beacon, follow_direction and mat_approach                       *)

\* A step of the approach that calls nothing but what is said.
Approaches == NoStart /\ NoPayload

\* The first sample, and the turn that learns the gyro's direction.
Initial ==
  /\ pc = "initial" /\ WaitForWifi("learn")
  /\ UNCHANGED payloadVars /\ NoStart /\ NoWifi /\ NoCue /\ NoMotion
Learn == pc = "learn" /\ Turn("choose") /\ Approaches /\ NoWifi /\ NoCue

\* Between two directions: a line by Wi-Fi, the mat by colour, or no way to go.
Choose ==
  /\ pc = "choose" /\ Approaches /\ NoWifi
  /\ \/ cue_play("pass") /\ Turn("aimed")
     \/ CanContinue /\ cue_play("pass") /\ Goto("mat") /\ NoMotion
     \/ Fails /\ NoCue /\ NoMotion

\* measure_pair at the position just set.
Measure ==
  /\ pc \in {"aimed", "stopped"} /\ set_position /\ WaitForWifi("second")
  /\ UNCHANGED <<scanOpen, samplerFailed, identity, scanId, pendingResult, readings, scanActive, here>>
  /\ UNCHANGED payloadVars /\ NoStart /\ NoCue /\ NoMotion
SecondOfPair ==
  /\ pc \in {"second", "recheck"} /\ WaitForWifi(IF pc = "second" THEN "measured" ELSE "second")
  /\ UNCHANGED payloadVars /\ NoStart /\ NoWifi /\ NoCue /\ NoMotion

\* The pair is recorded, or was only compared after a return.
Measured ==
  /\ pc = "measured" /\ (Call("save", "line") \/ Goto("choose"))
  /\ Approaches /\ NoWifi /\ NoCue /\ NoMotion

\* On a line: the next block, a recheck of a decline, or the direction is over.
OnLine ==
  /\ pc = "line" /\ Approaches /\ NoWifi /\ NoCue /\ NoMotion
  /\ \/ Block
     \/ Call("payload", "recheck")
     \/ Goto("choose")
     \/ ~CanContinue /\ Fails

\* After a block's check_payload: another one, as on the way back and on the mat,
\* or the next direction.  Measure is the third way on.
Stopped ==
  /\ pc = "stopped" /\ Approaches /\ NoWifi /\ NoCue /\ NoMotion
  /\ Block \/ Goto("choose") \/ (~stop /\ Call("payload", "mat_stopped"))

\* mat_approach and colour_scan_turn: turn by turn, the log saved at each without
\* going through save_checkpoint.
MatTurn ==
  /\ pc = "mat" /\ Approaches /\ NoWifi /\ NoCue
  /\ \/ CanContinue /\ Turn("mat_read")
     \/ ~CanContinue /\ Fails /\ NoMotion
MatRead ==
  /\ pc = "mat_read" /\ Approaches /\ NoWifi /\ NoCue /\ NoMotion
  /\ \/ stop /\ Fails
     \/ ~stop /\ Goto("choose")
     \/ ~stop /\ pc' = "flash" /\ then' = [then EXCEPT !.save = "mat_scanned"]
MatScanned ==
  /\ pc = "mat_scanned" /\ Approaches /\ NoWifi /\ NoCue
  /\ \/ Goto("mat") /\ NoMotion
     \/ Goto("choose") /\ NoMotion
     \/ Turn("mat_aimed")
MatAimed ==
  /\ pc = "mat_aimed" /\ Call("payload", "mat_stopped")
  /\ Approaches /\ NoWifi /\ NoCue /\ NoMotion
\* mat_wait_on_arrival asks BLE again; otherwise the steps begin.
MatStopped ==
  /\ pc = "mat_stopped" /\ Approaches /\ NoWifi /\ NoCue /\ NoMotion
  /\ Block \/ (~stop /\ Call("payload", "mat_stopped")) \/ Goto("mat") \/ Fails

-----------------------------------------------------------------------------
(* The end of main()                                                        *)

\* completion_sound: the beeps, unless STOP comes first or cuts them short.
Completed ==
  /\ pc = "completed" /\ motion_stop
  /\ IF stop THEN Goto("report") /\ NoCue ELSE Goto("beeping") /\ cue_play("collected")
  /\ UNCHANGED blockVars /\ NoStart /\ NoWifi /\ NoPayload
Beeped ==
  /\ pc = "beeping" /\ (~playing \/ stop)
  /\ Goto("report") /\ IF playing THEN cue_stop ELSE NoCue
  /\ NoStart /\ NoWifi /\ NoMotion /\ NoPayload

Failed ==
  /\ pc = "failed" /\ motion_stop /\ cue_play("fault") /\ pc' = "report" /\ then' = NoCall
  /\ UNCHANGED blockVars /\ NoStart /\ NoWifi /\ NoPayload

\* cyw43_arch_deinit ends whatever the radio was still doing.
RadioAfter == radioOn' = FALSE /\ scanActive' = FALSE /\ bleActive' = FALSE
Report ==
  /\ pc = "report" /\ motion_stop /\ RadioAfter
  /\ Goto(IF recording THEN "finish" ELSE "ended")
  /\ UNCHANGED <<stopArmed, recording, imuReady, reportOk, samplerVars, here, wasClose, attempt,
                 bleResult, inRangeCue, missingTries, blockVars, eventVars, buzzerVars>>

\* report_finish writes the flash; nothing moves again.
Finish ==
  /\ pc = "finish" /\ Goto("ended") /\ reportOk' \in {reportOk, FALSE}
  /\ UNCHANGED <<startVars, eventVars>> /\ NoWifi /\ NoCue /\ NoMotion /\ NoPayload

\* The loops before GP20 and after the run only replay the saved log.
Replays == pc \in {"boot", "ended"} /\ UNCHANGED runVars

-----------------------------------------------------------------------------
(* Meanwhile                                                                *)

Foregrounds == UNCHANGED <<pc, then, powered, reportOk, missingTries, startVars, payloadVars, blockVars>>

StopPressed ==
  /\ stopArmed /\ ~stop /\ pc # "ended" /\ stop' = TRUE
  /\ UNCHANGED timeUp /\ Foregrounds /\ NoWifi /\ NoCue
\* The run's clock starts with the approach, after the radio.
RunLimit ==
  /\ radioOn /\ pc # "bluetooth" /\ ~timeUp /\ timeUp' = TRUE
  /\ UNCHANGED stop /\ Foregrounds /\ NoWifi /\ NoCue
\* A line of the run, of the foreground's or of a callback's, no longer fits the pending text.
LogOverflows ==
  /\ pc \notin {"boot", "ended"} /\ reportOk /\ reportOk' = FALSE
  /\ UNCHANGED <<pc, then, startVars, eventVars>> /\ NoMotion /\ NoPayload /\ NoWifi /\ NoCue
ScanResult ==
  /\ \E ap \in AccessPoints : sampler_result(ap)
  /\ Foregrounds /\ UNCHANGED <<eventVars, scanActive, here>> /\ NoCue
ScanDone ==
  /\ scanActive /\ scanActive' = FALSE
  /\ Foregrounds /\ UNCHANGED <<eventVars, samplerVars, here>> /\ NoCue
NextNote == (\E a \in pendingAlarms : next_note(a)) /\ Foregrounds /\ UNCHANGED eventVars /\ NoWifi

StartUp == Start \/ Begin \/ Released \/ Calibrated \/ RadioStarts \/ BluetoothStarts
Foreground ==
  \/ Save \/ Flash \/ Payload \/ Gate \/ BleEnds \/ Answer
  \/ Sample \/ Scan \/ Scanned \/ Sampled \/ Heard \/ StillMissing
  \/ Drive \/ DriveEnds \/ Settled \/ TurnEnds
  \/ Initial \/ Learn \/ Choose \/ Measure \/ SecondOfPair \/ Measured \/ OnLine \/ Stopped
  \/ MatTurn \/ MatRead \/ MatScanned \/ MatAimed \/ MatStopped
  \/ Completed \/ Beeped \/ Failed \/ Report \/ Finish

Next ==
  \/ StartUp \/ Foreground \/ InRange \/ Replays
  \/ StopPressed \/ RunLimit \/ LogOverflows \/ ScanResult \/ ScanDone \/ NextNote

\* Once GP20 is pressed the foreground goes on, time passes and alarms are due;
\* nobody has to press a button, and the radio may never finish a scan.
Spec ==
  /\ RunInit /\ [][Next]_runVars
  /\ WF_runVars((pc # "boot" /\ StartUp) \/ Foreground)
  /\ WF_runVars(RunLimit) /\ WF_runVars(NextNote)

-----------------------------------------------------------------------------
(* Properties                                                               *)

\* The flash is written only with the motors off, no scan running and nothing of
\* BLE unsettled; BLE and scans never share the radio or the robot's movement.
\* save_checkpoint (getting_there.c:43), line 96 and colour_scan_turn's own
\* checkpoint (line 308) have to see to it together.
QuietRadio ==
  /\ pc \in {"begin", "flash", "finish"} => ~powered /\ ~scanActive /\ ~bleActive
  /\ bleActive => ~powered /\ ~scanActive
  /\ scanActive => ~powered

\* Once started, a run ends and stays ended: the motors off, the radio shut down,
\* no pattern left repeating, whatever the signal and the radio do.
Ended == pc = "ended" /\ ~powered /\ ~radioOn /\ ~scanActive /\ ~bleActive /\ ~playing
EndsQuietly == <>[](pc = "boot" \/ Ended)
=============================================================================
