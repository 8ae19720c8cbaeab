-------------------------- MODULE RobotRun_proofs --------------------------
(***************************************************************************)
(* A run keeps the flash, the radio, the motors and the buzzer apart, and  *)
(* every Wi-Fi reading belongs where it is recorded, for any number of     *)
(* access points, scans, attempts and alarms.                              *)
(***************************************************************************)
EXTENDS RobotRun, TLAPS

-----------------------------------------------------------------------------
(* The inductive invariant                                                  *)

\* Where the four functions that are called from several places return to.
StackOK ==
  then \in [payload : {"none", "initial", "missing", "recheck", "stopped", "mat_stopped"},
            save : {"none", "gate", "answer", "heard", "drive", "line", "mat_scanned"},
            wifi : {"none", "learn", "measured", "second"},
            turn : {"none", "choose", "aimed", "mat_read", "mat_aimed"}]

\* Power, a scan and BLE are each confined to their own statements, and to the end
\* of a run that failed in one of them.
RadioOK ==
  /\ powered => pc \in {"turn", "driving"}
  /\ scanActive => (pc = "scanning" /\ scanOpen) \/ pc \in {"failed", "report"}
  /\ scanOpen => pc \in {"scanning", "failed", "report", "finish", "ended"}
  /\ pc = "scanning" => scanOpen
  /\ bleActive => pc \in {"ble", "failed", "report"} /\ ~scanActive

\* Before the approach; in a save; in check_payload or a save it has called.
Starting == pc \in {"boot", "begin", "release", "calibrating", "radio", "bluetooth"}
Saving(label) == pc \in {"save", "flash"} /\ then.save = label
InPayload == pc \in {"payload", "gate", "ble", "answer"} \/ Saving("gate") \/ Saving("answer")

\* The statements that may still sample where the position was last set.
Located ==
  \/ pc \in {"initial", "wifi", "scan", "scanning", "sampled", "heard", "missing",
             "second", "measured", "line", "recheck"}
  \/ Saving("heard") \/ Saving("line")
  \/ InPayload /\ then.payload \in {"initial", "missing", "recheck"}

\* The statements that may hold the readings of a sample, or of one given up.
Sampling ==
  \/ pc \in {"scan", "scanning", "sampled", "heard", "failed", "report", "finish", "ended"}
  \/ Saving("heard")

Result == [scan : Nat, position : Nat, heardIn : Nat, heardAt : Nat,
           from : AccessPoints \cup {"none"}]

SampleOK ==
  /\ here \in Nat /\ position \in Nat /\ scanId \in Nat /\ identity \in AccessPoints \cup {"none"}
  /\ pendingResult \in Result /\ readings \in Seq(Result)
  /\ Starting => here = 0
  /\ Located => position = here
  /\ readings # <<>> => Sampling

\* What an open scan has heard so far is this scan's, heard here, and from the access
\* point that the run follows or will follow.
PendingOK ==
  pc = "scanning" =>
    /\ pendingResult.scan = scanId /\ pendingResult.position = position
    /\ Valid(pendingResult) => /\ pendingResult.heardIn = scanId /\ pendingResult.heardAt = here
                               /\ identity \in {"none", pendingResult.from}

\* A pattern that plays is at one of its notes.
BuzzerOK ==
  /\ cue \in DOMAIN Cues
  /\ playing \in BOOLEAN
  /\ playing => noteIndex \in 1..Len(Notes(cue))
  /\ OneAlarm

IInv == StackOK /\ RadioOK /\ SampleOK /\ PendingOK /\ ReadingsAreOurs /\ BuzzerOK

-----------------------------------------------------------------------------
(* The buzzer                                                               *)

LEMMA SoundIsNotes ==
  ASSUME NEW n \in Nat
  PROVE  /\ Sound(n) \in Seq(BOOLEAN) /\ Len(Sound(n)) = n
         /\ \A i \in 1..n : Sound(n)[i] \in BOOLEAN
<1>1. Sound(n) = [i \in 1..n |-> i % 2 = 1]
  BY DEF Sound
<1>2. Sound(n) \in [1..n -> BOOLEAN]
  BY <1>1
<1> QED
  BY <1>1, <1>2

\* Every cue has notes to step through, and a repeat goes back to one of them.
LEMMA CuesHaveNotes ==
  ASSUME NEW c \in DOMAIN Cues
  PROVE  /\ Len(Notes(c)) \in Nat
         /\ \A i \in 1..Len(Notes(c)) : Notes(c)[i] \in BOOLEAN
         /\ Cues[c].repeat => Cues[c].from \in 1..Len(Notes(c))
         /\ Notes(c) # <<>> => Len(Notes(c)) > 0
<1>1. c \in {"none", "start", "calibrating", "pass", "in_range", "collected", "fault"}
  BY DEF Cues
<1>2. CASE c = "none"
  BY <1>2 DEF Cues, Notes, Once
<1>3. CASE c \in {"start", "pass"}
  <2>1. Notes(c) = Sound(1) /\ ~Cues[c].repeat
    BY <1>3 DEF Cues, Notes, Once
  <2> QED
    BY <2>1, SoundIsNotes
<1>4. CASE c = "calibrating"
  <2>1. Notes(c) = Sound(1) /\ Cues[c].from = 1
    BY <1>4 DEF Cues, Notes
  <2> QED
    BY <2>1, SoundIsNotes
<1>5. CASE c = "in_range"
  <2>1. Notes(c) = Sound(12) /\ Cues[c].from = 11
    BY <1>5 DEF Cues, Notes
  <2>2. Len(Notes(c)) = 12 /\ \A i \in 1..12 : Notes(c)[i] \in BOOLEAN
    BY <2>1, SoundIsNotes
  <2> QED
    BY <2>1, <2>2, SMTT(30)
<1>6. CASE c \in {"collected", "fault"}
  <2>1. Notes(c) = Sound(5) /\ ~Cues[c].repeat
    BY <1>6 DEF Cues, Notes, Once
  <2> QED
    BY <2>1, SoundIsNotes
<1> QED
  BY <1>1, <1>2, <1>3, <1>4, <1>5, <1>6

\* A new pattern cancels the old alarm before it takes its own (start_pattern).
LEMMA StartKeepsBuzzer ==
  ASSUME BuzzerOK, NEW c \in DOMAIN Cues, start_pattern(c)
  PROVE  BuzzerOK'
<1>1. Cancelled = {}
  BY DEF BuzzerOK, OneAlarm, Cancelled
<1>2. cue' = c /\ noteIndex' = 1
  BY DEF start_pattern
<1>3. CASE /\ Notes(c) # <<>>
           /\ \E a \in Alarms \ Cancelled : alarm' = a /\ pendingAlarms' = Cancelled \cup {a}
           /\ playing' = TRUE /\ tone' = Notes(c)[1]
  <2>1. pendingAlarms' = {alarm'} /\ playing' = TRUE /\ tone' = Notes(c)[1]
    BY <1>1, <1>3
  <2>2. Len(Notes(c)) \in Nat /\ Len(Notes(c)) > 0 /\ Notes(c)[1] \in BOOLEAN
    BY <1>3, CuesHaveNotes
  <2>3. noteIndex' \in 1..Len(Notes(cue'))
    BY <1>2, <2>2
  <2>4. OneAlarm'
    <3>1. pendingAlarms' = IF playing' THEN {alarm'} ELSE {}
      BY <2>1
    <3>2. tone' = (playing' /\ Notes(cue')[noteIndex'])
      BY <1>2, <2>1, <2>2, Zenon
    <3> QED
      BY <3>1, <3>2 DEF OneAlarm, Notes
  <2> QED
    BY <1>2, <2>1, <2>3, <2>4 DEF BuzzerOK, Notes, Cues
<1>4. CASE /\ alarm' = 0 /\ pendingAlarms' = Cancelled
           /\ playing' = FALSE /\ tone' = FALSE
  BY <1>1, <1>2, <1>4, Zenon DEF BuzzerOK, OneAlarm, Cues
<1> QED
  BY <1>3, <1>4 DEF start_pattern

LEMMA NoteKeepsBuzzer ==
  ASSUME BuzzerOK, NEW a \in pendingAlarms, next_note(a)
  PROVE  BuzzerOK'
<1>1. /\ playing = TRUE /\ a = alarm /\ pendingAlarms = {alarm}
      /\ cue \in DOMAIN Cues /\ noteIndex \in 1..Len(Notes(cue)) /\ cue' = cue
  BY DEF BuzzerOK, OneAlarm, next_note
<1>2. /\ Len(Notes(cue)) \in Nat
      /\ \A i \in 1..Len(Notes(cue)) : Notes(cue)[i] \in BOOLEAN
      /\ Cues[cue].repeat => Cues[cue].from \in 1..Len(Notes(cue))
  BY <1>1, CuesHaveNotes
<1>3. CASE LastNote /\ ~Cues[cue].repeat
  <2>1. tone' = FALSE /\ playing' = FALSE /\ pendingAlarms' = {}
    BY <1>1, <1>3 DEF next_note
  <2> QED
    BY <1>1, <2>1, Zenon DEF BuzzerOK, OneAlarm, Cues
<1>4. CASE ~(LastNote /\ ~Cues[cue].repeat)
  <2>1. /\ noteIndex' = IF LastNote THEN Cues[cue].from ELSE noteIndex + 1
        /\ tone' = Notes(cue)[noteIndex'] /\ UNCHANGED <<playing, alarm, pendingAlarms>>
    BY <1>4 DEF next_note
  <2>2. noteIndex' \in 1..Len(Notes(cue))
    BY <1>1, <1>2, <1>4, <2>1 DEF LastNote
  <2>3. Notes(cue)[noteIndex'] \in BOOLEAN
    BY <1>2, <2>2
  <2>4. playing' = TRUE /\ alarm' = alarm /\ pendingAlarms' = {alarm}
    BY <1>1, <2>1
  <2>5. OneAlarm'
    <3>1. pendingAlarms' = IF playing' THEN {alarm'} ELSE {}
      BY <2>4
    <3>2. tone' = (playing' /\ Notes(cue')[noteIndex'])
      BY <1>1, <2>1, <2>3, <2>4, Zenon
    <3> QED
      BY <3>1, <3>2 DEF OneAlarm, Notes
  <2> QED
    BY <1>1, <2>2, <2>4, <2>5 DEF BuzzerOK, Notes, Cues
<1> QED
  BY <1>3, <1>4

LEMMA SilenceKeepsBuzzer ==
  ASSUME BuzzerOK, UNCHANGED buzzerVars
  PROVE  BuzzerOK'
BY Zenon DEF BuzzerOK, OneAlarm, buzzerVars, Notes, Cues

-----------------------------------------------------------------------------
(* Steps that leave the sampler alone                                       *)

\* Such a step may only come to a statement that expects no more of the sampler than
\* the last one did.
LEMMA SamplerKept ==
  ASSUME IInv, UNCHANGED samplerVars, UNCHANGED here,
         Starting' => Starting, Located' => Located,
         readings # <<>> => Sampling', pc' # "scanning"
  PROVE  SampleOK' /\ PendingOK' /\ ReadingsAreOurs'
<1>1. /\ scanOpen' = scanOpen /\ samplerFailed' = samplerFailed /\ identity' = identity
      /\ scanId' = scanId /\ position' = position /\ pendingResult' = pendingResult
      /\ readings' = readings /\ here' = here
  BY DEF samplerVars
<1>2. SampleOK'
  BY <1>1 DEF IInv, SampleOK
<1>3. PendingOK'
  BY DEF PendingOK
<1>4. ReadingsAreOurs'
  BY <1>1, Zenon DEF IInv, ReadingsAreOurs, ValidReadings, Valid
<1> QED
  BY <1>2, <1>3, <1>4

\* A step of the foreground that changes neither the sampler nor the buzzer.
LEMMA RunKept ==
  ASSUME IInv, NoWifi, NoCue, StackOK', RadioOK',
         Starting' => Starting, Located' => Located,
         readings # <<>> => Sampling', pc' # "scanning"
  PROVE  IInv'
<1>1. SampleOK' /\ PendingOK' /\ ReadingsAreOurs'
  BY SamplerKept DEF NoWifi, wifiVars
<1>2. BuzzerOK'
  BY SilenceKeepsBuzzer DEF IInv, NoCue
<1> QED
  BY <1>1, <1>2 DEF IInv

LEMMA BeginKeeps ==
  ASSUME IInv, Begin
  PROVE  IInv'
<1>1. NoWifi /\ NoCue /\ then' = then /\ pc = "begin" /\ pc' \in {"release", "failed"}
  BY DEF Begin, Goto, Fails
<1>2. StackOK' /\ RadioOK'
  BY <1>1 DEF IInv, StackOK, RadioOK, Begin, NoMotion, NoPayload, payloadVars, NoWifi, wifiVars, samplerVars
<1>3. /\ Starting' => Starting
      /\ Located' => Located
      /\ readings # <<>> => Sampling'
  BY <1>1 DEF IInv, SampleOK, Starting, Located, Saving, InPayload, Sampling
<1> QED
  BY <1>1, <1>2, <1>3, RunKept

\* The same where the buzzer's cue changes.
LEMMA CuedRunKept ==
  ASSUME IInv, NoWifi, BuzzerOK', StackOK', RadioOK',
         Starting' => Starting, Located' => Located,
         readings # <<>> => Sampling', pc' # "scanning"
  PROVE  IInv'
<1>1. SampleOK' /\ PendingOK' /\ ReadingsAreOurs'
  BY SamplerKept DEF NoWifi, wifiVars
<1> QED
  BY <1>1 DEF IInv

LEMMA CuesKept ==
  ASSUME BuzzerOK,
         \/ NoCue
         \/ cue_stop
         \/ \E c \in {"start", "calibrating", "pass", "in_range", "collected", "fault"} : cue_play(c)
  PROVE  BuzzerOK'
<1>1. {"none", "start", "calibrating", "pass", "in_range", "collected", "fault"} = DOMAIN Cues
  BY DEF Cues
<1>2. CASE NoCue
  BY <1>2, SilenceKeepsBuzzer DEF NoCue
<1>3. CASE cue_stop
  BY <1>1, <1>3, StartKeepsBuzzer DEF cue_stop
<1>4. CASE \E c \in {"start", "calibrating", "pass", "in_range", "collected", "fault"} : cue_play(c)
  BY <1>1, <1>4, StartKeepsBuzzer DEF cue_play
<1> QED
  BY <1>2, <1>3, <1>4

LEMMA StartKeeps ==
  ASSUME IInv, Start
  PROVE  IInv'
<1>1. NoWifi /\ pc = "boot" /\ pc' \in {"begin", "failed"} /\ then' = then
  BY DEF Start, Goto, Fails
<1>2. StackOK' /\ RadioOK'
  BY <1>1 DEF IInv, StackOK, RadioOK, Start, NoMotion, NoPayload, payloadVars, NoWifi, wifiVars, samplerVars
<1>3. /\ Starting' => Starting
      /\ Located' => Located
      /\ readings # <<>> => Sampling'
  BY <1>1 DEF IInv, SampleOK, Starting, Located, Saving, InPayload, Sampling
<1>4. BuzzerOK'
  BY CuesKept DEF IInv, Start
<1> QED
  BY <1>1, <1>2, <1>3, <1>4, CuedRunKept

LEMMA ReleasedKeeps ==
  ASSUME IInv, Released
  PROVE  IInv'
<1>1. NoWifi /\ pc = "release" /\ pc' \in {"calibrating", "failed"} /\ then' = then
  BY DEF Released, Goto, Fails
<1>2. StackOK' /\ RadioOK'
  BY <1>1 DEF IInv, StackOK, RadioOK, Released, NoMotion, NoPayload, payloadVars, NoWifi, wifiVars, samplerVars
<1>3. /\ Starting' => Starting
      /\ Located' => Located
      /\ readings # <<>> => Sampling'
  BY <1>1 DEF IInv, SampleOK, Starting, Located, Saving, InPayload, Sampling
<1>4. BuzzerOK'
  BY CuesKept DEF IInv, Released
<1> QED
  BY <1>1, <1>2, <1>3, <1>4, CuedRunKept

LEMMA CalibratedKeeps ==
  ASSUME IInv, Calibrated
  PROVE  IInv'
<1>1. NoWifi /\ pc = "calibrating" /\ pc' \in {"radio", "failed"} /\ then' = then
  BY DEF Calibrated, Goto, Fails
<1>2. StackOK' /\ RadioOK'
  BY <1>1 DEF IInv, StackOK, RadioOK, Calibrated, NoMotion, NoPayload, payloadVars, NoWifi, wifiVars, samplerVars
<1>3. /\ Starting' => Starting
      /\ Located' => Located
      /\ readings # <<>> => Sampling'
  BY <1>1 DEF IInv, SampleOK, Starting, Located, Saving, InPayload, Sampling
<1>4. BuzzerOK'
  BY CuesKept DEF IInv, Calibrated
<1> QED
  BY <1>1, <1>2, <1>3, <1>4, CuedRunKept

LEMMA RadioStartsKeeps ==
  ASSUME IInv, RadioStarts
  PROVE  IInv'
<1>1. NoWifi /\ NoCue /\ pc = "radio" /\ pc' \in {"bluetooth", "failed"} /\ then' = then
  BY DEF RadioStarts, Goto, Fails
<1>2. StackOK' /\ RadioOK'
  BY <1>1 DEF IInv, StackOK, RadioOK, RadioStarts, NoMotion, NoPayload, payloadVars, NoWifi, wifiVars, samplerVars
<1>3. /\ Starting' => Starting
      /\ Located' => Located
      /\ readings # <<>> => Sampling'
  BY <1>1 DEF IInv, SampleOK, Starting, Located, Saving, InPayload, Sampling
<1> QED
  BY <1>1, <1>2, <1>3, RunKept

\* The sampler is set up, so that it holds no position but the robot's own.
LEMMA BluetoothStartsKeeps ==
  ASSUME IInv, BluetoothStarts
  PROVE  IInv'
<1>1. pc = "bluetooth" /\ NoCue /\ readings = <<>> /\ here = 0 /\ here' = here
  BY DEF BluetoothStarts, IInv, SampleOK, Sampling, Saving, Starting, NoWifi
<1>2. BuzzerOK'
  BY <1>1, CuesKept DEF IInv
<1>3. CASE Fails /\ NoWifi
  <2>1. StackOK' /\ RadioOK'
    BY <1>1, <1>3 DEF IInv, StackOK, RadioOK, BluetoothStarts, Fails, NoMotion, NoPayload, payloadVars, NoWifi,
                      wifiVars, samplerVars
  <2>2. /\ Starting' => Starting
        /\ Located' => Located
        /\ readings # <<>> => Sampling'
    BY <1>1, <1>3 DEF Starting, Located, Saving, InPayload, Sampling, Fails
  <2>3. pc' # "scanning"
    BY <1>3 DEF Fails
  <2> QED
    BY <1>2, <1>3, <2>1, <2>2, <2>3, CuedRunKept
<1>4. CASE Call("payload", "initial") /\ wifi_sampler_init /\ UNCHANGED scanActive
  <2>1. /\ readings' = <<>> /\ position' = 0 /\ here' = 0 /\ scanId' = 0 /\ identity' = "none"
        /\ scanOpen' = FALSE /\ pendingResult' = pendingResult
        /\ pc' = "payload" /\ then' = [then EXCEPT !["payload"] = "initial"]
    BY <1>1, <1>4 DEF Call, wifi_sampler_init
  <2>2. StackOK' /\ RadioOK'
    BY <1>1, <1>4, <2>1 DEF IInv, StackOK, RadioOK, BluetoothStarts, NoMotion, NoPayload, payloadVars
  <2>3. SampleOK' /\ PendingOK'
    BY <2>1 DEF IInv, SampleOK, PendingOK, Starting
  <2>4. ReadingsAreOurs'
    BY <2>1 DEF ReadingsAreOurs, ValidReadings
  <2> QED
    BY <1>2, <2>2, <2>3, <2>4 DEF IInv
<1> QED
  BY <1>3, <1>4 DEF BluetoothStarts

-----------------------------------------------------------------------------
(* Steps that wait for the radio                                            *)

\* Outside a scan nothing is open: a wait leaves the sampler as it is.
LEMMA NothingToCollect ==
  ASSUME ~scanOpen, sampler_quiesced
  PROVE  UNCHANGED <<scanOpen, samplerFailed, identity, scanId, position, pendingResult>>
BY DEF sampler_quiesced, sampler_collect

LEMMA NothingToGiveUp ==
  ASSUME ~scanOpen
  PROVE  ~sampler_gives_up
BY DEF sampler_gives_up, Waiting

LEMMA SaveKeeps ==
  ASSUME IInv, Save
  PROVE  IInv'
<1>1. pc = "save" /\ ~scanOpen /\ powered' = FALSE /\ NoCue
  BY DEF IInv, RadioOK, Save, motion_stop
<1>2. NoWifi /\ pc' \in {"flash", "failed"} /\ then' = then
  BY <1>1, NothingToCollect, NothingToGiveUp
     DEF Save, Quiesces, Goto, Fails, NoWifi, wifiVars, samplerVars
<1>3. StackOK' /\ RadioOK'
  BY <1>1, <1>2 DEF IInv, StackOK, RadioOK, Save, NoPayload, payloadVars, NoWifi, wifiVars, samplerVars
<1>4. /\ Starting' => Starting
      /\ Located' => Located
      /\ readings # <<>> => Sampling'
  BY <1>1, <1>2 DEF IInv, SampleOK, Starting, Located, Saving, InPayload, Sampling
<1> QED
  BY <1>1, <1>2, <1>3, <1>4, RunKept

LEMMA SettledKeeps ==
  ASSUME IInv, Settled
  PROVE  IInv'
<1>1. pc = "settled" /\ ~scanOpen /\ powered' = FALSE /\ NoCue
  BY DEF IInv, RadioOK, Settled, motion_stop
<1>2. /\ NoWifi /\ pc' \in {"payload", "failed"}
      /\ then' \in {then, [then EXCEPT !["payload"] = "stopped"]}
      /\ pc' = "payload" => then' = [then EXCEPT !["payload"] = "stopped"]
  BY <1>1, NothingToCollect, NothingToGiveUp
     DEF Settled, Quiesces, Call, Fails, NoWifi, wifiVars, samplerVars
<1>3. StackOK' /\ RadioOK'
  BY <1>1, <1>2 DEF IInv, StackOK, RadioOK, Settled, NoPayload, payloadVars, NoWifi, wifiVars, samplerVars
<1>4. /\ Starting' => Starting
      /\ Located' => Located
      /\ readings # <<>> => Sampling'
  BY <1>1, <1>2 DEF IInv, StackOK, SampleOK, Starting, Located, Saving, InPayload, Sampling
<1> QED
  BY <1>1, <1>2, <1>3, <1>4, RunKept

\* A sample begins with no readings.
LEMMA SampleKeeps ==
  ASSUME IInv, Sample
  PROVE  IInv'
<1>1. pc = "wifi" /\ ~scanOpen /\ powered' = FALSE /\ NoCue /\ position = here
  BY DEF IInv, RadioOK, SampleOK, Located, Sample, motion_stop
<1>2. /\ UNCHANGED <<scanOpen, samplerFailed, identity, scanId, position, pendingResult>>
      /\ UNCHANGED <<scanActive, here>>
      /\ readings' \in {readings, <<>>} /\ pc' \in {"scan", "failed"} /\ then' = then
  BY <1>1, NothingToCollect, NothingToGiveUp DEF Sample, Quiesces, Goto, Fails, samplerVars
<1>3. StackOK' /\ RadioOK'
  BY <1>1, <1>2 DEF IInv, StackOK, RadioOK, Sample, NoPayload, payloadVars
<1>4. readings = <<>>
  BY <1>1 DEF IInv, SampleOK, Sampling, Saving
<1>5. SampleOK' /\ PendingOK'
  BY <1>1, <1>2, <1>4 DEF IInv, SampleOK, PendingOK, Starting
<1>6. ReadingsAreOurs'
  BY <1>2, <1>4 DEF ReadingsAreOurs, ValidReadings
<1>7. BuzzerOK'
  BY <1>1, CuesKept DEF IInv
<1> QED
  BY <1>3, <1>5, <1>6, <1>7 DEF IInv

-----------------------------------------------------------------------------
(* A scan                                                                   *)

\* A scan opens with an empty result that carries its id and the robot's place.
LEMMA ScanKeeps ==
  ASSUME IInv, Scan
  PROVE  IInv'
<1>1. pc = "scan" /\ ~scanOpen /\ ~powered /\ ~bleActive /\ NoCue /\ here' = here /\ position = here
  BY DEF IInv, RadioOK, SampleOK, Located, Scan
<1>2. BuzzerOK'
  BY <1>1, CuesKept DEF IInv
<1>3. CASE Fails /\ UNCHANGED wifiVars
  <2>1. StackOK' /\ RadioOK'
    BY <1>1, <1>3 DEF IInv, StackOK, RadioOK, Scan, Fails, NoMotion, NoPayload, payloadVars, wifiVars, samplerVars
  <2>2. /\ Starting' => Starting
        /\ Located' => Located
        /\ readings # <<>> => Sampling'
    BY <1>1, <1>3 DEF Starting, Located, Saving, InPayload, Sampling, Fails
  <2>3. NoWifi /\ pc' # "scanning"
    BY <1>1, <1>3 DEF NoWifi, Fails
  <2> QED
    BY <1>2, <2>1, <2>2, <2>3, CuedRunKept
<1>4. CASE (sampler_begin_ok /\ Goto("scanning")) \/ (sampler_begin_refused /\ Fails)
  <2>1. /\ scanId' = (scanId + 1) % SCAN_IDS /\ pendingResult' = OpenResult(scanId')
        /\ UNCHANGED <<identity, position, readings>> /\ then' = then
        /\ \/ pc' = "scanning" /\ scanOpen' = TRUE
           \/ pc' = "failed" /\ UNCHANGED <<scanOpen, scanActive>>
    BY <1>4 DEF sampler_begin_ok, sampler_begin_refused, Goto, Fails
  <2>2. pendingResult' = [scan |-> scanId', position |-> position, heardIn |-> 0, heardAt |-> 0, from |-> "none"]
    BY <2>1 DEF OpenResult, Missing
  <2>3. scanId' \in Nat
    BY <2>1, SamplerAssumed DEF SamplerAssumption, IInv, SampleOK
  <2>4. StackOK' /\ RadioOK'
    BY <1>1, <2>1 DEF IInv, StackOK, RadioOK, Scan, NoMotion, NoPayload, payloadVars
  <2>5. pendingResult' \in Result
    BY <2>2, <2>3 DEF IInv, SampleOK, Result
  <2>6. SampleOK'
    BY <1>1, <2>1, <2>3, <2>5 DEF IInv, SampleOK, Starting, Sampling
  <2>7. PendingOK'
    BY <2>1, <2>2 DEF PendingOK, Valid
  <2>8. ReadingsAreOurs'
    BY <1>1, <2>1, Zenon DEF IInv, ReadingsAreOurs, ValidReadings, Valid
  <2> QED
    BY <1>2, <2>4, <2>6, <2>7, <2>8 DEF IInv
<1> QED
  BY <1>3, <1>4 DEF Scan

\* The access point that the run follows does not change once a reading was valid.
LEMMA IdentityIsSettled ==
  ASSUME IInv, identity' \in {identity, IdentityAfter}, UNCHANGED <<readings, here>>
  PROVE  ReadingsAreOurs'
<1>1. CASE identity = "none"
  <2>1. ValidReadings = {}
    BY <1>1 DEF IInv, ReadingsAreOurs, ValidReadings, Valid
  <2>2. ValidReadings' = {}
    BY <2>1 DEF ValidReadings, Valid
  <2> QED
    BY <2>2 DEF ReadingsAreOurs
<1>2. CASE identity # "none"
  <2>1. identity' = identity
    BY <1>2 DEF IdentityAfter
  <2> QED
    BY <2>1, Zenon DEF IInv, ReadingsAreOurs, ValidReadings, Valid
<1> QED
  BY <1>1, <1>2

\* A result is added to the readings once its scan is over.
LEMMA ResultIsOurs ==
  ASSUME IInv, pc = "scanning", readings' = Append(readings, pendingResult),
         identity' = IdentityAfter, here' = here
  PROVE  ReadingsAreOurs'
<1>1. /\ readings \in Seq(Result) /\ pendingResult \in Result
      /\ readings' \in Seq(Result) /\ position = here
      /\ pendingResult.scan = scanId /\ pendingResult.position = position
  BY DEF IInv, SampleOK, PendingOK, Located
<1>2. SUFFICES ASSUME NEW i \in DOMAIN readings', readings'[i].from # "none"
               PROVE  /\ readings'[i].heardIn = readings'[i].scan
                      /\ readings'[i].heardAt = here /\ readings'[i].position = here
                      /\ readings'[i].from = identity'
  BY DEF ReadingsAreOurs, ValidReadings, Valid
<1>3. CASE i \in DOMAIN readings
  <2>1. readings'[i] = readings[i]
    BY <1>1, <1>3
  <2>2. /\ readings[i].heardIn = readings[i].scan
        /\ readings[i].heardAt = here /\ readings[i].position = here
        /\ readings[i].from = identity
    BY <1>2, <1>3, <2>1 DEF IInv, ReadingsAreOurs, ValidReadings, Valid
  <2> QED
    BY <1>2, <2>1, <2>2 DEF IdentityAfter
<1>4. CASE i \notin DOMAIN readings
  <2>1. readings'[i] = pendingResult
    BY <1>1, <1>2, <1>4
  <2>2. /\ pendingResult.heardIn = scanId /\ pendingResult.heardAt = here
        /\ identity \in {"none", pendingResult.from}
    BY <1>2, <2>1 DEF IInv, PendingOK, Valid
  <2> QED
    BY <1>1, <1>2, <2>1, <2>2 DEF IdentityAfter
<1> QED
  BY <1>3, <1>4

LEMMA ScannedKeeps ==
  ASSUME IInv, Scanned
  PROVE  IInv'
<1>1. /\ pc = "scanning" /\ scanOpen /\ powered' = FALSE /\ ~bleActive /\ NoCue
      /\ position = here /\ UNCHANGED <<scanActive, here>>
  BY DEF IInv, RadioOK, SampleOK, Located, Scanned, Quiesces, motion_stop
<1>2. /\ then' = then /\ UNCHANGED <<scanId, position, pendingResult>>
      /\ \/ /\ pc' = "failed" /\ readings' = readings /\ identity' \in {identity, IdentityAfter}
         \/ /\ pc' \in {"sampled", "scan"} /\ readings' = Append(readings, pendingResult)
            /\ identity' = IdentityAfter /\ scanOpen' = FALSE /\ ~scanActive
  BY <1>1 DEF Scanned, Quiesces, Goto, Fails, sampler_quiesced, sampler_collect, sampler_gives_up,
              Waiting, samplerVars
<1>3. StackOK' /\ RadioOK'
  BY <1>1, <1>2 DEF IInv, StackOK, RadioOK, Scanned, NoPayload, payloadVars
<1>4. SampleOK' /\ PendingOK'
  <2>1. identity' \in AccessPoints \cup {"none"}
    BY <1>2 DEF IInv, SampleOK, IdentityAfter, Result
  <2>2. readings' \in Seq(Result)
    BY <1>2 DEF IInv, SampleOK
  <2> QED
    BY <1>1, <1>2, <2>1, <2>2 DEF IInv, SampleOK, PendingOK, Starting, Sampling
<1>5. ReadingsAreOurs'
  BY <1>1, <1>2, IdentityIsSettled, ResultIsOurs
<1>6. BuzzerOK'
  BY <1>1, CuesKept DEF IInv
<1> QED
  BY <1>3, <1>4, <1>5, <1>6 DEF IInv

\* The driver reports an access point while the foreground waits, or gave up waiting.
LEMMA ScanResultKeeps ==
  ASSUME IInv, ScanResult
  PROVE  IInv'
<1>1. PICK ap \in AccessPoints : sampler_result(ap)
  BY DEF ScanResult
<1>2. /\ pendingResult' = [pendingResult EXCEPT !.heardIn = scanId, !.heardAt = here, !.from = ap]
      /\ UNCHANGED <<scanOpen, identity, scanId, position, readings, scanActive, here>>
      /\ identity \in {"none", ap}
  BY <1>1 DEF ScanResult, sampler_result
<1>3. UNCHANGED <<pc, then, powered, bleActive>> /\ NoCue
  BY DEF ScanResult, Foregrounds, payloadVars
<1>4. StackOK' /\ RadioOK'
  BY <1>2, <1>3 DEF IInv, StackOK, RadioOK
<1>5. SampleOK'
  <2>1. pendingResult' \in Result
    BY <1>2 DEF IInv, SampleOK, Result
  <2>2. (Starting' <=> Starting) /\ (Located' <=> Located) /\ (Sampling' <=> Sampling)
    BY <1>3 DEF Starting, Located, Sampling, Saving, InPayload
  <2> QED
    BY <1>2, <2>1, <2>2 DEF IInv, SampleOK
<1>6. PendingOK'
  BY <1>2, <1>3 DEF IInv, SampleOK, PendingOK, Result, Valid
<1>7. ReadingsAreOurs'
  BY <1>2, Zenon DEF IInv, ReadingsAreOurs, ValidReadings, Valid
<1>8. BuzzerOK'
  BY <1>3, CuesKept DEF IInv
<1> QED
  BY <1>4, <1>5, <1>6, <1>7, <1>8 DEF IInv

\* The driver finishes, stop is pressed or the time is up.
LEMMA EventsKeep ==
  ASSUME IInv, UNCHANGED <<pc, then, powered, bleActive, samplerVars, here>>,
         scanActive' => scanActive, NoCue
  PROVE  IInv'
<1>1. StackOK' /\ RadioOK'
  BY DEF IInv, StackOK, RadioOK, samplerVars
<1>2. (Starting' <=> Starting) /\ (Located' <=> Located) /\ (Sampling' <=> Sampling)
  BY DEF Starting, Located, Sampling, Saving, InPayload
<1>3. SampleOK' /\ PendingOK'
  BY <1>2 DEF IInv, SampleOK, PendingOK, samplerVars, Valid
<1>4. ReadingsAreOurs'
  BY Zenon DEF IInv, ReadingsAreOurs, ValidReadings, Valid, samplerVars
<1>5. BuzzerOK'
  BY CuesKept DEF IInv
<1> QED
  BY <1>1, <1>3, <1>4, <1>5 DEF IInv

LEMMA NextNoteKeeps ==
  ASSUME IInv, NextNote
  PROVE  IInv'
<1>1. BuzzerOK'
  BY NoteKeepsBuzzer DEF IInv, NextNote
<1>2. UNCHANGED <<pc, then, powered, bleActive, samplerVars, here, scanActive>>
  BY DEF NextNote, Foregrounds, payloadVars, NoWifi, wifiVars
<1>3. StackOK' /\ RadioOK'
  BY <1>2 DEF IInv, StackOK, RadioOK, samplerVars
<1>4. (Starting' <=> Starting) /\ (Located' <=> Located) /\ (Sampling' <=> Sampling)
  BY <1>2 DEF Starting, Located, Sampling, Saving, InPayload
<1>5. SampleOK' /\ PendingOK'
  BY <1>2, <1>4 DEF IInv, SampleOK, PendingOK, samplerVars, Valid
<1>6. ReadingsAreOurs'
  BY <1>2, Zenon DEF IInv, ReadingsAreOurs, ValidReadings, Valid, samplerVars
<1> QED
  BY <1>1, <1>3, <1>5, <1>6 DEF IInv

-----------------------------------------------------------------------------
(* Steps that move the robot or the position                                *)

\* With no readings the robot and its position may change together.
LEMMA NoReadings ==
  ASSUME IInv, readings' = <<>>, UNCHANGED <<identity, scanId, pendingResult>>,
         position' \in Nat, here' \in Nat,
         ~Starting', Located' => position' = here', pc' # "scanning"
  PROVE  SampleOK' /\ PendingOK' /\ ReadingsAreOurs'
<1>1. SampleOK'
  BY DEF IInv, SampleOK
<1>2. PendingOK'
  BY DEF PendingOK
<1>3. ReadingsAreOurs'
  BY DEF ReadingsAreOurs, ValidReadings
<1> QED
  BY <1>1, <1>2, <1>3

LEMMA HeardKeeps ==
  ASSUME IInv, Heard
  PROVE  IInv'
<1>1. /\ pc = "heard" /\ NoCue /\ readings' = <<>> /\ position = here
      /\ UNCHANGED <<scanOpen, identity, scanId, position, pendingResult, scanActive, here>>
      /\ UNCHANGED <<powered, bleActive>>
  BY DEF IInv, SampleOK, Located, Heard, NoMotion, NoPayload, payloadVars
<1>2. \/ pc' = "payload" /\ then' = [then EXCEPT !["payload"] = "missing"]
      \/ pc' = then["wifi"] /\ then' = [then EXCEPT !["wifi"] = "none"]
  BY DEF Heard, Call, Return
<1>3. StackOK' /\ RadioOK'
  BY <1>1, <1>2 DEF IInv, StackOK, RadioOK
<1>4. ~Starting' /\ pc' # "scanning"
  BY <1>2 DEF IInv, StackOK, Starting
<1>5. SampleOK' /\ PendingOK' /\ ReadingsAreOurs'
  BY <1>1, <1>4, NoReadings DEF IInv, SampleOK
<1>6. BuzzerOK'
  BY <1>1, CuesKept DEF IInv
<1> QED
  BY <1>3, <1>5, <1>6 DEF IInv

LEMMA DriveKeeps ==
  ASSUME IInv, Drive
  PROVE  IInv'
<1>1. /\ pc = "drive" /\ NoCue /\ readings' = readings /\ position' = here /\ here' = here
      /\ UNCHANGED <<scanOpen, identity, scanId, pendingResult, scanActive, bleActive>>
      /\ then' = then /\ (pc' = "driving" \/ (pc' = "failed" /\ powered' = powered))
  BY DEF Drive, set_position, Goto, Fails, NoPayload, payloadVars
<1>2. StackOK' /\ RadioOK'
  BY <1>1 DEF IInv, StackOK, RadioOK
<1>3. readings = <<>>
  BY <1>1 DEF IInv, SampleOK, Sampling, Saving
<1>4. SampleOK' /\ PendingOK' /\ ReadingsAreOurs'
  BY <1>1, <1>3, NoReadings DEF IInv, SampleOK, Starting
<1>5. BuzzerOK'
  BY <1>1, CuesKept DEF IInv
<1> QED
  BY <1>2, <1>4, <1>5 DEF IInv

LEMMA MeasureKeeps ==
  ASSUME IInv, Measure
  PROVE  IInv'
<1>1. /\ pc \in {"aimed", "stopped"} /\ NoCue /\ readings' = readings /\ position' = here /\ here' = here
      /\ UNCHANGED <<scanOpen, identity, scanId, pendingResult, scanActive, bleActive, powered>>
      /\ pc' = "wifi" /\ then' = [then EXCEPT !["wifi"] = "second"]
  BY DEF Measure, set_position, WaitForWifi, Call, NoMotion, payloadVars
<1>2. StackOK' /\ RadioOK'
  BY <1>1 DEF IInv, StackOK, RadioOK
<1>3. readings = <<>>
  BY <1>1 DEF IInv, SampleOK, Sampling, Saving
<1>4. SampleOK' /\ PendingOK' /\ ReadingsAreOurs'
  BY <1>1, <1>3, NoReadings DEF IInv, SampleOK, Starting
<1>5. BuzzerOK'
  BY <1>1, CuesKept DEF IInv
<1> QED
  BY <1>2, <1>4, <1>5 DEF IInv

\* A drive or a turn ends with the motors off, somewhere else.
LEMMA MovementEndsKeeps ==
  ASSUME IInv, DriveEnds \/ TurnEnds
  PROVE  IInv'
<1>1. /\ pc \in {"driving", "turn"} /\ NoCue /\ powered' = FALSE /\ UNCHANGED wifiVars
      /\ here' = (here + 1) % PLACES /\ bleActive' = bleActive
  BY DEF DriveEnds, TurnEnds, motion_stop, Elsewhere, NoPayload, payloadVars
<1>2. /\ pc' \in {"settled", then["turn"], "failed"}
      /\ then' \in {then, [then EXCEPT !["turn"] = "none"]}
  BY DEF DriveEnds, TurnEnds, Goto, Return, Fails
<1>3. pc' \in {"settled", "failed", "none", "choose", "aimed", "mat_read", "mat_aimed"}
  BY <1>2 DEF IInv, StackOK
<1>4. StackOK' /\ RadioOK'
  BY <1>1, <1>2, <1>3 DEF IInv, StackOK, RadioOK, wifiVars, samplerVars
<1>5. readings = <<>>
  BY <1>1 DEF IInv, SampleOK, Sampling, Saving
<1>6. here' \in Nat
  BY <1>1, SamplerAssumed DEF SamplerAssumption, IInv, SampleOK
<1>7. ~Starting' /\ ~Located' /\ pc' # "scanning"
  BY <1>3 DEF Starting, Located, Saving, InPayload
<1>8. SampleOK' /\ PendingOK' /\ ReadingsAreOurs'
  BY <1>1, <1>5, <1>6, <1>7, NoReadings DEF IInv, SampleOK, wifiVars, samplerVars
<1>9. BuzzerOK'
  BY <1>1, CuesKept DEF IInv
<1> QED
  BY <1>4, <1>8, <1>9 DEF IInv

-----------------------------------------------------------------------------
(* Steps that change neither the sampler nor the cue                        *)

LEMMA FlashKeeps ==
  ASSUME IInv, Flash
  PROVE  IInv'
<1>1. /\ NoWifi /\ NoCue /\ pc = "flash"
      /\ \/ pc' = then["save"] /\ then' = [then EXCEPT !["save"] = "none"]
         \/ pc' = "failed" /\ then' = then
  BY DEF Flash, Return, Fails
<1>2. StackOK' /\ RadioOK'
  BY <1>1 DEF IInv, StackOK, RadioOK, Flash, NoMotion, NoPayload, payloadVars, NoWifi, wifiVars, samplerVars
<1>3. /\ Starting' => Starting
      /\ Located' => Located
      /\ readings # <<>> => Sampling'
      /\ pc' # "scanning"
  BY <1>1 DEF IInv, StackOK, SampleOK, Starting, Located, Saving, InPayload, Sampling
<1> QED
  BY <1>1, <1>2, <1>3, RunKept

LEMMA PayloadKeeps ==
  ASSUME IInv, Payload
  PROVE  IInv'
<1>1. /\ NoWifi /\ NoCue /\ pc = "payload"
      /\ \/ pc' = "save" /\ then' = [then EXCEPT !["save"] = "gate"]
         \/ pc' = "failed" /\ then' = then
  BY DEF Payload, Call, Fails
<1>2. StackOK' /\ RadioOK'
  BY <1>1 DEF IInv, StackOK, RadioOK, Payload, NoMotion, NoPayload, payloadVars, NoWifi, wifiVars, samplerVars
<1>3. /\ Starting' => Starting
      /\ Located' => Located
      /\ readings # <<>> => Sampling'
      /\ pc' # "scanning"
  BY <1>1 DEF IInv, StackOK, SampleOK, Starting, Located, Saving, InPayload, Sampling
<1> QED
  BY <1>1, <1>2, <1>3, RunKept

LEMMA GateKeeps ==
  ASSUME IInv, Gate
  PROVE  IInv'
<1>1. /\ NoWifi /\ NoCue /\ pc = "gate"
      /\ \/ pc' = then["payload"] /\ then' = [then EXCEPT !["payload"] = "none"] /\ bleActive' = bleActive
         \/ pc' = "ble" /\ then' = then
  BY DEF Gate, NotClose, Return, Goto
<1>2. StackOK' /\ RadioOK'
  BY <1>1 DEF IInv, StackOK, RadioOK, Gate, NoMotion, NoWifi, wifiVars, samplerVars
<1>3. /\ Starting' => Starting
      /\ Located' => Located
      /\ readings # <<>> => Sampling'
      /\ pc' # "scanning"
  BY <1>1 DEF IInv, StackOK, SampleOK, Starting, Located, Saving, InPayload, Sampling
<1> QED
  BY <1>1, <1>2, <1>3, RunKept

LEMMA AnswerKeeps ==
  ASSUME IInv, Answer
  PROVE  IInv'
<1>1. /\ NoWifi /\ NoCue /\ pc = "answer"
      /\ \/ pc' \in {"completed", "payload", "failed"} /\ then' = then
         \/ pc' = then["payload"] /\ then' = [then EXCEPT !["payload"] = "none"]
  BY DEF Answer, NotClose, Return, Goto, Fails
<1>2. StackOK' /\ RadioOK'
  BY <1>1 DEF IInv, StackOK, RadioOK, Answer, NoMotion, NoWifi, wifiVars, samplerVars
<1>3. /\ Starting' => Starting
      /\ Located' => Located
      /\ readings # <<>> => Sampling'
      /\ pc' # "scanning"
  BY <1>1 DEF IInv, StackOK, SampleOK, Starting, Located, Saving, InPayload, Sampling
<1> QED
  BY <1>1, <1>2, <1>3, RunKept

LEMMA SampledKeeps ==
  ASSUME IInv, Sampled
  PROVE  IInv'
<1>1. /\ NoWifi /\ NoCue /\ pc = "sampled"
      /\ \/ pc' = "save" /\ then' = [then EXCEPT !["save"] = "heard"]
         \/ pc' = "failed" /\ then' = then
  BY DEF Sampled, Call, Fails
<1>2. StackOK' /\ RadioOK'
  BY <1>1 DEF IInv, StackOK, RadioOK, Sampled, NoMotion, NoPayload, payloadVars, NoWifi, wifiVars, samplerVars
<1>3. /\ Starting' => Starting
      /\ Located' => Located
      /\ readings # <<>> => Sampling'
      /\ pc' # "scanning"
  BY <1>1 DEF IInv, StackOK, SampleOK, Starting, Located, Saving, InPayload, Sampling
<1> QED
  BY <1>1, <1>2, <1>3, RunKept

LEMMA StillMissingKeeps ==
  ASSUME IInv, StillMissing
  PROVE  IInv'
<1>1. /\ NoWifi /\ NoCue /\ pc = "missing"
      /\ pc' \in {"wifi", "failed"} /\ then' = then
  BY DEF StillMissing, Goto, Fails
<1>2. StackOK' /\ RadioOK'
  BY <1>1 DEF IInv, StackOK, RadioOK, StillMissing, NoMotion, payloadVars, NoWifi, wifiVars, samplerVars
<1>3. /\ Starting' => Starting
      /\ Located' => Located
      /\ readings # <<>> => Sampling'
      /\ pc' # "scanning"
  BY <1>1 DEF IInv, StackOK, SampleOK, Starting, Located, Saving, InPayload, Sampling
<1> QED
  BY <1>1, <1>2, <1>3, RunKept

LEMMA InitialKeeps ==
  ASSUME IInv, Initial
  PROVE  IInv'
<1>1. /\ NoWifi /\ NoCue /\ pc = "initial"
      /\ pc' = "wifi" /\ then' = [then EXCEPT !["wifi"] = "learn"]
  BY DEF Initial, WaitForWifi, Call
<1>2. StackOK' /\ RadioOK'
  BY <1>1 DEF IInv, StackOK, RadioOK, Initial, NoMotion, payloadVars, NoWifi, wifiVars, samplerVars
<1>3. /\ Starting' => Starting
      /\ Located' => Located
      /\ readings # <<>> => Sampling'
      /\ pc' # "scanning"
  BY <1>1 DEF IInv, StackOK, SampleOK, Starting, Located, Saving, InPayload, Sampling
<1> QED
  BY <1>1, <1>2, <1>3, RunKept

LEMMA SecondOfPairKeeps ==
  ASSUME IInv, SecondOfPair
  PROVE  IInv'
<1>1. /\ NoWifi /\ NoCue /\ pc \in {"second", "recheck"}
      /\ \/ pc' = "wifi" /\ then' = [then EXCEPT !["wifi"] = "measured"]
         \/ pc' = "wifi" /\ then' = [then EXCEPT !["wifi"] = "second"]
  BY DEF SecondOfPair, WaitForWifi, Call
<1>2. StackOK' /\ RadioOK'
  BY <1>1 DEF IInv, StackOK, RadioOK, SecondOfPair, NoMotion, payloadVars, NoWifi, wifiVars, samplerVars
<1>3. /\ Starting' => Starting
      /\ Located' => Located
      /\ readings # <<>> => Sampling'
      /\ pc' # "scanning"
  BY <1>1 DEF IInv, StackOK, SampleOK, Starting, Located, Saving, InPayload, Sampling
<1> QED
  BY <1>1, <1>2, <1>3, RunKept

LEMMA MeasuredKeeps ==
  ASSUME IInv, Measured
  PROVE  IInv'
<1>1. /\ NoWifi /\ NoCue /\ pc = "measured"
      /\ \/ pc' = "save" /\ then' = [then EXCEPT !["save"] = "line"]
         \/ pc' = "choose" /\ then' = then
  BY DEF Measured, Call, Goto
<1>2. StackOK' /\ RadioOK'
  BY <1>1 DEF IInv, StackOK, RadioOK, Measured, Approaches, NoMotion, NoPayload, payloadVars, NoWifi, wifiVars, samplerVars
<1>3. /\ Starting' => Starting
      /\ Located' => Located
      /\ readings # <<>> => Sampling'
      /\ pc' # "scanning"
  BY <1>1 DEF IInv, StackOK, SampleOK, Starting, Located, Saving, InPayload, Sampling
<1> QED
  BY <1>1, <1>2, <1>3, RunKept

LEMMA OnLineKeeps ==
  ASSUME IInv, OnLine
  PROVE  IInv'
<1>1. /\ NoWifi /\ NoCue /\ pc = "line"
      /\ \/ pc' = "save" /\ then' = [then EXCEPT !["save"] = "drive"]
         \/ pc' = "payload" /\ then' = [then EXCEPT !["payload"] = "recheck"]
         \/ pc' \in {"choose", "failed"} /\ then' = then
  BY DEF OnLine, Block, Call, Goto, Fails
<1>2. StackOK' /\ RadioOK'
  BY <1>1 DEF IInv, StackOK, RadioOK, OnLine, Approaches, NoMotion, NoPayload, payloadVars, NoWifi, wifiVars, samplerVars
<1>3. /\ Starting' => Starting
      /\ Located' => Located
      /\ readings # <<>> => Sampling'
      /\ pc' # "scanning"
  BY <1>1 DEF IInv, StackOK, SampleOK, Starting, Located, Saving, InPayload, Sampling
<1> QED
  BY <1>1, <1>2, <1>3, RunKept

LEMMA StoppedKeeps ==
  ASSUME IInv, Stopped
  PROVE  IInv'
<1>1. /\ NoWifi /\ NoCue /\ pc = "stopped"
      /\ \/ pc' = "save" /\ then' = [then EXCEPT !["save"] = "drive"]
         \/ pc' = "payload" /\ then' = [then EXCEPT !["payload"] = "mat_stopped"]
         \/ pc' \in {"choose", "failed"} /\ then' = then
  BY DEF Stopped, Block, Call, Goto, Fails
<1>2. StackOK' /\ RadioOK'
  BY <1>1 DEF IInv, StackOK, RadioOK, Stopped, Approaches, NoMotion, NoPayload, payloadVars, NoWifi, wifiVars, samplerVars
<1>3. /\ Starting' => Starting
      /\ Located' => Located
      /\ readings # <<>> => Sampling'
      /\ pc' # "scanning"
  BY <1>1 DEF IInv, StackOK, SampleOK, Starting, Located, Saving, InPayload, Sampling
<1> QED
  BY <1>1, <1>2, <1>3, RunKept

LEMMA MatReadKeeps ==
  ASSUME IInv, MatRead
  PROVE  IInv'
<1>1. /\ NoWifi /\ NoCue /\ pc = "mat_read"
      /\ \/ pc' = "flash" /\ then' = [then EXCEPT !["save"] = "mat_scanned"]
         \/ pc' \in {"choose", "failed"} /\ then' = then
  BY DEF MatRead, Goto, Fails
<1>2. StackOK' /\ RadioOK'
  BY <1>1 DEF IInv, StackOK, RadioOK, MatRead, Approaches, NoMotion, NoPayload, payloadVars, NoWifi, wifiVars, samplerVars
<1>3. /\ Starting' => Starting
      /\ Located' => Located
      /\ readings # <<>> => Sampling'
      /\ pc' # "scanning"
  BY <1>1 DEF IInv, StackOK, SampleOK, Starting, Located, Saving, InPayload, Sampling
<1> QED
  BY <1>1, <1>2, <1>3, RunKept

LEMMA MatAimedKeeps ==
  ASSUME IInv, MatAimed
  PROVE  IInv'
<1>1. /\ NoWifi /\ NoCue /\ pc = "mat_aimed"
      /\ pc' = "payload" /\ then' = [then EXCEPT !["payload"] = "mat_stopped"]
  BY DEF MatAimed, Call
<1>2. StackOK' /\ RadioOK'
  BY <1>1 DEF IInv, StackOK, RadioOK, MatAimed, Approaches, NoMotion, NoPayload, payloadVars, NoWifi, wifiVars, samplerVars
<1>3. /\ Starting' => Starting
      /\ Located' => Located
      /\ readings # <<>> => Sampling'
      /\ pc' # "scanning"
  BY <1>1 DEF IInv, StackOK, SampleOK, Starting, Located, Saving, InPayload, Sampling
<1> QED
  BY <1>1, <1>2, <1>3, RunKept

LEMMA MatStoppedKeeps ==
  ASSUME IInv, MatStopped
  PROVE  IInv'
<1>1. /\ NoWifi /\ NoCue /\ pc = "mat_stopped"
      /\ \/ pc' = "save" /\ then' = [then EXCEPT !["save"] = "drive"]
         \/ pc' = "payload" /\ then' = [then EXCEPT !["payload"] = "mat_stopped"]
         \/ pc' \in {"mat", "failed"} /\ then' = then
  BY DEF MatStopped, Block, Call, Goto, Fails
<1>2. StackOK' /\ RadioOK'
  BY <1>1 DEF IInv, StackOK, RadioOK, MatStopped, Approaches, NoMotion, NoPayload, payloadVars, NoWifi, wifiVars, samplerVars
<1>3. /\ Starting' => Starting
      /\ Located' => Located
      /\ readings # <<>> => Sampling'
      /\ pc' # "scanning"
  BY <1>1 DEF IInv, StackOK, SampleOK, Starting, Located, Saving, InPayload, Sampling
<1> QED
  BY <1>1, <1>2, <1>3, RunKept

-----------------------------------------------------------------------------
(* Turns                                                                    *)

LEMMA LearnKeeps ==
  ASSUME IInv, Learn
  PROVE  IInv'
<1>1. /\ NoWifi /\ NoCue /\ pc = "learn"
      /\ \/ pc' = "turn" /\ then' = [then EXCEPT !["turn"] = "choose"]
         \/ pc' \in {"choose", "failed"} /\ then' = then /\ powered' = powered
  BY DEF Learn, Turn, Call, Goto, Fails
<1>2. StackOK' /\ RadioOK'
  BY <1>1 DEF IInv, StackOK, RadioOK, Learn, Approaches, NoPayload, payloadVars, NoWifi, wifiVars, samplerVars
<1>3. /\ Starting' => Starting
      /\ Located' => Located
      /\ readings # <<>> => Sampling'
      /\ pc' # "scanning"
  BY <1>1 DEF IInv, StackOK, SampleOK, Starting, Located, Saving, InPayload, Sampling
<1> QED
  BY <1>1, <1>2, <1>3, RunKept

LEMMA MatTurnKeeps ==
  ASSUME IInv, MatTurn
  PROVE  IInv'
<1>1. /\ NoWifi /\ NoCue /\ pc = "mat"
      /\ \/ pc' = "turn" /\ then' = [then EXCEPT !["turn"] = "mat_read"]
         \/ pc' \in {"mat_read", "failed"} /\ then' = then /\ powered' = powered
  BY DEF MatTurn, Turn, Call, Goto, Fails, NoMotion
<1>2. StackOK' /\ RadioOK'
  BY <1>1 DEF IInv, StackOK, RadioOK, MatTurn, Approaches, NoPayload, payloadVars, NoWifi, wifiVars, samplerVars
<1>3. /\ Starting' => Starting
      /\ Located' => Located
      /\ readings # <<>> => Sampling'
      /\ pc' # "scanning"
  BY <1>1 DEF IInv, StackOK, SampleOK, Starting, Located, Saving, InPayload, Sampling
<1> QED
  BY <1>1, <1>2, <1>3, RunKept

LEMMA MatScannedKeeps ==
  ASSUME IInv, MatScanned
  PROVE  IInv'
<1>1. /\ NoWifi /\ NoCue /\ pc = "mat_scanned"
      /\ \/ pc' = "turn" /\ then' = [then EXCEPT !["turn"] = "mat_aimed"]
         \/ pc' \in {"mat", "choose", "mat_aimed", "failed"} /\ then' = then /\ powered' = powered
  BY DEF MatScanned, Turn, Call, Goto, Fails, NoMotion
<1>2. StackOK' /\ RadioOK'
  BY <1>1 DEF IInv, StackOK, RadioOK, MatScanned, Approaches, NoPayload, payloadVars, NoWifi, wifiVars, samplerVars
<1>3. /\ Starting' => Starting
      /\ Located' => Located
      /\ readings # <<>> => Sampling'
      /\ pc' # "scanning"
  BY <1>1 DEF IInv, StackOK, SampleOK, Starting, Located, Saving, InPayload, Sampling
<1> QED
  BY <1>1, <1>2, <1>3, RunKept

LEMMA ChooseKeeps ==
  ASSUME IInv, Choose
  PROVE  IInv'
<1>1. /\ NoWifi /\ pc = "choose"
      /\ \/ pc' = "turn" /\ then' = [then EXCEPT !["turn"] = "aimed"]
         \/ pc' \in {"aimed", "mat", "failed"} /\ then' = then /\ powered' = powered
  BY DEF Choose, Turn, Call, Goto, Fails, NoMotion
<1>2. StackOK' /\ RadioOK'
  BY <1>1 DEF IInv, StackOK, RadioOK, Choose, Approaches, NoPayload, payloadVars, NoWifi, wifiVars, samplerVars
<1>3. /\ Starting' => Starting
      /\ Located' => Located
      /\ readings # <<>> => Sampling'
      /\ pc' # "scanning"
  BY <1>1 DEF IInv, StackOK, SampleOK, Starting, Located, Saving, InPayload, Sampling
<1>4. BuzzerOK'
  BY CuesKept DEF IInv, Choose
<1> QED
  BY <1>1, <1>2, <1>3, <1>4, CuedRunKept

-----------------------------------------------------------------------------
(* The BLE attempt and the end of the run                                   *)

LEMMA InRangeKeeps ==
  ASSUME IInv, InRange
  PROVE  IInv'
<1>1. NoWifi /\ pc = "ble" /\ UNCHANGED <<pc, then, powered, bleActive>>
  BY DEF InRange, NoMotion
<1>2. StackOK' /\ RadioOK'
  BY <1>1 DEF IInv, StackOK, RadioOK, NoWifi, wifiVars, samplerVars
<1>3. /\ Starting' => Starting
      /\ Located' => Located
      /\ readings # <<>> => Sampling'
  BY <1>1 DEF IInv, SampleOK, Starting, Located, Saving, InPayload, Sampling
<1>4. BuzzerOK'
  BY CuesKept DEF IInv, InRange
<1> QED
  BY <1>1, <1>2, <1>3, <1>4, CuedRunKept

\* Only a fatal attempt, after which the run fails, may leave BLE unsettled.
LEMMA BleEndsKeeps ==
  ASSUME IInv, BleEnds
  PROVE  IInv'
<1>1. /\ NoWifi /\ pc = "ble" /\ powered' = powered
      /\ \/ pc' = "save" /\ then' = [then EXCEPT !["save"] = "answer"] /\ bleActive' = FALSE
         \/ pc' = "failed" /\ then' = then
  BY DEF BleEnds, SavesAfter, Call, Fails, NoMotion
<1>2. StackOK' /\ RadioOK'
  BY <1>1 DEF IInv, StackOK, RadioOK, NoWifi, wifiVars, samplerVars
<1>3. /\ Starting' => Starting
      /\ Located' => Located
      /\ readings # <<>> => Sampling'
      /\ pc' # "scanning"
  BY <1>1 DEF IInv, StackOK, SampleOK, Starting, Located, Saving, InPayload, Sampling
<1>4. BuzzerOK'
  BY CuesKept DEF IInv, BleEnds
<1> QED
  BY <1>1, <1>2, <1>3, <1>4, CuedRunKept

LEMMA EndingKeeps ==
  ASSUME IInv, Completed \/ Beeped \/ Failed \/ Finish
  PROVE  IInv'
<1>1. /\ NoWifi /\ bleActive' = bleActive /\ (powered' => powered)
      /\ \/ pc \in {"completed", "beeping"} /\ pc' \in {"beeping", "report"} /\ then' = then
         \/ pc = "failed" /\ pc' = "report" /\ then' = NoCall
         \/ pc = "finish" /\ pc' = "ended" /\ then' = then
  <2>1. CASE Completed \/ Failed
    BY <2>1 DEF Completed, Failed, Goto, motion_stop, NoPayload, payloadVars
  <2>2. CASE Beeped
    BY <2>2 DEF Beeped, Goto, NoPayload, payloadVars, NoMotion
  <2>3. CASE Finish
    BY <2>3 DEF Finish, Goto, NoPayload, payloadVars, NoMotion
  <2> QED
    BY <2>1, <2>2, <2>3
<1>2. StackOK' /\ RadioOK'
  <2>1. StackOK'
    BY <1>1 DEF IInv, StackOK, NoCall
  <2>2. ~powered' /\ scanOpen' = scanOpen /\ scanActive' = scanActive
    BY <1>1 DEF IInv, RadioOK, NoWifi, wifiVars, samplerVars
  <2>3. RadioOK'
    BY <1>1, <2>2 DEF IInv, RadioOK
  <2> QED
    BY <2>1, <2>3
<1>3. /\ Starting' => Starting
      /\ Located' => Located
      /\ readings # <<>> => Sampling'
      /\ pc' # "scanning"
  BY <1>1 DEF IInv, SampleOK, Starting, Located, Saving, InPayload, Sampling
<1>4. BuzzerOK'
  BY CuesKept DEF IInv, Completed, Beeped, Failed, Finish
<1> QED
  BY <1>1, <1>2, <1>3, <1>4, CuedRunKept

\* The radio is off before the last flash write.
LEMMA ReportKeeps ==
  ASSUME IInv, Report
  PROVE  IInv'
<1>1. /\ pc = "report" /\ pc' \in {"finish", "ended"} /\ then' = then
      /\ powered' = FALSE /\ scanActive' = FALSE /\ bleActive' = FALSE
      /\ UNCHANGED samplerVars /\ here' = here /\ NoCue
  BY DEF Report, RadioAfter, motion_stop, Goto, NoCue
<1>2. StackOK' /\ RadioOK'
  BY <1>1 DEF IInv, StackOK, RadioOK, samplerVars
<1>3. /\ Starting' => Starting
      /\ Located' => Located
      /\ readings # <<>> => Sampling'
      /\ pc' # "scanning"
  BY <1>1 DEF IInv, SampleOK, Starting, Located, Saving, InPayload, Sampling
<1>4. BuzzerOK'
  BY <1>1, CuesKept DEF IInv
<1> QED
  BY <1>1, <1>2, <1>3, <1>4, SamplerKept DEF IInv

-----------------------------------------------------------------------------
(* The invariant and what follows from it                                   *)

LEMMA InitHolds ==
  ASSUME RunInit
  PROVE  IInv
<1>1. StackOK /\ RadioOK
  BY DEF RunInit, SamplerInit, StackOK, RadioOK, NoCall
<1>2. SampleOK /\ PendingOK
  <2>1. pendingResult \in Result
    BY DEF RunInit, SamplerInit, Missing, Result
  <2>2. pc = "boot" /\ readings = <<>> /\ here = 0 /\ position = 0 /\ scanId = 0 /\ identity = "none"
    BY DEF RunInit, SamplerInit
  <2> QED
    BY <2>1, <2>2 DEF SampleOK, PendingOK
<1>3. ReadingsAreOurs
  BY DEF RunInit, SamplerInit, ReadingsAreOurs, ValidReadings
<1>4. BuzzerOK
  BY DEF RunInit, BuzzerInit, BuzzerOK, OneAlarm, Cues
<1> QED
  BY <1>1, <1>2, <1>3, <1>4 DEF IInv

\* Every step keeps the invariant.
LEMMA StepKeeps ==
  ASSUME IInv, [Next]_runVars
  PROVE  IInv'
<1>1. CASE StartUp
  BY <1>1, StartKeeps, BeginKeeps, ReleasedKeeps, CalibratedKeeps, RadioStartsKeeps, BluetoothStartsKeeps DEF StartUp
<1>2. CASE Save \/ Flash \/ Payload \/ Gate \/ BleEnds \/ Answer
  BY <1>2, SaveKeeps, FlashKeeps, PayloadKeeps, GateKeeps, BleEndsKeeps, AnswerKeeps
<1>3. CASE Sample \/ Scan \/ Scanned \/ Sampled \/ Heard \/ StillMissing
  BY <1>3, SampleKeeps, ScanKeeps, ScannedKeeps, SampledKeeps, HeardKeeps, StillMissingKeeps
<1>4. CASE Drive \/ DriveEnds \/ Settled \/ TurnEnds
  BY <1>4, DriveKeeps, MovementEndsKeeps, SettledKeeps
<1>5. CASE Initial \/ Learn \/ Choose \/ Measure \/ SecondOfPair \/ Measured \/ OnLine \/ Stopped
  BY <1>5, InitialKeeps, LearnKeeps, ChooseKeeps, MeasureKeeps, SecondOfPairKeeps, MeasuredKeeps, OnLineKeeps,
     StoppedKeeps
<1>6. CASE MatTurn \/ MatRead \/ MatScanned \/ MatAimed \/ MatStopped
  BY <1>6, MatTurnKeeps, MatReadKeeps, MatScannedKeeps, MatAimedKeeps, MatStoppedKeeps
<1>7. CASE Completed \/ Beeped \/ Failed \/ Report \/ Finish
  BY <1>7, EndingKeeps, ReportKeeps
<1>8. CASE InRange \/ NextNote \/ ScanResult
  BY <1>8, InRangeKeeps, NextNoteKeeps, ScanResultKeeps
<1>9. CASE StopPressed \/ RunLimit \/ LogOverflows \/ ScanDone
  <2>1. /\ UNCHANGED <<pc, then, powered, bleActive, samplerVars, here>>
        /\ scanActive' => scanActive
        /\ NoCue
    BY <1>9 DEF StopPressed, RunLimit, LogOverflows, ScanDone, Foregrounds, NoMotion, NoPayload, payloadVars,
          NoWifi, wifiVars
  <2> QED
    BY <2>1, EventsKeep
<1>10. CASE Replays \/ UNCHANGED runVars
  <2>1. /\ UNCHANGED <<pc, then, powered, bleActive, samplerVars, here>>
        /\ scanActive' => scanActive
        /\ NoCue
    BY <1>10 DEF Replays, runVars, wifiVars, payloadVars, NoCue
  <2> QED
    BY <2>1, EventsKeep
<1> QED
  BY <1>1, <1>2, <1>3, <1>4, <1>5, <1>6, <1>7, <1>8, <1>9, <1>10 DEF Next, Foreground

\* The invariant is one of the run, for every number of access points and alarms.
THEOREM RunInvariance == Spec => []IInv
<1>1. RunInit => IInv
  BY InitHolds
<1>2. IInv /\ [Next]_runVars => IInv'
  BY StepKeeps
<1> QED
  BY <1>1, <1>2, PTL DEF Spec

\* The flash is written with the motors, scans and BLE at rest, and the three never
\* overlap: save_checkpoint, run_report's callers and motion_stop see to it together.
THEOREM RadioIsQuiet == Spec => []QuietRadio
<1>1. IInv => QuietRadio
  BY DEF IInv, RadioOK, QuietRadio
<1> QED
  BY <1>1, RunInvariance, PTL

\* No late or leftover scan result becomes a reading of another scan, place or
\* access point (wifi_sampler.c).
THEOREM ReadingsStayOurs == Spec => []ReadingsAreOurs
<1>1. IInv => ReadingsAreOurs
  BY DEF IInv
<1> QED
  BY <1>1, RunInvariance, PTL

\* However cues replace each other while alarms are due, one alarm steps the pattern
\* that plays and none is left behind (buzzer.c).
THEOREM OneAlarmSounds == Spec => []OneAlarm
<1>1. IInv => OneAlarm
  BY DEF IInv, BuzzerOK
<1> QED
  BY <1>1, RunInvariance, PTL
=============================================================================
