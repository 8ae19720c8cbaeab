# A TLA+ model of the AP1 approach robot

The repository holds the firmware of a small robot (`getting_there/`) that looks
for a powerbank beacon, drives up to it by Wi-Fi strength and colour rings, and
exchanges a file with it over BLE, and the firmware of that beacon
(`ble_transfer_powerbank/`).  This directory models both as far as a model
checker and a prover can reach.

## 1. The system

| Part | Source | State it keeps | Operations |
|---|---|---|---|
| Payload client | `getting_there/payload_client.c` | packed status word (23 states, two results, 11 flags), counters, reply buffer, `tx_packet`, one early-notification slot | `payload_client_init/attempt/retry`, the polling loop of `run_attempt`, `gatt_handler`, `hci_handler`, three main-thread callbacks |
| Transfer protocol | `ble_transfer/transfer_protocol.h` | none | message types, packet layout, CRC-32 |
| Beacon server | `ble_transfer_powerbank/beacon_server.c` | status, subscription, one notification slot, received file, reply position | `att_write_callback`, `packet_handler` |
| Report journal | `getting_there/report_store.c`, `report_flash.c` | 2048 flash pages; next page, active | begin (erase, start page), append, finish, replay |
| Run report | `getting_there/run_report.c` | 32 KiB RAM buffer; active, failed, closed | `report_printf` from anywhere, begin, checkpoint, finish |
| Approach | `getting_there/getting_there.c` | travel budget, position, best point, references, scans used | `approach_beacon` and all it calls |
| Line arithmetic | `getting_there/line_search.c` | none | margins, gains, comparisons, median reference |
| Colour arrival | `getting_there/colour_sensor.c` | lighter ring seen, on the mat, last depth, failed checks | `colour_arrival_check` |
| Wi-Fi sampler | `getting_there/wifi_sampler.c` | open scan, result written by the callback, 64 records | begin, collect, quiesce, sample |
| Motion and STOP | `getting_there/motion.c`, `imu_mpu9250.c` | drive in progress, gyro heading and its uncertainty, gyro sign, STOP latch, PWM | calibrate, learn direction, drive, turn, recovery of a failed read, STOP |
| Cues | `getting_there/robot_cues.c`, `common/buzzer.c` | pattern, note, alarm | play, stop, the alarm's next note |
| Main | `getting_there/getting_there.c` | stage of the run, what BLE and Wi-Fi are doing, checkpoint results | start-up, the approach, the end of a run, replays |
| Faults | `getting_there/faults.c` | 16 fault bits | raise, clear |
| Colour classes and scan estimate | `getting_there/colour_mat.c` | none | classify, estimate |
| Powerbank load, AP builds, calibration tool | `powerbank_load.c`, `picow_access_point*`, `tcs34725_calib/` | - | stand-alone |

**Interaction.**  `main()` is one foreground loop.  It starts a run with GP20,
which begins the journal, brings up the radio and calls `approach_beacon`.
The approach alternates drive blocks, Wi-Fi samples, colour checks and payload
attempts, and saves the report between them.  BTstack and the Wi-Fi driver run
in interrupt context on the same core: their callbacks change the client's status
word, the sampler's result and the report buffer between any two foreground
instructions.  The robot and the beacon share nothing but the link.

**What is hard.**  Callbacks between two reads of the foreground; the abort flag
and the abort callback, which are not one step; notifications that overtake the
write they answer; single slots and static buffers; a link each side loses in its
own time; power cuts inside flash operations; lines reported while a checkpoint is
being programmed; a travel budget that must cover a return whose length the motors
decide; a heading that is only as good as the gyro samples that were not missed; scan
results that come late or never; flash writes that must meet neither radio nor motors; decisions spread over many noisy readings.  `PROJECT.json` lists each such
place with its line under `hazards`.

**What makes each part correct.**  The client must give the radio back, report
COMPLETE only with a verified reply, always come back, and make RETRY mean retry.
The beacon must never lose an answer, wait for a robot that waits for it, or carry
one transfer into the next.  Together they must hand over both files before either
success is claimed.  The journal must replay a prefix of one run, and say COMPLETE
of all of it only.  The approach must always afford its return, base its decisions
on confirmed readings, try every direction, stop at the centre, and end.  The motion
must never claim a heading it does not have, stop within a sample of STOP, and charge
the travel it made.  A Wi-Fi reading must belong to the scan, the place and the access
point it is used for.  And the run as a whole must keep flash, radio and motors apart
and end with all of them off.

## 2. Modules

```
TransferProtocol <- PayloadClient <- PayloadClient_proofs <- PayloadSteps_proofs
                    |              \                                 |
                    | BeaconServer -- Exchange <- Exchange_proofs ---'
                                      Exchange --(implements)--> Handover
LineSearch, ColourMat <- ColourArrival <- Approach <- Approach_proofs
            ColourMat <- ColourMat_proofs <----------- Approach_proofs
ReportStore <- RunReport <- RunReport_proofs
               RunReport --(implements)--> Journal
Motion <- Motion_proofs
WifiSampler, Buzzer <- RobotRun <- RobotRun_proofs
```

`RobotRun` is the frame: it follows `main()` and keeps one state for each call whose
insides another module shows (a drive or turn: `Motion`; a BLE attempt: `PayloadClient`;
a flash write: `RunReport`; the decisions between them: `Approach`).  What it takes from
those modules is what they promise: an attempt that does not end with FATAL leaves the
radio free (`RadioReleased`), a drive returns with the motors off (`MotionReturns`).

An `MC...` module gives the constants of a composition small values.  Definitions
whose name has a suffix such as `_KeepsSlot`
and that no specification uses are *variants*: the definition that follows, as a
plausible slip would write it.  Substituting a variant makes a property of a
passing run fail, which shows that the property depends on that line of the code.

### PayloadClient
`state`, `closing`, `result` and the flags are the packed status word; `phaseAge`
is the clock since `phase_started_ms`.  Each BTstack handler is one action, as it
is one uninterrupted callback; a handler that may meet a refused request
(`gatt_client_*`, `gap_connect`, `gap_disconnect`) has both outcomes.  The main loop
is *not* one action: it is cut where an interrupt can come between a read and its
use (`LoopTest`, `LoopCleanup`, `LoopTimeout`, `LoopQueueAbort`, `LoopAbortAge`, by
`pc`), so `elapsed` may be stale when the state is read.  The two callback queues of
the code are the sequence `callbacks`.  The controller, link and peer are external: a
scan command is sent, then completes or fails; a connection is pending, up,
cancelling or closing; the peer may send any packet of `PeerPackets` at any time.
Time advances only in `sleep_ms(10)`, which dwarfs the other instructions.

The payload is abstracted to pieces (17 bytes in the code) and a CRC to the file it
was computed of: the model knows no collisions, so what is shown of a verified file
is shown up to a CRC-32 collision.  The trimmed-mean RSSI filter is a count of
readings and a verdict.  The caller's behaviour is what `check_payload` does: no
new attempt after FATAL or COMPLETE, retry only after RETRY.

### BeaconServer and Exchange
One action per message type of `att_write_callback`, per connection event and for
`ATT_EVENT_CAN_SEND_NOW`.  `Exchange` replaces the arbitrary peer: it conjoins each
step of the client that meets the link with a step of the link or the beacon.  A
response and a notification may overtake each other; the link may vanish at any
time, and each side hears of it in its own time.  The robot's file may be longer than the
beacon's buffer: the beacon stores the length it refuses (`beacon_server.c:225`), and what
must not happen then is `RefusalEndsTransfer`.  `Handover` states what the
exchange promises in four variables; `HandoverKept` is the refinement.

### ReportStore, RunReport and Journal
A page is erased, torn, or a record.  Every flash operation is several steps: the
erase goes sector by sector and the programming of a page is under way until it
is written, fails or the power is cut.  `RunReport` adds the RAM buffer, main's
phases and lines from callbacks at any moment, and, as history, what each run
reported before it closed and what the last successful checkpoint answered for.
`Journal` says what this amounts to: a notebook that shows the first lines of one run,
torn out only by a new start, growing until it is marked complete.  `RunReport` maps to
it by what a replay would print now (`JournalKept`).

### LineSearch, ColourMat, ColourArrival and Approach
`LineSearch` is the integer arithmetic of `line_search.c` on its own numbers, and
`ColourMat` that of `colour_mat.c`, with the code's thresholds, on 16-bit counts.
`Approach` is sequential; `pc` names the call about to be made.  Its environment
chooses each reading, how far each block went (`1..duration + BLOCK_RESERVE`, or a
runaway, which the code refuses), what the colour sensor saw and what a payload
attempt returned.  `net` is history: where the motors really took the robot along
the line; `references` and `counted` are the decline references a line has had and the weak
positions counted on it, `fruitless` the sides tried without a gain since the last one.
Headings are the number of the direction tried.  A payload attempt is a
single step here; its retries are in `PayloadClient`, and the three that stay unconfirmed end it
with the code's fault.  A colour scan shows a set of
depths; which way it points is left open, whether it points anywhere is not.

### Motion
One thread runs the calls of `motion.c`; every loop body is cut where it sleeps, where
it waits for the bus, and between `motors_set`'s look at STOP and the PWM levels it
writes.  Time is a count of `MOTION_SAMPLE_MS`, an angle an integer on a circle of `FULL`
units, a rate an angle per sample.  The environment turns a powered robot by any rate the
gyro can measure, or saturates it; fails any read; presses and releases the button.  A sample
that is read is integrated exactly: what the heading misses is the samples that are not.
The sign is learnt from rates above `SIGN_RATE`, the code's dead band of 5 dps.
`trueHeading` is history: where the robot really points.  The property that ties the two
headings together, `MotionInv`, says that the gyro is off by no more than the uncertainty
the code keeps: this is what every check of `uncertainty` in the code relies on.

### WifiSampler, Buzzer and RobotRun
`WifiSampler` has the sampler's calls and the driver's callbacks as separate operators; a
reading is reduced to its scan, its place and its access point, the three things that must
not be mixed up.  `Buzzer` has the pattern, the alarm pool and the callback `next_note`,
which may be called for any alarm still in the pool, including one nobody owns any more.
`RobotRun` composes them with `main()`: `pc` is the statement the foreground has come to and
`then` the return label of each function being called.  STOP, the run limit, a line
that overflows the report (`LogOverflows`), scan results, the end of a scan and alarms come between
any two of its steps.

## 3. The runs

| Run | Question | Bounds, and why they are enough |
|---|---|---|
| `payload` | Are the client's safety properties kept against an arbitrary peer? | Files of two pieces, so that a first, a last and a surplus piece exist; a gate of two averages of two readings, so that it can be lost and won again; scan and phase timeouts of one tick, setup and attempt timeouts of two, so that each can come first. 15 notifications, right and wrong ones of each type. |
| `payload_live` | Does every attempt return, and with FATAL after STOP? | A file of two pieces, a reply of one, one reading, a peer of two packets: the length of the transfer does not matter to whether it ends. |
| `payload_phase`, `payload_gate`, `payload_reason` | Three sentences of the documentation | See section 5; the first counterexample is short. |
| `exchange` | Do client and beacon fit, and does anything follow an announcement the beacon refused? | A robot whose file fills the beacon's buffer of two pieces, or (`LongFile`) one whose file is a piece longer; a reply of two: sequence numbers 0 and 1, a middle and a last piece. An attempt timeout of two ticks. Retries and lost links are unbounded. |
| `run_report` | Is the journal what it says, and does it implement `Journal`? | Two boots (an old run to be erased and mixed up), six pages in sectors of two, two lines a page, a buffer of three lines that can overflow. |
| `approach_line` | Budget, references, progress, declines, and are all directions tried? | Steps of two units, one in a trial, as a probe and as the last of a return, so that a block can fall short and overrun by one; four readings, one noisy; three positions make a decline, as in the code, so that one of them is neither the first nor the last; two directions; a budget of 32 is the least in which a line declines, a side gains and declines and the next one is tried, and it runs out. The step does not change here, as it does on the mat: that is left to the proof. |
| `approach_mat` | Colour arrival, and does an approach end? | The bright floor of the logs, a lighter ring and the arrival ring, as raw readings; two failed checks disable the sensor; two scans of two steps; two positions make a decline. |
| `approach_drives_on` | One sentence of the documentation | as `approach_mat`, with shorter blocks |
| `motion` | Is the heading what it claims, and does STOP stop? | A circle of 16 units, rates -2 to 2 with saturation at 3 and a dead band of 1 in which no sign is learnt; two moving recoveries and one turn correction; calibration, the learning turn and then one turn to 4 or one drive of two samples. A turn that starts with an uncertainty left by an earlier drive needs two calls and is not reached. |
| `robot_run` | Do flash, radio, motors and buzzer keep apart, and does a run end? | Samples of three scans of which two must hear the access point, two access points of one name; scan ids and places counted round after 4 and 3, more than are alive at once; two alarms; three payload attempts and three missing samples. |

`PayloadClient.cfg`, `Exchange.cfg` and `RobotRun.cfg` have a `VIEW`: states that differ only
in values that are written before they are next read are one state to TLC (the reply of an
attempt that is over, the result of a scan that was collected, a pattern that has ended).
A property of these runs reads such a value only in states in which the view keeps it; the
one exception is the ranges in `Inv`, and `Inv` is proved for every state.

`CHECK_DEADLOCK FALSE` is set where the system may really stop: a finished approach, a
latched STOP, a returned FATAL and an ended report are states in which the program has
nothing left to do.  `motion` and `robot_run` check for deadlock.

**Fairness.**  `PayloadClient` assumes that the main loop goes on, that BTstack runs
the callbacks queued to it and that the clock advances in the sleep.  These are the
processor, the run loop and the timer; nothing is assumed of the radio, the peer or
the caller.  `Approach` assumes that the program takes its next step, and `Motion` that its
thread does, whatever the gyro says.  `RobotRun` assumes the foreground once GP20 was
pressed, that the run's time passes and that alarms come due; nothing of the buttons, and
not that a scan ever ends or hears anything.  `Exchange` and `RunReport` have safety
properties only.

## 4. What is proved

Every theorem holds for all values of the constants that satisfy the named assumptions of
its module; TLC evaluates each assumption on the runs.  The `...Invariance` theorem of a module is
`Spec => []IInv` for an inductive invariant that TLC checked first.

| Module | Properties of the runs it proves | Assumptions, and what in the code justifies them |
|---|---|---|
| `PayloadClient_proofs` | `Inv` and with it `RadioReleased`, `RetryPossible`, `CompleteIsVerified` | sizes and counts positive, no phase timeout above the setup timeout (the `#define`s); the peer's packets are packets |
| `PayloadSteps_proofs` | `SlotDrained`, `TxStable`, `AbortStartsNothing` | the same |
| `Exchange_proofs` | `RefusalEndsTransfer`, `NotificationKept`, `BeaconNeverRefuses`, `NoMutualWait`, `AnswersFit`, `FreshLink`, `HandoverKept` | also `ReplyFileAssumption`: the beacon's reply fits (`reply_file[64]`). The robot's file is of any length |
| `Approach_proofs` | `ApproachTypeOK`, `ReturnAffordable`, `BackWhereItWas`, `ReferenceHolds`, `ProgressIsReal`, `TriesEveryDirection`, `DeclineSpansSteps`, `CollectsAtTheCentre`, `SteeringStopsOnArrival` | blocks and probes of one unit to `LINE_BLOCK`, positive trials and sweeps (`TravelAssumption`), positive counts (`CountAssumption`), usable readings (`ReadingAssumption`): the `#define`s of `getting_there.h`, and the readings `wait_for_wifi` lets through |
| `Motion_proofs` | `MotionInv`, `ArrivesAsTold`, `StopWithinSample`, `ChargedAsDriven` | a circle of an even number of units and natural tolerances (`AngleAssumption`), positive counts and natural deadlines (`LimitAssumption`): the `#define`s of `motion.c` |
| `RobotRun_proofs` | `QuietRadio`, `ReadingsAreOurs`, `OneAlarm` | positive counts of scans, attempts and missing samples, at least one valid scan to a sample and no more than it takes (`RunAssumption`, `SamplerAssumption`); alarm ids are positive, as the SDK's are (`AlarmsAssumed`) |
| `RunReport_proofs` | `ReportInv`, `ReplayIsPrefixOfOneRun`, `CompleteIsEverything`, `CheckpointIsDurable`, `JournalKept` | a journal of whole sectors with at least three pages, a page and a buffer that hold something (`StoreAssumption`, `ReportAssumption`): the `#define`s of `report_store.h`, `report_store.c` and `run_report.c` |
| `ColourMat_proofs` | none (lemmas about the arithmetic, used by `Approach_proofs`) | none |

**Payload client.**  None of its properties is inductive: that the radio is idle when an
attempt returns depends on what every state says of the scan and the link.  `Inv` adds just
that, state by state: `LinkByState` (which link and handle go with a state),
`ScanByState` (what the scanner does), `GateByState` (who has passed the gate),
`VerdictByState` (what is known of the reply once it was verified, and that a
COMPLETE in preparation rests on it) and `LifeByState` (the attempt as the main loop
sees it, and which callbacks can be queued).  The proof has lemmas for the shared
building blocks (`close_attempt`, `transfer_failed`, the writes) that establish the
parts of `Inv` after any call, one lemma per action, and a case split on `Next`.

What a step may not do rests on `Ops` besides: a notification is kept early only in a state
that is writing (`SlotByState`), and the state says which GATT operation is outstanding until
the attempt is aborted (`QueryByState`).  Each handler is summarised by how it leaves the
exchange: `Quiet` (untouched), `Unlinked`, `Closes`, `Writes` (one packet) or `Confirms`.
The three properties, and the exchange, are proved of these five kinds of step.

**Exchange.**  Client and beacon each keep a state and an offset, the air keeps what is under
way, and nothing in the code compares them.  `ExchangeInv` says they agree: `LinkKnown` (the link
as each side knows it, one that is lost and that the beacon has yet to hear of included), `OperationByState`,
`OneInFlight` (a request, a queued notification, a response or one being delivered exclude each
other, but for the response and the notification that may overtake it), `WriteFits` (a write under way
is the one of the client's phase), `Agree` (what the beacon has received and sent is what the
client has sent and received, up to the piece under way), `AnswerFits` and `ReplyGrows`.  A file that does
not fit is part of it: no state after the announcement is reached with one.  `Refused` adds that the
client writes nothing once a length was refused, which gives `RefusalEndsTransfer`.

That `ExchangeSpec` implements `Handover` (`ExchangeImplementsHandover`) needs `Recorded`
as well: what the histories `verifiedFile` and `completeHeard` hold in every phase.  There is one
lemma for each abstract step (`HandStartsOver`, `HandVerifies`, `HandReports`, `HandHears`, `HandLoses`,
`HandConfirms`, `HandGivesUp`) and one for a step that stutters (`HandStill`); each action of the exchange is mapped by
one of them.

**Report journal.**  The properties speak of what a replay prints, which is computed from the flash
alone; what main() and the store hold in RAM must be shown to fit it.  `IInv` has the operation under way
and the pages it finds (`JobOK`), that an open journal is a start page, pages of text
and nothing behind them (`PagesOK`), that journal, snapshot and RAM buffer are one stream of the
run's lines (`StreamOK`), whose lines the flash holds and when it may say COMPLETE (`JournalOK`),
how far main() has come (`PhaseOK`) and what a checkpoint answers for (`SnapshotOK`).
What a replay prints is `FlattenSeq` of the pages, a recursive function: the lemmas `FlattenStep` and `FlattenBegins`
(one more page appends its text, fewer pages print a beginning) are proved by the least
number that would refute them (`Least`), which stands in for induction.  From them follow the four ways
the flash can change: pages gone (`PagesErased`), the start page (`FirstPage`), a page of text (`PageAdded`), a torn or an end page
(`PageMarked`).  `PowerLeaves` shows that a power cut leaves nothing that one of these does not
cover.  The step to `Journal` has one lemma for each way the replay can change (`NothingShown`, `RunOpened`,
`LinesAdded`, `RunCompleted`, `PagesTorn`), and each action is mapped by one of them.

**Approach.**  The properties are about the ledger (`translation`, `position`) and the confirmed values, and are kept
only if the robot is where they take it to be.  `IInv` has what the calls can be in the
middle of (`PlaceOK`), the budget (`TravelOK`), that the motors have really taken the robot to
the ledger's position, less what a return has left (`NetOK`), the direction search (`ChoiceOK`),
that the reference is a confirmed gain on every one before it (`ReferenceOK`), which weak positions were
counted, where and by which reference (`CountingOK`), how far the counters can be (`DeclineOK`), and the mat's counters and the sensor's
(`MatOK`, `SensorOK`).  Lemmas about `LineSearch` say what a block of a translation costs and
that a distance out is affordable back.

**Motion.**  The heart of `MotionInv` is that one missed sample is worth at most
`GYRO_RANGE`: `TrustOK` has it at each cut of each loop, where the true heading has already moved and
`gap` not yet been charged.  `PowerOK` and `LateOK` are what `StopWithinSample` needs, `DriveOK` what a
drive has been charged for so far, `SignOK` and `TurnOK` how a turn's angle is counted, modulo whole
turns, while the sign of the motors is being learnt.  `ArrivesAsTold` follows from the last.

**Robot run.**  `QuietRadio` holds because a save is called only from statements in which everything is
at rest, so `IInv` has the return labels (`StackOK`), and to which statements power, scan
and BLE are confined (`RadioOK`).  `SampleOK` and `PendingOK` bound which scan a callback
that is still under way can be of; `BuzzerOK` says which alarms of the pool are owned.

**Colour thresholds**, for every reading of four 16-bit counts: the ratio fits 16 bits and
nothing behind it overflows (`RatioFits`); every usable reading has a depth (`DepthIsKnown`);
the arrival ring is a matter of the ratio alone, whatever the light (`ArrivalByRatio`); past the
white edge darker is never shallower (`DarkerIsDeeper`).  The last does not hold between the
bare surfaces: the floor's ratio lies between those of the white edge and ring 1, and
brightness tells them apart.

**Only model-checked.**  Liveness (`AttemptReturns`, `StopIsFatal`, `ApproachEnds`,
`MotionReturns`, `EndsQuietly`) is out of the prover's reach.  The four runs that expect a
violation need no proof: a counterexample is one.

## 5. Where documentation and code differ

* `payload_phase`: "15-second phase timeouts ... five-second timeouts"
  (`getting_there/README.md:422`).  The age of the phase is read before its state
  (`payload_client.c:713-721`); a transition in between judges a fresh phase by the
  old one's age.
* `payload_gate`: "Once proximity passes, failed transfers retry" (`README.md:32`).
  With the abort flag up, `connection_complete` closes the link without naming a
  result (`payload_client.c:534-537`), and a stale NOT_CLOSE is reported.
* `payload_reason`: a scan error "stops the run with a recorded reason"
  (`getting_there/README.md:633`, `faults.h:17`).  `close_attempt` makes an
  unconfirmed scan FATAL without a fault (`payload_client.c:201-205`).
* `approach_drives_on`: "it never drives on into the beacon box"
  (`getting_there/README.md:70`).  True of the colour steering
  (`SteeringStopsOnArrival`), not of the Wi-Fi line search (`getting_there.c:480`) and
  its dip probes (`:427`).

## 6. Not modelled

* The direction a colour scan points in and `line_normalise_heading`: floating point. The
  approach takes any direction.
* Duty cycles, the steering correction and register-level I2C: the robot turns by any
  rate; a read works or fails.
* The trimmed means of the RSSI filters: a verdict of any reading. The sampler's record
  buffer, which is printed and emptied after every scan.
* Sampling while moving (`LINE_SEARCH_MOVING_SAMPLES` is 0) and the colour scan test build:
  other programs.
* The USB display queue of the report, which never touches the saved log, and the beacon's
  status printing.
* The powerbank load, the access point builds and the calibration tool: stand-alone.
* The wrap of the millisecond counter after 49 days: differences are bounded by the run
  limit of minutes.

`PROJECT.json` gives the reason of each.  I2C, flash and radio appear as operations
that work or fail.

## 7. Plan

1. Done: payload client, beacon, exchange and handover; journal, report and the abstract
   journal; approach with the colour thresholds; motion; sampler, buzzer and the whole run.
2. Done: the proofs of section 4, which cover every safety property and both refinements.
   Next: what links the components, such as that a call `RobotRun` makes returns with
   what it takes from `Motion` and `PayloadClient`.
3. What could still be modelled: the USB display queue, and a turn after a drive in
   `motion` once a smaller state allows two calls.

## 8. Running

    tlc -workers 2 -config PayloadClient.cfg MCPayloadClient.tla
    tlapm PayloadClient_proofs.tla

and the same for `PayloadSteps_proofs`, `Exchange_proofs`, `ColourMat_proofs`,
`RunReport_proofs`, `Approach_proofs`, `Motion_proofs` and `RobotRun_proofs`.  Every run ends within about a minute on
two cores, every proof within a few.
