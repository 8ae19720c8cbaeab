---------------------------- MODULE WifiSampler ----------------------------
(***************************************************************************)
(* Stationary Wi-Fi sampling, src/getting_there/wifi_sampler.c, over the   *)
(* radio driver's scan: the foreground starts a scan and waits for it, the *)
(* driver's callbacks fill in the strongest result meanwhile.  Sampling    *)
(* while the robot moves is compiled out (LINE_SEARCH_MOVING_SAMPLES 0).   *)
(*                                                                         *)
(* A result is reduced to what the readings must not mix up: the access    *)
(* point it came from, the scan that was open and the place where the      *)
(* robot stood.  The strength decides which of a scan's results is kept,   *)
(* so any of them may be.                                                  *)
(***************************************************************************)
EXTENDS Integers, Sequences, FiniteSets

CONSTANTS
  AccessPoints,        \* those with AP1's name
  SCANS_PER_SAMPLE, MIN_VALID_SCANS,
  SCAN_IDS, PLACES     \* bounds: scan ids and places are counted round

SamplerAssumption ==
  /\ SCANS_PER_SAMPLE \in Nat \ {0} /\ MIN_VALID_SCANS \in 1..SCANS_PER_SAMPLE
  /\ SCAN_IDS \in Nat \ {0} /\ PLACES \in Nat \ {0}
ASSUME SamplerAssumed == SamplerAssumption

VARIABLES
  scanOpen, samplerFailed, identity,  \* identity_locked and target_bssid
  scanId, position,                   \* position_heading and position_ms
  pendingResult,
  readings,                           \* of the sample being taken
  scanActive,                         \* the driver's
  here                                \* history: where the robot stands

samplerVars == <<scanOpen, samplerFailed, identity, scanId, position, pendingResult, readings>>

\* The id and the position are noted when the scan is opened.
Missing == [scan |-> 0, position |-> 0, heardIn |-> 0, heardAt |-> 0, from |-> "none"]
Valid(reading) == reading.from # "none"

SamplerInit ==
  /\ scanOpen = FALSE /\ samplerFailed = FALSE /\ identity = "none"
  /\ scanId = 0 /\ position = 0 /\ pendingResult = Missing /\ readings = <<>>
  /\ scanActive = FALSE /\ here = 0

wifi_sampler_init ==
  /\ scanOpen' = FALSE /\ samplerFailed' = FALSE /\ identity' = "none"
  /\ scanId' = 0 /\ position' = 0 /\ UNCHANGED <<pendingResult, readings>>

-----------------------------------------------------------------------------
\* sampler_result: called by the driver while it scans.
sampler_result(ap) ==
  /\ scanActive
  /\ identity \in {"none", ap}
  /\ pendingResult' = [pendingResult EXCEPT !.heardIn = scanId, !.heardAt = here, !.from = ap]
  /\ UNCHANGED <<scanOpen, samplerFailed, identity, scanId, position, readings>>

\* wifi_sampler_set_position; the robot stands where the caller says.
set_position == position' = here

\* sampler_begin opens a scan with an empty result, unless it may not or the
\* driver refuses.
OpenResult_Stale(id) == [pendingResult EXCEPT !.scan = id, !.position = position]
OpenResult(id) == [Missing EXCEPT !.scan = id, !.position = position]
MayBegin == ~samplerFailed /\ ~scanOpen

sampler_begin_ok ==
  /\ scanId' = (scanId + 1) % SCAN_IDS
  /\ pendingResult' = OpenResult(scanId')
  /\ scanOpen' = TRUE /\ scanActive' = TRUE
  /\ UNCHANGED <<samplerFailed, identity, position, readings>>
sampler_begin_refused ==
  /\ scanId' = (scanId + 1) % SCAN_IDS
  /\ pendingResult' = OpenResult(scanId')
  /\ samplerFailed' = TRUE
  /\ UNCHANGED <<scanOpen, identity, position, readings, scanActive>>

\* sampler_collect, once the driver is done: the first result heard settles
\* which access point the run follows.
IdentityAfter == IF identity = "none" THEN pendingResult.from ELSE identity
sampler_collect ==
  IF scanOpen
    THEN /\ scanOpen' = FALSE /\ identity' = IdentityAfter
         /\ UNCHANGED <<samplerFailed, scanId, position, pendingResult>>
    ELSE UNCHANGED <<scanOpen, identity, samplerFailed, scanId, position, pendingResult>>

\* wifi_sampler_quiesce: it waits while an open scan runs and gives up when the
\* run ends or the scan takes too long; nothing may use the radio from then on.
Waiting == scanOpen /\ scanActive
sampler_quiesced == ~samplerFailed /\ ~Waiting /\ sampler_collect
sampler_gives_up ==
  /\ ~samplerFailed /\ Waiting /\ samplerFailed' = TRUE
  /\ UNCHANGED <<scanOpen, identity, scanId, position, pendingResult, readings>>

\* With too few valid readings the beacon is missing (wifi_filter).
ValidReadings == {i \in DOMAIN readings : Valid(readings[i])}
SampleMissing == Cardinality(ValidReadings) < MIN_VALID_SCANS

-----------------------------------------------------------------------------
\* Every reading of a sample was heard in its own scan, from the access point
\* the run follows, where the robot stands and where the record says it does:
\* wifi_sampler.c:121, 149 and 194 against late and leftover results.
ReadingsAreOurs ==
  \A i \in ValidReadings :
    /\ readings[i].heardIn = readings[i].scan
    /\ readings[i].heardAt = here /\ readings[i].position = here
    /\ readings[i].from = identity
=============================================================================
