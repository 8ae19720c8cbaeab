----------------------------- MODULE LineSearch -----------------------------
(***************************************************************************)
(* How the robot compares Wi-Fi readings, src/getting_there/line_search.c. *)
(* A sample is the filtered strength of one batch of scans: code is the    *)
(* strength below 0 dBm, so a larger code is a weaker signal, and spread   *)
(* the range the batch covered.  A position is measured by a pair.         *)
(***************************************************************************)
EXTENDS Integers, Sequences

RSSI_MISSING_CODE == 127
MIN_PROGRESS_DB == 3
LINE_REFERENCE_POSITIONS == 3

SampleSet == [code : 0..RSSI_MISSING_CODE, spread : 0..127]
PairSet == [first : SampleSet, second : SampleSet]

Sample(code, spread) == [code |-> code, spread |-> spread]
Pair(first, second) == [first |-> first, second |-> second]

Smaller(a, b) == IF a < b THEN a ELSE b
Larger(a, b) == IF a > b THEN a ELSE b

valid_pair(pair) ==
  pair.first.code # RSSI_MISSING_CODE /\ pair.second.code # RSSI_MISSING_CODE

Strongest(pair) == Smaller(pair.first.code, pair.second.code)
Weakest(pair) == Larger(pair.first.code, pair.second.code)
Spread(pair) == Larger(pair.first.spread, pair.second.spread)

\* return_margin: for checking an approximate timed return.
return_margin(previous, current) ==
  Larger(previous.spread + current.spread + 1, MIN_PROGRESS_DB)

line_pair_margin(previous, current) ==
  Larger(Larger(Spread(previous), Spread(current)) + 1, MIN_PROGRESS_DB)

\* The weaker batch of a pair, with their disagreement added to its spread.
line_reference(pair) ==
  IF valid_pair(pair)
    THEN Sample(Weakest(pair),
                Smaller(Spread(pair) + Weakest(pair) - Strongest(pair), 125))
    ELSE Sample(RSSI_MISSING_CODE, 0)

\* The strongest old batch against the weakest new one.
line_confirmed_gain(previous, current) ==
  IF valid_pair(previous) /\ valid_pair(current) THEN Strongest(previous) - Weakest(current) ELSE 0

line_compare(previous, current) ==
  IF ~valid_pair(previous) \/ ~valid_pair(current) THEN 0
  ELSE IF line_confirmed_gain(previous, current) >= line_pair_margin(previous, current) THEN 1
  ELSE IF line_confirmed_gain(current, previous) >= line_pair_margin(previous, current) THEN -1
  ELSE 0

\* The median of three by their weaker batch; the code's insertion sort is stable.
line_median_reference(samples) ==
  LET rank(i) == line_reference(samples[i]).code
      before(i, j) == rank(i) < rank(j) \/ (rank(i) = rank(j) /\ i < j)
  IN IF \A i \in 1..3 : valid_pair(samples[i])
       THEN samples[CHOOSE i \in 1..3 : \E a, b \in (1..3) \ {i} : before(a, i) /\ before(i, b)]
       ELSE Pair(Sample(RSSI_MISSING_CODE, 0), Sample(RSSI_MISSING_CODE, 0))

line_reference_declined(reference, current) ==
  /\ valid_pair(reference) /\ valid_pair(current)
  /\ line_confirmed_gain(current, reference) > line_pair_margin(reference, current)

line_return_consistent(best, returned) ==
  LET reference == line_reference(best)
      agree == return_margin(returned.first, returned.second)
  IN /\ valid_pair(best) /\ valid_pair(returned)
     /\ Weakest(returned) - Strongest(returned) <= agree
     /\ returned.first.code - reference.code <= return_margin(reference, returned.first)
     /\ returned.second.code - reference.code <= return_margin(reference, returned.second)
=============================================================================
