----------------------------- MODULE ColourMat -----------------------------
(***************************************************************************)
(* What the colour sensor sees, src/getting_there/colour_mat.c: the        *)
(* surface a reading shows, how deep in the mat that is, and whether a     *)
(* scan on the spot found a way to the centre.  A reading is the sensor's  *)
(* four 16-bit counts; the thresholds are the code's own.  The angle of a  *)
(* scan's direction is floating point and left out.                        *)
(***************************************************************************)
EXTENDS Integers

UINT16_MAX == 65535
Counts == 0..UINT16_MAX
ColourReading == [c : Counts, r : Counts, g : Counts, b : Counts]

GR_WHITE_MIN == 968
GR_RING1_MIN == 856
GR_RING2_MIN == 707
GR_RING3_MIN == 552
GR_RING4_MIN == 409
C_RING1_MIN == 4660
BR_MAT_MIN == 842
C_USABLE_MIN == 600

\* Green over red in thousandths; no red is the largest 16-bit number, and more
\* than fits is cut to it.
Saturated(x) == IF x > UINT16_MAX THEN UINT16_MAX ELSE x
colour_gr_x1000(reading) ==
  IF reading.r = 0 THEN UINT16_MAX ELSE Saturated((reading.g * 1000) \div reading.r)
MatBlue(reading) == (reading.b * 1000) \div reading.r >= BR_MAT_MIN

Usable(reading) == reading.c >= C_USABLE_MIN /\ reading.r # 0

DarkRing(gr) ==
  IF gr >= GR_RING2_MIN THEN "RING2" ELSE IF gr >= GR_RING3_MIN THEN "RING3"
  ELSE IF gr >= GR_RING4_MIN THEN "RING4" ELSE "RING5"
colour_classify(reading) ==
  LET gr == colour_gr_x1000(reading) IN
  IF ~Usable(reading) THEN "UNKNOWN"
  ELSE IF gr >= GR_WHITE_MIN THEN IF MatBlue(reading) THEN "WHITE" ELSE "FLOOR"
  ELSE IF gr >= GR_RING1_MIN
    THEN IF reading.c > C_RING1_MIN /\ MatBlue(reading) THEN "RING1" ELSE "FLOOR"
  ELSE DarkRing(gr)

\* The zones in the code's order; a comparison of zones is one of depths.
ZoneDepths == [UNKNOWN |-> -1, FLOOR |-> 0, WHITE |-> 1,
               RING1 |-> 2, RING2 |-> 3, RING3 |-> 4, RING4 |-> 5, RING5 |-> 6]
colour_zone_depth(zone) == ZoneDepths[zone]
DepthOf(reading) == colour_zone_depth(colour_classify(reading))

\* colour_scan_estimate is valid when usable readings show two depths, and
\* mat_approach follows it when one of them is a ring.
ScanPoints(depths) ==
  \E deepest \in depths : deepest >= ZoneDepths.RING1 /\ \E d \in depths : d >= 0 /\ d < deepest
=============================================================================
