-------------------------- MODULE ColourMat_proofs --------------------------
(* What the colour thresholds do for every reading the sensor can make.      *)
EXTENDS ColourMat, TLAPS

\* The sensor's counts are 16-bit numbers (colour_reading_t).
LEMMA CountsAreNaturals ==
  UINT16_MAX \in Nat /\ \A x \in Counts : x \in Nat /\ x <= UINT16_MAX
<1>1. UINT16_MAX \in Nat
  BY SMT DEF UINT16_MAX
<1> QED
  BY <1>1, SMT DEF Counts

\* The ratio is a 16-bit number and no product on the way leaves 32 bits, for any
\* counts (colour_gr_x1000 and the blue test in colour_classify).
THEOREM RatioFits ==
  ASSUME NEW reading \in ColourReading
  PROVE  /\ colour_gr_x1000(reading) \in Counts
         /\ reading.g * 1000 < 4294967296 /\ reading.b * 1000 < 4294967296
<1>1. reading.g \in Counts /\ reading.b \in Counts /\ reading.r \in Counts
  BY DEF ColourReading
<1>2. reading.g \in Nat /\ reading.b \in Nat /\ reading.r \in Nat
      /\ reading.g <= UINT16_MAX /\ reading.b <= UINT16_MAX
  BY <1>1, CountsAreNaturals
<1>3. reading.g * 1000 < 4294967296 /\ reading.b * 1000 < 4294967296
  BY <1>2, SMT DEF UINT16_MAX
<1>4. ASSUME reading.r # 0 PROVE (reading.g * 1000) \div reading.r \in Nat
  BY <1>2, <1>4, SMT
<1>5. ASSUME NEW x \in Nat PROVE Saturated(x) \in Counts
  BY CountsAreNaturals, SMT DEF Saturated, Counts
<1>6. CASE reading.r = 0
  <2>1. UINT16_MAX \in Counts
    BY CountsAreNaturals, SMT DEF Counts
  <2> QED
    BY <1>3, <1>6, <2>1, SMT DEF colour_gr_x1000
<1>7. CASE reading.r # 0
  <2>1. Saturated((reading.g * 1000) \div reading.r) \in Counts
    BY <1>4, <1>5, <1>7
  <2> QED
    BY <1>3, <1>7, <2>1, SMT DEF colour_gr_x1000
<1> QED
  BY <1>6, <1>7

\* The zones that the dark half of the scale is made of.
LEMMA DarkRings ==
  ASSUME NEW gr \in Int
  PROVE  /\ DarkRing(gr) \in {"RING2", "RING3", "RING4", "RING5"}
         /\ DarkRing(gr) \in {"RING4", "RING5"} <=> gr < GR_RING3_MIN
BY SMT DEF DarkRing, GR_RING2_MIN, GR_RING3_MIN, GR_RING4_MIN

\* Every reading has a depth, and exactly the unusable ones have none
\* (colour_classify, colour_zone_depth).
THEOREM DepthIsKnown ==
  ASSUME NEW reading \in ColourReading
  PROVE  DepthOf(reading) \in -1..6 /\ (DepthOf(reading) >= 0 <=> Usable(reading))
<1>1. colour_gr_x1000(reading) \in Int
  <2>1. colour_gr_x1000(reading) \in Counts
    BY RatioFits
  <2> QED
    BY <2>1, CountsAreNaturals, SMT
<1>2. CASE ~Usable(reading)
  BY <1>2, SMT DEF colour_classify, DepthOf, colour_zone_depth, ZoneDepths
<1>3. CASE Usable(reading)
  <2>1. colour_classify(reading) \in {"FLOOR", "WHITE", "RING1", "RING2", "RING3", "RING4", "RING5"}
    BY <1>1, <1>3, DarkRings, SMT DEF colour_classify
  <2> QED
    BY <1>3, <2>1, SMT DEF DepthOf, colour_zone_depth, ZoneDepths
<1> QED
  BY <1>2, <1>3

\* Arrival is a matter of G/R alone: a usable reading is as deep as the arrival
\* ring exactly when its ratio lies below ring 3's, however bright it is
\* (colour_classify, COLOUR_ARRIVAL_ZONE).
THEOREM ArrivalByRatio ==
  ASSUME NEW reading \in ColourReading, Usable(reading)
  PROVE  DepthOf(reading) >= ZoneDepths.RING4 <=> colour_gr_x1000(reading) < GR_RING3_MIN
<1>1. colour_gr_x1000(reading) \in Int
  <2>1. colour_gr_x1000(reading) \in Counts
    BY RatioFits
  <2> QED
    BY <2>1, CountsAreNaturals, SMT
<1>2. CASE colour_gr_x1000(reading) >= GR_RING1_MIN
  <2>1. colour_classify(reading) \in {"FLOOR", "WHITE", "RING1"}
    BY <1>2, SMT DEF colour_classify
  <2> QED
    BY <1>1, <1>2, <2>1, SMT DEF DepthOf, colour_zone_depth, ZoneDepths, GR_RING1_MIN, GR_RING3_MIN
<1>3. CASE ~(colour_gr_x1000(reading) >= GR_RING1_MIN)
  <2>1. colour_classify(reading) = DarkRing(colour_gr_x1000(reading))
    BY <1>1, <1>3, SMT DEF colour_classify, GR_WHITE_MIN, GR_RING1_MIN
  <2> QED
    BY <1>1, <2>1, DarkRings, SMT DEF DepthOf, colour_zone_depth, ZoneDepths
<1> QED
  BY <1>2, <1>3

\* Past the white edge darker is never shallower: of two readings, the one with the
\* lower ratio is at least as deep when it shows no bare surface (colour_classify;
\* mat_approach compares depth with previous to see whether it left its line).
THEOREM DarkerIsDeeper ==
  ASSUME NEW lighter \in ColourReading, NEW darker \in ColourReading,
         Usable(lighter), Usable(darker),
         colour_gr_x1000(darker) <= colour_gr_x1000(lighter),
         colour_gr_x1000(darker) < GR_RING1_MIN
  PROVE  DepthOf(lighter) <= DepthOf(darker)
<1>1. colour_gr_x1000(darker) \in Int /\ colour_gr_x1000(lighter) \in Int
  <2>1. colour_gr_x1000(darker) \in Counts /\ colour_gr_x1000(lighter) \in Counts
    BY RatioFits
  <2> QED
    BY <2>1, CountsAreNaturals, SMT
<1>2. colour_classify(darker) = DarkRing(colour_gr_x1000(darker))
  BY <1>1, SMT DEF colour_classify, GR_WHITE_MIN, GR_RING1_MIN
<1>3. CASE colour_gr_x1000(lighter) >= GR_RING1_MIN
  <2>1. colour_classify(lighter) \in {"FLOOR", "WHITE", "RING1"}
    BY <1>3, SMT DEF colour_classify
  <2> QED
    BY <1>1, <1>2, <2>1, DarkRings, SMT DEF DepthOf, colour_zone_depth, ZoneDepths
<1>4. CASE ~(colour_gr_x1000(lighter) >= GR_RING1_MIN)
  <2>1. colour_classify(lighter) = DarkRing(colour_gr_x1000(lighter))
    BY <1>1, <1>4, SMT DEF colour_classify, GR_WHITE_MIN, GR_RING1_MIN
  <2> QED
    BY <1>1, <1>2, <2>1, SMT
       DEF DarkRing, DepthOf, colour_zone_depth, ZoneDepths, GR_RING2_MIN, GR_RING3_MIN, GR_RING4_MIN
<1> QED
  BY <1>3, <1>4
=============================================================================
