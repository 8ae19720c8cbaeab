------------------------------ MODULE MCMotion ------------------------------
(* Motion on a circle of 16 units: the gyro reads -2..2 and saturates at 3; a *)
(* reading of one unit is in the dead band in which its sign is not learnt.   *)
EXTENDS Motion

MCHeadings == {4}
MCDurations == {2}
=============================================================================
