-------------------------- MODULE MCApproachLine --------------------------
(* A robot without a colour sensor: lines, declines, dips and returns.  A step *)
(* is two units, so that it can overrun or be cut short; the readings are      *)
(* strong, in between and weak, far enough apart for both verdicts, and one so *)
(* noisy that it confirms little.                                              *)
EXTENDS Approach

At(code) == Pair(Sample(code, 0), Sample(code, 0))
MCReadings == {At(60), At(63), At(68), Pair(Sample(59, 5), Sample(58, 5))}
MCNoReadings == {}
=============================================================================
