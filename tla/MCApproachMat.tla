--------------------------- MODULE MCApproachMat ---------------------------
(* A robot with a colour sensor that may fail, over the bright floor of the     *)
(* logs, a lighter ring and the arrival ring; one flat Wi-Fi reading and one    *)
(* weak one.                                                                    *)
EXTENDS Approach

At(code) == Pair(Sample(code, 0), Sample(code, 0))
MCReadings == {At(60), At(66)}
Shows(clear, red, green, blue) == [c |-> clear, r |-> red, g |-> green, b |-> blue]
MCColourReadings ==
  {Shows(5012, 1749, 1680, 1414), Shows(9035, 3314, 2705, 2767), Shows(3673, 1841, 870, 943)}
=============================================================================
