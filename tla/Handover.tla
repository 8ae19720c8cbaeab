------------------------------ MODULE Handover ------------------------------
(***************************************************************************)
(* What the payload transfer promises, without its packets: the robot's    *)
(* file reaches the beacon first, then the beacon's reply reaches the      *)
(* robot, then the robot reports that it has it, and only when the beacon  *)
(* has heard the report does the robot call the payload delivered.  A      *)
(* transfer may be dropped and started over at any time; a report on its   *)
(* way when the robot gives up may be lost or still be heard.  The beacon  *)
(* does not start over under a robot that has the reply.                   *)
(***************************************************************************)
EXTENDS Sequences

CONSTANTS robotFile, beaconReply

VARIABLES
  beaconHolds,   \* the file the beacon has verified in this transfer
  robotHolds,    \* the reply the robot has verified in this transfer
  report,        \* "none", "sent" to the beacon or "heard" by it
  confirmed      \* the robot calls the payload delivered

handoverVars == <<beaconHolds, robotHolds, report, confirmed>>

Init == beaconHolds = <<>> /\ robotHolds = <<>> /\ report = "none" /\ confirmed = FALSE

BeaconVerifies ==
  /\ beaconHolds = <<>> /\ robotHolds = <<>> /\ report = "none" /\ ~confirmed
  /\ beaconHolds' = robotFile
  /\ UNCHANGED <<robotHolds, report, confirmed>>

RobotVerifiesAndReports ==
  /\ beaconHolds = robotFile /\ robotHolds = <<>> /\ report = "none" /\ ~confirmed
  /\ robotHolds' = beaconReply /\ report' = "sent"
  /\ UNCHANGED <<beaconHolds, confirmed>>

ReportHeard ==
  /\ report = "sent" /\ report' = "heard"
  /\ UNCHANGED <<beaconHolds, robotHolds, confirmed>>

ReportLost ==
  /\ report = "sent" /\ report' = "none"
  /\ robotHolds' \in {robotHolds, <<>>} /\ UNCHANGED <<beaconHolds, confirmed>>

Confirm ==
  /\ beaconHolds = robotFile /\ robotHolds = beaconReply /\ report = "heard" /\ ~confirmed
  /\ confirmed' = TRUE
  /\ UNCHANGED <<beaconHolds, robotHolds, report>>

\* The robot gives up; what the beacon has stays until the next transfer begins.
RobotGivesUp ==
  /\ ~confirmed /\ robotHolds' = <<>>
  /\ UNCHANGED <<beaconHolds, report, confirmed>>

BeaconStartsOver ==
  /\ robotHolds = <<>> /\ report # "sent" /\ ~confirmed
  /\ beaconHolds' = <<>> /\ report' = "none"
  /\ UNCHANGED <<robotHolds, confirmed>>

Next ==
  \/ BeaconVerifies \/ RobotVerifiesAndReports \/ ReportHeard \/ ReportLost \/ Confirm
  \/ RobotGivesUp \/ BeaconStartsOver

Spec == Init /\ [][Next]_handoverVars
=============================================================================
