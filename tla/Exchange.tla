------------------------------ MODULE Exchange ------------------------------
(***************************************************************************)
(* The robot's payload client and the beacon's GATT server over one BLE    *)
(* link.  The client is PayloadClient with every interrupt and timeout it  *)
(* has, except that its peer is now the beacon: it writes what the client  *)
(* wrote, and the client is notified of what the beacon queued.            *)
(*                                                                         *)
(* The link is external.  Once made it carries one ATT request at a time,  *)
(* its response, and notifications in order; a response and a notification *)
(* may overtake each other on the way to the client's callbacks ("A beacon *)
(* can notify before the ATT write completion arrives", payload_client.c). *)
(* It can be lost at any time, and each side learns of it in its own time. *)
(***************************************************************************)
EXTENDS PayloadClient, BeaconServer

\* reply_file[64] (beacon_server.c:102) is shorter than TRANSFER_MAX_FILE_SIZE bytes.
ReplyFileAssumption == Len(BeaconReply) <= TRANSFER_MAX_FILE_SIZE
ASSUME ReplyFileAssumed == ReplyFileAssumption

\* The robot's file may be longer than the beacon has room for: the two are built
\* apart, and nothing in either program holds robot_file (payload_client.c:113) to the
\* TRANSFER_MAX_FILE_SIZE of the other.

VARIABLES
  wire,          \* "up" while the radio link exists
  request,       \* the ATT write on its way to the beacon
  response,      \* its response is on the way to the robot
  inbound,       \* notifications on the way to the robot
  verifiedFile,  \* history: the file the beacon has verified in this transfer
  completeHeard  \* history: the beacon was told that this transfer is complete

airVars == <<wire, request, response, inbound>>
historyVars == <<verifiedFile, completeHeard>>
exchangeVars == <<vars, beaconVars, airVars, historyVars>>

ExchangeInit ==
  /\ Init /\ BeaconInit
  /\ wire = "none" /\ request = NoPacket /\ response = FALSE /\ inbound = <<>>
  /\ verifiedFile = <<>> /\ completeHeard = FALSE

\* Steps of the robot that do not touch the link.
RobotAlone ==
  /\ \/ payload_client_init \/ payload_client_attempt \/ payload_client_retry \/ MainLoop
     \/ ContextCallback \/ ServiceResult \/ CharacteristicResult
     \/ SendScanCommand \/ ScanCommandFailed \/ ScanCommandComplete
     \/ \E close \in BOOLEAN : Advertisement(close)
     \/ ConnectionFailed \/ StackWorking \/ PressStop \/ Tick
  /\ UNCHANGED <<beaconVars, airVars, historyVars>>

BeaconStarts ==
  BeaconWorking /\ UNCHANGED <<vars, airVars, historyVars>>

\* A beacon that advertises accepts the connection.
LinkUp ==
  /\ ConnectionSucceeded
  /\ wire = "none" /\ ~peerConnected /\ beaconStatus = "ADVERTISING"
  /\ wire' = "up"
  /\ UNCHANGED <<beaconVars, request, response, inbound, historyVars>>

BeaconSeesLink ==
  /\ wire = "up" /\ ~peerConnected /\ RobotConnected
  /\ UNCHANGED <<vars, airVars, historyVars>>

\* The link ends, by gap_disconnect, by distance or by a reset of the beacon's
\* radio.  What has reached the robot's stack is still there.
LinkLost ==
  /\ wire = "up" /\ wire' = "none" /\ request' = NoPacket
  /\ UNCHANGED <<vars, beaconVars, response, inbound, historyVars>>

RobotSeesLoss ==
  /\ wire = "none" /\ Disconnection
  /\ response' = FALSE /\ inbound' = <<>>
  /\ UNCHANGED <<beaconVars, wire, request, historyVars>>

BeaconSeesLoss ==
  /\ wire = "none" /\ peerConnected /\ RobotDisconnected
  /\ UNCHANGED <<vars, airVars, historyVars>>

\* BTstack sends the write that tx_packet points to.
WriteLeaves ==
  /\ wire = "up" /\ PacketSent /\ request' = txPacket
  /\ UNCHANGED <<beaconVars, wire, response, inbound, historyVars>>

Beacon_write ==
  /\ wire = "up" /\ peerConnected /\ request # NoPacket
  /\ att_write_callback(request)
  /\ request' = NoPacket /\ response' = TRUE
  /\ verifiedFile' = CASE request.type \in {"HELLO", "FILE_START"} -> <<>>
                       [] request.type = "FILE_END" /\ FileVerified -> receivedFile
                       [] OTHER -> verifiedFile
  /\ completeHeard' = CASE request.type \in {"HELLO", "FILE_START"} -> FALSE
                        [] request.type = "COMPLETE" -> TRUE
                        [] OTHER -> completeHeard
  /\ UNCHANGED <<vars, wire, inbound>>

Beacon_enable ==
  /\ wire = "up" /\ peerConnected /\ query = "ccc" /\ ~response
  /\ EnableNotifications /\ response' = TRUE
  /\ UNCHANGED <<vars, wire, request, inbound, historyVars>>

NotificationLeaves ==
  /\ wire = "up" /\ CanSendNow /\ inbound' = Append(inbound, notification)
  /\ UNCHANGED <<vars, wire, request, response, historyVars>>

NotificationArrives ==
  /\ inbound # <<>> /\ Notification(Head(inbound)) /\ inbound' = Tail(inbound)
  /\ UNCHANGED <<beaconVars, wire, request, response, historyVars>>

\* The GATT operation completes: a discovery over the link, a write with its
\* response, or any of them with an error.
Answered(ok) ==
  /\ QueryComplete(ok)
  /\ ok => IF query \in {"ccc", "sent"} THEN response ELSE wire = "up" /\ peerConnected
  /\ response' = FALSE
  /\ UNCHANGED <<beaconVars, wire, request, inbound, historyVars>>

ExchangeNext ==
  \/ RobotAlone \/ BeaconStarts
  \/ LinkUp \/ BeaconSeesLink \/ LinkLost \/ RobotSeesLoss \/ BeaconSeesLoss
  \/ WriteLeaves \/ Beacon_write \/ Beacon_enable
  \/ NotificationLeaves \/ NotificationArrives
  \/ \E ok \in BOOLEAN : Answered(ok)

ExchangeSpec == ExchangeInit /\ [][ExchangeNext]_exchangeVars

-----------------------------------------------------------------------------
(* Properties                                                               *)

\* The two state machines agree: whatever is lost, aborted or retried, the client never
\* writes what the beacon answers with an error, but for the announcement of a file
\* that is too long.
BeaconNeverRefuses ==
  beaconStatus = "ERROR" \/ notification.type = "ERROR" =>
    expectedLength > TRANSFER_MAX_FILE_SIZE

\* received_file[] is never outgrown.  An announcement that is refused leaves its
\* length behind (beacon_server.c:225), and the next FILE_DATA would be judged by that
\* length alone: from the refusal to the end of the connection nothing more is
\* written, and nothing has been received.
RefusalEndsTransfer ==
  /\ Len(receivedFile) <= TRANSFER_MAX_FILE_SIZE
  /\ expectedLength > TRANSFER_MAX_FILE_SIZE =>
       /\ beaconStatus = "ERROR" /\ receivedFile = <<>>
       /\ request = NoPacket /\ query # "write"

\* The one notification slot is enough: it is never overwritten before it went out.
NotificationKept ==
  [][notification # NoPacket /\ wire = "up" => notification' \in {notification, NoPacket}]_beaconVars

\* The robot never waits for a beacon that waits for the robot: while a waiting
\* phase lasts on a live link, a notification is queued or on its way.
NoMutualWait ==
  state \in WaitingStates /\ wire = "up" /\ ~abortRequested =>
    notification # NoPacket \/ inbound # <<>>

\* The phase whose notification the client is about to wait for, or waits for.
Awaited == IF state \in WaitingStates THEN state ELSE AfterWrite[state]

\* Every notification queued or on its way is the one the client will accept in
\* the phase it is in, whatever attempt or connection came before, or the refusal of
\* the announcement it waits to hear of.
AnswersFit ==
  state \in WaitingStates \cup (WritingStates \ {"WRITE_FILE_DATA"}) =>
    \A m \in ({notification, pending} \cup {inbound[i] : i \in DOMAIN inbound}) \ {NoPacket} :
      /\ m.type \in ExpectedIn(Awaited) \/ (m.type = "ERROR" /\ Awaited = "WAIT_FILE_READY")
      /\ m.type = "FILE_RECEIVED" => m.number = 0 /\ m.body = RobotFile
      /\ m.type = "REPLY_START" => GoodReplyLength(m)
      /\ m.type = "REPLY_DATA" => GoodChunk(m)
      /\ m.type = "REPLY_END" => ReplyVerified(m)

\* Nothing of one connection is left for the next: when a link comes up both slots
\* are empty, notifications are off, the beacon's transfer is reset and the tone that
\* stands for a connected robot (beacon_server.c:361) is off.
FreshLink ==
  [][wire = "none" /\ wire' = "up" =>
       /\ pending = NoPacket /\ notification = NoPacket /\ ~notificationsEnabled
       /\ receivedFile = <<>> /\ expectedSequence = 0
       /\ replyOffset = 0 /\ replySequence = 0
       /\ ~connectedCue /\ buzzer # "connected"]_exchangeVars

-----------------------------------------------------------------------------
(* What the exchange promises, see Handover.                                *)
\* The robot's MSG_COMPLETE is with its stack or on the air.
ReportUnderway ==
  request.type = "COMPLETE" \/ (query = "write" /\ txPacket.type = "COMPLETE")

Promise == INSTANCE Handover WITH
  robotFile <- RobotFile, beaconReply <- BeaconReply,
  beaconHolds <- verifiedFile,
  robotHolds <- IF state \in {"WRITE_COMPLETE", "WAIT_COMPLETE_ACK"} \/ payloadVerified
                  THEN replyFile ELSE <<>>,
  report <- IF ReportUnderway THEN "sent" ELSE IF completeHeard THEN "heard" ELSE "none",
  confirmed <- payloadVerified

\* The exchange implements the hand-over: whatever is lost, late or retried, the
\* robot calls the payload delivered only when both files arrived and the beacon
\* has heard so in this very transfer.
HandoverKept == Promise!Spec
=============================================================================
