---------------------------- MODULE BeaconServer ----------------------------
(***************************************************************************)
(* The beacon's GATT server, src/ble_transfer_powerbank/beacon_server.c:   *)
(* one action per BTstack callback, each atomic, because they all run in   *)
(* the same context.  The state that main() polls for its USB report is    *)
(* only read there and is left out.                                        *)
(***************************************************************************)
EXTENDS TransferProtocol

CONSTANT BeaconReply       \* reply_file as REPLY_REQUEST formats it

ReplyAssumption == BeaconReply \in Seq(Pieces) \ {<<>>}
ASSUME ReplyAssumed == ReplyAssumption

BEACON_ID == 1

BeaconStatuses ==
  {"STARTING", "ADVERTISING", "CONNECTED", "READY", "HANDSHAKE", "RECEIVING_FILE",
   "FILE_VERIFIED", "SENDING_REPLY", "COMPLETE", "ERROR"}

VARIABLES
  beaconStatus,
  peerConnected,           \* connection_handle # HCI_CON_HANDLE_INVALID
  notificationsEnabled,
  notification,            \* pending_notification, NoPacket when empty
  expectedLength, expectedCrc, expectedSequence,
  receivedFile,            \* received_file up to received_file_length
  replyOffset, replySequence,
  connectedCue,            \* connected_cue_on
  buzzer                   \* the pattern the buzzer was last told to play

receiveVars == <<expectedLength, expectedCrc, expectedSequence, receivedFile>>
replyVars == <<replyOffset, replySequence>>
cueVars == <<connectedCue, buzzer>>
connectionVars == <<peerConnected, notificationsEnabled>>
beaconVars == <<beaconStatus, connectionVars, notification, receiveVars, replyVars, cueVars>>

BeaconInit ==
  /\ beaconStatus = "STARTING"
  /\ peerConnected = FALSE /\ notificationsEnabled = FALSE /\ notification = NoPacket
  /\ expectedLength = 0 /\ expectedCrc = <<>> /\ expectedSequence = 0 /\ receivedFile = <<>>
  /\ replyOffset = 0 /\ replySequence = 0
  /\ connectedCue = FALSE /\ buzzer = "silent"

-----------------------------------------------------------------------------
(* Building blocks                                                          *)

\* The one slot is overwritten; nothing is queued for a peer that has gone or
\* has not enabled notifications.
queue_notification(m) ==
  notification' = IF notificationsEnabled /\ peerConnected THEN m ELSE notification

send_simple(type, number) == queue_notification(Packet(type, number, <<>>))

\* reset_transfer.  The CRC it clears is that of an empty file.
reset_transfer ==
  /\ expectedLength' = 0 /\ expectedCrc' = <<>> /\ expectedSequence' = 0 /\ receivedFile' = <<>>
  /\ replyOffset' = 0 /\ replySequence' = 0

Refuse(code) ==
  /\ beaconStatus' = "ERROR"
  /\ send_simple("ERROR", code)

\* send_reply_piece, from the given offset and sequence number.  The announcement
\* is the piece at offset 0 and sequence 0.
send_reply_piece_NoSequence(offset, sequence) ==
  IF offset = 0 /\ sequence = 0
    THEN /\ queue_notification(Packet("REPLY_START", Len(BeaconReply), BeaconReply))
         /\ replySequence' = 1 /\ replyOffset' = offset
  ELSE IF offset < Len(BeaconReply)
    THEN /\ queue_notification(Packet("REPLY_DATA", sequence, <<BeaconReply[offset + 1]>>))
         /\ replyOffset' = offset + 1 /\ replySequence' = (sequence + 1) % 256
    ELSE /\ queue_notification(Packet("REPLY_END", 0, BeaconReply))
         /\ replyOffset' = offset /\ replySequence' = sequence
send_reply_piece_NoEnd(offset, sequence) ==
  IF offset = 0 /\ sequence = 0
    THEN /\ queue_notification(Packet("REPLY_START", Len(BeaconReply), BeaconReply))
         /\ replySequence' = 1 /\ replyOffset' = offset
  ELSE IF offset < Len(BeaconReply)
    THEN /\ queue_notification(Packet("REPLY_DATA", (sequence + 255) % 256,
                                      <<BeaconReply[offset + 1]>>))
         /\ replyOffset' = offset + 1 /\ replySequence' = (sequence + 1) % 256
    ELSE UNCHANGED <<notification, replyVars>>
send_reply_piece(offset, sequence) ==
  IF offset = 0 /\ sequence = 0
    THEN /\ queue_notification(Packet("REPLY_START", Len(BeaconReply), BeaconReply))
         /\ replySequence' = 1 /\ replyOffset' = offset
  ELSE IF offset < Len(BeaconReply)
    THEN /\ queue_notification(Packet("REPLY_DATA", (sequence + 255) % 256,
                                      <<BeaconReply[offset + 1]>>))
         /\ replyOffset' = offset + 1 /\ replySequence' = (sequence + 1) % 256
    ELSE /\ queue_notification(Packet("REPLY_END", 0, BeaconReply))
         /\ replyOffset' = offset /\ replySequence' = sequence

-----------------------------------------------------------------------------
(* att_write_callback: one operator per message the robot writes            *)

Write_HELLO(m) ==
  /\ m.type = "HELLO" /\ UNCHANGED cueVars
  /\ IF m.number = BEACON_ID
       THEN /\ reset_transfer
            /\ beaconStatus' = "HANDSHAKE" /\ send_simple("HELLO_ACK", BEACON_ID)
       ELSE Refuse(1) /\ UNCHANGED <<receiveVars, replyVars>>

\* The announced length is stored before it is checked.
Write_FILE_START_AnyLength(m) ==
  /\ m.type = "FILE_START" /\ UNCHANGED <<replyVars, cueVars>>
  /\ expectedLength' = m.number /\ expectedCrc' = m.body
  /\ expectedSequence' = 0 /\ receivedFile' = <<>>
  /\ beaconStatus' = "RECEIVING_FILE" /\ send_simple("FILE_READY", BEACON_ID)
Write_FILE_START(m) ==
  /\ m.type = "FILE_START" /\ UNCHANGED <<replyVars, cueVars>>
  /\ expectedLength' = m.number /\ expectedCrc' = m.body
  /\ expectedSequence' = 0 /\ receivedFile' = <<>>
  /\ IF m.number <= TRANSFER_MAX_FILE_SIZE
       THEN beaconStatus' = "RECEIVING_FILE" /\ send_simple("FILE_READY", BEACON_ID)
       ELSE Refuse(3)

ExpectedChunk(m) ==
  /\ m.number = expectedSequence /\ Len(m.body) <= 1
  /\ Len(receivedFile) + Len(m.body) <= expectedLength

\* A good chunk is not acknowledged and leaves the status alone.
Write_FILE_DATA_Acknowledges(m) ==
  /\ m.type = "FILE_DATA" /\ UNCHANGED <<expectedLength, expectedCrc, replyVars, cueVars>>
  /\ IF ExpectedChunk(m)
       THEN /\ receivedFile' = receivedFile \o m.body
            /\ expectedSequence' = (expectedSequence + 1) % 256
            /\ UNCHANGED beaconStatus /\ send_simple("FILE_READY", BEACON_ID)
       ELSE Refuse(5) /\ UNCHANGED <<receivedFile, expectedSequence>>
Write_FILE_DATA(m) ==
  /\ m.type = "FILE_DATA" /\ UNCHANGED <<expectedLength, expectedCrc, replyVars, cueVars>>
  /\ IF ExpectedChunk(m)
       THEN /\ receivedFile' = receivedFile \o m.body
            /\ expectedSequence' = (expectedSequence + 1) % 256
            /\ UNCHANGED <<beaconStatus, notification>>
       ELSE Refuse(5) /\ UNCHANGED <<receivedFile, expectedSequence>>

FileVerified == Len(receivedFile) = expectedLength /\ receivedFile = expectedCrc

Write_FILE_END(m) ==
  /\ m.type = "FILE_END" /\ UNCHANGED <<receiveVars, replyVars, cueVars>>
  /\ beaconStatus' = IF FileVerified THEN "FILE_VERIFIED" ELSE "ERROR"
  /\ queue_notification(Packet("FILE_RECEIVED", IF FileVerified THEN 0 ELSE 1, receivedFile))

\* The request starts the reply over; the next requests continue it.
Write_REPLY_REQUEST(m) ==
  /\ m.type = "REPLY_REQUEST" /\ UNCHANGED <<receiveVars, cueVars>>
  /\ beaconStatus' = "SENDING_REPLY"
  /\ send_reply_piece(0, 0)

Write_REPLY_NEXT(m) ==
  /\ m.type = "REPLY_NEXT" /\ UNCHANGED <<beaconStatus, receiveVars, cueVars>>
  /\ send_reply_piece(replyOffset, replySequence)

Write_COMPLETE(m) ==
  /\ m.type = "COMPLETE" /\ UNCHANGED <<receiveVars, replyVars>>
  /\ beaconStatus' = "COMPLETE"
  /\ connectedCue' = FALSE /\ buzzer' = "complete"
  /\ send_simple("COMPLETE_ACK", BEACON_ID)

att_write_callback(m) ==
  /\ UNCHANGED connectionVars
  /\ \/ Write_HELLO(m) \/ Write_FILE_START(m) \/ Write_FILE_DATA(m) \/ Write_FILE_END(m)
     \/ Write_REPLY_REQUEST(m) \/ Write_REPLY_NEXT(m) \/ Write_COMPLETE(m)

\* att_write_callback for the client configuration: the robot enables notifications.
EnableNotifications ==
  /\ notificationsEnabled' = TRUE /\ peerConnected' = TRUE
  /\ beaconStatus' = "READY"
  /\ UNCHANGED <<notification, receiveVars, replyVars, cueVars>>

-----------------------------------------------------------------------------
(* packet_handler                                                           *)

BeaconWorking ==
  /\ beaconStatus = "STARTING"
  /\ beaconStatus' = "ADVERTISING" /\ buzzer' = "alive"
  /\ UNCHANGED <<connectionVars, notification, receiveVars, replyVars, connectedCue>>

RobotConnected ==
  /\ peerConnected' = TRUE
  /\ beaconStatus' = "CONNECTED"
  /\ connectedCue' = TRUE /\ buzzer' = "connected"
  /\ UNCHANGED <<notificationsEnabled, notification, receiveVars, replyVars>>

\* HCI_EVENT_DISCONNECTION_COMPLETE.  A completion tone is left to finish.
RobotDisconnected_KeepsSlot ==
  /\ peerConnected' = FALSE /\ notificationsEnabled' = FALSE
  /\ reset_transfer
  /\ beaconStatus' = "ADVERTISING"
  /\ connectedCue' = FALSE
  /\ buzzer' = IF connectedCue THEN "silent" ELSE buzzer
  /\ UNCHANGED notification
RobotDisconnected ==
  /\ peerConnected' = FALSE /\ notificationsEnabled' = FALSE /\ notification' = NoPacket
  /\ reset_transfer
  /\ beaconStatus' = "ADVERTISING"
  /\ connectedCue' = FALSE
  /\ buzzer' = IF connectedCue THEN "silent" ELSE buzzer

\* ATT_EVENT_CAN_SEND_NOW: the slot goes out.
CanSendNow ==
  /\ notification # NoPacket /\ notification' = NoPacket
  /\ UNCHANGED <<beaconStatus, connectionVars, receiveVars, replyVars, cueVars>>

-----------------------------------------------------------------------------
BeaconTypes ==
  /\ beaconStatus \in BeaconStatuses
  /\ peerConnected \in BOOLEAN /\ notificationsEnabled \in {FALSE, peerConnected}
  /\ notification \in PacketSet
  /\ expectedLength \in Nat /\ expectedCrc \in Seq(Pieces) /\ expectedSequence \in 0..255
  /\ receivedFile \in Seq(Pieces) /\ Len(receivedFile) <= TRANSFER_MAX_FILE_SIZE
  /\ replyOffset \in 0..Len(BeaconReply) /\ replySequence \in 0..255
  /\ connectedCue \in BOOLEAN
  /\ buzzer \in {"silent", "alive", "connected", "complete"}

\* What the robot's client writes, over any losses and retries and with a file of any
\* length, never outgrows received_file[] (the bound is beacon_server.c:229, an
\* early return that leaves the length it refused behind); notifications are enabled
\* only for a connected robot, and the continuous tone stands for one whose transfer
\* is not complete, no longer and no shorter (beacon_server.c:361).
BeaconInv ==
  /\ BeaconTypes
  /\ buzzer = "connected" <=> connectedCue
  /\ connectedCue => peerConnected
=============================================================================
