--------------------------- MODULE PayloadClient ---------------------------
(***************************************************************************)
(* The robot's BLE payload client, src/getting_there/payload_client.c.     *)
(*                                                                         *)
(* Two threads of control share the packed status word:                    *)
(*   - the main loop of run_attempt(), which starts an attempt, watches    *)
(*     the timeouts and the STOP latch and finally returns a result.  Its  *)
(*     loop body is split where an interrupt can land between two reads;   *)
(*   - the BTstack callbacks, which run from an interrupt and are each one *)
(*     atomic step here, every call they make included.                    *)
(* The controller, the link and the beacon are external: they are modelled *)
(* by the requests the client makes and the events it handles.             *)
(*                                                                         *)
(* Time advances in ticks; the timeouts are constants.                     *)
(***************************************************************************)
EXTENDS TransferProtocol

CONSTANTS
  RobotFile,               \* robot_file: the pieces the robot delivers
  PeerPackets,             \* the notifications a peer may send
  RSSI_SAMPLE_COUNT,       \* readings before the filter gives an average
  REQUIRED_CLOSE_AVERAGES, \* consecutive close averages that open the gate
  SCAN_WINDOW, PHASE_TIMEOUT, SETUP_TIMEOUT, CLEANUP_TIMEOUT,
  ATTEMPT_TIMEOUT          \* the five timeouts, in ticks

FileAssumption == RobotFile \in Seq(Pieces) /\ TRANSFER_MAX_FILE_SIZE \in Nat \ {0}
GateAssumption == RSSI_SAMPLE_COUNT \in Nat \ {0} /\ REQUIRED_CLOSE_AVERAGES \in Nat \ {0}
\* Of the five timeouts in lines 18-22, setup's is the longest of a phase.
TimeoutAssumption ==
  /\ SCAN_WINDOW \in Nat \ {0} /\ PHASE_TIMEOUT \in Nat \ {0} /\ SETUP_TIMEOUT \in Nat \ {0}
  /\ CLEANUP_TIMEOUT \in Nat \ {0} /\ ATTEMPT_TIMEOUT \in Nat \ {0}
  /\ CLEANUP_TIMEOUT <= SETUP_TIMEOUT /\ PHASE_TIMEOUT <= SETUP_TIMEOUT
  /\ SCAN_WINDOW <= SETUP_TIMEOUT

ASSUME FileAssumed == FileAssumption
ASSUME GateAssumed == GateAssumption
ASSUME TimeoutsAssumed == TimeoutAssumption

TARGET_BEACON_ID == 1

ASSUME PeerPacketsAssumed == PeerPackets \subseteq PacketSet

\* payload_result_t
Results == {"NOT_CLOSE", "RETRY", "COMPLETE", "FATAL"}
\* ble_state_t
SetupStates == {"CONNECTING", "DISCOVER_SERVICE", "DISCOVER_CHARACTERISTIC",
                "ENABLE_NOTIFICATIONS"}
CleanupStates == {"STOPPING_SCAN", "CLOSING"}
WritingStates ==
  {"WRITE_HELLO", "WRITE_FILE_START", "WRITE_FILE_DATA", "WRITE_FILE_END",
   "WRITE_REPLY_REQUEST", "WRITE_REPLY_NEXT", "WRITE_COMPLETE"}
WaitingStates ==
  {"WAIT_HELLO_ACK", "WAIT_FILE_READY", "WAIT_FILE_RECEIVED",
   "WAIT_REPLY_START", "WAIT_REPLY_PIECE", "WAIT_COMPLETE_ACK"}
BleStates ==
  {"IDLE", "STARTING", "SCANNING", "STOPPING_FOR_CONNECT"}
    \cup SetupStates \cup WritingStates \cup WaitingStates \cup CleanupStates

VARIABLES
  \* The packed status word and phase_started_ms
  state, closing, result,
  attemptRunning, abortRequested, closeConfirmed, scanConfirmed,
  payloadVerified, listening, serviceFound, characteristicFound,
  reconnectRequested, ready, startupFailed,
  phaseAge,                \* ticks since phase_started_ms
  \* The callbacks' own state
  sampleCount, closeCount, \* readings held, consecutive close averages
  connected,               \* connection_handle # HCI_CON_HANDLE_INVALID
  pending,                 \* pending_notification, NoPacket when empty
  txPacket,                \* tx_packet, which BTstack reads when it sends
  robotOffset,             \* robot_offset, in pieces
  replyLength, replyFile, replyCrc,
  faults,                  \* the fault bits this client raises and clears
  \* The main loop
  pc, elapsed, attemptAge, abortAge, closeAnnounced,
  returned,                \* what run_attempt last returned
  stop,                    \* motion_stop_requested()
  \* BTstack, the controller and the link
  callbacks,               \* context callbacks queued, in order
  power,                   \* bring-up of the stack
  scanWanted, scanActive, scanCommand,
  link,                    \* the LE connection as the controller sees it
  query                    \* the outstanding GATT operation

attemptVars == <<state, phaseAge, closing, result, attemptRunning, connected, listening>>
gateVars == <<closeConfirmed, scanConfirmed, sampleCount, closeCount>>
foundVars == <<serviceFound, characteristicFound>>
fileVars == <<robotOffset, replyLength, replyFile, replyCrc>>
verdictVars == <<payloadVerified, faults>>
loopVars == <<pc, elapsed, attemptAge, abortAge, closeAnnounced, returned>>
mainVars == <<loopVars, abortRequested, reconnectRequested>>
bringUpVars == <<power, ready, startupFailed>>
scanVars == <<scanWanted, scanActive, scanCommand>>
radioVars == <<scanVars, link, query, txPacket>>

vars == <<attemptVars, gateVars, foundVars, fileVars, verdictVars, pending,
          mainVars, bringUpVars, radioVars, callbacks, stop>>

\* What a handler that only runs the attempt leaves alone.
OutsideAttempt == <<mainVars, bringUpVars, stop>>

Init ==
  /\ state = "IDLE" /\ closing = "NOT_CLOSE" /\ result = "NOT_CLOSE"
  /\ attemptRunning = FALSE /\ abortRequested = FALSE /\ closeConfirmed = FALSE
  /\ scanConfirmed = FALSE /\ payloadVerified = FALSE /\ listening = FALSE
  /\ serviceFound = FALSE /\ characteristicFound = FALSE
  /\ reconnectRequested = FALSE /\ ready = FALSE /\ startupFailed = FALSE
  /\ phaseAge = 0 /\ sampleCount = 0 /\ closeCount = 0 /\ connected = FALSE
  /\ pending = NoPacket /\ txPacket = NoPacket /\ robotOffset = 0
  /\ replyLength = 0 /\ replyFile = <<>> /\ replyCrc = <<>> /\ faults = {}
  /\ pc = "caller" /\ elapsed = 0 /\ attemptAge = 0 /\ abortAge = 0
  /\ closeAnnounced = FALSE /\ returned = "NONE" /\ stop = FALSE
  /\ callbacks = <<>> /\ power = "off"
  /\ scanWanted = FALSE /\ scanActive = FALSE /\ scanCommand = "none"
  /\ link = "none" /\ query = "none"

-----------------------------------------------------------------------------
(* Building blocks: each sets attemptVars, and says what else it sets.      *)

phase_timeout(s) ==
  CASE s = "SCANNING"        -> SCAN_WINDOW
    [] s \in SetupStates     -> SETUP_TIMEOUT
    [] s \in CleanupStates   -> CLEANUP_TIMEOUT
    [] OTHER                 -> PHASE_TIMEOUT

\* set_state: the phase timer restarts with the state.
SetState(s) == state' = s /\ phaseAge' = 0

MoveOn(s) ==
  /\ SetState(s)
  /\ UNCHANGED <<closing, result, attemptRunning, connected, listening>>

\* finish_attempt, with ST_CLOSING holding r.
finish_attempt_KeepsListener(r) ==
  /\ SetState("IDLE")
  /\ closing' = r /\ result' = r
  /\ connected' = FALSE /\ attemptRunning' = FALSE /\ UNCHANGED listening
finish_attempt(r) ==
  /\ SetState("IDLE")
  /\ closing' = r /\ result' = r
  /\ listening' = FALSE /\ connected' = FALSE /\ attemptRunning' = FALSE

\* Enter state s with the handle valid or not and ST_CLOSING holding r.
Enter(s, handle, r) ==
  /\ SetState(s)
  /\ closing' = r /\ connected' = handle
  /\ UNCHANGED <<result, attemptRunning, listening>>

\* close_attempt called in state s, with the handle valid or not and the link
\* in the given condition.  Also sets pending, scanWanted and link.
close_attempt(s, handle, linkNow, r) ==
  LET scanning == s \in {"SCANNING", "STOPPING_FOR_CONNECT"} IN
  /\ pending' = NoPacket
  /\ \/ /\ scanning
        /\ scanWanted' = FALSE /\ link' = linkNow
        /\ IF scanConfirmed THEN Enter("STOPPING_SCAN", handle, r)
                            ELSE finish_attempt("FATAL")
     \/ /\ ~scanning /\ handle
        /\ UNCHANGED scanWanted
        /\ \/ link' = "closing" /\ Enter("CLOSING", handle, r)
           \/ link' = linkNow /\ Enter("CLOSING", handle, "FATAL")
     \/ /\ ~scanning /\ ~handle /\ s = "CONNECTING"
        /\ UNCHANGED scanWanted
        /\ link' = "cancelling" /\ Enter("CLOSING", handle, r)
     \/ /\ ~scanning /\ ~handle /\ s # "CONNECTING"
        /\ UNCHANGED scanWanted
        /\ link' = linkNow /\ finish_attempt(r)

GateResult_Always == "RETRY"
GateResult == IF closeConfirmed THEN "RETRY" ELSE "NOT_CLOSE"

\* transfer_failed.  Sets what close_attempt sets and verdictVars.
transfer_failed(s, handle, linkNow) ==
  /\ faults' = faults \cup {"PAYLOAD"}
  /\ payloadVerified' = FALSE
  /\ close_attempt(s, handle, linkNow, GateResult)

\* begin_connection: gap_connect accepts the request or reports an error.  The
\* attempt's start has cleared the slot and the verified flag.
begin_connection ==
  \/ /\ MoveOn("CONNECTING")
     /\ link' = "pending"
     /\ pending' = NoPacket /\ payloadVerified' = FALSE
     /\ UNCHANGED <<scanWanted, faults>>
  \/ transfer_failed("IDLE", FALSE, link)

(***************************************************************************)
(* The file exchange.  Each operator below is a call made inside a GATT    *)
(* callback; it sets attemptVars, verdictVars, fileVars, pending, scanVars,*)
(* link, query and txPacket.                                               *)
(***************************************************************************)
\* The transfer fails in state s; op is the GATT operation still outstanding.
Give_up(s, op) ==
  /\ transfer_failed(s, connected, link)
  /\ query' = op
  /\ UNCHANGED <<txPacket, fileVars, scanActive, scanCommand>>

\* write_packet: enter the writing state, then ask BTstack for the write.  slot
\* is what stays in pending_notification when the write is accepted.
write_packet(packet, s, slot) ==
  /\ txPacket' = packet
  /\ UNCHANGED <<scanActive, scanCommand>>
  /\ \/ /\ MoveOn(s)
        /\ query' = "write" /\ pending' = slot
        /\ UNCHANGED <<scanWanted, link, verdictVars>>
     \/ /\ transfer_failed(s, connected, link)
        /\ query' = "none"

write_simple(type, s) == write_packet(Packet(type, 0, <<>>), s, NoPacket)

\* The sequence number of a piece is its offset; it is one byte in the code.
write_next_robot_chunk(slot) ==
  /\ UNCHANGED <<replyLength, replyFile, replyCrc>>
  /\ IF robotOffset = Len(RobotFile)
       THEN /\ write_packet(Packet("FILE_END", 0, <<>>), "WRITE_FILE_END", slot)
            /\ UNCHANGED robotOffset
       ELSE /\ write_packet(Packet("FILE_DATA", robotOffset % 256,
                                   <<RobotFile[robotOffset + 1]>>),
                            "WRITE_FILE_DATA", slot)
            /\ robotOffset' = robotOffset + 1

\* A notification the phase s does not expect; s may only just be entered.
Ignore(s, op) ==
  /\ IF s = state THEN UNCHANGED attemptVars ELSE MoveOn(s)
  /\ pending' = NoPacket /\ query' = op
  /\ UNCHANGED <<verdictVars, fileVars, scanVars, link, txPacket>>

Accept_HELLO_ACK_WaitsAtOnce(s, m, op) ==
  /\ m.type = "HELLO_ACK" /\ s = "WAIT_HELLO_ACK"
  /\ \/ m.number # TARGET_BEACON_ID /\ Give_up(s, op)
     \/ /\ m.number = TARGET_BEACON_ID
        /\ robotOffset' = 0
        /\ UNCHANGED <<replyLength, replyFile, replyCrc>>
        /\ write_packet(Packet("FILE_START", Len(RobotFile), RobotFile),
                        "WAIT_FILE_READY", NoPacket)
Accept_HELLO_ACK_KeepsOffset(s, m, op) ==
  /\ m.type = "HELLO_ACK" /\ s = "WAIT_HELLO_ACK"
  /\ \/ m.number # TARGET_BEACON_ID /\ Give_up(s, op)
     \/ /\ m.number = TARGET_BEACON_ID
        /\ UNCHANGED fileVars
        /\ write_packet(Packet("FILE_START", Len(RobotFile), RobotFile),
                        "WRITE_FILE_START", NoPacket)
Accept_HELLO_ACK(s, m, op) ==
  /\ m.type = "HELLO_ACK" /\ s = "WAIT_HELLO_ACK"
  /\ \/ m.number # TARGET_BEACON_ID /\ Give_up(s, op)
     \/ /\ m.number = TARGET_BEACON_ID
        /\ robotOffset' = 0
        /\ UNCHANGED <<replyLength, replyFile, replyCrc>>
        /\ write_packet(Packet("FILE_START", Len(RobotFile), RobotFile),
                        "WRITE_FILE_START", NoPacket)

Accept_FILE_READY(s, m, op) ==
  /\ m.type = "FILE_READY" /\ s = "WAIT_FILE_READY"
  /\ \/ m.number # TARGET_BEACON_ID /\ Give_up(s, op)
     \/ m.number = TARGET_BEACON_ID /\ write_next_robot_chunk(NoPacket)

Accept_FILE_RECEIVED(s, m, op) ==
  /\ m.type = "FILE_RECEIVED" /\ s = "WAIT_FILE_RECEIVED"
  /\ \/ (m.number # 0 \/ m.body # RobotFile) /\ Give_up(s, op)
     \/ /\ m.number = 0 /\ m.body = RobotFile
        /\ write_simple("REPLY_REQUEST", "WRITE_REPLY_REQUEST")
        /\ UNCHANGED fileVars

GoodReplyLength(m) == m.number \in 1..TRANSFER_MAX_FILE_SIZE

Accept_REPLY_START(s, m, op) ==
  /\ m.type = "REPLY_START" /\ s = "WAIT_REPLY_START"
  /\ \/ ~GoodReplyLength(m) /\ Give_up(s, op)
     \/ /\ GoodReplyLength(m)
        /\ replyLength' = m.number /\ replyCrc' = m.body /\ replyFile' = <<>>
        /\ UNCHANGED robotOffset
        /\ write_simple("REPLY_NEXT", "WRITE_REPLY_NEXT")

\* reply_offset and reply_sequence are both the number of pieces held.
GoodChunk_NoBound(m) == m.number = Len(replyFile) % 256 /\ Len(m.body) = 1
GoodChunk(m) ==
  /\ m.number = Len(replyFile) % 256 /\ Len(m.body) = 1
  /\ Len(replyFile) + 1 <= replyLength

Accept_REPLY_DATA(s, m, op) ==
  /\ m.type = "REPLY_DATA" /\ s = "WAIT_REPLY_PIECE"
  /\ \/ ~GoodChunk(m) /\ Give_up(s, op)
     \/ /\ GoodChunk(m)
        /\ replyFile' = replyFile \o m.body
        /\ UNCHANGED <<robotOffset, replyLength, replyCrc>>
        /\ write_simple("REPLY_NEXT", "WRITE_REPLY_NEXT")

ReplyVerified_NoCrc(m) == Len(replyFile) = replyLength
ReplyVerified(m) ==
  Len(replyFile) = replyLength /\ replyFile = replyCrc /\ m.body = replyCrc

Accept_REPLY_END_ConfirmsAtOnce(s, m, op) ==
  /\ m.type = "REPLY_END" /\ s = "WAIT_REPLY_PIECE"
  /\ \/ ~ReplyVerified(m) /\ Give_up(s, op)
     \/ /\ ReplyVerified(m)
        /\ payloadVerified' = TRUE /\ faults' = faults \ {"PAYLOAD"}
        /\ close_attempt(s, connected, link, "COMPLETE")
        /\ UNCHANGED <<fileVars, scanActive, scanCommand, txPacket>>
        /\ query' = op
Accept_REPLY_END(s, m, op) ==
  /\ m.type = "REPLY_END" /\ s = "WAIT_REPLY_PIECE"
  /\ \/ ~ReplyVerified(m) /\ Give_up(s, op)
     \/ ReplyVerified(m) /\ write_simple("COMPLETE", "WRITE_COMPLETE") /\ UNCHANGED fileVars

Accept_COMPLETE_ACK(s, m, op) ==
  /\ m.type = "COMPLETE_ACK" /\ s = "WAIT_COMPLETE_ACK"
  /\ \/ m.number # TARGET_BEACON_ID /\ Give_up(s, op)
     \/ /\ m.number = TARGET_BEACON_ID
        /\ payloadVerified' = TRUE /\ faults' = faults \ {"PAYLOAD"}
        /\ close_attempt(s, connected, link, "COMPLETE")
        /\ UNCHANGED <<fileVars, scanActive, scanCommand, txPacket>>
        /\ query' = op

ExpectedIn(s) ==
  CASE s = "WAIT_HELLO_ACK"     -> {"HELLO_ACK"}
    [] s = "WAIT_FILE_READY"    -> {"FILE_READY"}
    [] s = "WAIT_FILE_RECEIVED" -> {"FILE_RECEIVED"}
    [] s = "WAIT_REPLY_START"   -> {"REPLY_START"}
    [] s = "WAIT_REPLY_PIECE"   -> {"REPLY_DATA", "REPLY_END"}
    [] s = "WAIT_COMPLETE_ACK"  -> {"COMPLETE_ACK"}
    [] OTHER                    -> {}

\* handle_notification outside the writing states, the state being s.  The slot
\* is empty there (SlotDrained), so leaving it and emptying it are the same.
Consume(s, m, op) ==
  \/ m.type = "ERROR" /\ Give_up(s, op)
  \/ Accept_HELLO_ACK(s, m, op) \/ Accept_FILE_READY(s, m, op) \/ Accept_FILE_RECEIVED(s, m, op)
  \/ Accept_REPLY_START(s, m, op) \/ Accept_REPLY_DATA(s, m, op) \/ Accept_REPLY_END(s, m, op)
  \/ Accept_COMPLETE_ACK(s, m, op)
  \/ m.type \notin ExpectedIn(s) \cup {"ERROR"} /\ Ignore(s, op)

-----------------------------------------------------------------------------
(* GATT callbacks: gatt_handler and handle_notification                     *)

GattDropped_NoAbort == state \in {"CLOSING", "IDLE"}
GattDropped == abortRequested \/ state \in {"CLOSING", "IDLE"}

\* A notification reaches the handler.  While a write is outstanding it waits in
\* the one pending slot.
Notification(m) ==
  /\ link \in {"up", "closing"} /\ listening /\ ~GattDropped
  /\ UNCHANGED <<OutsideAttempt, gateVars, foundVars, callbacks>>
  /\ \/ state \notin WritingStates /\ Consume(state, m, query)
     \/ state \in WritingStates /\ (m.type = "ERROR" \/ pending # NoPacket) /\ Give_up(state, query)
     \/ /\ state \in WritingStates /\ m.type # "ERROR" /\ pending = NoPacket
        /\ pending' = m
        /\ UNCHANGED <<attemptVars, verdictVars, fileVars, radioVars>>

ServiceResult ==
  /\ query = "service" /\ ~GattDropped
  /\ serviceFound' = TRUE
  /\ UNCHANGED <<attemptVars, gateVars, characteristicFound, fileVars, verdictVars,
                 pending, OutsideAttempt, radioVars, callbacks>>

CharacteristicResult ==
  /\ query = "characteristic" /\ ~GattDropped
  /\ characteristicFound' = TRUE
  /\ UNCHANGED <<attemptVars, gateVars, serviceFound, fileVars, verdictVars,
                 pending, OutsideAttempt, radioVars, callbacks>>

\* Start the next set-up operation, with the characteristic listener on or off.
StartSetup(s, op, listen) ==
  \/ /\ SetState(s) /\ listening' = listen /\ query' = op
     /\ UNCHANGED <<closing, result, attemptRunning, connected, verdictVars,
                    pending, scanWanted, link>>
  \/ /\ transfer_failed(s, connected, link) /\ query' = "none"

\* The waiting phase that follows a completed write.
AfterWrite ==
  [s \in WritingStates \ {"WRITE_FILE_DATA"} |->
     CASE s = "WRITE_HELLO"         -> "WAIT_HELLO_ACK"
       [] s = "WRITE_FILE_START"    -> "WAIT_FILE_READY"
       [] s = "WRITE_FILE_END"      -> "WAIT_FILE_RECEIVED"
       [] s = "WRITE_REPLY_REQUEST" -> "WAIT_REPLY_START"
       [] s = "WRITE_REPLY_NEXT"    -> "WAIT_REPLY_PIECE"
       [] s = "WRITE_COMPLETE"      -> "WAIT_COMPLETE_ACK"]

\* Enter the waiting phase and replay a notification that came too early.
EnterWaiting_NoReplay(s) ==
  /\ MoveOn(s) /\ query' = "none"
  /\ UNCHANGED <<pending, verdictVars, fileVars, scanVars, link, txPacket>>
EnterWaiting(s) ==
  IF pending = NoPacket
    THEN /\ MoveOn(s) /\ query' = "none"
         /\ UNCHANGED <<pending, verdictVars, fileVars, scanVars, link, txPacket>>
    ELSE Consume(s, pending, "none")

GattSucceeded ==
  \/ /\ state = "DISCOVER_SERVICE"
     /\ IF serviceFound
          THEN /\ characteristicFound' = FALSE
               /\ StartSetup("DISCOVER_CHARACTERISTIC", "characteristic", listening)
          ELSE /\ transfer_failed(state, connected, link) /\ query' = "none"
               /\ UNCHANGED characteristicFound
     /\ UNCHANGED <<serviceFound, fileVars, txPacket, scanActive, scanCommand>>
  \/ /\ state = "DISCOVER_CHARACTERISTIC"
     /\ IF characteristicFound
          THEN StartSetup("ENABLE_NOTIFICATIONS", "ccc", TRUE)
          ELSE transfer_failed(state, connected, link) /\ query' = "none"
     /\ UNCHANGED <<foundVars, fileVars, txPacket, scanActive, scanCommand>>
  \/ /\ state = "ENABLE_NOTIFICATIONS"
     /\ write_packet(Packet("HELLO", TARGET_BEACON_ID, <<>>), "WRITE_HELLO", pending)
     /\ UNCHANGED <<foundVars, fileVars>>
  \/ /\ state = "WRITE_FILE_DATA"
     /\ write_next_robot_chunk(pending)
     /\ UNCHANGED foundVars
  \/ /\ state \in WritingStates \ {"WRITE_FILE_DATA"}
     /\ EnterWaiting(AfterWrite[state])
     /\ UNCHANGED foundVars


\* gatt_handler for GATT_EVENT_QUERY_COMPLETE.  A write can only succeed once
\* the packet was sent.
QueryComplete(ok) ==
  /\ query # "none" /\ (ok => query # "write")
  /\ UNCHANGED <<OutsideAttempt, gateVars, callbacks>>
  /\ \/ /\ GattDropped
        /\ query' = "none"
        /\ UNCHANGED <<attemptVars, foundVars, fileVars, verdictVars, pending,
                       scanVars, link, txPacket>>
     \/ ~GattDropped /\ ~ok /\ Give_up(state, "none") /\ UNCHANGED foundVars
     \/ ~GattDropped /\ ok /\ GattSucceeded

\* BTstack copies tx_packet into an ATT request and sends it (external).
PacketSent ==
  /\ query = "write" /\ link \in {"up", "closing"}
  /\ query' = "sent"
  /\ UNCHANGED <<attemptVars, gateVars, foundVars, fileVars, verdictVars, pending,
                 OutsideAttempt, scanVars, link, txPacket, callbacks>>

-----------------------------------------------------------------------------
(* HCI callbacks: hci_handler                                               *)

\* BTstack asks the controller for the scanning the client wants (external).
SendScanCommand ==
  /\ scanCommand = "none" /\ ~(scanWanted <=> scanActive)
  /\ scanCommand' = IF scanWanted THEN "enable" ELSE "disable"
  /\ UNCHANGED <<attemptVars, gateVars, foundVars, fileVars, verdictVars, pending,
                 OutsideAttempt, scanWanted, scanActive, link, query, txPacket, callbacks>>

\* The controller rejects a scan command.  BTstack does not repeat it.
ScanCommandFailed ==
  /\ scanCommand # "none"
  /\ scanCommand' = "none" /\ scanWanted' = scanActive
  /\ faults' = faults \cup {"BLE_RADIO"}
  /\ finish_attempt("FATAL")
  /\ UNCHANGED <<gateVars, foundVars, fileVars, payloadVerified, pending,
                 OutsideAttempt, scanActive, link, query, txPacket, callbacks>>

ScanCommandComplete ==
  /\ scanCommand # "none"
  /\ scanCommand' = "none" /\ scanActive' = (scanCommand = "enable")
  /\ UNCHANGED <<foundVars, fileVars, query, txPacket, OutsideAttempt,
                 closeConfirmed, sampleCount, closeCount, callbacks>>
  /\ \/ /\ state = "SCANNING"
        /\ scanConfirmed' = TRUE
        /\ UNCHANGED <<attemptVars, verdictVars, pending, scanWanted, link>>
     \/ /\ state = "STOPPING_FOR_CONNECT" /\ abortRequested
        /\ finish_attempt("FATAL")
        /\ UNCHANGED <<scanConfirmed, verdictVars, pending, scanWanted, link>>
     \/ /\ state = "STOPPING_FOR_CONNECT" /\ ~abortRequested
        /\ begin_connection
        /\ UNCHANGED scanConfirmed
     \/ /\ state = "STOPPING_SCAN"
        /\ finish_attempt(closing)
        /\ UNCHANGED <<scanConfirmed, verdictVars, pending, scanWanted, link>>
     \/ /\ state \notin {"SCANNING", "STOPPING_FOR_CONNECT", "STOPPING_SCAN"}
        /\ UNCHANGED <<attemptVars, scanConfirmed, verdictVars, pending, scanWanted, link>>

\* The gate opens: the scan is stopped first, the connection comes after it.
OpenGate ==
  /\ closeConfirmed' = TRUE /\ MoveOn("STOPPING_FOR_CONNECT")
  /\ scanWanted' = FALSE /\ UNCHANGED link

\* advertisement_received: one valid reading of the target beacon.  Whether a
\* full window's filtered average is close is the input.
Advertisement(close) ==
  /\ scanActive /\ state = "SCANNING" /\ ~abortRequested
  /\ sampleCount' = IF sampleCount < RSSI_SAMPLE_COUNT THEN sampleCount + 1 ELSE sampleCount
  /\ closeCount' = IF sampleCount' < RSSI_SAMPLE_COUNT THEN closeCount
                   ELSE IF close THEN closeCount + 1 ELSE 0
  /\ IF closeCount' < REQUIRED_CLOSE_AVERAGES
       THEN UNCHANGED <<closeConfirmed, attemptVars, scanWanted, link>>
       ELSE OpenGate
  /\ UNCHANGED <<scanConfirmed, foundVars, fileVars, verdictVars, pending, OutsideAttempt,
                 scanActive, scanCommand, query, txPacket, callbacks>>

\* connection_complete with an error, a cancelled connection included.
ConnectionFailed ==
  /\ link \in {"pending", "cancelling"} /\ state \in {"CONNECTING", "CLOSING"}
  /\ IF state = "CLOSING"
       THEN /\ finish_attempt(closing) /\ link' = "none"
            /\ UNCHANGED <<verdictVars, pending, scanWanted>>
       ELSE transfer_failed("IDLE", FALSE, "none")
  /\ UNCHANGED <<gateVars, foundVars, fileVars, OutsideAttempt, scanActive,
                 scanCommand, query, txPacket, callbacks>>

\* connection_complete with a new handle.
ConnectionSucceeded ==
  /\ link \in {"pending", "cancelling"} /\ state \in {"CONNECTING", "CLOSING"}
  /\ UNCHANGED <<gateVars, characteristicFound, fileVars, OutsideAttempt, scanActive,
                 scanCommand, txPacket, callbacks>>
  /\ \/ /\ abortRequested \/ state = "CLOSING"
        /\ Enter("CLOSING", TRUE, closing)
        /\ link' \in {"closing", "up"}
        /\ UNCHANGED <<serviceFound, verdictVars, pending, scanWanted, query>>
     \/ /\ ~abortRequested /\ state = "CONNECTING"
        /\ serviceFound' = FALSE
        /\ \/ /\ Enter("DISCOVER_SERVICE", TRUE, closing)
              /\ link' = "up" /\ query' = "service"
              /\ UNCHANGED <<verdictVars, pending, scanWanted>>
           \/ /\ transfer_failed("DISCOVER_SERVICE", TRUE, "up")
              /\ UNCHANGED query

\* HCI_EVENT_DISCONNECTION_COMPLETE for the current handle, asked for or not.
Disconnection ==
  /\ link \in {"up", "closing"} /\ connected
  /\ link' = "none" /\ query' = "none"
  /\ IF state = "CLOSING"
       THEN finish_attempt(closing) /\ UNCHANGED verdictVars
       ELSE /\ faults' = faults \cup {"PAYLOAD"} /\ payloadVerified' = FALSE
            /\ finish_attempt(GateResult)
  /\ UNCHANGED <<gateVars, foundVars, fileVars, pending, OutsideAttempt, scanVars,
                 txPacket, callbacks>>

-----------------------------------------------------------------------------
(* Context callbacks, run by BTstack in the order they were queued          *)

NextCallback(name) == callbacks # <<>> /\ Head(callbacks) = name /\ callbacks' = Tail(callbacks)

\* What an attempt forgets of the one before; a retry keeps the gate.
ForgetAttempt ==
  /\ closeConfirmed' = (reconnectRequested /\ closeConfirmed)
  /\ scanConfirmed' = FALSE /\ sampleCount' = 0 /\ closeCount' = 0
  /\ replyLength' = 0 /\ replyFile' = <<>> /\ UNCHANGED replyCrc
  /\ pending' = NoPacket

start_attempt_callback ==
  /\ NextCallback("start")
  /\ UNCHANGED <<foundVars, OutsideAttempt, scanActive, scanCommand, query, txPacket, robotOffset>>
  /\ \/ /\ abortRequested
        /\ finish_attempt("FATAL")
        /\ UNCHANGED <<gateVars, replyLength, replyFile, replyCrc, verdictVars, pending,
                       scanWanted, link>>
     \/ /\ ~abortRequested
        /\ ForgetAttempt
        /\ \/ /\ reconnectRequested
              /\ begin_connection
           \/ /\ ~reconnectRequested
              /\ MoveOn("SCANNING")
              /\ scanWanted' = TRUE /\ payloadVerified' = FALSE
              /\ UNCHANGED <<link, faults>>

abort_attempt_callback ==
  /\ NextCallback("abort")
  /\ UNCHANGED <<gateVars, foundVars, fileVars, OutsideAttempt, scanActive, scanCommand,
                 query, txPacket, payloadVerified>>
  /\ \/ /\ ~attemptRunning \/ state \in CleanupStates
        /\ UNCHANGED <<attemptVars, faults, pending, scanWanted, link>>
     \/ /\ attemptRunning /\ state \notin CleanupStates
        /\ faults' = IF ~stop /\ closeConfirmed THEN faults \cup {"PAYLOAD"} ELSE faults
        /\ close_attempt(state, connected, link, IF stop THEN "FATAL" ELSE GateResult)

\* initialise_client_callback; the controller powers on or reports an error.
initialise_client_callback ==
  /\ NextCallback("init")
  /\ UNCHANGED <<attemptVars, gateVars, foundVars, fileVars, payloadVerified, pending,
                 mainVars, ready, stop, radioVars>>
  /\ \/ stop /\ startupFailed' = TRUE /\ power' = "failed" /\ UNCHANGED faults
     \/ ~stop /\ power' = "on" /\ UNCHANGED <<startupFailed, faults>>
     \/ ~stop /\ power' = "failed" /\ startupFailed' = TRUE /\ faults' = faults \cup {"BLE_RADIO"}

\* BTSTACK_EVENT_STATE: the stack reaches its working state.
StackWorking ==
  /\ power = "on" /\ ~ready
  /\ ready' = TRUE
  /\ UNCHANGED <<attemptVars, gateVars, foundVars, fileVars, verdictVars, pending,
                 mainVars, power, startupFailed, stop, radioVars, callbacks>>

-----------------------------------------------------------------------------
(* The main loop                                                            *)

InterruptState == <<state, phaseAge, closing, result, connected, listening, gateVars,
                    foundVars, fileVars, payloadVerified, pending, radioVars, bringUpVars>>

payload_client_init ==
  /\ pc = "caller" /\ power = "off" /\ callbacks = <<>>
  /\ closeConfirmed' = FALSE /\ reconnectRequested' = FALSE
  /\ ready' = FALSE /\ startupFailed' = FALSE
  /\ power' = "queued" /\ callbacks' = <<"init">>
  /\ UNCHANGED <<attemptVars, scanConfirmed, sampleCount, closeCount, foundVars, fileVars,
                 verdictVars, pending, loopVars, abortRequested, stop, radioVars>>

MayStart(reconnect) ==
  /\ ready /\ ~attemptRunning /\ ~stop
  /\ reconnect => closeConfirmed /\ state = "IDLE" /\ result = "RETRY"

\* run_attempt up to its loop.  The caller starts only once the stack is ready,
\* again only after a result that is neither fatal nor complete, and retries only
\* after RETRY; by then BTstack has run the callbacks queued before (the caller
\* paused and saved the log meanwhile).
run_attempt(reconnect) ==
  /\ pc = "caller" /\ ready /\ callbacks = <<>>
  /\ returned \in {"NONE", "NOT_CLOSE", "RETRY"} /\ (reconnect => returned = "RETRY")
  /\ UNCHANGED <<closing, result, connected, listening, scanConfirmed, sampleCount, closeCount,
                 foundVars, fileVars, verdictVars, pending, bringUpVars, stop, radioVars>>
  /\ \/ /\ ~MayStart(reconnect)
        /\ returned' = "FATAL"
        /\ UNCHANGED <<state, phaseAge, attemptRunning, closeConfirmed, callbacks, pc, elapsed,
                       attemptAge, abortAge, closeAnnounced, abortRequested, reconnectRequested>>
     \/ /\ MayStart(reconnect)
        /\ reconnectRequested' = reconnect /\ abortRequested' = FALSE
        /\ closeConfirmed' = (reconnect /\ closeConfirmed)
        /\ attemptRunning' = TRUE /\ SetState("STARTING")
        /\ callbacks' = <<"start">>
        /\ attemptAge' = 0 /\ abortAge' = 0 /\ closeAnnounced' = FALSE
        /\ pc' = "loop" /\ UNCHANGED <<elapsed, returned>>

payload_client_attempt == run_attempt(FALSE)
payload_client_retry == run_attempt(TRUE)

\* run_attempt returns r; its locals are gone.
Return(r) ==
  /\ pc' = "caller" /\ returned' = r
  /\ elapsed' = 0 /\ attemptAge' = 0 /\ abortAge' = 0 /\ closeAnnounced' = FALSE

Outcome_NoStop == result
Outcome == IF stop THEN "FATAL" ELSE result

\* The while condition, the close callback and the read of phase_started_ms.
LoopTest ==
  /\ pc = "loop"
  /\ IF attemptRunning
       THEN /\ closeAnnounced' = (closeAnnounced \/ closeConfirmed)
            /\ elapsed' = phaseAge /\ pc' = "cleanup"
            /\ UNCHANGED <<attemptAge, abortAge, returned>>
       ELSE Return(Outcome)
  /\ UNCHANGED <<InterruptState, attemptRunning, faults, abortRequested, reconnectRequested,
                 stop, callbacks>>

\* cleanup && elapsed >= CLEANUP_TIMEOUT_MS, with the state read only now.
LoopCleanup ==
  /\ pc = "cleanup"
  /\ IF state \in CleanupStates /\ elapsed >= CLEANUP_TIMEOUT
       THEN abortRequested' = TRUE /\ faults' = faults \cup {"BLE_RADIO"} /\ Return("FATAL")
       ELSE /\ pc' = "timeout"
            /\ UNCHANGED <<abortRequested, faults, elapsed, attemptAge, abortAge, closeAnnounced,
                           returned>>
  /\ UNCHANGED <<InterruptState, attemptRunning, reconnectRequested, stop, callbacks>>

TimedOut_NotInSetup == state \notin SetupStates /\ elapsed >= phase_timeout(state)
TimedOut == elapsed >= phase_timeout(state) \/ attemptAge >= ATTEMPT_TIMEOUT

\* The timeout test sets the abort flag; an interrupt can land before the
\* callback that acts on it is queued.
LoopTimeout ==
  /\ pc = "timeout" /\ elapsed' = 0
  /\ IF ~abortRequested /\ (stop \/ TimedOut)
       THEN abortRequested' = TRUE /\ pc' = "queue" /\ abortAge' = 0
       ELSE pc' = "abort" /\ UNCHANGED <<abortRequested, abortAge>>
  /\ UNCHANGED <<InterruptState, attemptRunning, faults, reconnectRequested, attemptAge,
                 closeAnnounced, returned, stop, callbacks>>

LoopQueueAbort ==
  /\ pc = "queue"
  /\ callbacks' = Append(callbacks, "abort") /\ pc' = "abort"
  /\ UNCHANGED <<InterruptState, attemptRunning, faults, reconnectRequested, abortRequested,
                 elapsed, attemptAge, abortAge, closeAnnounced, returned, stop>>

\* The bound on the abort itself, then sleep_ms(10).
LoopAbortAge ==
  /\ pc = "abort"
  /\ IF abortRequested /\ abortAge >= CLEANUP_TIMEOUT
       THEN faults' = faults \cup {"BLE_RADIO"} /\ Return("FATAL")
       ELSE /\ pc' = "loop"
            /\ UNCHANGED <<faults, elapsed, attemptAge, abortAge, closeAnnounced, returned>>
  /\ UNCHANGED <<InterruptState, attemptRunning, reconnectRequested, abortRequested, stop,
                 callbacks>>

MainLoop == LoopTest \/ LoopCleanup \/ LoopTimeout \/ LoopQueueAbort \/ LoopAbortAge

-----------------------------------------------------------------------------
(* The environment                                                          *)

PressStop ==
  /\ ~stop /\ stop' = TRUE
  /\ UNCHANGED <<attemptVars, gateVars, foundVars, fileVars, verdictVars, pending, mainVars,
                 bringUpVars, radioVars, callbacks>>

Older(age, bound) == IF age < bound THEN age + 1 ELSE age

\* A tick ages the three timers, each up to the largest bound it meets.  Time
\* passes in sleep_ms(10); the reads of one loop body take microseconds.
Tick ==
  /\ pc = "loop"
  /\ phaseAge' = Older(phaseAge, SETUP_TIMEOUT)
  /\ attemptAge' = Older(attemptAge, ATTEMPT_TIMEOUT)
  /\ abortAge' = IF abortRequested THEN Older(abortAge, CLEANUP_TIMEOUT) ELSE 0
  /\ UNCHANGED <<state, closing, result, attemptRunning, connected, listening, gateVars,
                 foundVars, fileVars, verdictVars, pending, pc, elapsed, closeAnnounced, returned,
                 abortRequested, reconnectRequested, bringUpVars, radioVars, callbacks, stop>>

ContextCallback ==
  start_attempt_callback \/ abort_attempt_callback \/ initialise_client_callback

GattEvent ==
  \/ \E m \in PeerPackets : Notification(m)
  \/ ServiceResult \/ CharacteristicResult \/ PacketSent
  \/ \E ok \in BOOLEAN : QueryComplete(ok)

HciEvent ==
  \/ SendScanCommand \/ ScanCommandFailed \/ ScanCommandComplete
  \/ \E close \in BOOLEAN : Advertisement(close)
  \/ ConnectionFailed \/ ConnectionSucceeded \/ Disconnection \/ StackWorking

Next ==
  \/ payload_client_init \/ payload_client_attempt \/ payload_client_retry \/ MainLoop
  \/ ContextCallback \/ GattEvent \/ HciEvent \/ PressStop \/ Tick

\* The main loop runs, BTstack runs its callbacks and the clock does not stop: a
\* loop that sleeps again and again sees time pass, hence the strong fairness of
\* Tick, which is enabled only in the sleep.  Nothing is assumed of the radio, of
\* the beacon or of the caller.
Fairness == WF_vars(MainLoop) /\ SF_vars(Tick) /\ WF_vars(ContextCallback)

Spec == Init /\ [][Next]_vars /\ Fairness

-----------------------------------------------------------------------------
(* Properties                                                               *)

\* Every variable has its type (the packed status word, the counters' bit widths of
\* payload_client.c:83-98, the buffers), in groups.
FlagsTypeOK ==
  /\ attemptRunning \in BOOLEAN /\ abortRequested \in BOOLEAN /\ closeConfirmed \in BOOLEAN
  /\ scanConfirmed \in BOOLEAN /\ payloadVerified \in BOOLEAN /\ listening \in BOOLEAN
  /\ serviceFound \in BOOLEAN /\ characteristicFound \in BOOLEAN
  /\ reconnectRequested \in BOOLEAN /\ ready \in BOOLEAN /\ startupFailed \in BOOLEAN
  /\ connected \in BOOLEAN /\ closeAnnounced \in BOOLEAN /\ stop \in BOOLEAN
  /\ scanWanted \in BOOLEAN /\ scanActive \in BOOLEAN
StatusTypeOK ==
  /\ state \in BleStates /\ closing \in Results /\ result \in Results
  /\ phaseAge \in 0..SETUP_TIMEOUT
FaultsTypeOK == faults \subseteq {"BLE_RADIO", "PAYLOAD"}
DataTypeOK ==
  /\ sampleCount \in 0..RSSI_SAMPLE_COUNT /\ closeCount \in 0..REQUIRED_CLOSE_AVERAGES
  /\ pending \in PacketSet /\ txPacket \in PacketSet
  /\ robotOffset \in 0..Len(RobotFile)
  /\ replyLength \in 0..TRANSFER_MAX_FILE_SIZE
  /\ replyFile \in Seq(Pieces) /\ replyCrc \in Seq(Pieces)
LoopTypeOK ==
  /\ pc \in {"caller", "loop", "cleanup", "timeout", "queue", "abort"}
  /\ elapsed \in 0..SETUP_TIMEOUT /\ attemptAge \in 0..ATTEMPT_TIMEOUT
  /\ abortAge \in 0..CLEANUP_TIMEOUT /\ returned \in Results \cup {"NONE"}
RadioTypeOK ==
  /\ callbacks \in {<<>>, <<"init">>, <<"start">>, <<"abort">>, <<"start", "abort">>}
  /\ power \in {"off", "queued", "on", "failed"}
  /\ scanCommand \in {"none", "enable", "disable"}
  /\ link \in {"none", "pending", "cancelling", "up", "closing"}
  /\ query \in {"none", "service", "characteristic", "ccc", "write", "sent"}

\* All of them: no counter leaves its bit field and no buffer overflows, whatever
\* the peer sends.
TypeOK ==
  FlagsTypeOK /\ StatusTypeOK /\ FaultsTypeOK /\ DataTypeOK /\ LoopTypeOK /\ RadioTypeOK

\* A result other than FATAL hands the radio back idle: no scan wanted, running
\* or being switched, no connection up or being made, no GATT operation open.
\* The caller drives, scans Wi-Fi and writes flash on the strength of it.
RadioReleased ==
  pc = "caller" /\ returned \in {"NOT_CLOSE", "RETRY", "COMPLETE"} =>
    /\ state = "IDLE" /\ ~attemptRunning /\ ~listening
    /\ ~scanWanted /\ ~scanActive /\ scanCommand = "none"
    /\ link = "none" /\ query = "none"

\* RETRY always leaves what payload_client_retry needs to start, whatever
\* interrupt finished the attempt.
RetryPossible ==
  pc = "caller" /\ returned = "RETRY" => closeConfirmed /\ state = "IDLE" /\ result = "RETRY"

\* COMPLETE is returned only with the whole reply held and its CRC matched,
\* the gate passed, the payload fault cleared, and payload_client_data readable.
CompleteIsVerified ==
  pc = "caller" /\ returned = "COMPLETE" =>
    /\ payloadVerified /\ closeConfirmed /\ "PAYLOAD" \notin faults
    /\ Len(replyFile) = replyLength /\ replyLength > 0 /\ replyFile = replyCrc

\* A notification that came before its write completed is never left behind in
\* the slot once the attempt has moved past that write.
SlotDrained == attemptRunning /\ pending # NoPacket => state \in WritingStates \cup {"STARTING"}

\* One LE link at a time, and the client holds its handle exactly while the
\* controller has it up: no link is orphaned and no event is taken for a dead one.
HandleMatchesLink == connected <=> link \in {"up", "closing"}

\* BTstack keeps a pointer to tx_packet until it sends: the buffer of a queued
\* write is not rewritten.
TxStable == [][query = "write" => UNCHANGED txPacket]_vars

\* Once the main loop has flagged the abort, no callback starts a scan, a
\* connection or a GATT operation in that attempt.
AbortStartsNothing ==
  [][abortRequested /\ abortRequested' =>
       /\ scanWanted' => scanWanted \/ scanActive
       /\ link' = "pending" => link = "pending"
       /\ query' \in {"none", "sent", query}]_vars

\* Every attempt comes back to its caller whatever the radio and the peer do.
AttemptReturns == pc # "caller" ~> pc = "caller"

\* STOP during an attempt ends it with FATAL.
StopIsFatal == stop /\ pc # "caller" ~> pc = "caller" /\ returned = "FATAL"


(* Three statements of the documentation that the code does not keep.       *)

\* "BLE connection, service/characteristic discovery and notification setup
\* have 15-second phase timeouts. Other transfer phases retain five-second
\* timeouts": a phase is aborted only when it has itself run for its timeout.
PhaseRunsItsTimeout ==
  [][pc = "timeout" /\ pc' = "queue" /\ state \in SetupStates \cup WritingStates =>
       stop \/ attemptAge >= ATTEMPT_TIMEOUT \/ phaseAge >= phase_timeout(state)]_vars

\* "Once proximity passes, failed transfers retry the same BLE address while
\* stopped": an attempt that passed the gate is never reported as not close.
QualifiedIsNeverNotClose == pc = "caller" /\ returned = "NOT_CLOSE" => ~closeConfirmed

\* "BLE scan command or cleanup failed" is what FAULT_BLE_RADIO stands for, and a
\* scan error "stops the run with a recorded reason": an attempt that ends with
\* FATAL out of a scanning phase, not by STOP, has raised it.
ScanErrorHasReason ==
  [][state' = "IDLE" /\ result' = "FATAL" /\ state \in {"SCANNING", "STOPPING_FOR_CONNECT"}
       => stop \/ "BLE_RADIO" \in faults']_vars

(***************************************************************************)
(* The inductive invariant.  State by state, what the radio is doing, what *)
(* the gate has said, what the reply is and what is queued.                *)
(***************************************************************************)
LinkedStates ==
  WritingStates \cup WaitingStates \cup
    {"DISCOVER_SERVICE", "DISCOVER_CHARACTERISTIC", "ENABLE_NOTIFICATIONS"}

ScanQuiet == ~scanWanted /\ ~scanActive /\ scanCommand = "none"

\* The link and the GATT operation each state goes with.
LinkByState ==
  /\ state = "CONNECTING" => link = "pending"
  /\ state = "CLOSING" => link \in {"cancelling", "up", "closing"}
  /\ state \in LinkedStates => link = "up"
  /\ state \notin LinkedStates \cup {"CONNECTING", "CLOSING"} => link = "none"
  /\ query # "none" => link \in {"up", "closing"}
  /\ connected <=> link \in {"up", "closing"}

\* The scan each state goes with.  Only a FATAL end leaves it unsettled.
ScanByState ==
  /\ state = "IDLE" => ScanQuiet \/ result = "FATAL"
  /\ state = "SCANNING" =>
       /\ scanWanted /\ (scanConfirmed <=> scanActive)
       /\ scanCommand # "disable" /\ (scanActive => scanCommand = "none")
       /\ closeCount < REQUIRED_CLOSE_AVERAGES
  /\ state \in {"STOPPING_FOR_CONNECT", "STOPPING_SCAN"} =>
       ~scanWanted /\ scanActive /\ scanConfirmed /\ scanCommand # "enable"
  /\ state \notin {"IDLE", "SCANNING", "STOPPING_FOR_CONNECT", "STOPPING_SCAN"} => ScanQuiet

\* Who has passed the close-range gate.
GateByState ==
  /\ state \in LinkedStates \cup {"STOPPING_FOR_CONNECT", "CONNECTING", "CLOSING"}
       => closeConfirmed
  /\ state \in {"IDLE", "STOPPING_SCAN"} /\ closing = "RETRY" => closeConfirmed
  /\ state = "STARTING" /\ reconnectRequested => closeConfirmed

ReplyHeld == Len(replyFile) = replyLength /\ replyLength > 0 /\ replyFile = replyCrc

\* What is known of the reply, and of the verdict drawn from it.
VerdictByState ==
  /\ state \in {"WRITE_REPLY_NEXT", "WAIT_REPLY_PIECE"} => replyLength > 0
  /\ state \in {"WRITE_COMPLETE", "WAIT_COMPLETE_ACK"} => ReplyHeld
  /\ Len(replyFile) <= replyLength
  /\ payloadVerified => /\ ReplyHeld /\ closeConfirmed /\ "PAYLOAD" \notin faults
                        /\ state \in {"CLOSING", "IDLE"} /\ closing \in {"COMPLETE", "FATAL"}
  /\ closing = "COMPLETE" => payloadVerified

\* The attempt's life as the main loop sees it, and the callbacks it queues.
LifeByState ==
  /\ attemptRunning <=> state # "IDLE"
  /\ listening => attemptRunning
  /\ state = "IDLE" => closing = result
  /\ pc = "caller" /\ returned \in {"NOT_CLOSE", "RETRY", "COMPLETE"}
       => state = "IDLE" /\ result = returned
  /\ pc = "caller" /\ returned = "NONE" => state = "IDLE" /\ result = "NOT_CLOSE"
  /\ power = "off" => ~ready /\ pc = "caller" /\ returned = "NONE"
  /\ ~ready => state = "IDLE" /\ pc = "caller" /\ result = "NOT_CLOSE" /\ ScanQuiet
  /\ state = "STARTING" <=> callbacks \in {<<"start">>, <<"start", "abort">>}
  /\ callbacks = <<"init">> => ~ready /\ power = "queued"
  /\ pc = "queue" => abortRequested
  /\ (pc # "caller" /\ ~abortRequested) \/ pc = "queue" => callbacks \in {<<>>, <<"start">>}

\* The inductive invariant: what each state of the client says of the connection,
\* the scanner, the gate, the verdict on the reply and the main loop.
Inv == TypeOK /\ LinkByState /\ ScanByState /\ GateByState /\ VerdictByState /\ LifeByState

=============================================================================
