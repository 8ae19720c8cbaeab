-------------------------- MODULE Exchange_proofs --------------------------
(***************************************************************************)
(* Proofs about the exchange of the robot's client and the beacon.  The    *)
(* two agree on whose turn it is: while a write is on its way nothing else *)
(* is, what is on its way is what the other side is in a state to take,    *)
(* and each side's offsets say what the other's do.                        *)
(***************************************************************************)
EXTENDS Exchange, PayloadSteps_proofs

-----------------------------------------------------------------------------
(* The inductive invariant                                                  *)

Discovering == {"DISCOVER_SERVICE", "DISCOVER_CHARACTERISTIC", "ENABLE_NOTIFICATIONS"}

\* A message is asked for in one state and awaited in the next.
HelloPhase    == {"WRITE_HELLO", "WAIT_HELLO_ACK"}
StartPhase    == {"WRITE_FILE_START", "WAIT_FILE_READY"}
EndPhase      == {"WRITE_FILE_END", "WAIT_FILE_RECEIVED"}
RequestPhase  == {"WRITE_REPLY_REQUEST", "WAIT_REPLY_START"}
NextPhase     == {"WRITE_REPLY_NEXT", "WAIT_REPLY_PIECE"}
CompletePhase == {"WRITE_COMPLETE", "WAIT_COMPLETE_ACK"}

\* The beacon has room for the robot's file.
RobotFileFits == Len(RobotFile) <= TRANSFER_MAX_FILE_SIZE

\* Where only a file the beacon has taken leads.
PastStart == {"WRITE_FILE_DATA"} \cup EndPhase \cup RequestPhase \cup NextPhase \cup CompletePhase

\* A write the beacon has still to see, and the packet it carries.
Sending == query = "write" \/ request # NoPacket
Outgoing == IF request # NoPacket THEN request ELSE txPacket
\* What the client holds for the phase after the write.
Slot == IF state \in WritingStates THEN pending ELSE NoPacket

\* The radio link, as the robot's stack and the beacon know it.
LinkKnown ==
  /\ wire \in {"none", "up"} /\ response \in BOOLEAN /\ request \in PacketSet
  /\ inbound = <<>> \/ (inbound = <<Head(inbound)>> /\ Head(inbound) \in PacketSet)
  /\ wire = "up" => link \in {"up", "closing"}
  /\ beaconStatus = "STARTING" => ~peerConnected
  /\ link \notin {"up", "closing"} => request = NoPacket /\ ~response /\ inbound = <<>>
  /\ request # NoPacket => wire = "up" /\ query \in {"sent", "none"}
  /\ ~peerConnected => notification = NoPacket /\ ~notificationsEnabled /\ receivedFile = <<>>
                       /\ expectedSequence = 0 /\ replyOffset = 0 /\ replySequence = 0
  /\ wire = "up" /\ state \in WritingStates \cup WaitingStates => notificationsEnabled
  /\ wire = "up" /\ state = "ENABLE_NOTIFICATIONS" /\ response => notificationsEnabled

\* The GATT operation each state can have open, aborted or not.
OperationByState ==
  /\ state = "DISCOVER_SERVICE" => query \in {"service", "none"}
  /\ state = "DISCOVER_CHARACTERISTIC" => query \in {"characteristic", "none"}
  /\ state = "ENABLE_NOTIFICATIONS" => query \in {"ccc", "none"}
  /\ state \in WritingStates => query \in {"write", "sent", "none"}
  /\ state \in Discovering => request = NoPacket /\ inbound = <<>> /\ notification = NoPacket
  /\ state \in {"DISCOVER_SERVICE", "DISCOVER_CHARACTERISTIC"} => ~response
  /\ state \in WaitingStates => query = "none" /\ request = NoPacket /\ ~response
  /\ payloadVerified => ~Sending
  /\ state \in PastStart => RobotFileFits

\* One thing is on its way at a time.
OneInFlight ==
  /\ Sending => ~response /\ notification = NoPacket /\ inbound = <<>> /\ Slot = NoPacket
  /\ notification # NoPacket => inbound = <<>> /\ Slot = NoPacket
  /\ inbound # <<>> => Slot = NoPacket

\* The write on its way belongs to the client's phase.
WrittenFor(s, type) ==
  /\ s = "WRITE_HELLO"         => type = "HELLO"
  /\ s = "WRITE_FILE_START"    => type = "FILE_START"
  /\ s = "WRITE_FILE_DATA"     => type = "FILE_DATA"
  /\ s = "WRITE_FILE_END"      => type = "FILE_END"
  /\ s = "WRITE_REPLY_REQUEST" => type = "REPLY_REQUEST"
  /\ s = "WRITE_REPLY_NEXT"    => type = "REPLY_NEXT"
  /\ s = "WRITE_COMPLETE"      => type = "COMPLETE"
WriteFits == Sending => WrittenFor(state, Outgoing.type)

\* What the beacon has of the announced file is a prefix of it.
Announced ==
  /\ expectedLength = Len(RobotFile) /\ expectedCrc = RobotFile
  /\ Len(receivedFile) <= Len(RobotFile) /\ expectedSequence = Len(receivedFile) % 256
  /\ \A i \in 1..Len(receivedFile) : receivedFile[i] = RobotFile[i]

\* The beacon takes m without an error.
Expects(m) ==
  /\ m.type \in {"HELLO", "FILE_START", "FILE_DATA", "FILE_END", "REPLY_REQUEST", "REPLY_NEXT",
                 "COMPLETE"}
  /\ m.type \in {"HELLO", "FILE_START"} \/ RobotFileFits
  /\ m.type = "HELLO" => m.number = BEACON_ID
  /\ m.type = "FILE_START" => m.number = Len(RobotFile) /\ m.body = RobotFile
  /\ m.type = "FILE_DATA" =>
       /\ Announced /\ Len(receivedFile) < Len(RobotFile)
       /\ m.number = Len(receivedFile) % 256 /\ m.body = <<RobotFile[Len(receivedFile) + 1]>>
  /\ m.type = "FILE_END" => Announced /\ receivedFile = RobotFile

\* Both sides stand at the same place: before the beacon has seen the write, and after.
Agree ==
  wire = "up" =>
    /\ Sending => Expects(Outgoing)
    /\ Sending /\ state = "WRITE_FILE_DATA" => robotOffset = Len(receivedFile) + 1
    /\ Sending /\ state = "WRITE_REPLY_NEXT" =>
         replyOffset = Len(replyFile) /\ replySequence = (replyOffset + 1) % 256
    /\ ~Sending /\ ~abortRequested =>
         /\ state \in StartPhase \cup {"WRITE_FILE_DATA"} =>
              Announced /\ robotOffset = Len(receivedFile)
         /\ state \in RequestPhase => replyOffset = 0 /\ replySequence = 1
         /\ state \in NextPhase =>
              /\ replyOffset = IF Len(replyFile) < Len(BeaconReply) THEN Len(replyFile) + 1
                                                                    ELSE Len(replyFile)
              /\ replySequence = (replyOffset + 1) % 256
         /\ state \in (WritingStates \ {"WRITE_FILE_DATA"}) \cup WaitingStates =>
              notification # NoPacket \/ inbound # <<>> \/ Slot # NoPacket

\* The answer to the announcement.
StartAnswer == IF RobotFileFits THEN Packet("FILE_READY", BEACON_ID, <<>>) ELSE Packet("ERROR", 3, <<>>)

\* m is the answer to what the phase s asks.
FitsIn(s, m) ==
  /\ s \in HelloPhase => m = Packet("HELLO_ACK", BEACON_ID, <<>>)
  /\ s \in StartPhase => m = StartAnswer
  /\ s # "WRITE_FILE_DATA"
  /\ s \in EndPhase => m = Packet("FILE_RECEIVED", 0, RobotFile)
  /\ s \in RequestPhase => m = Packet("REPLY_START", Len(BeaconReply), BeaconReply)
  /\ s \in NextPhase =>
       \/ /\ Len(replyFile) < Len(BeaconReply)
          /\ m = Packet("REPLY_DATA", Len(replyFile) % 256, <<BeaconReply[Len(replyFile) + 1]>>)
       \/ Len(replyFile) = Len(BeaconReply) /\ m = Packet("REPLY_END", 0, BeaconReply)
  /\ s \in CompletePhase => m = Packet("COMPLETE_ACK", BEACON_ID, <<>>)
Fits(m) == FitsIn(state, m)

AnswerFits ==
  /\ notification # NoPacket => Fits(notification)
  /\ inbound # <<>> => Fits(Head(inbound))
  /\ Slot # NoPacket => Fits(Slot)

\* The reply the client has so far is a prefix of the beacon's.
ReplyGrows ==
  /\ state \in StartPhase => robotOffset = 0
  /\ state \in NextPhase \cup CompletePhase =>
       /\ replyLength = Len(BeaconReply) /\ replyCrc = BeaconReply
       /\ Len(replyFile) <= Len(BeaconReply)
       /\ \A i \in 1..Len(replyFile) : replyFile[i] = BeaconReply[i]
  /\ state \in CompletePhase \/ payloadVerified => replyFile = BeaconReply

\* A file that fits is not refused.
RefusesOnlyLarge == beaconStatus = "ERROR" => ~RobotFileFits

ExchangeInv ==
  /\ Inv /\ Ops /\ BeaconInv
  /\ LinkKnown /\ OperationByState /\ OneInFlight /\ WriteFits /\ Agree /\ AnswerFits /\ ReplyGrows
  /\ RefusesOnlyLarge

-----------------------------------------------------------------------------
(* The robot's steps that leave the link alone                              *)

SameBeacon == UNCHANGED beaconVars
SameAir == UNCHANGED airVars

\* The robot took what was on its way to it, if anything.
AirDrained ==
  /\ wire' = wire /\ request' = request
  /\ response' = response \/ response' = FALSE
  /\ inbound' = inbound \/ inbound' = <<>>

LEMMA QuietKeeps ==
  ASSUME ExchangeInv, Inv', Ops', Quiet, SameBeacon, SameAir
  PROVE  ExchangeInv'
<1> USE DEF ExchangeInv, Quiet, SameBeacon, SameAir, beaconVars, airVars, connectionVars, receiveVars,
            replyVars, cueVars, fileVars
<1>1. BeaconInv' /\ RefusesOnlyLarge'
  BY DEF BeaconInv, BeaconTypes, RefusesOnlyLarge
<1>2. LinkKnown'
  BY DEF LinkKnown
<1>3. OperationByState' /\ OneInFlight' /\ WriteFits'
  BY DEF OperationByState, OneInFlight, WriteFits, Sending, Outgoing, Slot
<1>4. Agree'
  BY DEF Agree, Expects, Announced, Sending, Outgoing, Slot
<1>5. AnswerFits'
  BY DEF AnswerFits, Fits, FitsIn, Slot
<1>6. ReplyGrows'
  BY DEF ReplyGrows
<1> QED
  BY <1>1, <1>2, <1>3, <1>4, <1>5, <1>6

\* A state outside the exchange leaves nothing to agree on but the write under way.
LEMMA OutsideKeeps ==
  ASSUME ExchangeInv, Inv', Ops', state' \notin LinkedStates,
         BeaconInv', RefusesOnlyLarge', LinkKnown', OneInFlight',
         wire' = "up" /\ Sending' => Expects(Outgoing)',
         payloadVerified' => ~Sending' /\ replyFile' = BeaconReply
  PROVE  ExchangeInv'
<1> USE DEF LinkedStates, WritingStates, WaitingStates, HelloPhase, StartPhase, EndPhase, RequestPhase,
            NextPhase, CompletePhase, Discovering, PastStart
<1>1. OperationByState' /\ WriteFits' /\ ReplyGrows'
  BY DEF OperationByState, WriteFits, WrittenFor, ReplyGrows
<1>2. Agree'
  BY DEF Agree
<1>3. AnswerFits'
  BY DEF AnswerFits, Fits, FitsIn, Slot
<1> QED
  BY <1>1, <1>2, <1>3 DEF ExchangeInv

LEMMA UnlinkedKeeps ==
  ASSUME ExchangeInv, Inv', Ops', Unlinked, SameBeacon, SameAir
  PROVE  ExchangeInv'
<1> USE DEF SameBeacon, SameAir, beaconVars, airVars, connectionVars, receiveVars, replyVars, cueVars
<1>1. /\ wire = "none" /\ request = NoPacket /\ ~response /\ inbound = <<>> /\ query = "none"
  BY DEF ExchangeInv, LinkKnown, Unlinked, Inv, LinkByState
<1>2. state' \notin LinkedStates /\ query' = "none"
  BY <1>1 DEF Inv, LinkByState, Unlinked
<1>3. BeaconInv' /\ RefusesOnlyLarge'
  BY DEF ExchangeInv, BeaconInv, BeaconTypes, RefusesOnlyLarge
<1>4. LinkKnown'
  BY <1>1, <1>2 DEF ExchangeInv, LinkKnown, LinkedStates
<1>5. ~Sending' /\ Slot' = NoPacket
  BY <1>1, <1>2 DEF Sending, Slot, LinkedStates
<1>6. OneInFlight'
  BY <1>1, <1>5 DEF OneInFlight
<1>7. payloadVerified' => replyFile' = BeaconReply
  BY DEF Unlinked, ExchangeInv, ReplyGrows
<1> QED
  BY <1>1, <1>2, <1>3, <1>4, <1>5, <1>6, <1>7, OutsideKeeps

\* Closing the link leaves at most the write that was under way.
LEMMA ClosesKeeps ==
  ASSUME ExchangeInv, Inv', Ops', Closes, SameBeacon, AirDrained
  PROVE  ExchangeInv'
<1> USE DEF SameBeacon, AirDrained, beaconVars, connectionVars, receiveVars, replyVars, cueVars
<1>1. state' \notin LinkedStates /\ state' = "CLOSING" /\ ~payloadVerified'
  BY DEF Closes, LinkedStates, WritingStates, WaitingStates
<1>2. BeaconInv' /\ RefusesOnlyLarge'
  BY DEF ExchangeInv, BeaconInv, BeaconTypes, RefusesOnlyLarge
<1>3. LinkKnown'
  <2>1. link \in {"up", "closing"} /\ link' \in {"up", "closing"}
    BY LinkedFacts DEF Closes, ExchangeInv
  <2> QED
    BY <1>1, <2>1 DEF ExchangeInv, LinkKnown, Closes, WritingStates, WaitingStates
<1>4. Slot' = NoPacket
  BY <1>1 DEF Slot, WritingStates
<1>5. Sending' => Sending /\ Outgoing' = Outgoing
  BY DEF Closes, Sending, Outgoing
<1>6. OneInFlight'
  BY <1>4, <1>5 DEF OneInFlight, ExchangeInv
<1>7. wire' = "up" /\ Sending' => Expects(Outgoing)'
  BY <1>5 DEF ExchangeInv, Agree, Expects, Announced
<1> QED
  BY <1>1, <1>2, <1>3, <1>6, <1>7, OutsideKeeps

LEMMA SameAirDrains == SameAir => AirDrained
BY DEF SameAir, AirDrained, airVars

LEMMA RobotAloneKeeps ==
  ASSUME ExchangeInv, RobotAlone
  PROVE  ExchangeInv'
<1>1. Inv /\ Ops /\ RobotStep /\ SameBeacon /\ SameAir
  BY DEF ExchangeInv, RobotAlone, RobotStep, SameBeacon, SameAir
<1>2. Inv'
  BY <1>1, RobotStepInv
<1>3. Quiet \/ Unlinked \/ Closes
  BY <1>1, RobotStepEffect
<1>4. Ops'
  BY <1>1, <1>2, <1>3, QuietOps, UnlinkedOps, ClosesOps
<1> QED
  BY <1>1, <1>2, <1>3, <1>4, SameAirDrains, QuietKeeps, UnlinkedKeeps, ClosesKeeps

-----------------------------------------------------------------------------
(* The link comes up and goes down                                          *)

LEMMA BeaconStartsKeeps ==
  ASSUME ExchangeInv, BeaconStarts, Inv', Ops'
  PROVE  ExchangeInv'
<1> USE DEF BeaconStarts, BeaconWorking, ExchangeInv, vars, airVars, connectionVars, receiveVars, replyVars,
            attemptVars, fileVars, verdictVars, radioVars, mainVars
<1>1. BeaconInv' /\ RefusesOnlyLarge'
  BY DEF BeaconInv, BeaconTypes, LinkKnown, BeaconStatuses, RefusesOnlyLarge
<1>2. LinkKnown'
  BY DEF LinkKnown
<1>3. OperationByState' /\ OneInFlight' /\ WriteFits' /\ ReplyGrows'
  BY DEF OperationByState, OneInFlight, WriteFits, ReplyGrows, Sending, Outgoing, Slot
<1>4. Agree' /\ AnswerFits'
  BY DEF Agree, AnswerFits, Fits, FitsIn, Expects, Announced, Sending, Outgoing, Slot
<1> QED
  BY <1>1, <1>2, <1>3, <1>4

LEMMA ConnectionSucceededEffect ==
  ASSUME Inv, ConnectionSucceeded
  PROVE  /\ link \notin {"up", "closing"} /\ link' \in {"up", "closing"}
         /\ UNCHANGED <<txPacket, fileVars>> /\ query = "none"
         /\ payloadVerified' => payloadVerified
         /\ \/ state' = "CLOSING" /\ query' = "none"
            \/ state' = "DISCOVER_SERVICE" /\ query' = "service"
<1>1. /\ link \in {"pending", "cancelling"} /\ query = "none" /\ UNCHANGED <<txPacket, fileVars>>
      /\ state \in {"CONNECTING", "CLOSING"}
  BY DEF ConnectionSucceeded, Inv, LinkByState
<1>2. CASE abortRequested \/ state = "CLOSING"
  <2>1. state' = "CLOSING" /\ link' \in {"closing", "up"} /\ query' = query /\ payloadVerified' = payloadVerified
    BY <1>2, <1>1 DEF ConnectionSucceeded, Enter, SetState, verdictVars
  <2> QED
    BY <1>1, <2>1
<1>3. CASE Enter("DISCOVER_SERVICE", TRUE, closing) /\ link' = "up" /\ query' = "service" /\ UNCHANGED verdictVars
  BY <1>1, <1>3 DEF Enter, SetState, verdictVars
<1>4. CASE transfer_failed("DISCOVER_SERVICE", TRUE, "up") /\ query' = query
  BY <1>1, <1>4 DEF transfer_failed, close_attempt, Enter, SetState
<1> QED
  BY <1>1, <1>2, <1>3, <1>4 DEF ConnectionSucceeded

LEMMA LinkUpKeeps ==
  ASSUME ExchangeInv, LinkUp, Inv', Ops'
  PROVE  ExchangeInv'
<1> USE DEF LinkUp, beaconVars, connectionVars, receiveVars, replyVars, cueVars
<1>1. /\ link \notin {"up", "closing"} /\ link' \in {"up", "closing"} /\ replyFile' = replyFile
      /\ payloadVerified' => payloadVerified
      /\ \/ state' = "CLOSING" /\ query' = "none"
         \/ state' = "DISCOVER_SERVICE" /\ query' = "service"
  BY ConnectionSucceededEffect DEF ExchangeInv, fileVars
<1>2. /\ request' = NoPacket /\ ~response' /\ inbound' = <<>> /\ notification' = NoPacket
      /\ ~peerConnected' /\ ~notificationsEnabled'
  BY <1>1 DEF ExchangeInv, LinkKnown
<1>3. ~Sending' /\ Slot' = NoPacket /\ state' \notin WritingStates \cup WaitingStates
  BY <1>1, <1>2 DEF Sending, Slot, WritingStates, WaitingStates
<1>4. BeaconInv' /\ RefusesOnlyLarge'
  BY DEF ExchangeInv, BeaconInv, BeaconTypes, RefusesOnlyLarge
<1>5. LinkKnown'
  BY <1>1, <1>2, <1>3 DEF ExchangeInv, LinkKnown
<1>6. OneInFlight' /\ WriteFits'
  BY <1>2, <1>3 DEF OneInFlight, WriteFits
<1>7. OperationByState'
  BY <1>1, <1>2, <1>3 DEF OperationByState, Discovering, WritingStates, WaitingStates,
     PastStart, EndPhase, RequestPhase, NextPhase, CompletePhase
<1>8. Agree' /\ AnswerFits'
  BY <1>1, <1>2, <1>3 DEF Agree, AnswerFits, StartPhase, RequestPhase, NextPhase, WritingStates, WaitingStates
<1>9. ReplyGrows'
  BY <1>1 DEF ExchangeInv, ReplyGrows, StartPhase, NextPhase, CompletePhase
<1> QED
  BY <1>4, <1>5, <1>6, <1>7, <1>8, <1>9 DEF ExchangeInv

LEMMA BeaconSeesLinkKeeps ==
  ASSUME ExchangeInv, BeaconSeesLink, Inv', Ops'
  PROVE  ExchangeInv'
<1> USE DEF BeaconSeesLink, RobotConnected, ExchangeInv, vars, airVars, connectionVars, receiveVars, replyVars,
            attemptVars, fileVars, verdictVars, radioVars, mainVars
<1>1. BeaconInv' /\ RefusesOnlyLarge'
  <2>1. notificationsEnabled' = FALSE
    BY DEF LinkKnown, BeaconInv, BeaconTypes
  <2> QED
    BY <2>1 DEF BeaconInv, BeaconTypes, BeaconStatuses, RefusesOnlyLarge
<1>2. LinkKnown'
  BY DEF LinkKnown
<1>3. OperationByState' /\ OneInFlight' /\ WriteFits' /\ ReplyGrows'
  BY DEF OperationByState, OneInFlight, WriteFits, ReplyGrows, Sending, Outgoing, Slot
<1>4. Agree' /\ AnswerFits'
  BY DEF Agree, AnswerFits, Fits, FitsIn, Expects, Announced, Sending, Outgoing, Slot
<1> QED
  BY <1>1, <1>2, <1>3, <1>4

LEMMA LinkLostKeeps ==
  ASSUME ExchangeInv, LinkLost, Inv', Ops'
  PROVE  ExchangeInv'
<1> USE DEF LinkLost, ExchangeInv, vars, beaconVars, connectionVars, receiveVars, replyVars, cueVars,
            attemptVars, fileVars, verdictVars, radioVars, mainVars
<1>1. BeaconInv' /\ RefusesOnlyLarge'
  BY DEF BeaconInv, BeaconTypes, RefusesOnlyLarge
<1>2. LinkKnown'
  BY NoPacketTyped DEF LinkKnown
<1>3. Sending' => Sending /\ Outgoing' = Outgoing
  BY DEF LinkKnown, Sending, Outgoing
<1>4. OperationByState' /\ OneInFlight' /\ WriteFits' /\ ReplyGrows'
  BY <1>3 DEF OperationByState, OneInFlight, WriteFits, ReplyGrows, Slot
<1>5. Agree' /\ AnswerFits'
  BY DEF Agree, AnswerFits, Fits, FitsIn, Slot
<1> QED
  BY <1>1, <1>2, <1>4, <1>5

LEMMA RobotSeesLossKeeps ==
  ASSUME ExchangeInv, RobotSeesLoss, Inv', Ops'
  PROVE  ExchangeInv'
<1> USE DEF RobotSeesLoss, beaconVars, connectionVars, receiveVars, replyVars, cueVars
<1>1. /\ state' = "IDLE" /\ link' = "none" /\ query' = "none" /\ UNCHANGED fileVars
      /\ payloadVerified' => payloadVerified
  BY DEF Disconnection, finish_attempt, SetState, verdictVars
<1>2. wire' = "none" /\ request' = NoPacket /\ ~response' /\ inbound' = <<>>
  BY DEF ExchangeInv, LinkKnown
<1>3. BeaconInv' /\ RefusesOnlyLarge'
  BY DEF ExchangeInv, BeaconInv, BeaconTypes, RefusesOnlyLarge
<1>4. LinkKnown'
  BY <1>1, <1>2, NoPacketTyped DEF ExchangeInv, LinkKnown
<1>5. ~Sending' /\ Slot' = NoPacket /\ state' \notin LinkedStates
  BY <1>1, <1>2 DEF Sending, Slot, LinkedStates, WritingStates, WaitingStates
<1>6. OneInFlight'
  BY <1>2, <1>5 DEF OneInFlight
<1>7. payloadVerified' => replyFile' = BeaconReply
  BY <1>1 DEF ExchangeInv, ReplyGrows, fileVars
<1> QED
  BY <1>2, <1>3, <1>4, <1>5, <1>6, <1>7, OutsideKeeps

LEMMA BeaconSeesLossKeeps ==
  ASSUME ExchangeInv, BeaconSeesLoss, Inv', Ops'
  PROVE  ExchangeInv'
<1> USE DEF BeaconSeesLoss, RobotDisconnected, reset_transfer, ExchangeInv, vars, airVars,
            attemptVars, fileVars, verdictVars, radioVars, mainVars
<1>1. BeaconInv' /\ RefusesOnlyLarge'
  <2>1. /\ notificationsEnabled' = FALSE /\ peerConnected' = FALSE /\ connectedCue' = FALSE
        /\ buzzer' \in {"silent", "alive", "complete"}
    BY DEF BeaconInv, BeaconTypes
  <2>2. /\ expectedLength' \in Nat /\ expectedCrc' \in Seq(Pieces) /\ receivedFile' \in Seq(Pieces)
        /\ Len(receivedFile') <= TRANSFER_MAX_FILE_SIZE /\ replyOffset' \in 0..Len(BeaconReply)
        /\ notification' \in PacketSet
    <3>1. Len(BeaconReply) \in Nat
      BY ReplyAssumed DEF ReplyAssumption
    <3> QED
      BY <3>1, EmptyFile, NoPacketTyped, FileAssumed DEF FileAssumption
  <2>3. beaconStatus' = "ADVERTISING" /\ expectedSequence' = 0 /\ replySequence' = 0
    OBVIOUS
  <2> HIDE DEF BeaconSeesLoss, RobotDisconnected, reset_transfer, ExchangeInv
  <2>4. BeaconTypes'
    <3>1. /\ beaconStatus' \in BeaconStatuses /\ buzzer' \in {"silent", "alive", "connected", "complete"}
          /\ expectedSequence' \in 0..255 /\ replySequence' \in 0..255
      BY <2>1, <2>3 DEF BeaconStatuses
    <3>2. /\ peerConnected' \in BOOLEAN /\ notificationsEnabled' \in {FALSE, peerConnected'}
          /\ connectedCue' \in BOOLEAN
      BY <2>1
    <3> QED
      BY <2>2, <3>1, <3>2 DEF BeaconTypes
  <2>5. buzzer' # "connected" /\ connectedCue' = FALSE
    BY <2>1
  <2> QED
    BY <2>3, <2>4, <2>5 DEF BeaconInv, RefusesOnlyLarge
<1>2. LinkKnown'
  BY DEF LinkKnown
<1>3. OperationByState' /\ OneInFlight' /\ WriteFits' /\ ReplyGrows'
  BY DEF OperationByState, OneInFlight, WriteFits, ReplyGrows, Sending, Outgoing, Slot
<1>4. Agree' /\ AnswerFits'
  BY DEF Agree, AnswerFits, Fits, FitsIn, Slot
<1> QED
  BY <1>1, <1>2, <1>3, <1>4

LEMMA WriteLeavesKeeps ==
  ASSUME ExchangeInv, WriteLeaves, Inv', Ops'
  PROVE  ExchangeInv'
<1> USE DEF WriteLeaves, PacketSent, ExchangeInv, beaconVars, connectionVars, receiveVars, replyVars, cueVars,
            attemptVars, fileVars, verdictVars, OutsideAttempt, mainVars
<1>1. Sending /\ request = NoPacket /\ Outgoing = txPacket
  BY DEF Sending, Outgoing, LinkKnown
<1>2. request' # NoPacket
  BY <1>1 DEF Agree, Expects, NoPacket, Packet
<1>3. Sending' /\ Outgoing' = Outgoing
  BY <1>1, <1>2 DEF Sending, Outgoing
<1>4. BeaconInv' /\ RefusesOnlyLarge'
  BY DEF BeaconInv, BeaconTypes, RefusesOnlyLarge
<1>5. LinkKnown'
  <2>1. txPacket \in PacketSet
    BY DEF Inv, TypeOK, DataTypeOK
  <2> QED
    BY <2>1 DEF LinkKnown
<1>6. OperationByState'
  BY <1>1, <1>3 DEF OperationByState, Discovering
<1>7. OneInFlight' /\ WriteFits' /\ ReplyGrows'
  BY <1>1, <1>3 DEF OneInFlight, WriteFits, ReplyGrows, Slot
<1>8. Agree'
  BY <1>1, <1>3 DEF Agree, Expects, Announced, Slot
<1>9. AnswerFits'
  BY DEF AnswerFits, Fits, FitsIn, Slot
<1> QED
  BY <1>4, <1>5, <1>6, <1>7, <1>8, <1>9

LEMMA NotificationLeavesKeeps ==
  ASSUME ExchangeInv, NotificationLeaves, Inv', Ops'
  PROVE  ExchangeInv'
<1> USE DEF NotificationLeaves, CanSendNow, ExchangeInv, vars, connectionVars, receiveVars, replyVars, cueVars,
            attemptVars, fileVars, verdictVars, radioVars, mainVars
<1>1. inbound = <<>> /\ ~Sending /\ Slot = NoPacket
  BY DEF OneInFlight
<1>2. inbound' = <<notification>> /\ notification' = NoPacket
  BY <1>1, AppendOne
<1>3. ~Sending' /\ Slot' = NoPacket
  BY <1>1 DEF Sending, Slot
<1>4. inbound' # <<>> /\ Head(inbound') = notification
  BY <1>2
<1>5. BeaconInv' /\ RefusesOnlyLarge'
  BY NoPacketTyped DEF BeaconInv, BeaconTypes, RefusesOnlyLarge
<1>6. LinkKnown'
  BY <1>2, <1>4 DEF LinkKnown, BeaconInv, BeaconTypes
<1>7. OperationByState' /\ OneInFlight' /\ WriteFits' /\ ReplyGrows'
  BY <1>1, <1>2, <1>3 DEF OperationByState, OneInFlight, WriteFits, ReplyGrows
<1>8. Agree'
  BY <1>1, <1>3, <1>4 DEF Agree, Announced
<1>9. AnswerFits'
  BY <1>2, <1>3, <1>4 DEF AnswerFits, Fits, FitsIn
<1> QED
  BY <1>5, <1>6, <1>7, <1>8, <1>9

LEMMA Beacon_enableKeeps ==
  ASSUME ExchangeInv, Beacon_enable, Inv', Ops'
  PROVE  ExchangeInv'
<1> USE DEF Beacon_enable, EnableNotifications, ExchangeInv, vars, connectionVars, receiveVars, replyVars, cueVars,
            attemptVars, fileVars, verdictVars, radioVars, mainVars
<1>1. ~Sending /\ ~Sending'
  BY DEF LinkKnown, Sending
<1>2. BeaconInv' /\ RefusesOnlyLarge'
  BY DEF BeaconInv, BeaconTypes, BeaconStatuses, RefusesOnlyLarge
<1>3. LinkKnown'
  BY DEF LinkKnown
<1>4. OperationByState'
  BY DEF OperationByState, Sending, WaitingStates, WritingStates, Discovering
<1>5. OneInFlight' /\ WriteFits' /\ ReplyGrows'
  BY <1>1 DEF OneInFlight, WriteFits, ReplyGrows, Slot
<1>6. Agree' /\ AnswerFits'
  BY <1>1 DEF Agree, AnswerFits, Fits, FitsIn, Announced, Slot
<1> QED
  BY <1>2, <1>3, <1>4, <1>5, <1>6

-----------------------------------------------------------------------------
(* The beacon takes a write                                                 *)

\* Sequence numbers are one byte.
LEMMA SequenceByte ==
  ASSUME NEW n \in Nat
  PROVE  /\ n % 256 \in 0..255
         /\ ((n % 256) + 1) % 256 = (n + 1) % 256
         /\ (((n + 1) % 256) + 255) % 256 = n % 256
OBVIOUS

\* One more piece of a file.
LEMMA OneMorePiece ==
  ASSUME NEW S, NEW file \in Seq(S), NEW p \in S
  PROVE  /\ file \o <<p>> \in Seq(S) /\ Len(file \o <<p>>) = Len(file) + 1
         /\ \A i \in 1..Len(file) : (file \o <<p>>)[i] = file[i]
         /\ (file \o <<p>>)[Len(file) + 1] = p
OBVIOUS

\* A prefix as long as the file is the file.
LEMMA WholePrefix ==
  ASSUME NEW S, NEW a \in Seq(S), NEW b \in Seq(S), Len(a) = Len(b),
         \A i \in 1..Len(a) : a[i] = b[i]
  PROVE  a = b
OBVIOUS

\* What surrounds a write that reaches the beacon.
LEMMA WriteContext ==
  ASSUME ExchangeInv, Beacon_write
  PROVE  /\ Expects(request) /\ ~Sending' /\ Slot' = NoPacket /\ inbound' = <<>>
         /\ notification = NoPacket /\ peerConnected /\ ~payloadVerified
         /\ state \notin Discovering \cup WaitingStates
         /\ state \in WritingStates => notificationsEnabled
         /\ UNCHANGED <<state, pending, query, txPacket, link, fileVars, payloadVerified, abortRequested,
                        connectionVars, wire>>
<1>1. /\ wire = "up" /\ request # NoPacket /\ request' = NoPacket /\ peerConnected /\ inbound' = inbound
      /\ UNCHANGED <<state, pending, query, txPacket, link, fileVars, payloadVerified, abortRequested,
                     connectionVars, wire>>
  BY DEF Beacon_write, att_write_callback, vars, attemptVars, verdictVars, radioVars, mainVars
<1>2. Sending /\ Outgoing = request /\ ~Sending'
  BY <1>1 DEF Sending, Outgoing, ExchangeInv, LinkKnown
<1>3. notification = NoPacket /\ inbound = <<>> /\ Slot = NoPacket /\ Slot' = Slot
  BY <1>1, <1>2 DEF ExchangeInv, OneInFlight, Slot
<1>4. Expects(request) /\ ~payloadVerified
  BY <1>1, <1>2 DEF ExchangeInv, Agree, OperationByState
<1>5. /\ state \notin Discovering \cup WaitingStates
      /\ state \in WritingStates => notificationsEnabled
  BY <1>1 DEF ExchangeInv, OperationByState, LinkKnown
<1> QED
  BY <1>1, <1>2, <1>3, <1>4, <1>5

\* Which write belongs to which phase.
LEMMA WritePhase ==
  ASSUME ExchangeInv, Beacon_write
  PROVE  /\ state = "WRITE_HELLO"         => request.type = "HELLO"
         /\ state = "WRITE_FILE_START"    => request.type = "FILE_START"
         /\ state = "WRITE_FILE_DATA"     => request.type = "FILE_DATA"
         /\ state = "WRITE_FILE_END"      => request.type = "FILE_END"
         /\ state = "WRITE_REPLY_REQUEST" => request.type = "REPLY_REQUEST"
         /\ state = "WRITE_REPLY_NEXT"    => request.type = "REPLY_NEXT"
         /\ state = "WRITE_COMPLETE"      => request.type = "COMPLETE"
         /\ request.type = "FILE_DATA" /\ state = "WRITE_FILE_DATA" => robotOffset = Len(receivedFile) + 1
         /\ request.type = "REPLY_NEXT" /\ state = "WRITE_REPLY_NEXT" =>
              replyOffset = Len(replyFile) /\ replySequence = (replyOffset + 1) % 256
<1>1. wire = "up" /\ Sending /\ Outgoing = request
  BY DEF Beacon_write, Sending, Outgoing
<1> QED
  BY <1>1 DEF ExchangeInv, WriteFits, WrittenFor, Agree

\* Once the beacon has answered, the client's phase and the beacon's offsets agree.
Answering ==
  /\ state = "WRITE_FILE_START" \/ state = "WRITE_FILE_DATA" => Announced' /\ robotOffset = Len(receivedFile')
  /\ state = "WRITE_REPLY_REQUEST" => replyOffset' = 0 /\ replySequence' = 1
  /\ state = "WRITE_REPLY_NEXT" =>
       /\ replyOffset' = IF Len(replyFile) < Len(BeaconReply) THEN Len(replyFile) + 1 ELSE Len(replyFile)
       /\ replySequence' = (replyOffset' + 1) % 256
  /\ state \in WritingStates \ {"WRITE_FILE_DATA"} => notification' # NoPacket
  /\ notification' # NoPacket => Fits(notification)'

LEMMA BeaconAnswers ==
  ASSUME ExchangeInv, Beacon_write, Inv', Ops', BeaconInv', beaconStatus' # "STARTING" /\ RefusesOnlyLarge', Answering
  PROVE  ExchangeInv'
<1> USE WriteContext
<1>1. LinkKnown'
  <2>1. /\ wire' = "up" /\ response' = TRUE /\ request' = NoPacket /\ NoPacket \in PacketSet /\ inbound' = <<>>
    BY NoPacketTyped DEF Beacon_write
  <2>2. peerConnected' = peerConnected /\ notificationsEnabled' = notificationsEnabled
    BY DEF connectionVars
  <2> QED
    BY <2>1, <2>2 DEF ExchangeInv, LinkKnown, Discovering, Beacon_write
<1>2. OperationByState'
  BY DEF ExchangeInv, OperationByState, Discovering
<1>3. OneInFlight' /\ WriteFits'
  BY DEF OneInFlight, WriteFits
<1>4. Agree'
  BY DEF Agree, Answering, StartPhase, RequestPhase, NextPhase, WaitingStates, WritingStates, fileVars
<1>5. AnswerFits'
  BY DEF AnswerFits, Answering
<1>6. ReplyGrows'
  BY DEF ExchangeInv, ReplyGrows, fileVars
<1> QED
  BY <1>1, <1>2, <1>3, <1>4, <1>5, <1>6 DEF ExchangeInv

\* The answer is in the slot of a client that is in the exchange.
LEMMA Queued ==
  ASSUME ExchangeInv, Beacon_write, NEW m \in PacketSet, m.type # "NONE", queue_notification(m)
  PROVE  /\ notification' \in PacketSet
         /\ state \in WritingStates => notification' = m /\ notification' # NoPacket
         /\ notification' # NoPacket => notification' = m
<1>1. m # NoPacket
  BY DEF NoPacket, Packet
<1> QED
  BY <1>1, WriteContext, NoPacketTyped DEF queue_notification

\* What the beacon has received and sent keeps its type.
FileTyped ==
  /\ expectedLength' \in Nat /\ expectedCrc' \in Seq(Pieces) /\ expectedSequence' \in 0..255
  /\ receivedFile' \in Seq(Pieces) /\ Len(receivedFile') <= TRANSFER_MAX_FILE_SIZE
OffsetsTyped == replyOffset' \in 0..Len(BeaconReply) /\ replySequence' \in 0..255

LEMMA FileTypedNow == ASSUME ExchangeInv, UNCHANGED receiveVars PROVE FileTyped
BY DEF ExchangeInv, BeaconInv, BeaconTypes, FileTyped, receiveVars

LEMMA OffsetsTypedNow == ASSUME ExchangeInv, UNCHANGED replyVars PROVE OffsetsTyped
BY DEF ExchangeInv, BeaconInv, BeaconTypes, OffsetsTyped, replyVars

LEMMA BeaconTyped ==
  ASSUME ExchangeInv, Beacon_write, notification' \in PacketSet, beaconStatus' \in BeaconStatuses,
         FileTyped, OffsetsTyped, UNCHANGED cueVars
  PROVE  BeaconInv'
<1>1. /\ peerConnected' \in BOOLEAN /\ notificationsEnabled' \in {FALSE, peerConnected'}
      /\ connectedCue' \in BOOLEAN /\ buzzer' \in {"silent", "alive", "connected", "complete"}
      /\ buzzer' = "connected" <=> connectedCue'
      /\ connectedCue' => peerConnected'
  BY WriteContext DEF ExchangeInv, BeaconInv, BeaconTypes, cueVars, connectionVars
<1> QED
  BY <1>1 DEF BeaconInv, BeaconTypes, FileTyped, OffsetsTyped

\* The files, their lengths and their pieces.
LEMMA FileFacts ==
  /\ RobotFile \in Seq(Pieces) /\ Len(RobotFile) \in Nat /\ TRANSFER_MAX_FILE_SIZE \in Nat
  /\ BeaconReply \in Seq(Pieces) /\ Len(BeaconReply) \in Nat \ {0}
  /\ Len(BeaconReply) <= TRANSFER_MAX_FILE_SIZE
BY FileAssumed, ReplyAssumed, ReplyFileAssumed DEF FileAssumption, ReplyAssumption, ReplyFileAssumption

LEMMA HelloAnswered ==
  ASSUME ExchangeInv, Beacon_write, Write_HELLO(request)
  PROVE  BeaconInv' /\ beaconStatus' # "STARTING" /\ RefusesOnlyLarge' /\ Answering
<1>1. request.type = "HELLO" /\ request.number = BEACON_ID
  BY WriteContext DEF Write_HELLO, Expects
<1>2. reset_transfer /\ beaconStatus' = "HANDSHAKE" /\ send_simple("HELLO_ACK", BEACON_ID) /\ UNCHANGED cueVars
  BY <1>1 DEF Write_HELLO
<1> DEFINE m == Packet("HELLO_ACK", BEACON_ID, <<>>)
<1>3. m \in PacketSet /\ m.type # "NONE" /\ queue_notification(m)
  BY <1>2, PacketTyped, EmptyFile DEF send_simple, MessageTypes, BEACON_ID, Packet
<1>4. /\ notification' \in PacketSet
      /\ state \in WritingStates => notification' = m /\ notification' # NoPacket
      /\ notification' # NoPacket => notification' = m
  BY <1>3, Queued
<1>5. FileTyped /\ OffsetsTyped
  BY <1>2, FileFacts, EmptyFile DEF reset_transfer, FileTyped, OffsetsTyped
<1>6. BeaconInv'
  BY <1>2, <1>4, <1>5, BeaconTyped DEF BeaconStatuses
<1>7. state \notin WritingStates \/ state = "WRITE_HELLO"
  BY <1>1, WritePhase DEF WritingStates
<1>8. Answering
  BY <1>4, <1>7, WriteContext DEF Answering, Fits, FitsIn, WritingStates, WaitingStates, HelloPhase, StartPhase, EndPhase,
     RequestPhase, NextPhase, CompletePhase
<1> QED
  BY <1>2, <1>6, <1>8 DEF RefusesOnlyLarge

LEMMA FileStartAnswered ==
  ASSUME ExchangeInv, Beacon_write, Write_FILE_START(request)
  PROVE  BeaconInv' /\ beaconStatus' # "STARTING" /\ RefusesOnlyLarge' /\ Answering
<1>1. request.type = "FILE_START" /\ request.number = Len(RobotFile) /\ request.body = RobotFile
  BY WriteContext DEF Write_FILE_START, Expects
<1>2. /\ UNCHANGED <<replyVars, cueVars>> /\ expectedLength' = Len(RobotFile) /\ expectedCrc' = RobotFile
      /\ expectedSequence' = 0 /\ receivedFile' = <<>>
      /\ beaconStatus' = (IF RobotFileFits THEN "RECEIVING_FILE" ELSE "ERROR")
      /\ queue_notification(StartAnswer)
  BY <1>1 DEF Write_FILE_START, RobotFileFits, Refuse, send_simple, StartAnswer
<1> DEFINE m == StartAnswer
<1>3. m \in PacketSet /\ m.type # "NONE" /\ queue_notification(m)
  BY <1>2, PacketTyped, EmptyFile DEF StartAnswer, MessageTypes, BEACON_ID, Packet
<1> HIDE DEF m
<1>4. /\ notification' \in PacketSet
      /\ state \in WritingStates => notification' = m /\ notification' # NoPacket
      /\ notification' # NoPacket => notification' = m
  BY <1>3, Queued
<1>5. FileTyped /\ OffsetsTyped
  BY <1>1, <1>2, FileFacts, EmptyFile, OffsetsTypedNow DEF FileTyped
<1>6. BeaconInv'
  BY <1>2, <1>4, <1>5, BeaconTyped DEF BeaconStatuses
<1>7. state \notin WritingStates \/ state = "WRITE_FILE_START"
  BY <1>1, WritePhase DEF WritingStates
<1>8. Announced'
  BY <1>2, FileFacts, EmptyFile DEF Announced
<1>9. state = "WRITE_FILE_START" => robotOffset = Len(receivedFile')
  BY <1>2, EmptyFile DEF ExchangeInv, ReplyGrows, StartPhase
<1>10. Answering
  BY <1>4, <1>7, <1>8, <1>9, WriteContext DEF m, Answering, Fits, FitsIn, WritingStates, WaitingStates, HelloPhase, StartPhase, EndPhase,
     RequestPhase, NextPhase, CompletePhase
<1> QED
  BY <1>2, <1>6, <1>10 DEF RefusesOnlyLarge

LEMMA FileDataAnswered ==
  ASSUME ExchangeInv, Beacon_write, Write_FILE_DATA(request)
  PROVE  BeaconInv' /\ beaconStatus' # "STARTING" /\ RefusesOnlyLarge' /\ Answering
<1> DEFINE p == RobotFile[Len(receivedFile) + 1]
<1>1. /\ request.type = "FILE_DATA" /\ Announced /\ Len(receivedFile) < Len(RobotFile)
      /\ request.number = Len(receivedFile) % 256 /\ request.body = <<p>>
  BY WriteContext DEF Write_FILE_DATA, Expects
<1>14. RobotFileFits
  BY WriteContext DEF Write_FILE_DATA, Expects
<1>2. receivedFile \in Seq(Pieces) /\ Len(receivedFile) \in Nat /\ p \in Pieces
  BY <1>1, FileFacts DEF ExchangeInv, BeaconInv, BeaconTypes
<1>3. ExpectedChunk(request)
  <2>1. Len(<<p>>) = 1
    OBVIOUS
  <2>2. Len(request.body) = 1
    BY <1>1, <2>1
  <2>3. request.number = expectedSequence /\ expectedLength = Len(RobotFile)
    BY <1>1 DEF Announced
  <2>4. Len(receivedFile) + 1 <= Len(RobotFile)
    <3>1. Len(receivedFile) \in Nat /\ Len(RobotFile) \in Nat
      BY <1>2, FileFacts
    <3>2. Len(receivedFile) < Len(RobotFile)
      BY <1>1
    <3> QED
      BY <3>1, <3>2
  <2> QED
    BY <2>2, <2>3, <2>4 DEF ExpectedChunk
<1>4. /\ UNCHANGED <<expectedLength, expectedCrc, replyVars, cueVars, beaconStatus, notification>>
      /\ receivedFile' = receivedFile \o <<p>> /\ expectedSequence' = (expectedSequence + 1) % 256
  BY <1>1, <1>3 DEF Write_FILE_DATA
<1>5. /\ receivedFile' \in Seq(Pieces) /\ Len(receivedFile') = Len(receivedFile) + 1
      /\ \A i \in 1..Len(receivedFile) : receivedFile'[i] = receivedFile[i]
      /\ receivedFile'[Len(receivedFile) + 1] = p
  BY <1>2, <1>4, OneMorePiece
<1>6. expectedSequence' = Len(receivedFile') % 256 /\ expectedSequence' \in 0..255
  <2>1. Len(receivedFile') \in Nat
    BY <1>2, <1>5
  <2>2. expectedSequence' = ((Len(receivedFile) % 256) + 1) % 256
    BY <1>1, <1>4 DEF Announced
  <2>3. expectedSequence' = (Len(receivedFile) + 1) % 256
    BY <1>2, <2>2, SequenceByte
  <2> QED
    BY <1>5, <2>1, <2>3, SequenceByte
<1>7. Announced'
  <2>1. Len(receivedFile') <= Len(RobotFile) /\ expectedLength' = Len(RobotFile) /\ expectedCrc' = RobotFile
    BY <1>1, <1>2, <1>4, <1>5, FileFacts DEF Announced
  <2>2. ASSUME NEW i \in 1..Len(receivedFile') PROVE receivedFile'[i] = RobotFile[i]
    BY <1>1, <1>2, <1>5 DEF Announced
  <2> QED
    BY <1>6, <2>1, <2>2 DEF Announced
<1>8. FileTyped /\ OffsetsTyped
  BY <1>4, <1>5, <1>6, <1>7, <1>14, FileFacts, OffsetsTypedNow DEF FileTyped, Announced, RobotFileFits
<1>9. BeaconInv' /\ beaconStatus' # "STARTING" /\ RefusesOnlyLarge'
  <2>1. /\ notification' \in PacketSet /\ beaconStatus' \in BeaconStatuses \ {"STARTING"}
        /\ RefusesOnlyLarge'
    BY <1>4, WriteContext DEF ExchangeInv, LinkKnown, BeaconInv, BeaconTypes, RefusesOnlyLarge
  <2> QED
    BY <1>4, <1>8, <2>1, BeaconTyped
<1>10. state \notin WritingStates \/ state = "WRITE_FILE_DATA"
  BY <1>1, WritePhase DEF WritingStates
<1>11. state = "WRITE_FILE_DATA" => robotOffset = Len(receivedFile')
  BY <1>1, <1>5, WritePhase
<1>12. notification' = NoPacket
  BY <1>4, WriteContext
<1>13. Answering
  BY <1>7, <1>10, <1>11, <1>12 DEF Answering, WritingStates
<1> QED
  BY <1>9, <1>13

LEMMA FileEndAnswered ==
  ASSUME ExchangeInv, Beacon_write, Write_FILE_END(request)
  PROVE  BeaconInv' /\ beaconStatus' # "STARTING" /\ RefusesOnlyLarge' /\ Answering
<1>1. request.type = "FILE_END" /\ Announced /\ receivedFile = RobotFile
  BY WriteContext DEF Write_FILE_END, Expects
<1>2. FileVerified
  BY <1>1 DEF FileVerified, Announced
<1> DEFINE m == Packet("FILE_RECEIVED", 0, RobotFile)
<1>3. UNCHANGED <<receiveVars, replyVars, cueVars>> /\ beaconStatus' = "FILE_VERIFIED" /\ queue_notification(m)
  BY <1>1, <1>2 DEF Write_FILE_END
<1>4. m \in PacketSet /\ m.type # "NONE"
  BY PacketTyped, FileFacts DEF MessageTypes, Packet
<1>5. /\ notification' \in PacketSet
      /\ state \in WritingStates => notification' = m /\ notification' # NoPacket
      /\ notification' # NoPacket => notification' = m
  BY <1>3, <1>4, Queued
<1>6. BeaconInv'
  BY <1>3, <1>5, BeaconTyped, FileTypedNow, OffsetsTypedNow DEF BeaconStatuses
<1>7. state \notin WritingStates \/ state = "WRITE_FILE_END"
  BY <1>1, WritePhase DEF WritingStates
<1>8. Answering
  BY <1>5, <1>7, WriteContext DEF Answering, Fits, FitsIn, WritingStates, WaitingStates, HelloPhase, StartPhase, EndPhase,
     RequestPhase, NextPhase, CompletePhase
<1> QED
  BY <1>3, <1>6, <1>8 DEF RefusesOnlyLarge

LEMMA ReplyRequestAnswered ==
  ASSUME ExchangeInv, Beacon_write, Write_REPLY_REQUEST(request)
  PROVE  BeaconInv' /\ beaconStatus' # "STARTING" /\ RefusesOnlyLarge' /\ Answering
<1>1. request.type = "REPLY_REQUEST"
  BY DEF Write_REPLY_REQUEST
<1> DEFINE m == Packet("REPLY_START", Len(BeaconReply), BeaconReply)
<1>2. /\ UNCHANGED <<receiveVars, cueVars>> /\ beaconStatus' = "SENDING_REPLY" /\ queue_notification(m)
      /\ replySequence' = 1 /\ replyOffset' = 0
  BY DEF Write_REPLY_REQUEST, send_reply_piece
<1>3. m \in PacketSet /\ m.type # "NONE"
  BY PacketTyped, FileFacts DEF MessageTypes, Packet
<1>4. /\ notification' \in PacketSet
      /\ state \in WritingStates => notification' = m /\ notification' # NoPacket
      /\ notification' # NoPacket => notification' = m
  BY <1>2, <1>3, Queued
<1>5. OffsetsTyped
  BY <1>2, FileFacts DEF OffsetsTyped
<1>6. BeaconInv'
  BY <1>2, <1>4, <1>5, BeaconTyped, FileTypedNow DEF BeaconStatuses
<1>7. state \notin WritingStates \/ state = "WRITE_REPLY_REQUEST"
  BY <1>1, WritePhase DEF WritingStates
<1>8. Answering
  BY <1>2, <1>4, <1>7, WriteContext DEF Answering, Fits, FitsIn, WritingStates, WaitingStates, HelloPhase, StartPhase, EndPhase,
     RequestPhase, NextPhase, CompletePhase
<1> QED
  BY <1>2, <1>6, <1>8 DEF RefusesOnlyLarge

LEMMA CompleteAnswered ==
  ASSUME ExchangeInv, Beacon_write, Write_COMPLETE(request)
  PROVE  BeaconInv' /\ beaconStatus' # "STARTING" /\ RefusesOnlyLarge' /\ Answering
<1>1. request.type = "COMPLETE"
  BY DEF Write_COMPLETE
<1> DEFINE m == Packet("COMPLETE_ACK", BEACON_ID, <<>>)
<1>2. /\ UNCHANGED <<receiveVars, replyVars>> /\ beaconStatus' = "COMPLETE" /\ queue_notification(m)
      /\ connectedCue' = FALSE /\ buzzer' = "complete"
  BY DEF Write_COMPLETE, send_simple
<1>3. m \in PacketSet /\ m.type # "NONE"
  BY PacketTyped, EmptyFile DEF MessageTypes, Packet, BEACON_ID
<1>4. /\ notification' \in PacketSet
      /\ state \in WritingStates => notification' = m /\ notification' # NoPacket
      /\ notification' # NoPacket => notification' = m
  BY <1>2, <1>3, Queued
<1>5. BeaconInv'
  <2>1. /\ peerConnected' \in BOOLEAN /\ notificationsEnabled' \in {FALSE, peerConnected'}
    BY WriteContext DEF ExchangeInv, BeaconInv, BeaconTypes, connectionVars
  <2>2. /\ connectedCue' \in BOOLEAN /\ buzzer' \in {"silent", "alive", "connected", "complete"}
        /\ buzzer' = "connected" <=> connectedCue'
        /\ connectedCue' => peerConnected'
    BY <1>2
  <2>3. FileTyped /\ OffsetsTyped /\ beaconStatus' \in BeaconStatuses
    BY <1>2, FileTypedNow, OffsetsTypedNow DEF BeaconStatuses
  <2> QED
    BY <1>4, <2>1, <2>2, <2>3 DEF BeaconInv, BeaconTypes, FileTyped, OffsetsTyped
<1>6. state \notin WritingStates \/ state = "WRITE_COMPLETE"
  BY <1>1, WritePhase DEF WritingStates
<1>7. Answering
  BY <1>4, <1>6, WriteContext DEF Answering, Fits, FitsIn, WritingStates, WaitingStates, HelloPhase, StartPhase, EndPhase,
     RequestPhase, NextPhase, CompletePhase
<1> QED
  BY <1>2, <1>5, <1>7 DEF RefusesOnlyLarge

\* The answer to MSG_REPLY_NEXT, given the packet send_reply_piece queues.
LEMMA ReplyPieceAnswered ==
  ASSUME ExchangeInv, Beacon_write, request.type = "REPLY_NEXT", UNCHANGED <<beaconStatus, receiveVars, cueVars>>,
         NEW m \in PacketSet, m.type # "NONE", queue_notification(m), OffsetsTyped,
         state = "WRITE_REPLY_NEXT" =>
           /\ replyOffset' = IF Len(replyFile) < Len(BeaconReply) THEN Len(replyFile) + 1 ELSE Len(replyFile)
           /\ replySequence' = (replyOffset' + 1) % 256
           /\ \/ /\ Len(replyFile) < Len(BeaconReply)
                 /\ m = Packet("REPLY_DATA", Len(replyFile) % 256, <<BeaconReply[Len(replyFile) + 1]>>)
              \/ Len(replyFile) = Len(BeaconReply) /\ m = Packet("REPLY_END", 0, BeaconReply)
  PROVE  BeaconInv' /\ beaconStatus' # "STARTING" /\ RefusesOnlyLarge' /\ Answering
<1>1. /\ notification' \in PacketSet
      /\ state \in WritingStates => notification' = m /\ notification' # NoPacket
      /\ notification' # NoPacket => notification' = m
  BY Queued
<1>2. beaconStatus' \in BeaconStatuses /\ beaconStatus' # "STARTING" /\ RefusesOnlyLarge'
  BY WriteContext DEF ExchangeInv, LinkKnown, BeaconInv, BeaconTypes, RefusesOnlyLarge
<1>3. BeaconInv'
  BY <1>1, <1>2, BeaconTyped, FileTypedNow
<1>4. state \notin WritingStates \/ state = "WRITE_REPLY_NEXT"
  BY WritePhase DEF WritingStates
<1>5. state' = state /\ replyFile' = replyFile /\ state \notin WaitingStates
  BY WriteContext DEF fileVars
<1>6. notification' # NoPacket => Fits(notification)'
  BY <1>1, <1>4, <1>5 DEF Fits, FitsIn, WritingStates, WaitingStates, HelloPhase, StartPhase, EndPhase,
     RequestPhase, NextPhase, CompletePhase
<1>7. Answering
  BY <1>1, <1>4, <1>6 DEF Answering, WritingStates
<1> QED
  BY <1>2, <1>3, <1>7

LEMMA ReplyNextAnswered ==
  ASSUME ExchangeInv, Beacon_write, Write_REPLY_NEXT(request)
  PROVE  BeaconInv' /\ beaconStatus' # "STARTING" /\ RefusesOnlyLarge' /\ Answering
<1>1. /\ request.type = "REPLY_NEXT" /\ UNCHANGED <<beaconStatus, receiveVars, cueVars>>
      /\ send_reply_piece(replyOffset, replySequence)
  BY DEF Write_REPLY_NEXT
<1>2. replyOffset \in 0..Len(BeaconReply) /\ replySequence \in 0..255 /\ Len(BeaconReply) \in Nat
  BY FileFacts DEF ExchangeInv, BeaconInv, BeaconTypes
<1>3. state = "WRITE_REPLY_NEXT" =>
        replyOffset = Len(replyFile) /\ replySequence = (replyOffset + 1) % 256
  BY <1>1, WritePhase
<1>4. CASE replyOffset = 0 /\ replySequence = 0
  <2> DEFINE m == Packet("REPLY_START", Len(BeaconReply), BeaconReply)
  <2>1. m \in PacketSet /\ m.type # "NONE"
    BY PacketTyped, FileFacts DEF MessageTypes, Packet
  <2>2. queue_notification(m) /\ replySequence' = 1 /\ replyOffset' = 0
    BY <1>1, <1>4 DEF send_reply_piece
  <2>3. OffsetsTyped
    BY <1>2, <2>2 DEF OffsetsTyped
  <2>4. state # "WRITE_REPLY_NEXT"
    BY <1>3, <1>4
  <2> QED
    BY <1>1, <2>1, <2>2, <2>3, <2>4, ReplyPieceAnswered
<1>5. CASE ~(replyOffset = 0 /\ replySequence = 0) /\ replyOffset < Len(BeaconReply)
  <2> DEFINE piece == BeaconReply[replyOffset + 1]
             number == (replySequence + 255) % 256
             m == Packet("REPLY_DATA", number, <<piece>>)
  <2>1. piece \in Pieces
    BY <1>2, <1>5, FileFacts
  <2>2. <<piece>> \in Seq(Pieces) /\ number \in Nat
    BY <1>2, <2>1
  <2>3. m \in PacketSet /\ m.type # "NONE"
    BY <2>2, PacketTyped DEF MessageTypes, Packet
  <2>4. queue_notification(m) /\ replyOffset' = replyOffset + 1 /\ replySequence' = (replySequence + 1) % 256
    BY <1>1, <1>5 DEF send_reply_piece
  <2>5. OffsetsTyped
    BY <1>2, <1>5, <2>4 DEF OffsetsTyped
  <2>6. ASSUME state = "WRITE_REPLY_NEXT"
        PROVE  /\ number = Len(replyFile) % 256 /\ replySequence' = (replyOffset' + 1) % 256
               /\ replyOffset' = Len(replyFile) + 1 /\ Len(replyFile) < Len(BeaconReply)
               /\ m = Packet("REPLY_DATA", Len(replyFile) % 256, <<BeaconReply[Len(replyFile) + 1]>>)
    <3>1. replyOffset = Len(replyFile) /\ replySequence = (replyOffset + 1) % 256 /\ replyOffset \in Nat
      BY <1>2, <1>3, <2>6
    <3>2. number = replyOffset % 256
      BY <3>1, SequenceByte
    <3>3. replySequence' = ((replyOffset + 1) + 1) % 256
      BY <2>4, <3>1, SequenceByte
    <3> QED
      BY <1>5, <2>4, <3>1, <3>2, <3>3
  <2> HIDE DEF m, number, piece
  <2> QED
    BY <1>1, <2>3, <2>4, <2>5, <2>6, ReplyPieceAnswered
<1>6. CASE replyOffset = Len(BeaconReply) /\ ~(replyOffset = 0 /\ replySequence = 0)
  <2> DEFINE m == Packet("REPLY_END", 0, BeaconReply)
  <2>1. m \in PacketSet /\ m.type # "NONE"
    BY PacketTyped, FileFacts DEF MessageTypes, Packet
  <2>2. queue_notification(m) /\ replyOffset' = replyOffset /\ replySequence' = replySequence
    BY <1>1, <1>2, <1>6 DEF send_reply_piece
  <2>3. OffsetsTyped
    BY <1>2, <2>2 DEF OffsetsTyped
  <2>4. state = "WRITE_REPLY_NEXT" =>
          /\ Len(replyFile) = Len(BeaconReply) /\ replyOffset' = Len(replyFile)
          /\ replySequence' = (replyOffset' + 1) % 256
    BY <1>3, <1>6, <2>2
  <2>5. Len(replyFile) = Len(BeaconReply) => ~(Len(replyFile) < Len(BeaconReply))
    BY <1>2
  <2> HIDE DEF m
  <2>6. state = "WRITE_REPLY_NEXT" =>
          /\ replyOffset' = IF Len(replyFile) < Len(BeaconReply) THEN Len(replyFile) + 1 ELSE Len(replyFile)
          /\ replySequence' = (replyOffset' + 1) % 256
          /\ Len(replyFile) = Len(BeaconReply) /\ m = Packet("REPLY_END", 0, BeaconReply)
    BY <2>4, <2>5 DEF m
  <2> QED
    BY <1>1, <2>1, <2>2, <2>3, <2>6, ReplyPieceAnswered
<1> QED
  BY <1>2, <1>4, <1>5, <1>6

LEMMA Beacon_writeKeeps ==
  ASSUME ExchangeInv, Beacon_write, Inv', Ops'
  PROVE  ExchangeInv'
<1>1. \/ Write_HELLO(request) \/ Write_FILE_START(request) \/ Write_FILE_DATA(request) \/ Write_FILE_END(request)
      \/ Write_REPLY_REQUEST(request) \/ Write_REPLY_NEXT(request) \/ Write_COMPLETE(request)
  BY DEF Beacon_write, att_write_callback
<1>2. BeaconInv' /\ beaconStatus' # "STARTING" /\ RefusesOnlyLarge' /\ Answering
  BY <1>1, HelloAnswered, FileStartAnswered, FileDataAnswered, FileEndAnswered, ReplyRequestAnswered,
     ReplyNextAnswered, CompleteAnswered DEF RefusesOnlyLarge
<1> QED
  BY <1>2, BeaconAnswers

-----------------------------------------------------------------------------
(* The client takes what is on its way                                      *)

\* All there was on its way has been taken.
AirTaken == wire' = wire /\ request' = request /\ response' = FALSE /\ inbound' = <<>>

\* The client has handed its next write to BTstack.
LEMMA WroteKeeps ==
  ASSUME ExchangeInv, Inv', Ops', SameBeacon, AirTaken, ~Sending, notification = NoPacket, state \in LinkedStates,
         NEW s \in WritingStates, NEW packet, Writes(packet, s, NoPacket), WrittenFor(s, packet.type), ReplyGrows',
         s \in PastStart => RobotFileFits,
         wire = "up" =>
           /\ notificationsEnabled /\ Expects(packet)
           /\ s = "WRITE_FILE_DATA" => robotOffset' = Len(receivedFile) + 1
           /\ s = "WRITE_REPLY_NEXT" => replyOffset = Len(replyFile') /\ replySequence = (replyOffset + 1) % 256
  PROVE  ExchangeInv'
<1> USE DEF SameBeacon, AirTaken, Writes, beaconVars, connectionVars, receiveVars, replyVars, cueVars
<1>1. link = "up" /\ ~payloadVerified
  BY LinkedFacts DEF ExchangeInv
<1>2. request' = NoPacket /\ Sending' /\ Outgoing' = packet /\ Slot' = NoPacket /\ notification' = NoPacket
  BY DEF Sending, Outgoing, Slot
<1>3. state' \in WritingStates /\ state' \notin Discovering \cup WaitingStates
  BY DEF WritingStates, Discovering, WaitingStates
<1>4. BeaconInv' /\ RefusesOnlyLarge'
  BY DEF ExchangeInv, BeaconInv, BeaconTypes, RefusesOnlyLarge
<1>5. LinkKnown'
  BY <1>1, <1>2, <1>3, NoPacketTyped DEF ExchangeInv, LinkKnown, Discovering
<1>6. OperationByState'
  <2>1. state' \in PastStart => RobotFileFits
    BY DEF PastStart
  <2> QED
    BY <1>1, <1>3, <2>1 DEF OperationByState, Discovering
<1>7. OneInFlight' /\ WriteFits'
  BY <1>2 DEF OneInFlight, WriteFits
<1>8. Expects(packet) => Expects(Outgoing)'
  BY <1>2 DEF Expects, Announced
<1>9. Agree'
  BY <1>2, <1>8 DEF Agree
<1>10. AnswerFits'
  BY <1>2 DEF AnswerFits
<1> QED
  BY <1>4, <1>5, <1>6, <1>7, <1>9, <1>10 DEF ExchangeInv

\* The payload is called delivered and the link closed.
LEMMA ConfirmsKeeps ==
  ASSUME ExchangeInv, Inv', Ops', SameBeacon, AirTaken, ~Sending, state \in LinkedStates,
         NEW op \in {"none", query}, Confirms(op), replyFile = BeaconReply
  PROVE  ExchangeInv'
<1> USE DEF SameBeacon, AirTaken, Confirms, beaconVars, connectionVars, receiveVars, replyVars, cueVars, fileVars
<1>1. link = "up"
  BY LinkedFacts DEF ExchangeInv
<1>2. request' = NoPacket /\ ~Sending' /\ state' \notin LinkedStates
  BY DEF Sending, LinkedStates, WritingStates, WaitingStates
<1>3. BeaconInv' /\ RefusesOnlyLarge'
  BY DEF ExchangeInv, BeaconInv, BeaconTypes, RefusesOnlyLarge
<1>4. LinkKnown'
  BY <1>1, <1>2, NoPacketTyped DEF ExchangeInv, LinkKnown, LinkedStates
<1>5. OneInFlight'
  BY <1>2 DEF ExchangeInv, OneInFlight, Slot, LinkedStates
<1> QED
  BY <1>2, <1>3, <1>4, <1>5, OutsideKeeps

\* The client takes m in the waiting phase s, with nothing else on its way.
Taking(s, m, op) ==
  /\ SameBeacon /\ AirTaken /\ ~Sending /\ notification = NoPacket
  /\ ~abortRequested /\ abortRequested' = abortRequested
  /\ state \in LinkedStates /\ s \in WaitingStates
  /\ s = state \/ (state \in WritingStates \ {"WRITE_FILE_DATA"} /\ s = AfterWrite[state])
  /\ op \in {"none", query} /\ FitsIn(s, m) /\ Consume(s, m, op)

LEMMA ExpectedTypes ==
  /\ ExpectedIn("WAIT_HELLO_ACK") = {"HELLO_ACK"} /\ ExpectedIn("WAIT_FILE_READY") = {"FILE_READY"}
  /\ ExpectedIn("WAIT_FILE_RECEIVED") = {"FILE_RECEIVED"} /\ ExpectedIn("WAIT_REPLY_START") = {"REPLY_START"}
  /\ ExpectedIn("WAIT_REPLY_PIECE") = {"REPLY_DATA", "REPLY_END"}
  /\ ExpectedIn("WAIT_COMPLETE_ACK") = {"COMPLETE_ACK"}
BY DEF ExpectedIn

\* The phase the client is in when it takes an answer in s.
LEMMA TakingPhase ==
  ASSUME NEW s, NEW m, NEW op, Taking(s, m, op)
  PROVE  /\ s = "WAIT_HELLO_ACK"     => state \in HelloPhase
         /\ s = "WAIT_FILE_READY"    => state \in StartPhase
         /\ s = "WAIT_FILE_RECEIVED" => state \in EndPhase
         /\ s = "WAIT_REPLY_START"   => state \in RequestPhase
         /\ s = "WAIT_REPLY_PIECE"   => state \in NextPhase
         /\ s = "WAIT_COMPLETE_ACK"  => state \in CompletePhase
         /\ s \in LinkedStates /\ state \in WritingStates \cup WaitingStates
BY DEF Taking, AfterWrite, WritingStates, WaitingStates, LinkedStates, HelloPhase, StartPhase, EndPhase,
   RequestPhase, NextPhase, CompletePhase

\* What both sides hold when the client takes an answer.
LEMMA TakingFacts ==
  ASSUME ExchangeInv, NEW s, NEW m, NEW op, Taking(s, m, op)
  PROVE  /\ wire = "up" => notificationsEnabled
         /\ s \in PastStart => RobotFileFits
         /\ wire = "up" /\ state \in StartPhase => Announced /\ robotOffset = Len(receivedFile)
         /\ wire = "up" /\ state \in RequestPhase => replyOffset = 0 /\ replySequence = 1
         /\ wire = "up" /\ state \in NextPhase =>
              /\ replyOffset = IF Len(replyFile) < Len(BeaconReply) THEN Len(replyFile) + 1 ELSE Len(replyFile)
              /\ replySequence = (replyOffset + 1) % 256
<1>1. state \in WritingStates \cup WaitingStates /\ ~Sending /\ ~abortRequested
  BY TakingPhase DEF Taking
<1>2. s \in PastStart => state \in PastStart
  BY TakingPhase DEF Taking, WaitingStates, PastStart, EndPhase, RequestPhase, NextPhase, CompletePhase
<1>3. s \in PastStart => RobotFileFits
  BY <1>2 DEF ExchangeInv, OperationByState
<1> QED
  BY <1>1, <1>3 DEF ExchangeInv, LinkKnown, Agree

\* A refused announcement closes the link.
LEMMA RefusalCloses ==
  ASSUME ExchangeInv, ~RobotFileFits, NEW m, NEW op, Taking("WAIT_FILE_READY", m, op)
  PROVE  Closes
<1>1. m.type = "ERROR"
  BY DEF Taking, FitsIn, StartPhase, StartAnswer, Packet
<1>2. Give_up("WAIT_FILE_READY", op)
  BY <1>1 DEF Taking, Consume, Accept_HELLO_ACK, Accept_FILE_READY, Accept_FILE_RECEIVED, Accept_REPLY_START,
     Accept_REPLY_DATA, Accept_REPLY_END, Accept_COMPLETE_ACK
<1>3. /\ Inv /\ state \in LinkedStates /\ "WAIT_FILE_READY" \in LinkedStates /\ op \in {"none", query}
      /\ abortRequested' = abortRequested
  BY TakingPhase DEF Taking, ExchangeInv
<1> QED
  BY <1>2, <1>3, GiveUpEffect

\* An answer that closes the link, or that is followed by a write.
LEMMA TakenClosed ==
  ASSUME ExchangeInv, Inv', Ops', NEW s, NEW m, NEW op, Taking(s, m, op), Closes
  PROVE  ExchangeInv'
BY ClosesKeeps DEF Taking, AirTaken, AirDrained

LEMMA TakeHello ==
  ASSUME ExchangeInv, Inv', Ops', NEW m, NEW op, Taking("WAIT_HELLO_ACK", m, op)
  PROVE  ExchangeInv'
<1> DEFINE s == "WAIT_HELLO_ACK"
           packet == Packet("FILE_START", Len(RobotFile), RobotFile)
<1>1. m = Packet("HELLO_ACK", BEACON_ID, <<>>)
  BY DEF Taking, FitsIn, HelloPhase
<1>2. m.type = "HELLO_ACK" /\ m.number = TARGET_BEACON_ID
  BY <1>1 DEF Packet, BEACON_ID, TARGET_BEACON_ID
<1>3. Accept_HELLO_ACK(s, m, op)
  BY <1>2, ExpectedTypes DEF Taking, Consume, Accept_FILE_READY, Accept_FILE_RECEIVED, Accept_REPLY_START,
     Accept_REPLY_DATA, Accept_REPLY_END, Accept_COMPLETE_ACK
<1>4. /\ write_packet(packet, "WRITE_FILE_START", NoPacket)
      /\ robotOffset' = 0 /\ UNCHANGED <<replyLength, replyFile, replyCrc>>
  BY <1>2, <1>3 DEF Accept_HELLO_ACK
<1>5. Closes \/ Writes(packet, "WRITE_FILE_START", NoPacket)
  BY <1>4, WriteEffect DEF Taking, ExchangeInv, WritingStates
<1>6. CASE Writes(packet, "WRITE_FILE_START", NoPacket)
  <2>1. ReplyGrows'
    BY <1>4, <1>6, LinkedFacts DEF Taking, ExchangeInv, ReplyGrows, Writes, StartPhase, NextPhase, CompletePhase
  <2>2. Expects(packet) /\ WrittenFor("WRITE_FILE_START", packet.type)
    BY DEF Expects, WrittenFor, Packet
  <2>3. "WRITE_FILE_START" \in WritingStates \ PastStart
    BY DEF WritingStates, PastStart, EndPhase, RequestPhase, NextPhase, CompletePhase
  <2>4. /\ SameBeacon /\ AirTaken /\ ~Sending /\ notification = NoPacket /\ state \in LinkedStates
        /\ wire = "up" => notificationsEnabled
    BY TakingFacts DEF Taking
  <2> HIDE DEF packet
  <2> QED
    BY <1>6, <2>1, <2>2, <2>3, <2>4, WroteKeeps
<1> QED
  BY <1>5, <1>6, TakenClosed

\* The next piece of the robot's file, or its end.
LEMMA NextChunkKeeps ==
  ASSUME ExchangeInv, Inv', Ops', SameBeacon, AirTaken, ~Sending, notification = NoPacket, state \in LinkedStates,
         abortRequested' = abortRequested, write_next_robot_chunk(NoPacket), RobotFileFits,
         wire = "up" => notificationsEnabled /\ Announced /\ robotOffset = Len(receivedFile)
  PROVE  ExchangeInv'
<1>1. receivedFile \in Seq(Pieces) /\ Inv /\ ~payloadVerified
  BY LinkedFacts DEF ExchangeInv, BeaconInv, BeaconTypes
<1>2. CASE Closes
  BY <1>2, ClosesKeeps DEF AirTaken, AirDrained
<1>3. CASE robotOffset = Len(RobotFile)
  <2> DEFINE packet == Packet("FILE_END", 0, <<>>)
  <2>1. write_packet(packet, "WRITE_FILE_END", NoPacket)
    BY <1>3 DEF write_next_robot_chunk
  <2>2. Closes \/ Writes(packet, "WRITE_FILE_END", NoPacket)
    BY <1>1, <2>1, WriteEffect DEF WritingStates
  <2>3. CASE Writes(packet, "WRITE_FILE_END", NoPacket)
    <3>1. ReplyGrows'
      BY <1>1, <2>3 DEF ReplyGrows, Writes, StartPhase, NextPhase, CompletePhase
    <3>2. wire = "up" => receivedFile = RobotFile
      BY <1>1, <1>3, FileFacts, WholePrefix DEF Announced
    <3>3. WrittenFor("WRITE_FILE_END", packet.type) /\ (wire = "up" => Expects(packet))
      BY <3>2 DEF Expects, WrittenFor, Packet
    <3>4. "WRITE_FILE_END" \in WritingStates
      BY DEF WritingStates
    <3> HIDE DEF packet
    <3> QED
      BY <2>3, <3>1, <3>3, <3>4, WroteKeeps
  <2> QED
    BY <1>2, <2>2, <2>3
<1>4. CASE robotOffset # Len(RobotFile)
  <2> DEFINE packet == Packet("FILE_DATA", robotOffset % 256, <<RobotFile[robotOffset + 1]>>)
  <2>1. write_packet(packet, "WRITE_FILE_DATA", NoPacket) /\ robotOffset' = robotOffset + 1
    BY <1>4 DEF write_next_robot_chunk
  <2>2. Closes \/ Writes(packet, "WRITE_FILE_DATA", NoPacket)
    BY <1>1, <2>1, WriteEffect DEF WritingStates
  <2>3. CASE Writes(packet, "WRITE_FILE_DATA", NoPacket)
    <3>1. ReplyGrows'
      BY <1>1, <2>3 DEF ReplyGrows, Writes, StartPhase, NextPhase, CompletePhase
    <3>2. wire = "up" => Len(receivedFile) < Len(RobotFile) /\ robotOffset' = Len(receivedFile) + 1
      <4>1. Len(receivedFile) \in Nat /\ Len(RobotFile) \in Nat
        BY <1>1, FileFacts
      <4>2. wire = "up" => Len(receivedFile) <= Len(RobotFile) /\ Len(receivedFile) # Len(RobotFile)
        BY <1>4 DEF Announced
      <4>3. wire = "up" => robotOffset' = Len(receivedFile) + 1
        BY <2>1
      <4> QED
        BY <4>1, <4>2, <4>3
    <3>3. WrittenFor("WRITE_FILE_DATA", packet.type)
      BY DEF WrittenFor, Packet
    <3>4. wire = "up" => Expects(packet)
      BY <3>2 DEF Expects, Packet
    <3>5. "WRITE_FILE_DATA" \in WritingStates
      BY DEF WritingStates
    <3> HIDE DEF packet
    <3> QED
      BY <2>3, <3>1, <3>2, <3>3, <3>4, <3>5, WroteKeeps
  <2> QED
    BY <1>2, <2>2, <2>3
<1> QED
  BY <1>3, <1>4

LEMMA TakeReady ==
  ASSUME ExchangeInv, Inv', Ops', NEW m, NEW op, Taking("WAIT_FILE_READY", m, op)
  PROVE  ExchangeInv'
<1> DEFINE s == "WAIT_FILE_READY"
<1>1. CASE RobotFileFits
  <2>1. m.type = "FILE_READY" /\ m.number = TARGET_BEACON_ID
    BY <1>1 DEF Taking, FitsIn, StartPhase, StartAnswer, Packet, BEACON_ID, TARGET_BEACON_ID
  <2>2. Accept_FILE_READY(s, m, op)
    BY <2>1, ExpectedTypes DEF Taking, Consume, Accept_HELLO_ACK, Accept_FILE_RECEIVED, Accept_REPLY_START,
       Accept_REPLY_DATA, Accept_REPLY_END, Accept_COMPLETE_ACK
  <2>3. write_next_robot_chunk(NoPacket)
    BY <2>1, <2>2 DEF Accept_FILE_READY
  <2>4. wire = "up" => notificationsEnabled /\ Announced /\ robotOffset = Len(receivedFile)
    BY TakingFacts, TakingPhase
  <2> QED
    BY <1>1, <2>3, <2>4, NextChunkKeeps DEF Taking
<1>2. CASE ~RobotFileFits
  <2>1. Closes
    BY <1>2, RefusalCloses
  <2> QED
    BY <2>1, TakenClosed
<1> QED
  BY <1>1, <1>2

LEMMA TakeReceived ==
  ASSUME ExchangeInv, Inv', Ops', NEW m, NEW op, Taking("WAIT_FILE_RECEIVED", m, op)
  PROVE  ExchangeInv'
<1> DEFINE s == "WAIT_FILE_RECEIVED"
           packet == Packet("REPLY_REQUEST", 0, <<>>)
<1>0. RobotFileFits
  BY TakingFacts DEF PastStart, EndPhase, RequestPhase, NextPhase, CompletePhase
<1>1. m.type = "FILE_RECEIVED" /\ m.number = 0 /\ m.body = RobotFile
  BY DEF Taking, FitsIn, EndPhase, Packet
<1>2. Accept_FILE_RECEIVED(s, m, op)
  BY <1>1, ExpectedTypes DEF Taking, Consume, Accept_HELLO_ACK, Accept_FILE_READY, Accept_REPLY_START,
     Accept_REPLY_DATA, Accept_REPLY_END, Accept_COMPLETE_ACK
<1>3. write_packet(packet, "WRITE_REPLY_REQUEST", NoPacket)
  BY <1>1, <1>2 DEF Accept_FILE_RECEIVED, write_simple
<1>4. Closes \/ Writes(packet, "WRITE_REPLY_REQUEST", NoPacket)
  BY <1>3, WriteEffect DEF Taking, ExchangeInv, WritingStates
<1>5. CASE Writes(packet, "WRITE_REPLY_REQUEST", NoPacket)
  <2>1. ReplyGrows'
    BY <1>5, LinkedFacts DEF Taking, ExchangeInv, ReplyGrows, Writes, StartPhase, NextPhase, CompletePhase
  <2>2. Expects(packet) /\ WrittenFor("WRITE_REPLY_REQUEST", packet.type)
    BY <1>0 DEF Expects, WrittenFor, Packet
  <2>3. "WRITE_REPLY_REQUEST" \in WritingStates
    BY DEF WritingStates
  <2>4. /\ SameBeacon /\ AirTaken /\ ~Sending /\ notification = NoPacket /\ state \in LinkedStates
        /\ wire = "up" => notificationsEnabled
    BY TakingFacts DEF Taking
  <2> HIDE DEF packet
  <2> QED
    BY <1>5, <2>1, <2>2, <2>3, <2>4, <1>0, WroteKeeps
<1> QED
  BY <1>4, <1>5, TakenClosed

LEMMA TakeReplyStart ==
  ASSUME ExchangeInv, Inv', Ops', NEW m, NEW op, Taking("WAIT_REPLY_START", m, op)
  PROVE  ExchangeInv'
<1> DEFINE s == "WAIT_REPLY_START"
           packet == Packet("REPLY_NEXT", 0, <<>>)
<1>0. RobotFileFits
  BY TakingFacts DEF PastStart, EndPhase, RequestPhase, NextPhase, CompletePhase
<1>1. m.type = "REPLY_START" /\ m.number = Len(BeaconReply) /\ m.body = BeaconReply
  BY DEF Taking, FitsIn, RequestPhase, Packet
<1>2. GoodReplyLength(m)
  BY <1>1, FileFacts DEF GoodReplyLength
<1>3. Accept_REPLY_START(s, m, op)
  BY <1>1, ExpectedTypes DEF Taking, Consume, Accept_HELLO_ACK, Accept_FILE_READY, Accept_FILE_RECEIVED,
     Accept_REPLY_DATA, Accept_REPLY_END, Accept_COMPLETE_ACK
<1>4. /\ write_packet(packet, "WRITE_REPLY_NEXT", NoPacket)
      /\ replyLength' = Len(BeaconReply) /\ replyCrc' = BeaconReply /\ replyFile' = <<>>
  BY <1>1, <1>2, <1>3 DEF Accept_REPLY_START, write_simple
<1>5. Closes \/ Writes(packet, "WRITE_REPLY_NEXT", NoPacket)
  BY <1>4, WriteEffect DEF Taking, ExchangeInv, WritingStates
<1>6. CASE Writes(packet, "WRITE_REPLY_NEXT", NoPacket)
  <2>1. Len(replyFile') = 0 /\ Len(replyFile') <= Len(BeaconReply) /\ \A i \in 1..Len(replyFile') : FALSE
    BY <1>4, EmptyFile, FileFacts
  <2>2. ReplyGrows'
    BY <1>4, <1>6, <2>1, LinkedFacts DEF Taking, ExchangeInv, ReplyGrows, Writes, StartPhase, NextPhase, CompletePhase
  <2>3. Expects(packet) /\ WrittenFor("WRITE_REPLY_NEXT", packet.type)
    BY <1>0 DEF Expects, WrittenFor, Packet
  <2>4. "WRITE_REPLY_NEXT" \in WritingStates
    BY DEF WritingStates
  <2>5. /\ SameBeacon /\ AirTaken /\ ~Sending /\ notification = NoPacket /\ state \in LinkedStates
        /\ wire = "up" => notificationsEnabled
    BY TakingFacts DEF Taking
  <2>6. wire = "up" => replyOffset = Len(replyFile') /\ replySequence = (replyOffset + 1) % 256
    <3>1. wire = "up" => replyOffset = 0 /\ replySequence = 1
      BY TakingFacts, TakingPhase
    <3>2. 1 = (0 + 1) % 256
      OBVIOUS
    <3> QED
      BY <2>1, <3>1, <3>2
  <2> HIDE DEF packet
  <2> QED
    BY <1>6, <2>2, <2>3, <2>4, <2>5, <2>6, <1>0, WroteKeeps
<1> QED
  BY <1>5, <1>6, TakenClosed

\* The request for the next piece, once this one is added to the reply.
LEMMA TakeReplyData ==
  ASSUME ExchangeInv, Inv', Ops', NEW m, NEW op, Taking("WAIT_REPLY_PIECE", m, op), m.type = "REPLY_DATA"
  PROVE  ExchangeInv'
<1> DEFINE s == "WAIT_REPLY_PIECE"
           packet == Packet("REPLY_NEXT", 0, <<>>)
           p == BeaconReply[Len(replyFile) + 1]
<1>0. RobotFileFits
  BY TakingFacts DEF PastStart, EndPhase, RequestPhase, NextPhase, CompletePhase
<1>1. Len(replyFile) < Len(BeaconReply) /\ m.number = Len(replyFile) % 256 /\ m.body = <<p>>
  BY DEF Taking, FitsIn, NextPhase, Packet
<1>2. /\ replyFile \in Seq(Pieces) /\ Len(replyFile) \in Nat /\ replyLength = Len(BeaconReply) /\ replyCrc = BeaconReply
      /\ \A i \in 1..Len(replyFile) : replyFile[i] = BeaconReply[i]
  BY TakingPhase DEF ExchangeInv, ReplyGrows, Inv, TypeOK, DataTypeOK
<1>3. p \in Pieces /\ Len(replyFile) + 1 <= Len(BeaconReply)
  <2>1. Len(replyFile) \in Nat /\ Len(BeaconReply) \in Nat /\ Len(replyFile) < Len(BeaconReply)
    BY <1>1, <1>2, FileFacts
  <2>2. Len(replyFile) + 1 \in 1..Len(BeaconReply)
    BY <2>1
  <2> QED
    BY <2>2, FileFacts
<1>4. GoodChunk(m)
  <2>1. Len(<<p>>) = 1
    OBVIOUS
  <2> QED
    BY <1>1, <1>2, <1>3, <2>1 DEF GoodChunk
<1>5. Accept_REPLY_DATA(s, m, op)
  BY ExpectedTypes DEF Taking, Consume, Accept_HELLO_ACK, Accept_FILE_READY, Accept_FILE_RECEIVED,
     Accept_REPLY_START, Accept_REPLY_END, Accept_COMPLETE_ACK
<1>6. /\ write_packet(packet, "WRITE_REPLY_NEXT", NoPacket)
      /\ replyFile' = replyFile \o <<p>> /\ UNCHANGED <<replyLength, replyCrc>>
  BY <1>1, <1>4, <1>5 DEF Accept_REPLY_DATA, write_simple
<1>7. Closes \/ Writes(packet, "WRITE_REPLY_NEXT", NoPacket)
  BY <1>6, WriteEffect DEF Taking, ExchangeInv, WritingStates
<1>8. CASE Writes(packet, "WRITE_REPLY_NEXT", NoPacket)
  <2>1. /\ Len(replyFile') = Len(replyFile) + 1
        /\ \A i \in 1..Len(replyFile) : replyFile'[i] = replyFile[i]
        /\ replyFile'[Len(replyFile) + 1] = p
    BY <1>2, <1>3, <1>6, OneMorePiece
  <2>2. Len(replyFile') <= Len(BeaconReply)
    <3>1. Len(replyFile') = Len(replyFile) + 1
      BY <2>1
    <3> QED
      BY <1>3, <3>1
  <2>3. ASSUME NEW i \in 1..Len(replyFile') PROVE replyFile'[i] = BeaconReply[i]
    BY <1>2, <2>1
  <2>4. ~payloadVerified'
    BY <1>8, LinkedFacts DEF Taking, ExchangeInv, Writes
  <2>5. ReplyGrows'
    BY <1>2, <1>6, <1>8, <2>2, <2>3, <2>4 DEF ReplyGrows, Writes, StartPhase, NextPhase, CompletePhase
  <2>6. Expects(packet) /\ WrittenFor("WRITE_REPLY_NEXT", packet.type)
    BY <1>0 DEF Expects, WrittenFor, Packet
  <2>7. "WRITE_REPLY_NEXT" \in WritingStates
    BY DEF WritingStates
  <2>8. /\ SameBeacon /\ AirTaken /\ ~Sending /\ notification = NoPacket /\ state \in LinkedStates
        /\ wire = "up" => notificationsEnabled
    BY TakingFacts DEF Taking
  <2>9. wire = "up" => replyOffset = Len(replyFile') /\ replySequence = (replyOffset + 1) % 256
    BY <1>1, <2>1, TakingFacts, TakingPhase
  <2> HIDE DEF packet
  <2> QED
    BY <1>8, <2>5, <2>6, <2>7, <2>8, <2>9, <1>0, WroteKeeps
<1> QED
  BY <1>7, <1>8, TakenClosed

\* The whole reply has come: its length and CRC match and MSG_COMPLETE is written.
LEMMA TakeReplyEnd ==
  ASSUME ExchangeInv, Inv', Ops', NEW m, NEW op, Taking("WAIT_REPLY_PIECE", m, op), m.type = "REPLY_END"
  PROVE  ExchangeInv'
<1> DEFINE s == "WAIT_REPLY_PIECE"
           packet == Packet("COMPLETE", 0, <<>>)
<1>0. RobotFileFits
  BY TakingFacts DEF PastStart, EndPhase, RequestPhase, NextPhase, CompletePhase
<1>1. Len(replyFile) = Len(BeaconReply) /\ m.body = BeaconReply
  BY DEF Taking, FitsIn, NextPhase, Packet
<1>2. /\ replyFile \in Seq(Pieces) /\ replyLength = Len(BeaconReply) /\ replyCrc = BeaconReply
      /\ \A i \in 1..Len(replyFile) : replyFile[i] = BeaconReply[i]
  BY TakingPhase DEF ExchangeInv, ReplyGrows, Inv, TypeOK, DataTypeOK
<1>3. replyFile = BeaconReply
  BY <1>1, <1>2, FileFacts, WholePrefix
<1>4. ReplyVerified(m)
  BY <1>1, <1>2, <1>3 DEF ReplyVerified
<1>5. Accept_REPLY_END(s, m, op)
  BY ExpectedTypes DEF Taking, Consume, Accept_HELLO_ACK, Accept_FILE_READY, Accept_FILE_RECEIVED,
     Accept_REPLY_START, Accept_REPLY_DATA, Accept_COMPLETE_ACK
<1>6. write_packet(packet, "WRITE_COMPLETE", NoPacket) /\ UNCHANGED fileVars
  BY <1>4, <1>5 DEF Accept_REPLY_END, write_simple
<1>7. Closes \/ Writes(packet, "WRITE_COMPLETE", NoPacket)
  BY <1>6, WriteEffect DEF Taking, ExchangeInv, WritingStates
<1>8. CASE Writes(packet, "WRITE_COMPLETE", NoPacket)
  <2>1. Len(BeaconReply) <= Len(BeaconReply)
    BY FileFacts
  <2>2. ReplyGrows'
    BY <1>2, <1>3, <1>6, <1>8, <2>1 DEF ReplyGrows, Writes, fileVars, StartPhase, NextPhase, CompletePhase
  <2>3. Expects(packet) /\ WrittenFor("WRITE_COMPLETE", packet.type)
    BY <1>0 DEF Expects, WrittenFor, Packet
  <2>4. "WRITE_COMPLETE" \in WritingStates
    BY DEF WritingStates
  <2>5. /\ SameBeacon /\ AirTaken /\ ~Sending /\ notification = NoPacket /\ state \in LinkedStates
        /\ wire = "up" => notificationsEnabled
    BY TakingFacts DEF Taking
  <2> HIDE DEF packet
  <2> QED
    BY <1>8, <2>2, <2>3, <2>4, <2>5, <1>0, WroteKeeps
<1> QED
  BY <1>7, <1>8, TakenClosed

LEMMA TakeReplyPiece ==
  ASSUME ExchangeInv, Inv', Ops', NEW m, NEW op, Taking("WAIT_REPLY_PIECE", m, op)
  PROVE  ExchangeInv'
<1>1. m.type = "REPLY_DATA" \/ m.type = "REPLY_END"
  BY DEF Taking, FitsIn, NextPhase, Packet
<1> QED
  BY <1>1, TakeReplyData, TakeReplyEnd

LEMMA TakeComplete ==
  ASSUME ExchangeInv, Inv', Ops', NEW m, NEW op, Taking("WAIT_COMPLETE_ACK", m, op)
  PROVE  ExchangeInv'
<1> DEFINE s == "WAIT_COMPLETE_ACK"
<1>1. m.type = "COMPLETE_ACK" /\ m.number = TARGET_BEACON_ID
  BY DEF Taking, FitsIn, CompletePhase, Packet, BEACON_ID, TARGET_BEACON_ID
<1>2. Accept_COMPLETE_ACK(s, m, op)
  BY <1>1, ExpectedTypes DEF Taking, Consume, Accept_HELLO_ACK, Accept_FILE_READY, Accept_FILE_RECEIVED,
     Accept_REPLY_START, Accept_REPLY_DATA, Accept_REPLY_END
<1>3. /\ payloadVerified' = TRUE /\ query' = op /\ UNCHANGED <<fileVars, txPacket>>
      /\ close_attempt(s, connected, link, "COMPLETE")
  BY <1>1, <1>2 DEF Accept_COMPLETE_ACK
<1>4. connected /\ link = "up"
  BY LinkedFacts DEF Taking, ExchangeInv
<1>5. state' = "CLOSING" /\ pending' = NoPacket /\ link' \in {"up", "closing"}
  BY <1>3, <1>4 DEF close_attempt, Enter, SetState
<1>6. Confirms(op)
  BY <1>3, <1>5 DEF Confirms, Taking
<1>7. replyFile = BeaconReply
  BY TakingPhase DEF ExchangeInv, ReplyGrows
<1> QED
  BY <1>6, <1>7, ConfirmsKeeps DEF Taking

LEMMA TakeKeeps ==
  ASSUME ExchangeInv, Inv', Ops', NEW s, NEW m, NEW op, Taking(s, m, op)
  PROVE  ExchangeInv'
<1>1. s \in WaitingStates
  BY DEF Taking
<1> QED
  BY <1>1, TakeHello, TakeReady, TakeReceived, TakeReplyStart, TakeReplyPiece, TakeComplete DEF WaitingStates

\* A notification that comes before the write has completed waits in the slot.
LEMMA StoreKeeps ==
  ASSUME ExchangeInv, Inv', Ops', SameBeacon, wire' = wire, request' = request, response' = response, inbound' = <<>>,
         ~Sending, notification = NoPacket, state \in WritingStates, NEW m, Fits(m), pending' = m,
         UNCHANGED <<attemptVars, verdictVars, fileVars, radioVars, abortRequested>>
  PROVE  ExchangeInv'
<1> USE DEF SameBeacon, beaconVars, connectionVars, receiveVars, replyVars, cueVars, attemptVars, verdictVars,
            fileVars, radioVars
<1>1. m # NoPacket /\ state # "WRITE_FILE_DATA"
  BY DEF Fits, FitsIn, StartAnswer, NoPacket, Packet, WritingStates, HelloPhase, StartPhase, EndPhase, RequestPhase,
     NextPhase, CompletePhase
<1>2. ~Sending' /\ Slot' = m /\ state' = state
  BY DEF Sending, Slot
<1>3. BeaconInv' /\ RefusesOnlyLarge'
  BY DEF ExchangeInv, BeaconInv, BeaconTypes, RefusesOnlyLarge
<1>4. LinkKnown'
  BY DEF ExchangeInv, LinkKnown
<1>5. OperationByState'
  BY <1>2 DEF ExchangeInv, OperationByState, Discovering, WritingStates, WaitingStates
<1>6. OneInFlight' /\ WriteFits'
  BY <1>2 DEF OneInFlight, WriteFits
<1>7. Agree'
  BY <1>1, <1>2 DEF ExchangeInv, Agree, Announced
<1>8. AnswerFits'
  BY <1>2 DEF AnswerFits, Fits, FitsIn
<1>9. ReplyGrows'
  BY DEF ExchangeInv, ReplyGrows
<1> QED
  BY <1>3, <1>4, <1>5, <1>6, <1>7, <1>8, <1>9 DEF ExchangeInv

LEMMA ArrivesContext ==
  ASSUME ExchangeInv, NotificationArrives
  PROVE  /\ inbound = <<Head(inbound)>> /\ Head(inbound) \in PacketSet /\ inbound' = <<>>
         /\ ~Sending /\ notification = NoPacket /\ Slot = NoPacket /\ Fits(Head(inbound))
         /\ SameBeacon /\ UNCHANGED <<wire, request, response, abortRequested>>
         /\ state \in WritingStates \cup WaitingStates /\ state \in LinkedStates /\ ~abortRequested
<1>1. inbound # <<>> /\ Notification(Head(inbound)) /\ inbound' = Tail(inbound)
  BY DEF NotificationArrives
<1>2. inbound = <<Head(inbound)>> /\ Head(inbound) \in PacketSet
  BY <1>1 DEF ExchangeInv, LinkKnown
<1>3. inbound' = <<>>
  <2>1. \A h : Tail(<<h>>) = <<>>
    OBVIOUS
  <2> QED
    BY <1>1, <1>2, <2>1
<1>4. ~Sending /\ notification = NoPacket /\ Slot = NoPacket /\ Fits(Head(inbound))
  BY <1>1 DEF ExchangeInv, OneInFlight, AnswerFits
<1>5. SameBeacon /\ UNCHANGED <<wire, request, response, abortRequested>>
  BY DEF NotificationArrives, SameBeacon, Notification, OutsideAttempt, mainVars
<1>6. state \in LinkedStates /\ ~abortRequested
  BY <1>1, GattState DEF Notification, GattDropped, ExchangeInv
<1>7. state \notin Discovering
  BY <1>1 DEF ExchangeInv, OperationByState
<1> QED
  BY <1>2, <1>3, <1>4, <1>5, <1>6, <1>7 DEF LinkedStates, Discovering

LEMMA NotificationArrivesKeeps ==
  ASSUME ExchangeInv, NotificationArrives, Inv', Ops'
  PROVE  ExchangeInv'
<1> DEFINE m == Head(inbound)
<1> USE ArrivesContext
<1>1. Notification(m)
  BY DEF NotificationArrives
<1>2. CASE state \in WaitingStates
  <2>1. Consume(state, m, query)
    BY <1>1, <1>2 DEF Notification, WaitingStates, WritingStates
  <2>2. AirTaken
    BY <1>2 DEF AirTaken, ExchangeInv, OperationByState
  <2>3. Taking(state, m, query)
    BY <1>2, <2>1, <2>2 DEF Taking, Fits
  <2> QED
    BY <2>3, TakeKeeps
<1>3. CASE state \in WritingStates /\ Give_up(state, query)
  <2>1. Closes
    BY <1>3, GiveUpEffect DEF ExchangeInv
  <2>2. AirDrained
    BY DEF AirDrained
  <2> QED
    BY <2>1, <2>2, ClosesKeeps
<1>4. CASE state \in WritingStates /\ pending' = m /\ UNCHANGED <<attemptVars, verdictVars, fileVars, radioVars>>
  BY <1>4, StoreKeeps
<1> QED
  BY <1>1, <1>2, <1>3, <1>4 DEF Notification

-----------------------------------------------------------------------------
(* The GATT operation completes                                             *)

\* The completion of an operation the client no longer wants is dropped.
LEMMA DroppedKeeps ==
  ASSUME ExchangeInv, Inv', Ops', SameBeacon, GattDropped, wire' = wire, request' = request, inbound' = inbound,
         response' = FALSE, query' = "none",
         UNCHANGED <<state, pending, txPacket, link, fileVars, payloadVerified, abortRequested>>
  PROVE  ExchangeInv'
<1> USE DEF SameBeacon, beaconVars, connectionVars, receiveVars, replyVars, cueVars, fileVars
<1>1. Sending' => Sending /\ Outgoing' = Outgoing
  BY DEF Sending, Outgoing
<1>2. Slot' = Slot
  BY DEF Slot
<1>3. BeaconInv' /\ RefusesOnlyLarge'
  BY DEF ExchangeInv, BeaconInv, BeaconTypes, RefusesOnlyLarge
<1>4. LinkKnown'
  BY DEF ExchangeInv, LinkKnown
<1>5. OperationByState'
  BY <1>1 DEF ExchangeInv, OperationByState
<1>6. OneInFlight' /\ WriteFits'
  BY <1>1, <1>2 DEF ExchangeInv, OneInFlight, WriteFits
<1>7. abortRequested' \/ state' \in {"CLOSING", "IDLE"}
  BY DEF GattDropped
<1>8. Agree'
  BY <1>1, <1>7 DEF ExchangeInv, Agree, Expects, Announced, StartPhase, RequestPhase, NextPhase, WritingStates, WaitingStates
<1>9. AnswerFits'
  BY <1>2 DEF ExchangeInv, AnswerFits, Fits, FitsIn
<1>10. ReplyGrows'
  BY DEF ExchangeInv, ReplyGrows
<1> QED
  BY <1>3, <1>4, <1>5, <1>6, <1>8, <1>9, <1>10 DEF ExchangeInv

\* One set-up operation follows the other.
LEMMA SetupKeeps ==
  ASSUME ExchangeInv, Inv', Ops', SameBeacon, AirDrained, state \in {"DISCOVER_SERVICE", "DISCOVER_CHARACTERISTIC"},
         \/ state' = "DISCOVER_CHARACTERISTIC" /\ query' = "characteristic"
         \/ state' = "ENABLE_NOTIFICATIONS" /\ query' = "ccc",
         UNCHANGED <<pending, link, payloadVerified>>
  PROVE  ExchangeInv'
<1> USE DEF SameBeacon, AirDrained, beaconVars, connectionVars, receiveVars, replyVars, cueVars
<1>1. /\ request = NoPacket /\ inbound = <<>> /\ notification = NoPacket /\ ~response /\ ~payloadVerified
  BY LinkedFacts DEF ExchangeInv, OperationByState, Discovering, LinkedStates
<1>2. request' = NoPacket /\ inbound' = <<>> /\ notification' = NoPacket /\ ~response'
  BY <1>1
<1>3. ~Sending' /\ Slot' = NoPacket
  BY <1>2 DEF Sending, Slot, WritingStates
<1>4. BeaconInv' /\ RefusesOnlyLarge'
  BY DEF ExchangeInv, BeaconInv, BeaconTypes, RefusesOnlyLarge
<1>5. LinkKnown'
  BY <1>2 DEF ExchangeInv, LinkKnown, WritingStates, WaitingStates
<1>6. OperationByState'
  BY <1>2, <1>3 DEF OperationByState, Discovering, WritingStates, WaitingStates,
     PastStart, EndPhase, RequestPhase, NextPhase, CompletePhase
<1>7. OneInFlight' /\ WriteFits' /\ AnswerFits'
  BY <1>2, <1>3 DEF OneInFlight, WriteFits, AnswerFits
<1>8. Agree'
  BY <1>3 DEF Agree, StartPhase, RequestPhase, NextPhase, WritingStates, WaitingStates
<1>9. ReplyGrows'
  BY <1>1 DEF ReplyGrows, StartPhase, NextPhase, CompletePhase
<1> QED
  BY <1>4, <1>5, <1>6, <1>7, <1>8, <1>9 DEF ExchangeInv

\* The phase that follows a completed write is the other half of the same exchange.
LEMMA AfterWritePhase ==
  ASSUME state \in WritingStates \ {"WRITE_FILE_DATA"}, NEW s, s = AfterWrite[state]
  PROVE  /\ s \in WaitingStates
         /\ s \in HelloPhase <=> state \in HelloPhase
         /\ s \in StartPhase <=> state \in StartPhase
         /\ s \in EndPhase <=> state \in EndPhase
         /\ s \in RequestPhase <=> state \in RequestPhase
         /\ s \in NextPhase <=> state \in NextPhase
         /\ s \in CompletePhase <=> state \in CompletePhase
BY DEF AfterWrite, WritingStates, WaitingStates, HelloPhase, StartPhase, EndPhase, RequestPhase, NextPhase, CompletePhase

\* The write has completed before its answer came, and the client waits for it.
LEMMA WaitKeeps ==
  ASSUME ExchangeInv, Inv', Ops', SameBeacon, wire' = wire, request' = request, inbound' = inbound,
         response' = FALSE, ~Sending, state \in WritingStates \ {"WRITE_FILE_DATA"}, pending = NoPacket,
         state' = AfterWrite[state], query' = "none",
         UNCHANGED <<pending, txPacket, link, fileVars, payloadVerified, abortRequested>>
  PROVE  ExchangeInv'
<1> USE DEF SameBeacon, beaconVars, connectionVars, receiveVars, replyVars, cueVars, fileVars
<1>1. /\ state' \in WaitingStates
      /\ state' \in HelloPhase <=> state \in HelloPhase
      /\ state' \in StartPhase <=> state \in StartPhase
      /\ state' \in EndPhase <=> state \in EndPhase
      /\ state' \in RequestPhase <=> state \in RequestPhase
      /\ state' \in NextPhase <=> state \in NextPhase
      /\ state' \in CompletePhase <=> state \in CompletePhase
  BY AfterWritePhase
<1>2. state' \notin WritingStates \cup Discovering
  BY <1>1 DEF WritingStates, WaitingStates, Discovering
<1>3. ~Sending' /\ Slot' = NoPacket /\ Slot = NoPacket
  BY <1>2 DEF Sending, Slot
<1>4. request' = NoPacket /\ ~response'
  BY DEF Sending
<1>5. BeaconInv' /\ RefusesOnlyLarge'
  BY DEF ExchangeInv, BeaconInv, BeaconTypes, RefusesOnlyLarge
<1>6. LinkKnown'
  BY <1>1, <1>2 DEF ExchangeInv, LinkKnown, Discovering
<1>7. OperationByState'
  <2>1. state' \in PastStart => state \in PastStart
    BY <1>1, <1>2 DEF PastStart, WritingStates
  <2>2. state' \in PastStart => RobotFileFits
    BY <2>1 DEF ExchangeInv, OperationByState
  <2> QED
    BY <1>1, <1>2, <1>3, <1>4, <2>2 DEF OperationByState, Discovering
<1>8. OneInFlight' /\ WriteFits'
  BY <1>3 DEF ExchangeInv, OneInFlight, WriteFits
<1>9. Agree'
  BY <1>1, <1>2, <1>3 DEF ExchangeInv, Agree, Announced, WritingStates
<1>10. FitsIn(state, notification) => FitsIn(state, notification)'
  BY <1>1, <1>2 DEF FitsIn, WritingStates
<1>11. FitsIn(state, Head(inbound)) => FitsIn(state, Head(inbound))'
  BY <1>1, <1>2 DEF FitsIn, WritingStates
<1>12. AnswerFits'
  BY <1>3, <1>10, <1>11 DEF ExchangeInv, AnswerFits, Fits
<1>13. ReplyGrows'
  BY <1>1 DEF ExchangeInv, ReplyGrows
<1> QED
  BY <1>5, <1>6, <1>7, <1>8, <1>9, <1>12, <1>13 DEF ExchangeInv

LEMMA AnsweredContext ==
  ASSUME ExchangeInv, NEW ok \in BOOLEAN, Answered(ok)
  PROVE  /\ SameBeacon /\ AirDrained /\ UNCHANGED <<wire, request, inbound, abortRequested>> /\ response' = FALSE
         /\ query # "none" /\ (ok => query # "write") /\ (ok /\ query \in {"ccc", "sent"} => response)
         /\ ~GattDropped => state \in LinkedStates /\ ~abortRequested
<1>1. QueryComplete(ok) /\ response' = FALSE /\ UNCHANGED <<beaconVars, wire, request, inbound>>
  BY DEF Answered
<1>2. query # "none" /\ (ok => query # "write") /\ UNCHANGED OutsideAttempt
  BY <1>1 DEF QueryComplete
<1>3. ok /\ query \in {"ccc", "sent"} => response
  BY DEF Answered
<1>4. link \in {"up", "closing"}
  BY <1>2 DEF ExchangeInv, Inv, LinkByState
<1>5. ~GattDropped => state \in LinkedStates /\ ~abortRequested
  BY <1>4, GattState DEF ExchangeInv, GattDropped
<1> QED
  BY <1>1, <1>2, <1>3, <1>5 DEF SameBeacon, AirDrained, OutsideAttempt, mainVars

\* A completed operation in a state that asks for the next set-up step.
LEMMA SetupAnswered ==
  ASSUME ExchangeInv, Answered(TRUE), Inv', Ops', ~GattDropped, GattSucceeded,
         state \in {"DISCOVER_SERVICE", "DISCOVER_CHARACTERISTIC"}
  PROVE  ExchangeInv'
<1> USE AnsweredContext
<1>1. \/ StartSetup("DISCOVER_CHARACTERISTIC", "characteristic", listening)
      \/ StartSetup("ENABLE_NOTIFICATIONS", "ccc", TRUE)
      \/ transfer_failed(state, connected, link) /\ query' = "none"
  BY DEF GattSucceeded, WritingStates
<1>2. \/ Closes
      \/ /\ \/ state' = "DISCOVER_CHARACTERISTIC" /\ query' = "characteristic"
            \/ state' = "ENABLE_NOTIFICATIONS" /\ query' = "ccc"
         /\ UNCHANGED <<pending, link, payloadVerified>>
  <2>1. "DISCOVER_CHARACTERISTIC" \in LinkedStates /\ "ENABLE_NOTIFICATIONS" \in LinkedStates
    BY DEF LinkedStates
  <2>2. Inv /\ state \in LinkedStates /\ abortRequested' = abortRequested
    BY DEF ExchangeInv
  <2> QED
    BY <1>1, <2>1, <2>2, SetupEffect, FailEffect
<1> QED
  BY <1>2, ClosesKeeps, SetupKeeps

\* Notifications are on and MSG_HELLO is written.
LEMMA HelloWritten ==
  ASSUME ExchangeInv, Answered(TRUE), Inv', Ops', ~GattDropped, GattSucceeded, state = "ENABLE_NOTIFICATIONS"
  PROVE  ExchangeInv'
<1> DEFINE packet == Packet("HELLO", TARGET_BEACON_ID, <<>>)
<1> USE AnsweredContext
<1>1. query = "ccc" /\ response /\ request = NoPacket /\ inbound = <<>> /\ notification = NoPacket
  BY DEF ExchangeInv, OperationByState, Discovering
<1>2. ~Sending
  BY <1>1 DEF Sending
<1>3. pending = NoPacket
  BY DEF ExchangeInv, Ops, SlotByState, WritingStates
<1>4. write_packet(packet, "WRITE_HELLO", NoPacket) /\ UNCHANGED fileVars
  BY <1>3 DEF GattSucceeded, WritingStates
<1>5. Closes \/ Writes(packet, "WRITE_HELLO", NoPacket)
  BY <1>4, WriteEffect DEF ExchangeInv, WritingStates
<1>6. CASE Writes(packet, "WRITE_HELLO", NoPacket)
  <2>1. ReplyGrows'
    BY <1>6, LinkedFacts DEF ExchangeInv, ReplyGrows, Writes, StartPhase, NextPhase, CompletePhase
  <2>2. Expects(packet) /\ WrittenFor("WRITE_HELLO", packet.type) /\ "WRITE_HELLO" \in WritingStates \ PastStart
    BY DEF Expects, WrittenFor, Packet, TARGET_BEACON_ID, BEACON_ID, WritingStates,
       PastStart, EndPhase, RequestPhase, NextPhase, CompletePhase
  <2>3. wire = "up" => notificationsEnabled
    BY <1>1 DEF ExchangeInv, LinkKnown
  <2>4. AirTaken
    BY <1>1 DEF AirTaken
  <2> HIDE DEF packet
  <2> QED
    BY <1>1, <1>2, <1>6, <2>1, <2>2, <2>3, <2>4, WroteKeeps
<1> QED
  BY <1>5, <1>6, ClosesKeeps

\* A write of the exchange has completed: its response has come, so it has left.
LEMMA WriteCompleted ==
  ASSUME ExchangeInv, Answered(TRUE), ~GattDropped, state \in WritingStates
  PROVE  query = "sent" /\ response /\ ~Sending
<1> USE AnsweredContext
<1>1. query = "sent" /\ response
  BY DEF ExchangeInv, OperationByState
<1> QED
  BY <1>1 DEF ExchangeInv, OneInFlight

LEMMA ChunkWritten ==
  ASSUME ExchangeInv, Answered(TRUE), Inv', Ops', ~GattDropped, GattSucceeded, state = "WRITE_FILE_DATA"
  PROVE  ExchangeInv'
<1> USE AnsweredContext
<1>1. ~Sending
  BY WriteCompleted DEF WritingStates
<1>2. notification = NoPacket /\ inbound = <<>> /\ Slot = NoPacket
  BY DEF ExchangeInv, AnswerFits, Fits, FitsIn
<1>3. pending = NoPacket
  BY <1>2 DEF Slot, WritingStates
<1>4. write_next_robot_chunk(NoPacket)
  BY <1>3 DEF GattSucceeded
<1>5. AirTaken
  BY <1>2 DEF AirTaken
<1>6. wire = "up" => notificationsEnabled /\ Announced /\ robotOffset = Len(receivedFile)
  BY <1>1 DEF ExchangeInv, Agree, LinkKnown, WritingStates
<1>7. RobotFileFits /\ state \in LinkedStates /\ abortRequested' = abortRequested
  BY DEF ExchangeInv, OperationByState, PastStart
<1> QED
  BY <1>1, <1>2, <1>4, <1>5, <1>6, <1>7, NextChunkKeeps

LEMMA RequestWritten ==
  ASSUME ExchangeInv, Answered(TRUE), Inv', Ops', ~GattDropped, GattSucceeded,
         state \in WritingStates \ {"WRITE_FILE_DATA"}
  PROVE  ExchangeInv'
<1> DEFINE s == AfterWrite[state]
<1> USE AnsweredContext
<1>1. ~Sending
  BY WriteCompleted
<1>2. EnterWaiting(s)
  BY DEF GattSucceeded, WritingStates
<1>3. s \in WaitingStates
  BY AfterWriteWaits
<1>4. CASE pending = NoPacket
  <2>1. MoveOn(s) /\ query' = "none" /\ UNCHANGED <<pending, verdictVars, fileVars, scanVars, link, txPacket>>
    BY <1>2, <1>4 DEF EnterWaiting
  <2>2. state' = s /\ query' = "none" /\ UNCHANGED <<pending, txPacket, link, fileVars, payloadVerified, abortRequested>>
    BY <2>1 DEF MoveOn, SetState, verdictVars
  <2> QED
    BY <1>1, <1>4, <2>2, WaitKeeps
<1>5. CASE pending # NoPacket
  <2>1. Slot = pending
    BY DEF Slot
  <2>2. notification = NoPacket /\ inbound = <<>> /\ Fits(pending)
    BY <1>5, <2>1 DEF ExchangeInv, OneInFlight, AnswerFits
  <2>3. FitsIn(s, pending)
    BY <2>2, AfterWritePhase, <1>3 DEF Fits, FitsIn, WaitingStates
  <2>4. Consume(s, pending, "none")
    BY <1>2, <1>5 DEF EnterWaiting
  <2>5. AirTaken
    BY <2>2 DEF AirTaken
  <2>6. Taking(s, pending, "none")
    BY <1>1, <1>3, <2>2, <2>3, <2>4, <2>5 DEF Taking
  <2> HIDE DEF s
  <2> QED
    BY <2>6, TakeKeeps
<1> QED
  BY <1>4, <1>5

LEMMA AnsweredKeeps ==
  ASSUME ExchangeInv, NEW ok \in BOOLEAN, Answered(ok), Inv', Ops'
  PROVE  ExchangeInv'
<1> USE AnsweredContext
<1>1. QueryComplete(ok)
  BY DEF Answered
<1>2. CASE GattDropped
  <2>1. \/ /\ query' = "none"
           /\ UNCHANGED <<attemptVars, foundVars, fileVars, verdictVars, pending, scanVars, link, txPacket>>
    BY <1>1, <1>2 DEF QueryComplete
  <2>2. UNCHANGED <<state, pending, txPacket, link, fileVars, payloadVerified, abortRequested>>
    BY <2>1 DEF attemptVars, verdictVars
  <2> QED
    BY <1>2, <2>1, <2>2, DroppedKeeps
<1>3. CASE ~GattDropped /\ Give_up(state, "none")
  <2>1. Closes
    BY <1>3, GiveUpEffect DEF ExchangeInv
  <2> QED
    BY <2>1, ClosesKeeps
<1>4. CASE ~GattDropped /\ ok /\ GattSucceeded
  <2>1. Answered(TRUE)
    <3>1. ok = TRUE
      BY <1>4
    <3> QED
      BY <3>1
  <2>2. state \in {"DISCOVER_SERVICE", "DISCOVER_CHARACTERISTIC", "ENABLE_NOTIFICATIONS"} \cup WritingStates
    BY <1>4 DEF GattSucceeded, WritingStates
  <2> QED
    BY <1>4, <2>1, <2>2, SetupAnswered, HelloWritten, ChunkWritten, RequestWritten
<1> QED
  BY <1>1, <1>2, <1>3, <1>4 DEF QueryComplete

-----------------------------------------------------------------------------
(* The invariant holds                                                      *)

LEMMA ExchangeInitInv == ExchangeInit => ExchangeInv
<1> SUFFICES ASSUME ExchangeInit PROVE ExchangeInv
  OBVIOUS
<1> USE DEF ExchangeInit
<1>1. Inv /\ Ops
  BY InitInv, InitOps
<1>2. BeaconInv /\ RefusesOnlyLarge
  <2>1. 0 \in 0..255 /\ 0 \in 0..Len(BeaconReply) /\ 0 \in Nat /\ Len(<<>>) <= TRANSFER_MAX_FILE_SIZE
    BY FileFacts, EmptyFile
  <2> QED
    BY <2>1, EmptyFile, NoPacketTyped DEF BeaconInit, BeaconInv, BeaconTypes, BeaconStatuses, RefusesOnlyLarge
<1>3. /\ state = "IDLE" /\ query = "none" /\ pending = NoPacket /\ payloadVerified = FALSE /\ link = "none"
      /\ peerConnected = FALSE /\ notificationsEnabled = FALSE /\ notification = NoPacket
      /\ expectedSequence = 0 /\ receivedFile = <<>> /\ replyOffset = 0 /\ replySequence = 0
      /\ wire = "none" /\ request = NoPacket /\ response = FALSE /\ inbound = <<>>
  BY DEF Init, BeaconInit
<1>4. ~Sending /\ Slot = NoPacket
  BY <1>3 DEF Sending, Slot
<1>5. LinkKnown
  BY <1>3, NoPacketTyped DEF LinkKnown
<1>6. OperationByState /\ OneInFlight /\ WriteFits
  BY <1>3, <1>4 DEF OperationByState, OneInFlight, WriteFits, Discovering, WritingStates, WaitingStates,
     PastStart, EndPhase, RequestPhase, NextPhase, CompletePhase
<1>7. Agree /\ AnswerFits /\ ReplyGrows
  BY <1>3, <1>4 DEF Agree, AnswerFits, ReplyGrows, StartPhase, NextPhase, CompletePhase
<1> QED
  BY <1>1, <1>2, <1>5, <1>6, <1>7 DEF ExchangeInv

\* Steps of the beacon and of the link leave the client's own invariant alone.
LEMMA ClientStill ==
  ASSUME ExchangeInv, UNCHANGED vars
  PROVE  Inv' /\ Ops'
BY NextInv, NextOps DEF ExchangeInv

LEMMA ExchangeStep ==
  ASSUME ExchangeInv, [ExchangeNext]_exchangeVars
  PROVE  ExchangeInv'
<1>1. Inv /\ Ops
  BY DEF ExchangeInv
<1>2. CASE RobotAlone
  BY <1>2, RobotAloneKeeps
<1>3. CASE BeaconStarts
  BY <1>3, ClientStill, BeaconStartsKeeps DEF BeaconStarts
<1>4. CASE LinkUp
  BY <1>1, <1>4, ConnectionSucceeded_Inv, ConnectionSucceededOps, LinkUpKeeps DEF LinkUp
<1>5. CASE BeaconSeesLink
  BY <1>5, ClientStill, BeaconSeesLinkKeeps DEF BeaconSeesLink
<1>6. CASE LinkLost
  BY <1>6, ClientStill, LinkLostKeeps DEF LinkLost
<1>7. CASE RobotSeesLoss
  BY <1>1, <1>7, Disconnection_Inv, DisconnectionOps, RobotSeesLossKeeps DEF RobotSeesLoss
<1>8. CASE BeaconSeesLoss
  BY <1>8, ClientStill, BeaconSeesLossKeeps DEF BeaconSeesLoss
<1>9. CASE WriteLeaves
  BY <1>1, <1>9, PacketSent_Inv, PacketSentOps, WriteLeavesKeeps DEF WriteLeaves
<1>10. CASE Beacon_write
  BY <1>10, ClientStill, Beacon_writeKeeps DEF Beacon_write
<1>11. CASE Beacon_enable
  BY <1>11, ClientStill, Beacon_enableKeeps DEF Beacon_enable
<1>12. CASE NotificationLeaves
  BY <1>12, ClientStill, NotificationLeavesKeeps DEF NotificationLeaves
<1>13. CASE NotificationArrives
  <2>1. Head(inbound) \in PacketSet /\ Notification(Head(inbound))
    BY <1>13, ArrivesContext DEF NotificationArrives
  <2> QED
    BY <1>1, <1>13, <2>1, Notification_Inv, NotificationOps, NotificationArrivesKeeps
<1>14. CASE \E ok \in BOOLEAN : Answered(ok)
  <2>1. PICK ok \in BOOLEAN : Answered(ok)
    BY <1>14
  <2>2. QueryComplete(ok)
    BY <2>1 DEF Answered
  <2> QED
    BY <1>1, <2>1, <2>2, QueryComplete_Inv, QueryCompleteOps, AnsweredKeeps
<1>15. CASE UNCHANGED exchangeVars
  <2>1. UNCHANGED vars /\ SameBeacon /\ SameAir
    BY <1>15 DEF exchangeVars, SameBeacon, SameAir
  <2>2. Quiet
    BY <2>1 DEF vars, Quiet, attemptVars, verdictVars, radioVars, mainVars
  <2> QED
    BY <2>1, <2>2, ClientStill, QuietKeeps
<1> QED
  BY <1>2, <1>3, <1>4, <1>5, <1>6, <1>7, <1>8, <1>9, <1>10, <1>11, <1>12, <1>13, <1>14, <1>15 DEF ExchangeNext

\* Whatever is lost, late, aborted or retried, the client of payload_client.c and the
\* server of beacon_server.c agree on whose turn it is and on how far they are, a file too long for the beacon
\* included: the client then goes no further than its announcement.
THEOREM ExchangeInvariance == ExchangeSpec => []ExchangeInv
<1>1. ExchangeInit => ExchangeInv
  BY ExchangeInitInv
<1>2. ExchangeInv /\ [ExchangeNext]_exchangeVars => ExchangeInv'
  BY ExchangeStep
<1> QED
  BY <1>1, <1>2, PTL DEF ExchangeSpec

-----------------------------------------------------------------------------
(* What follows from it                                                     *)

\* With the client of payload_client.c as the writer, received_file[] is never outgrown:
\* not by a file that fits, of which no more than was announced is ever sent, and not
\* by one that does not, of which nothing is sent once beacon_server.c:229 refused it.
\* And the tone stands for a connected robot whose transfer is not complete.
THEOREM BeaconKeeps == ExchangeSpec => []BeaconInv
<1>1. ExchangeInv => BeaconInv
  BY DEF ExchangeInv
<1> QED
  BY <1>1, ExchangeInvariance, PTL

\* The beacon's slot changes only while it is empty, when it goes out, or when the
\* beacon has seen the link go.
LEMMA NotificationStep ==
  ASSUME ExchangeInv, [ExchangeNext]_exchangeVars
  PROVE  /\ \/ notification' = notification \/ notification' = NoPacket
            \/ Beacon_write /\ notification = NoPacket
<1> USE DEF beaconVars
<1>1. CASE RobotAlone \/ BeaconStarts \/ LinkUp \/ BeaconSeesLink \/ LinkLost \/ RobotSeesLoss
  BY <1>1 DEF RobotAlone, BeaconStarts, BeaconWorking, LinkUp, BeaconSeesLink, RobotConnected, LinkLost, RobotSeesLoss
<1>2. CASE BeaconSeesLoss
  BY <1>2 DEF BeaconSeesLoss, RobotDisconnected
<1>3. CASE WriteLeaves \/ Beacon_enable \/ NotificationLeaves \/ NotificationArrives
  BY <1>3 DEF WriteLeaves, Beacon_enable, EnableNotifications, NotificationLeaves, CanSendNow, NotificationArrives
<1>4. CASE Beacon_write
  BY <1>4, WriteContext
<1>5. CASE \E ok \in BOOLEAN : Answered(ok)
  BY <1>5 DEF Answered
<1>6. CASE UNCHANGED exchangeVars
  BY <1>6 DEF exchangeVars
<1> QED
  BY <1>1, <1>2, <1>3, <1>4, <1>5, <1>6 DEF ExchangeNext

\* One pending_notification is enough for the beacon: each answer goes out before
\* the next write can reach it (beacon_server.c, queue_notification).
THEOREM NotificationIsKept == ExchangeSpec => NotificationKept
<1>1. ExchangeInv /\ [ExchangeNext]_exchangeVars =>
        [notification # NoPacket /\ wire = "up" => notification' \in {notification, NoPacket}]_beaconVars
  BY NotificationStep
<1> QED
  BY <1>1, ExchangeInvariance, PTL DEF ExchangeSpec, NotificationKept

\* The two never wait for each other: in a waiting phase on a live link the answer is
\* queued or on its way.
THEOREM SomeoneMoves == ExchangeSpec => []NoMutualWait
<1>1. ExchangeInv => NoMutualWait
  <2> SUFFICES ASSUME ExchangeInv, state \in WaitingStates, wire = "up", ~abortRequested
               PROVE  notification # NoPacket \/ inbound # <<>>
    BY DEF NoMutualWait
  <2>1. ~Sending
    BY DEF ExchangeInv, OperationByState, Sending
  <2>2. Slot = NoPacket
    BY DEF Slot, WaitingStates, WritingStates
  <2> QED
    BY <2>1, <2>2 DEF ExchangeInv, Agree
<1> QED
  BY <1>1, ExchangeInvariance, PTL

\* What is queued or on its way to the client is the answer to its phase.
LEMMA OnItsWayFits ==
  ASSUME ExchangeInv, state \in WaitingStates \cup (WritingStates \ {"WRITE_FILE_DATA"}),
         NEW m \in ({notification, pending} \cup {inbound[i] : i \in DOMAIN inbound}) \ {NoPacket}
  PROVE  Fits(m)
<1>1. CASE m = notification
  BY <1>1 DEF ExchangeInv, AnswerFits
<1>2. CASE m = pending
  <2>1. Slot = pending
    BY <1>2 DEF Slot, ExchangeInv, Ops, SlotByState, WaitingStates
  <2> QED
    BY <1>2, <2>1 DEF ExchangeInv, AnswerFits
<1>3. CASE \E i \in DOMAIN inbound : m = inbound[i]
  <2>1. \A h : DOMAIN <<h>> = {1} /\ <<h>>[1] = h
    OBVIOUS
  <2>2. DOMAIN <<>> = {}
    OBVIOUS
  <2>3. inbound # <<>> /\ inbound = <<Head(inbound)>>
    BY <1>3, <2>2 DEF ExchangeInv, LinkKnown
  <2>4. m = Head(inbound)
    BY <1>3, <2>1, <2>3
  <2> QED
    BY <2>3, <2>4 DEF ExchangeInv, AnswerFits
<1> QED
  BY <1>1, <1>2, <1>3

\* Whatever attempt or connection came before, a notification that is under way is
\* one handle_notification accepts in the phase the client is in, or the refusal of a
\* file that is too long, which it gives up on.
THEOREM EveryAnswerFits == ExchangeSpec => []AnswersFit
<1>1. ExchangeInv => AnswersFit
  <2> SUFFICES ASSUME ExchangeInv, state \in WaitingStates \cup (WritingStates \ {"WRITE_FILE_DATA"}),
                      NEW m \in ({notification, pending} \cup {inbound[i] : i \in DOMAIN inbound}) \ {NoPacket}
               PROVE  /\ m.type \in ExpectedIn(Awaited) \/ (m.type = "ERROR" /\ Awaited = "WAIT_FILE_READY")
                      /\ m.type = "FILE_RECEIVED" => m.number = 0 /\ m.body = RobotFile
                      /\ m.type = "REPLY_START" => GoodReplyLength(m)
                      /\ m.type = "REPLY_DATA" => GoodChunk(m)
                      /\ m.type = "REPLY_END" => ReplyVerified(m)
    BY DEF AnswersFit
  <2>1. Fits(m)
    BY OnItsWayFits
  <2>2. CASE state \in HelloPhase \cup StartPhase \cup CompletePhase
    <3>1. m.type \in {"HELLO_ACK", "FILE_READY", "ERROR", "COMPLETE_ACK"}
      BY <2>1, <2>2 DEF Fits, FitsIn, StartAnswer, Packet
    <3>2. m.type \in ExpectedIn(Awaited) \/ (m.type = "ERROR" /\ Awaited = "WAIT_FILE_READY")
      BY <2>1, <2>2, ExpectedTypes DEF Fits, FitsIn, StartAnswer, Packet, Awaited, AfterWrite, HelloPhase, StartPhase, CompletePhase,
         WaitingStates, WritingStates
    <3> QED
      BY <3>1, <3>2
  <2>3. CASE state \in EndPhase
    <3>1. m.type = "FILE_RECEIVED" /\ m.number = 0 /\ m.body = RobotFile
      BY <2>1, <2>3 DEF Fits, FitsIn, Packet
    <3>2. Awaited = "WAIT_FILE_RECEIVED"
      BY <2>3 DEF Awaited, AfterWrite, EndPhase, WaitingStates, WritingStates
    <3> QED
      BY <3>1, <3>2, ExpectedTypes
  <2>4. CASE state \in RequestPhase
    <3>1. m.type = "REPLY_START" /\ m.number = Len(BeaconReply)
      BY <2>1, <2>4 DEF Fits, FitsIn, Packet
    <3>2. Awaited = "WAIT_REPLY_START"
      BY <2>4 DEF Awaited, AfterWrite, RequestPhase, WaitingStates, WritingStates
    <3> QED
      BY <3>1, <3>2, ExpectedTypes, FileFacts DEF GoodReplyLength
  <2>5. CASE state \in NextPhase
    <3>1. Awaited = "WAIT_REPLY_PIECE"
      BY <2>5 DEF Awaited, AfterWrite, NextPhase, WaitingStates, WritingStates
    <3>2. /\ replyLength = Len(BeaconReply) /\ replyCrc = BeaconReply /\ replyFile \in Seq(Pieces)
          /\ \A i \in 1..Len(replyFile) : replyFile[i] = BeaconReply[i]
      BY <2>5 DEF ExchangeInv, ReplyGrows, Inv, TypeOK, DataTypeOK
    <3>3. CASE /\ Len(replyFile) < Len(BeaconReply)
               /\ m = Packet("REPLY_DATA", Len(replyFile) % 256, <<BeaconReply[Len(replyFile) + 1]>>)
      <4>1. m.type = "REPLY_DATA" /\ m.number = Len(replyFile) % 256 /\ Len(m.body) = 1
        BY <3>3 DEF Packet
      <4>2. Len(replyFile) \in Nat /\ Len(BeaconReply) \in Nat
        BY <3>2, FileFacts
      <4>3. Len(replyFile) + 1 <= replyLength
        BY <3>2, <3>3, <4>2
      <4> QED
        BY <3>1, <4>1, <4>3, ExpectedTypes DEF GoodChunk
    <3>4. CASE Len(replyFile) = Len(BeaconReply) /\ m = Packet("REPLY_END", 0, BeaconReply)
      <4>1. m.type = "REPLY_END" /\ m.body = BeaconReply
        BY <3>4 DEF Packet
      <4>2. replyFile = BeaconReply
        BY <3>2, <3>4, FileFacts, WholePrefix
      <4> QED
        BY <3>1, <3>2, <4>1, <4>2, ExpectedTypes DEF ReplyVerified
    <3> QED
      BY <2>1, <2>5, <3>3, <3>4 DEF Fits, FitsIn
  <2> QED
    BY <2>2, <2>3, <2>4, <2>5 DEF HelloPhase, StartPhase, EndPhase, RequestPhase, NextPhase, CompletePhase,
       WaitingStates, WritingStates
<1> QED
  BY <1>1, ExchangeInvariance, PTL

\* A link that comes up finds both sides empty: the robot's slot by its states, the
\* beacon's transfer by HCI_EVENT_DISCONNECTION_COMPLETE of the link before.
THEOREM EveryLinkIsFresh == ExchangeSpec => FreshLink
<1>1. ExchangeInv /\ [ExchangeNext]_exchangeVars =>
        [wire = "none" /\ wire' = "up" =>
           /\ pending = NoPacket /\ notification = NoPacket /\ ~notificationsEnabled
           /\ receivedFile = <<>> /\ expectedSequence = 0
           /\ replyOffset = 0 /\ replySequence = 0
           /\ ~connectedCue /\ buzzer # "connected"]_exchangeVars
  <2> SUFFICES ASSUME ExchangeInv, [ExchangeNext]_exchangeVars, wire = "none", wire' = "up"
               PROVE  /\ pending = NoPacket /\ notification = NoPacket /\ ~notificationsEnabled
                      /\ receivedFile = <<>> /\ expectedSequence = 0
                      /\ replyOffset = 0 /\ replySequence = 0
                      /\ ~connectedCue /\ buzzer # "connected"
    OBVIOUS
  <2>1. LinkUp
    BY DEF ExchangeNext, RobotAlone, BeaconStarts, BeaconSeesLink, LinkLost, RobotSeesLoss, BeaconSeesLoss, WriteLeaves,
       Beacon_write, Beacon_enable, NotificationLeaves, NotificationArrives, Answered, airVars, exchangeVars
  <2>2. state \in {"CONNECTING", "CLOSING"} /\ ~peerConnected
    BY <2>1 DEF LinkUp, ConnectionSucceeded
  <2>3. pending = NoPacket
    BY <2>2 DEF ExchangeInv, Ops, SlotByState, WritingStates
  <2>4. ~connectedCue /\ buzzer # "connected"
    BY <2>2 DEF ExchangeInv, BeaconInv
  <2> QED
    BY <2>2, <2>3, <2>4 DEF ExchangeInv, LinkKnown
<1> QED
  BY <1>1, ExchangeInvariance, PTL DEF ExchangeSpec, FreshLink

-----------------------------------------------------------------------------
(* The announcement that is refused                                         *)

\* The client writes nothing more on this link.
NothingMore ==
  /\ query \in {"sent", "none"} /\ request = NoPacket
  /\ state \in LinkedStates => state \in StartPhase

Refused ==
  expectedLength > TRANSFER_MAX_FILE_SIZE =>
    beaconStatus = "ERROR" /\ receivedFile = <<>> /\ peerConnected /\ NothingMore

LEMMA RobotStepsRefused ==
  ASSUME ExchangeInv, Inv', Quiet \/ Unlinked \/ Closes, request' = request, NothingMore
  PROVE  NothingMore'
<1>1. CASE Quiet
  BY <1>1 DEF Quiet, NothingMore
<1>2. CASE Unlinked
  <2>1. state' \notin LinkedStates
    BY <1>2 DEF Inv, LinkByState, Unlinked
  <2> QED
    BY <1>2, <2>1 DEF Unlinked, NothingMore
<1>3. CASE Closes
  BY <1>3 DEF Closes, NothingMore, LinkedStates, WritingStates, WaitingStates
<1> QED
  BY <1>1, <1>2, <1>3

\* The answer to the announcement is taken, now or when the write has completed.
LEMMA ArrivesRefused ==
  ASSUME ExchangeInv, Inv', NotificationArrives, ~RobotFileFits, NothingMore
  PROVE  NothingMore'
<1> DEFINE m == Head(inbound)
<1> USE ArrivesContext
<1>1. Notification(m) /\ state \in StartPhase
  BY DEF NotificationArrives, NothingMore
<1>2. CASE state \in WaitingStates
  <2>1. state = "WAIT_FILE_READY"
    BY <1>1, <1>2 DEF StartPhase, WaitingStates
  <2>2. Consume(state, m, query)
    BY <1>1, <1>2 DEF Notification, WaitingStates, WritingStates
  <2>3. AirTaken
    BY <1>2 DEF AirTaken, ExchangeInv, OperationByState
  <2>4. Taking("WAIT_FILE_READY", m, query)
    BY <1>2, <2>1, <2>2, <2>3 DEF Taking, Fits
  <2>5. Closes
    BY <2>4, RefusalCloses
  <2> QED
    BY <2>5, RobotStepsRefused
<1>3. CASE state \in WritingStates /\ Give_up(state, query)
  <2>1. Closes
    BY <1>3, GiveUpEffect DEF ExchangeInv
  <2> QED
    BY <2>1, RobotStepsRefused
<1>4. CASE state \in WritingStates /\ pending' = m /\ UNCHANGED <<attemptVars, verdictVars, fileVars, radioVars>>
  BY <1>4 DEF attemptVars, radioVars, NothingMore
<1> QED
  BY <1>1, <1>2, <1>3, <1>4 DEF Notification

LEMMA AnsweredRefused ==
  ASSUME ExchangeInv, NEW ok \in BOOLEAN, Answered(ok), Inv', ~RobotFileFits, NothingMore
  PROVE  NothingMore'
<1> USE AnsweredContext
<1>1. QueryComplete(ok)
  BY DEF Answered
<1>2. CASE GattDropped
  <2>1. query' = "none" /\ UNCHANGED attemptVars
    BY <1>1, <1>2 DEF QueryComplete
  <2> QED
    BY <2>1 DEF attemptVars, NothingMore
<1>3. CASE ~GattDropped /\ Give_up(state, "none")
  <2>1. Closes
    BY <1>3, GiveUpEffect DEF ExchangeInv
  <2> QED
    BY <2>1, RobotStepsRefused
<1>4. CASE ~GattDropped /\ ok /\ GattSucceeded
  <2>1. state = "WRITE_FILE_START"
    BY <1>4 DEF NothingMore, StartPhase, GattSucceeded, WritingStates
  <2>2. ~Sending /\ state \in WritingStates \ {"WRITE_FILE_DATA"} /\ state \in LinkedStates
    BY <1>4, <2>1 DEF NothingMore, Sending, WritingStates, LinkedStates
  <2>3. AfterWrite[state] = "WAIT_FILE_READY"
    BY <2>1 DEF AfterWrite, WritingStates
  <2>4. EnterWaiting("WAIT_FILE_READY")
    BY <1>4, <2>1, <2>3 DEF GattSucceeded, WritingStates
  <2>5. CASE pending = NoPacket
    BY <2>4, <2>5 DEF EnterWaiting, MoveOn, SetState, NothingMore, StartPhase
  <2>6. CASE pending # NoPacket
    <3>1. Slot = pending
      BY <2>2 DEF Slot
    <3>2. notification = NoPacket /\ inbound = <<>> /\ Fits(pending)
      BY <2>6, <3>1 DEF ExchangeInv, OneInFlight, AnswerFits
    <3>3. FitsIn("WAIT_FILE_READY", pending)
      BY <2>1, <3>2 DEF Fits, FitsIn, HelloPhase, StartPhase, EndPhase, RequestPhase, NextPhase, CompletePhase
    <3>4. Consume("WAIT_FILE_READY", pending, "none")
      BY <2>4, <2>6 DEF EnterWaiting
    <3>5. AirTaken
      BY <3>2 DEF AirTaken
    <3>6. Taking("WAIT_FILE_READY", pending, "none")
      BY <1>4, <2>2, <2>3, <3>2, <3>3, <3>4, <3>5 DEF Taking, WaitingStates
    <3>7. Closes
      BY <3>6, RefusalCloses
    <3> QED
      BY <3>7, RobotStepsRefused
  <2> QED
    BY <2>5, <2>6
<1> QED
  BY <1>1, <1>2, <1>3, <1>4 DEF QueryComplete

\* The announcement is the only write that can leave such a length behind.
LEMMA WriteRefused ==
  ASSUME ExchangeInv, ExchangeInv', Beacon_write, Refused
  PROVE  Refused'
<1>1. SUFFICES ASSUME expectedLength' > TRANSFER_MAX_FILE_SIZE
               PROVE  beaconStatus' = "ERROR" /\ receivedFile' = <<>> /\ peerConnected' /\ NothingMore'
  BY DEF Refused
<1>2. ~(expectedLength > TRANSFER_MAX_FILE_SIZE)
  BY DEF Beacon_write, Refused, NothingMore
<1>3. ~Write_HELLO(request)
  <2>1. ~(0 > TRANSFER_MAX_FILE_SIZE)
    BY FileFacts
  <2>2. expectedLength' # 0 /\ expectedLength' # expectedLength
    BY <1>1, <1>2, <2>1
  <2> QED
    BY <1>1, <2>2 DEF Write_HELLO, reset_transfer, receiveVars
<1>4. ~(expectedLength' = expectedLength)
  BY <1>1, <1>2
<1>5. Write_FILE_START(request)
  BY <1>3, <1>4 DEF Beacon_write, att_write_callback, Write_FILE_DATA, Write_FILE_END, Write_REPLY_REQUEST,
     Write_REPLY_NEXT, Write_COMPLETE, receiveVars
<1>6. expectedLength' = request.number /\ receivedFile' = <<>>
  BY <1>5 DEF Write_FILE_START
<1>7. beaconStatus' = "ERROR"
  <2>1. Len(RobotFile) \in Nat /\ TRANSFER_MAX_FILE_SIZE \in Nat /\ request.number = Len(RobotFile)
    BY <1>5, WriteContext, FileFacts DEF Write_FILE_START, Expects
  <2>2. ~(request.number <= TRANSFER_MAX_FILE_SIZE)
    BY <1>1, <1>6, <2>1
  <2> QED
    BY <1>5, <2>2 DEF Write_FILE_START, Refuse
<1>8. peerConnected' /\ request' = NoPacket /\ query' \in {"sent", "none"} /\ state' = state
  BY WriteContext DEF Beacon_write, ExchangeInv, LinkKnown, connectionVars
<1>9. state \in LinkedStates => state = "WRITE_FILE_START"
  <2>1. request.type = "FILE_START"
    BY <1>5 DEF Write_FILE_START
  <2> QED
    BY <2>1, WritePhase, WriteContext DEF LinkedStates, Discovering, WritingStates
<1> QED
  BY <1>6, <1>7, <1>8, <1>9 DEF NothingMore, StartPhase

LEMMA RefusedStep ==
  ASSUME ExchangeInv, Refused, [ExchangeNext]_exchangeVars
  PROVE  Refused'
<1> USE DEF beaconVars, connectionVars, receiveVars
<1>1. ExchangeInv' /\ Inv'
  BY ExchangeStep DEF ExchangeInv
<1>2. expectedLength > TRANSFER_MAX_FILE_SIZE => ~RobotFileFits
  BY DEF Refused, ExchangeInv, RefusesOnlyLarge
<1>3. CASE RobotAlone
  <2>1. Inv /\ Ops /\ RobotStep /\ request' = request /\ UNCHANGED beaconVars
    BY <1>3 DEF ExchangeInv, RobotAlone, RobotStep, airVars
  <2>2. Quiet \/ Unlinked \/ Closes
    BY <2>1, RobotStepEffect
  <2>3. NothingMore => NothingMore'
    BY <1>1, <2>1, <2>2, RobotStepsRefused
  <2> QED
    BY <2>1, <2>3 DEF Refused
<1>4. CASE BeaconStarts \/ LinkUp \/ BeaconSeesLink
  <2>1. ~(expectedLength > TRANSFER_MAX_FILE_SIZE) /\ expectedLength' = expectedLength
    BY <1>4 DEF Refused, BeaconStarts, BeaconWorking, LinkUp, BeaconSeesLink, RobotConnected
  <2> QED
    BY <2>1 DEF Refused
<1>5. CASE LinkLost
  BY <1>5 DEF LinkLost, Refused, NothingMore, vars, attemptVars, radioVars
<1>6. CASE RobotSeesLoss
  <2>1. state' = "IDLE" /\ query' = "none" /\ UNCHANGED <<beaconVars, request>>
    BY <1>6 DEF RobotSeesLoss, Disconnection, finish_attempt, SetState
  <2> QED
    BY <2>1 DEF Refused, NothingMore, LinkedStates, WritingStates, WaitingStates
<1>7. CASE BeaconSeesLoss
  <2>1. expectedLength' = 0 /\ TRANSFER_MAX_FILE_SIZE \in Nat
    BY <1>7, FileFacts DEF BeaconSeesLoss, RobotDisconnected, reset_transfer
  <2>2. ~(expectedLength' > TRANSFER_MAX_FILE_SIZE)
    BY <2>1
  <2> QED
    BY <2>2 DEF Refused
<1>8. CASE WriteLeaves
  <2>1. query = "write" /\ UNCHANGED beaconVars
    BY <1>8 DEF WriteLeaves, PacketSent
  <2> QED
    BY <2>1 DEF Refused, NothingMore
<1>9. CASE Beacon_write
  BY <1>1, <1>9, WriteRefused
<1>10. CASE Beacon_enable
  <2>1. query = "ccc" /\ expectedLength' = expectedLength
    BY <1>10 DEF Beacon_enable, EnableNotifications
  <2> QED
    BY <2>1 DEF Refused, NothingMore
<1>11. CASE NotificationLeaves
  BY <1>11 DEF NotificationLeaves, CanSendNow, Refused, NothingMore, vars, attemptVars, radioVars
<1>12. CASE NotificationArrives
  <2>1. expectedLength > TRANSFER_MAX_FILE_SIZE /\ NothingMore => NothingMore'
    BY <1>1, <1>2, <1>12, ArrivesRefused
  <2> QED
    BY <1>12, <2>1 DEF Refused, NotificationArrives
<1>13. CASE \E ok \in BOOLEAN : Answered(ok)
  <2>1. PICK ok \in BOOLEAN : Answered(ok)
    BY <1>13
  <2>2. expectedLength > TRANSFER_MAX_FILE_SIZE /\ NothingMore => NothingMore'
    BY <1>1, <1>2, <2>1, AnsweredRefused
  <2> QED
    BY <2>1, <2>2 DEF Refused, Answered
<1>14. CASE UNCHANGED exchangeVars
  BY <1>14 DEF exchangeVars, airVars, vars, attemptVars, radioVars, Refused, NothingMore
<1> QED
  BY <1>3, <1>4, <1>5, <1>6, <1>7, <1>8, <1>9, <1>10, <1>11, <1>12, <1>13, <1>14 DEF ExchangeNext

LEMMA RefusedAtFirst == ExchangeInit => Refused
<1>1. ExchangeInit => expectedLength = 0 /\ TRANSFER_MAX_FILE_SIZE \in Nat
  BY FileFacts DEF ExchangeInit, BeaconInit
<1> QED
  BY <1>1 DEF Refused

\* The length that beacon_server.c:225 leaves behind is never judged by: from the
\* refusal to the end of the connection the client writes nothing, whatever is lost,
\* aborted or late, and however long its file is.
THEOREM RefusalIsFinal == ExchangeSpec => []RefusalEndsTransfer
<1>1. ExchangeInit => Refused
  BY RefusedAtFirst
<1>2. ExchangeInv /\ Refused /\ [ExchangeNext]_exchangeVars => Refused'
  BY RefusedStep
<1>3. ExchangeInv /\ Refused => RefusalEndsTransfer
  <2>1. ExchangeInv => Len(receivedFile) <= TRANSFER_MAX_FILE_SIZE
    BY DEF ExchangeInv, BeaconInv, BeaconTypes
  <2> QED
    BY <2>1 DEF Refused, NothingMore, RefusalEndsTransfer
<1> QED
  BY <1>1, <1>2, <1>3, ExchangeInvariance, PTL DEF ExchangeSpec

\* A write is refused only as an announcement that is too long.
LEMMA WriteRefusesAnnouncement ==
  ASSUME ExchangeInv, Refused, BeaconNeverRefuses, Beacon_write, RefusesOnlyLarge'
  PROVE  BeaconNeverRefuses'
<1> USE DEF queue_notification, send_simple, Packet, NoPacket
<1>1. ~(expectedLength > TRANSFER_MAX_FILE_SIZE)
  BY DEF Beacon_write, Refused, NothingMore
<1>2. beaconStatus # "ERROR" /\ notification.type # "ERROR"
  BY <1>1 DEF BeaconNeverRefuses
<1>3. Expects(request)
  BY WriteContext
<1>4. CASE Write_HELLO(request)
  <2>1. beaconStatus' = "HANDSHAKE" /\ notification'.type # "ERROR"
    BY <1>2, <1>3, <1>4 DEF Write_HELLO, Expects
  <2> QED
    BY <2>1 DEF BeaconNeverRefuses
<1>5. CASE Write_FILE_START(request)
  <2>1. Len(RobotFile) \in Nat /\ TRANSFER_MAX_FILE_SIZE \in Nat /\ request.number = Len(RobotFile)
    BY <1>3, <1>5, FileFacts DEF Write_FILE_START, Expects
  <2>2. CASE request.number <= TRANSFER_MAX_FILE_SIZE
    <3>1. beaconStatus' = "RECEIVING_FILE" /\ notification'.type # "ERROR"
      BY <1>2, <1>5, <2>2 DEF Write_FILE_START
    <3> QED
      BY <3>1 DEF BeaconNeverRefuses
  <2>3. CASE ~(request.number <= TRANSFER_MAX_FILE_SIZE)
    <3>1. expectedLength' = request.number
      BY <1>5 DEF Write_FILE_START
    <3>2. expectedLength' > TRANSFER_MAX_FILE_SIZE
      BY <2>1, <2>3, <3>1
    <3> QED
      BY <3>2 DEF BeaconNeverRefuses
  <2> QED
    BY <2>2, <2>3
<1>6. CASE ~Write_HELLO(request) /\ ~Write_FILE_START(request)
  <2>1. request.type \notin {"HELLO", "FILE_START"}
    BY <1>6 DEF Beacon_write, att_write_callback, Write_FILE_DATA, Write_FILE_END, Write_REPLY_REQUEST,
       Write_REPLY_NEXT, Write_COMPLETE
  <2>2. beaconStatus' # "ERROR"
    BY <1>3, <2>1 DEF Expects, RefusesOnlyLarge
  <2>3. CASE Write_FILE_DATA(request) \/ Write_FILE_END(request)
    BY <1>2, <2>2, <2>3 DEF Write_FILE_DATA, Write_FILE_END, Refuse, BeaconNeverRefuses
  <2>4. CASE Write_REPLY_REQUEST(request) \/ Write_REPLY_NEXT(request)
    BY <1>2, <2>2, <2>4 DEF Write_REPLY_REQUEST, Write_REPLY_NEXT, send_reply_piece, BeaconNeverRefuses
  <2>5. CASE Write_COMPLETE(request)
    BY <1>2, <2>2, <2>5 DEF Write_COMPLETE, BeaconNeverRefuses
  <2> QED
    BY <1>6, <2>3, <2>4, <2>5 DEF Beacon_write, att_write_callback
<1> QED
  BY <1>4, <1>5, <1>6

\* Nothing but a write makes the beacon refuse.
LEMMA NothingElseRefuses ==
  ASSUME BeaconNeverRefuses, [ExchangeNext]_exchangeVars, ~Beacon_write
  PROVE  BeaconNeverRefuses'
<1> USE DEF beaconVars, connectionVars, receiveVars, BeaconNeverRefuses
<1>1. CASE RobotAlone \/ LinkUp \/ LinkLost \/ RobotSeesLoss \/ WriteLeaves \/ NotificationArrives
  BY <1>1 DEF RobotAlone, LinkUp, LinkLost, RobotSeesLoss, WriteLeaves, NotificationArrives
<1>2. CASE BeaconStarts \/ BeaconSeesLink \/ Beacon_enable
  BY <1>2 DEF BeaconStarts, BeaconWorking, BeaconSeesLink, RobotConnected, Beacon_enable, EnableNotifications
<1>3. CASE BeaconSeesLoss
  BY <1>3 DEF BeaconSeesLoss, RobotDisconnected, NoPacket, Packet
<1>4. CASE NotificationLeaves
  BY <1>4 DEF NotificationLeaves, CanSendNow, NoPacket, Packet
<1>5. CASE \E ok \in BOOLEAN : Answered(ok)
  BY <1>5 DEF Answered
<1>6. CASE UNCHANGED exchangeVars
  BY <1>6 DEF exchangeVars
<1> QED
  BY <1>1, <1>2, <1>3, <1>4, <1>5, <1>6 DEF ExchangeNext

\* MSG_ERROR is sent for a file that is too long and for nothing else: no interleaving
\* of the two state machines makes the client write what beacon_server.c refuses.
THEOREM BeaconRefusesNothing == ExchangeSpec => []BeaconNeverRefuses
<1>1. ExchangeInit => Refused /\ BeaconNeverRefuses
  BY RefusedAtFirst DEF ExchangeInit, BeaconInit, BeaconNeverRefuses, NoPacket, Packet
<1>2. ExchangeInv /\ Refused /\ BeaconNeverRefuses /\ [ExchangeNext]_exchangeVars =>
        Refused' /\ BeaconNeverRefuses'
  <2> SUFFICES ASSUME ExchangeInv, Refused, BeaconNeverRefuses, [ExchangeNext]_exchangeVars
               PROVE  Refused' /\ BeaconNeverRefuses'
    OBVIOUS
  <2>1. Refused'
    BY RefusedStep
  <2>2. CASE Beacon_write
    <3>1. RefusesOnlyLarge'
      BY ExchangeStep DEF ExchangeInv
    <3> QED
      BY <2>1, <2>2, <3>1, WriteRefusesAnnouncement
  <2>3. CASE ~Beacon_write
    BY <2>1, <2>3, NothingElseRefuses
  <2> QED
    BY <2>2, <2>3
<1> QED
  BY <1>1, <1>2, ExchangeInvariance, PTL DEF ExchangeSpec

-----------------------------------------------------------------------------
(* The exchange implements the hand-over                                    *)

\* What the histories record of the transfer under way.
Replied == notification # NoPacket \/ inbound # <<>> \/ Slot # NoPacket
Recorded ==
  /\ verifiedFile \in {<<>>, RobotFile} /\ completeHeard \in BOOLEAN
  /\ state \in HelloPhase /\ Replied => verifiedFile = <<>> /\ ~completeHeard
  /\ state \in StartPhase \cup {"WRITE_FILE_DATA"} => verifiedFile = <<>> /\ ~completeHeard
  /\ state \in EndPhase => ~completeHeard /\ (Replied => verifiedFile = RobotFile)
  /\ state \in RequestPhase \cup NextPhase => verifiedFile = RobotFile /\ ~completeHeard
  /\ state \in CompletePhase => verifiedFile = RobotFile /\ (Replied => completeHeard)
  /\ Sending =>
       /\ Outgoing.type \in {"FILE_START", "FILE_DATA", "FILE_END"} => verifiedFile = <<>>
       /\ Outgoing.type \in {"REPLY_REQUEST", "REPLY_NEXT", "COMPLETE"} => verifiedFile = RobotFile
       /\ Outgoing.type # "HELLO" => ~completeHeard
  /\ payloadVerified => verifiedFile = RobotFile /\ completeHeard

\* The hand-over's variables as Exchange maps them.
Holds == IF state \in {"WRITE_COMPLETE", "WAIT_COMPLETE_ACK"} \/ payloadVerified THEN replyFile ELSE <<>>
Report == IF ReportUnderway THEN "sent" ELSE IF completeHeard THEN "heard" ELSE "none"
SameHistory == UNCHANGED historyVars

\* A step of the hand-over, or none.
HandStep == [Promise!Next]_(Promise!handoverVars)

LEMMA HandStill ==
  ASSUME verifiedFile' = verifiedFile, Holds' = Holds, Report' = Report, payloadVerified' = payloadVerified
  PROVE  HandStep
BY DEF HandStep, Promise!handoverVars, Holds, Report

LEMMA HandGivesUp ==
  ASSUME verifiedFile' = verifiedFile, Report' = Report, ~payloadVerified, ~payloadVerified',
         payloadVerified' = payloadVerified, Holds' = <<>>
  PROVE  HandStep
BY DEF HandStep, Promise!Next, Promise!RobotGivesUp, Holds, Report

LEMMA HandLoses ==
  ASSUME verifiedFile' = verifiedFile, Report = "sent", Report' = "none", payloadVerified' = payloadVerified,
         Holds' = Holds \/ Holds' = <<>>
  PROVE  HandStep
BY DEF HandStep, Promise!Next, Promise!ReportLost, Holds, Report

LEMMA HandReports ==
  ASSUME verifiedFile' = verifiedFile, verifiedFile = RobotFile, Holds = <<>>, Holds' = BeaconReply,
         Report = "none", Report' = "sent", ~payloadVerified, payloadVerified' = payloadVerified
  PROVE  HandStep
BY DEF HandStep, Promise!Next, Promise!RobotVerifiesAndReports, Holds, Report

LEMMA HandConfirms ==
  ASSUME verifiedFile' = verifiedFile, verifiedFile = RobotFile, Holds = BeaconReply, Holds' = Holds,
         Report = "heard", Report' = Report, ~payloadVerified, payloadVerified' = TRUE
  PROVE  HandStep
BY DEF HandStep, Promise!Next, Promise!Confirm, Holds, Report

\* MSG_COMPLETE is under way exactly while it is the write the beacon has still to see.
LEMMA UnderwayIsSending ==
  ASSUME ExchangeInv
  PROVE  ReportUnderway <=> Sending /\ Outgoing.type = "COMPLETE"
BY DEF ExchangeInv, LinkKnown, ReportUnderway, Sending, Outgoing, NoPacket, Packet

\* A report under way has not been heard in this transfer.
LEMMA ReportMapped ==
  ASSUME ExchangeInv, Recorded
  PROVE  /\ ReportUnderway => Sending /\ Report = "sent" /\ ~completeHeard
         /\ ~Sending => ~ReportUnderway
         /\ ~ReportUnderway /\ completeHeard => Report = "heard"
         /\ ~ReportUnderway /\ ~completeHeard => Report = "none"
BY UnderwayIsSending DEF Recorded, Report

\* A state outside the exchange needs of the histories only what is still on its way.
LEMMA OutsideRecorded ==
  ASSUME ExchangeInv, Recorded, SameHistory, state' \notin WritingStates \cup WaitingStates,
         Sending' => Sending /\ Outgoing' = Outgoing,
         payloadVerified' => payloadVerified
  PROVE  Recorded'
<1>1. state' \notin HelloPhase \cup StartPhase \cup {"WRITE_FILE_DATA"} \cup EndPhase \cup RequestPhase \cup NextPhase
                    \cup CompletePhase
  BY DEF WritingStates, WaitingStates, HelloPhase, StartPhase, EndPhase, RequestPhase, NextPhase, CompletePhase
<1> QED
  BY <1>1 DEF Recorded, SameHistory, historyVars

\* The robot has given the transfer up: what was under way is lost, or still leaves.
LEMMA GivesUpRefines ==
  ASSUME ExchangeInv, ExchangeInv', Recorded, SameHistory, ~payloadVerified, ~payloadVerified',
         state' \notin LinkedStates, request' = request, query' = "none" \/ (query' = query /\ txPacket' = txPacket)
  PROVE  Recorded' /\ HandStep
<1>1. Sending' => Sending /\ Outgoing' = Outgoing
  BY DEF Sending, Outgoing
<1>2. Recorded'
  BY <1>1, OutsideRecorded DEF LinkedStates
<1>3. Holds' = <<>>
  BY DEF Holds, LinkedStates, WritingStates, WaitingStates
<1>4. payloadVerified' = payloadVerified
  <2>1. payloadVerified \in BOOLEAN /\ payloadVerified' \in BOOLEAN
    BY DEF ExchangeInv, Inv, TypeOK, FlagsTypeOK
  <2> QED
    BY <2>1
<1>5. verifiedFile' = verifiedFile /\ completeHeard' = completeHeard
  BY DEF SameHistory, historyVars
<1>6. ReportUnderway' => ReportUnderway
  BY <1>1, <1>2, UnderwayIsSending DEF ReportUnderway
<1>7. CASE ReportUnderway' <=> ReportUnderway
  <2>1. Report' = Report
    BY <1>5, <1>7 DEF Report
  <2> QED
    BY <1>2, <1>3, <1>4, <1>5, <2>1, HandGivesUp
<1>8. CASE ReportUnderway /\ ~ReportUnderway'
  <2>1. Report = "sent" /\ Report' = "none"
    BY <1>5, <1>8, ReportMapped DEF Report
  <2> QED
    BY <1>2, <1>3, <1>4, <1>5, <2>1, HandLoses
<1> QED
  BY <1>6, <1>7, <1>8

\* The client's steps that leave the link alone.
LEMMA QuietRefines ==
  ASSUME ExchangeInv, Recorded, SameHistory, Quiet, SameBeacon, SameAir
  PROVE  Recorded' /\ HandStep
<1> USE DEF Quiet, SameBeacon, SameAir, SameHistory, historyVars, beaconVars, airVars, fileVars
<1>1. Recorded'
  BY DEF Recorded, Replied, Sending, Outgoing, Slot
<1>2. Holds' = Holds /\ Report' = Report
  BY DEF Holds, Report, ReportUnderway
<1> QED
  BY <1>1, <1>2, HandStill

LEMMA UnlinkedRefines ==
  ASSUME ExchangeInv, ExchangeInv', Recorded, SameHistory, Unlinked, SameAir
  PROVE  Recorded' /\ HandStep
<1> USE DEF SameAir, airVars, SameHistory, historyVars
<1>1. /\ request = NoPacket /\ query = "none" /\ state \notin LinkedStates
      /\ request' = NoPacket /\ query' = "none" /\ state' \notin LinkedStates
  BY DEF ExchangeInv, LinkKnown, Unlinked, Inv, LinkByState
<1>2. ~Sending /\ ~Sending' /\ ~ReportUnderway /\ ~ReportUnderway'
  BY <1>1 DEF Sending, ReportUnderway, NoPacket, Packet
<1>3. Recorded'
  BY <1>1, <1>2, OutsideRecorded DEF Unlinked, LinkedStates
<1>4. payloadVerified' = payloadVerified
  <2>1. payloadVerified \in BOOLEAN /\ payloadVerified' \in BOOLEAN
    BY DEF ExchangeInv, Inv, TypeOK, FlagsTypeOK
  <2>2. payloadVerified' <=> payloadVerified
    BY DEF Unlinked
  <2> QED
    BY <2>1, <2>2
<1>5. Holds' = Holds
  BY <1>1, <1>4 DEF Unlinked, Holds, LinkedStates, WritingStates, WaitingStates
<1>6. Report' = Report
  BY <1>2 DEF Report
<1> QED
  BY <1>3, <1>4, <1>5, <1>6, HandStill

LEMMA ClosesRefines ==
  ASSUME ExchangeInv, ExchangeInv', Recorded, SameHistory, Closes, AirDrained
  PROVE  Recorded' /\ HandStep
<1>1. ~payloadVerified /\ ~payloadVerified'
  BY LinkedFacts DEF Closes, ExchangeInv
<1>2. state' \notin LinkedStates /\ request' = request
  BY DEF Closes, AirDrained, LinkedStates, WritingStates, WaitingStates
<1>3. query' = "none" \/ (query' = query /\ txPacket' = txPacket)
  BY DEF Closes
<1> QED
  BY <1>1, <1>2, <1>3, GivesUpRefines

LEMMA RobotAloneRefines ==
  ASSUME ExchangeInv, ExchangeInv', Recorded, RobotAlone
  PROVE  Recorded' /\ HandStep
<1>1. Inv /\ Ops /\ RobotStep /\ SameBeacon /\ SameAir /\ SameHistory
  BY DEF ExchangeInv, RobotAlone, RobotStep, SameBeacon, SameAir, SameHistory
<1>2. Quiet \/ Unlinked \/ Closes
  BY <1>1, RobotStepEffect
<1> QED
  BY <1>1, <1>2, SameAirDrains, QuietRefines, UnlinkedRefines, ClosesRefines

\* The link's and the beacon's steps that no history records.
LEMMA AirRefines ==
  ASSUME ExchangeInv, Recorded, SameHistory, UNCHANGED <<state, query, txPacket, pending, fileVars, payloadVerified, request>>,
         notification' = notification \/ notification' = NoPacket,
         inbound' # <<>> => inbound # <<>> \/ notification # NoPacket
  PROVE  Recorded' /\ HandStep
<1> USE DEF SameHistory, historyVars, fileVars
<1>1. /\ Sending' <=> Sending
      /\ Outgoing' = Outgoing
  BY DEF Sending, Outgoing
<1>2. Replied' => Replied
  BY DEF Replied, Slot
<1>3. Recorded'
  BY <1>1, <1>2 DEF Recorded
<1>4. Holds' = Holds /\ Report' = Report
  BY DEF Holds, Report, ReportUnderway
<1> QED
  BY <1>3, <1>4, HandStill

LEMMA LinkLostRefines ==
  ASSUME ExchangeInv, Recorded, LinkLost
  PROVE  Recorded' /\ HandStep
<1> USE DEF LinkLost, vars, beaconVars, attemptVars, fileVars, verdictVars, radioVars, mainVars, historyVars
<1>1. Sending' => Sending /\ Outgoing' = Outgoing
  BY DEF ExchangeInv, LinkKnown, Sending, Outgoing
<1>2. Replied' => Replied
  BY DEF Replied, Slot
<1>3. Recorded'
  BY <1>1, <1>2 DEF Recorded
<1>4. Holds' = Holds /\ verifiedFile' = verifiedFile /\ completeHeard' = completeHeard
      /\ payloadVerified' = payloadVerified
  BY DEF Holds
<1>5. ReportUnderway' => ReportUnderway
  BY DEF ReportUnderway, NoPacket, Packet
<1>6. CASE ReportUnderway' <=> ReportUnderway
  <2>1. Report' = Report
    BY <1>4, <1>6 DEF Report
  <2> QED
    BY <1>3, <1>4, <2>1, HandStill
<1>7. CASE ReportUnderway /\ ~ReportUnderway'
  <2>1. Report = "sent" /\ Report' = "none"
    BY <1>4, <1>7, ReportMapped DEF Report
  <2> QED
    BY <1>3, <1>4, <2>1, HandLoses
<1> QED
  BY <1>3, <1>5, <1>6, <1>7

LEMMA LinkUpRefines ==
  ASSUME ExchangeInv, ExchangeInv', Recorded, LinkUp
  PROVE  Recorded' /\ HandStep
<1>1. /\ ConnectionSucceeded /\ request' = request
      /\ verifiedFile' = verifiedFile /\ completeHeard' = completeHeard
  BY DEF LinkUp, historyVars
<1>2. /\ link \notin {"up", "closing"} /\ UNCHANGED fileVars /\ query = "none"
      /\ payloadVerified' => payloadVerified
      /\ \/ state' = "CLOSING" /\ query' = "none"
         \/ state' = "DISCOVER_SERVICE" /\ query' = "service"
  BY <1>1, ConnectionSucceededEffect DEF ExchangeInv
<1>3. request = NoPacket
  BY <1>2 DEF ExchangeInv, LinkKnown
<1>4. ~Sending /\ ~Sending' /\ ~ReportUnderway /\ ~ReportUnderway'
  BY <1>1, <1>2, <1>3 DEF Sending, ReportUnderway, NoPacket, Packet
<1>5. Recorded'
  BY <1>1, <1>2, <1>4, OutsideRecorded DEF SameHistory, historyVars, WritingStates, WaitingStates
<1>6. payloadVerified => state = "CLOSING"
  BY <1>1 DEF ConnectionSucceeded, ExchangeInv, Inv, VerdictByState
<1>7. payloadVerified' = payloadVerified
  <2>1. payloadVerified => payloadVerified'
    BY <1>1, <1>6 DEF ConnectionSucceeded, verdictVars
  <2>2. payloadVerified \in BOOLEAN /\ payloadVerified' \in BOOLEAN
    BY DEF ExchangeInv, Inv, TypeOK, FlagsTypeOK
  <2> QED
    BY <1>2, <2>1, <2>2
<1>8. state \notin {"WRITE_COMPLETE", "WAIT_COMPLETE_ACK"}
  BY <1>1 DEF ConnectionSucceeded
<1>9. Holds' = Holds
  BY <1>2, <1>7, <1>8 DEF Holds, fileVars
<1>10. Report' = Report
  BY <1>1, <1>4 DEF Report
<1> QED
  BY <1>1, <1>5, <1>7, <1>9, <1>10, HandStill

LEMMA RobotSeesLossRefines ==
  ASSUME ExchangeInv, ExchangeInv', Recorded, RobotSeesLoss
  PROVE  Recorded' /\ HandStep
<1>1. /\ Disconnection /\ request' = request /\ SameHistory /\ wire = "none"
  BY DEF RobotSeesLoss, SameHistory
<1>2. /\ state' = "IDLE" /\ query' = "none" /\ UNCHANGED fileVars /\ link \in {"up", "closing"}
      /\ payloadVerified' => payloadVerified
  BY <1>1 DEF Disconnection, finish_attempt, SetState, verdictVars
<1>3. request = NoPacket
  BY <1>1 DEF ExchangeInv, LinkKnown
<1>4. state' \notin LinkedStates
  BY <1>2 DEF LinkedStates, WritingStates, WaitingStates
<1>5. CASE ~payloadVerified
  BY <1>1, <1>2, <1>4, <1>5, GivesUpRefines
<1>6. CASE payloadVerified
  <2>1. state = "CLOSING"
    BY <1>2, <1>6 DEF ExchangeInv, Inv, VerdictByState, LinkByState, LinkedStates, WritingStates, WaitingStates
  <2>2. payloadVerified' = payloadVerified
    BY <1>1, <2>1 DEF Disconnection, verdictVars
  <2>3. ~Sending /\ ~Sending' /\ ~ReportUnderway /\ ~ReportUnderway'
    BY <1>1, <1>2, <1>3, <1>6 DEF ExchangeInv, OperationByState, Sending, ReportUnderway, NoPacket, Packet
  <2>4. Recorded'
    BY <1>1, <1>2, <1>4, <2>3, OutsideRecorded DEF LinkedStates
  <2>5. Holds' = Holds /\ Report' = Report /\ verifiedFile' = verifiedFile
    BY <1>1, <1>2, <1>6, <2>2, <2>3 DEF Holds, Report, SameHistory, historyVars, fileVars
  <2> QED
    BY <2>2, <2>4, <2>5, HandStill
<1> QED
  BY <1>5, <1>6

LEMMA BeaconQuietRefines ==
  ASSUME ExchangeInv, Recorded,
         BeaconStarts \/ BeaconSeesLink \/ BeaconSeesLoss \/ Beacon_enable \/ NotificationLeaves \/ UNCHANGED exchangeVars
  PROVE  Recorded' /\ HandStep
<1>1. /\ SameHistory /\ UNCHANGED vars /\ request' = request
      /\ notification' = notification \/ notification' = NoPacket
      /\ inbound' # <<>> => inbound # <<>> \/ notification # NoPacket
  <2>1. CASE BeaconStarts \/ BeaconSeesLink
    BY <2>1 DEF BeaconStarts, BeaconWorking, BeaconSeesLink, RobotConnected, SameHistory, airVars
  <2>2. CASE BeaconSeesLoss \/ Beacon_enable
    BY <2>2 DEF BeaconSeesLoss, RobotDisconnected, Beacon_enable, EnableNotifications, SameHistory, airVars
  <2>3. CASE NotificationLeaves
    BY <2>3 DEF NotificationLeaves, CanSendNow, SameHistory
  <2>4. CASE UNCHANGED exchangeVars
    BY <2>4 DEF exchangeVars, beaconVars, airVars, SameHistory
  <2> QED
    BY <2>1, <2>2, <2>3, <2>4
<1>2. UNCHANGED <<state, query, txPacket, pending, fileVars, payloadVerified, request>>
  BY <1>1 DEF vars, attemptVars, verdictVars, radioVars
<1> QED
  BY <1>1, <1>2, AirRefines

LEMMA WriteLeavesRefines ==
  ASSUME ExchangeInv, Recorded, WriteLeaves
  PROVE  Recorded' /\ HandStep
<1> USE DEF WriteLeaves, PacketSent, beaconVars, attemptVars, fileVars, verdictVars, historyVars
<1>1. Sending /\ request = NoPacket /\ Outgoing = txPacket
  BY DEF Sending, Outgoing, ExchangeInv, LinkKnown
<1>2. request' = txPacket /\ request' # NoPacket
  BY <1>1 DEF ExchangeInv, Agree, Expects, NoPacket, Packet
<1>3. Sending' /\ Outgoing' = Outgoing
  BY <1>1, <1>2 DEF Sending, Outgoing
<1>4. Replied' => Replied
  BY DEF Replied, Slot
<1>5. Recorded'
  BY <1>1, <1>3, <1>4 DEF Recorded
<1>6. ReportUnderway' <=> ReportUnderway
  BY <1>1, <1>2 DEF ReportUnderway, NoPacket, Packet
<1>7. Holds' = Holds /\ Report' = Report
  BY <1>6 DEF Holds, Report
<1> QED
  BY <1>5, <1>7, HandStill

LEMMA HandStartsOver ==
  ASSUME verifiedFile' = <<>>, Holds = <<>>, Holds' = Holds, Report # "sent", Report' = "none",
         ~payloadVerified, payloadVerified' = payloadVerified
  PROVE  HandStep
BY DEF HandStep, Promise!Next, Promise!BeaconStartsOver, Holds, Report

LEMMA HandVerifies ==
  ASSUME verifiedFile = <<>>, verifiedFile' = RobotFile, Holds = <<>>, Holds' = Holds, Report = "none", Report' = "none",
         ~payloadVerified, payloadVerified' = payloadVerified
  PROVE  HandStep
BY DEF HandStep, Promise!Next, Promise!BeaconVerifies, Holds, Report

LEMMA HandHears ==
  ASSUME verifiedFile' = verifiedFile, Holds' = Holds, Report = "sent", Report' = "heard", payloadVerified' = payloadVerified
  PROVE  HandStep
BY DEF HandStep, Promise!Next, Promise!ReportHeard, Holds, Report

\* What the beacon's answer to a write adds to the histories.
LEMMA WriteRecords ==
  ASSUME ExchangeInv, Recorded, Beacon_write
  PROVE  /\ request.type \in {"HELLO", "FILE_START", "FILE_DATA", "FILE_END", "REPLY_REQUEST", "REPLY_NEXT", "COMPLETE"}
         /\ request.type \in {"HELLO", "FILE_START"} => verifiedFile' = <<>> /\ completeHeard' = FALSE
         /\ request.type = "FILE_END" =>
              verifiedFile = <<>> /\ verifiedFile' = RobotFile /\ completeHeard' = completeHeard
         /\ request.type = "COMPLETE" =>
              verifiedFile = RobotFile /\ verifiedFile' = verifiedFile /\ completeHeard' = TRUE
         /\ request.type \in {"FILE_DATA", "REPLY_REQUEST", "REPLY_NEXT"} =>
              verifiedFile' = verifiedFile /\ completeHeard' = completeHeard
         /\ request.type = "FILE_DATA" => verifiedFile = <<>>
         /\ request.type \in {"REPLY_REQUEST", "REPLY_NEXT"} => verifiedFile = RobotFile
         /\ request.type # "HELLO" => ~completeHeard
<1>1. Expects(request)
  BY WriteContext
<1>2. Sending /\ Outgoing = request
  BY DEF Beacon_write, Sending, Outgoing
<1>3. request.type = "FILE_END" => FileVerified /\ receivedFile = RobotFile
  BY <1>1 DEF Expects, Announced, FileVerified
<1>4. /\ request.type \in {"FILE_START", "FILE_DATA", "FILE_END"} => verifiedFile = <<>>
      /\ request.type \in {"REPLY_REQUEST", "REPLY_NEXT", "COMPLETE"} => verifiedFile = RobotFile
      /\ request.type # "HELLO" => ~completeHeard
  BY <1>2 DEF Recorded
<1>5. request.type \in {"HELLO", "FILE_START"} => verifiedFile' = <<>> /\ completeHeard' = FALSE
  BY DEF Beacon_write
<1>6. request.type = "FILE_END" => verifiedFile' = RobotFile
  BY <1>3 DEF Beacon_write
<1>7. request.type \in {"FILE_DATA", "REPLY_REQUEST", "REPLY_NEXT", "COMPLETE"} => verifiedFile' = verifiedFile
  BY DEF Beacon_write
<1>8. request.type = "COMPLETE" => completeHeard' = TRUE
  BY DEF Beacon_write
<1>9. request.type \in {"FILE_DATA", "FILE_END", "REPLY_REQUEST", "REPLY_NEXT"} => completeHeard' = completeHeard
  BY DEF Beacon_write
<1>10. request.type \in {"HELLO", "FILE_START", "FILE_DATA", "FILE_END", "REPLY_REQUEST", "REPLY_NEXT", "COMPLETE"}
  BY <1>1 DEF Expects
<1>11. request.type = "FILE_END" => verifiedFile = <<>> /\ verifiedFile' = RobotFile /\ completeHeard' = completeHeard
  BY <1>4, <1>6, <1>9
<1>12. request.type = "COMPLETE" => verifiedFile = RobotFile /\ verifiedFile' = verifiedFile /\ completeHeard' = TRUE
  BY <1>4, <1>7, <1>8
<1> QED
  BY <1>4, <1>5, <1>7, <1>9, <1>10, <1>11, <1>12

LEMMA Beacon_writeRefines ==
  ASSUME ExchangeInv, Recorded, Beacon_write
  PROVE  Recorded' /\ HandStep
<1>1. /\ ~Sending' /\ ~payloadVerified /\ state \notin WaitingStates
      /\ state' = state /\ payloadVerified' = payloadVerified /\ replyFile' = replyFile
      /\ query' = query /\ txPacket' = txPacket
  BY WriteContext DEF fileVars
<1>2. completeHeard' \in BOOLEAN
  BY WriteRecords DEF Recorded
<1>3. state \notin {"WAIT_HELLO_ACK", "WAIT_FILE_READY", "WAIT_FILE_RECEIVED", "WAIT_REPLY_START", "WAIT_REPLY_PIECE",
                    "WAIT_COMPLETE_ACK"}
  BY <1>1 DEF WaitingStates
<1>4. /\ verifiedFile' \in {<<>>, RobotFile}
      /\ state \in HelloPhase => verifiedFile' = <<>> /\ ~completeHeard'
      /\ state \in StartPhase \cup {"WRITE_FILE_DATA"} => verifiedFile' = <<>> /\ ~completeHeard'
      /\ state \in EndPhase => ~completeHeard' /\ verifiedFile' = RobotFile
      /\ state \in RequestPhase \cup NextPhase => verifiedFile' = RobotFile /\ ~completeHeard'
      /\ state \in CompletePhase => verifiedFile' = RobotFile /\ completeHeard'
  <2>1. verifiedFile' \in {<<>>, RobotFile}
    BY WriteRecords DEF Recorded
  <2>2. state \in HelloPhase => verifiedFile' = <<>> /\ ~completeHeard'
    BY <1>3, WritePhase, WriteRecords DEF HelloPhase
  <2>3. state \in StartPhase \cup {"WRITE_FILE_DATA"} => verifiedFile' = <<>> /\ ~completeHeard'
    BY <1>3, WritePhase, WriteRecords DEF StartPhase
  <2>4. state \in EndPhase => ~completeHeard' /\ verifiedFile' = RobotFile
    BY <1>3, WritePhase, WriteRecords DEF EndPhase
  <2>5. state \in RequestPhase \cup NextPhase => verifiedFile' = RobotFile /\ ~completeHeard'
    BY <1>3, WritePhase, WriteRecords DEF RequestPhase, NextPhase
  <2>6. state \in CompletePhase => verifiedFile' = RobotFile /\ completeHeard'
    BY <1>3, WritePhase, WriteRecords DEF CompletePhase
  <2> QED
    BY <2>1, <2>2, <2>3, <2>4, <2>5, <2>6
<1>5. Recorded'
  BY <1>1, <1>2, <1>4 DEF Recorded
<1>6. Holds' = Holds
  BY <1>1 DEF Holds
<1>7. request.type # "COMPLETE" => Holds = <<>>
  BY <1>1, <1>3, WritePhase DEF Holds
<1>8. ReportUnderway <=> request.type = "COMPLETE"
  BY DEF ReportUnderway, Beacon_write, ExchangeInv, LinkKnown
<1>9. ~ReportUnderway'
  BY <1>1 DEF ReportUnderway, Beacon_write, ExchangeInv, LinkKnown, NoPacket, Packet
<1>10. CASE request.type \in {"HELLO", "FILE_START"}
  <2>1. Report # "sent" /\ Report' = "none" /\ Holds = <<>> /\ verifiedFile' = <<>>
    BY <1>7, <1>8, <1>9, <1>10, WriteRecords DEF Report
  <2> QED
    BY <1>1, <1>5, <1>6, <2>1, HandStartsOver
<1>11. CASE request.type = "FILE_END"
  <2>1. Report = "none" /\ Report' = "none" /\ Holds = <<>>
    BY <1>7, <1>8, <1>9, <1>11, WriteRecords DEF Report
  <2>2. verifiedFile = <<>> /\ verifiedFile' = RobotFile
    BY <1>11, WriteRecords
  <2> QED
    BY <1>1, <1>5, <1>6, <2>1, <2>2, HandVerifies
<1>12. CASE request.type = "COMPLETE"
  <2>1. Report = "sent" /\ Report' = "heard" /\ verifiedFile' = verifiedFile
    BY <1>8, <1>9, <1>12, WriteRecords DEF Report
  <2> QED
    BY <1>1, <1>5, <1>6, <2>1, HandHears
<1>13. CASE request.type \in {"FILE_DATA", "REPLY_REQUEST", "REPLY_NEXT"}
  <2>1. Report' = Report /\ verifiedFile' = verifiedFile
    BY <1>8, <1>9, <1>13, WriteRecords DEF Report
  <2> QED
    BY <1>1, <1>5, <1>6, <2>1, HandStill
<1> QED
  BY <1>10, <1>11, <1>12, <1>13, WriteRecords

\* The client writes: the report once it has the reply, or what no variable of the hand-over shows.
LEMMA WroteRefines ==
  ASSUME ExchangeInv, ExchangeInv', Recorded, SameHistory, AirTaken, ~Sending, state \in LinkedStates,
         state \notin CompletePhase, NEW s \in WritingStates, NEW packet, Writes(packet, s, NoPacket),
         s \in StartPhase \cup {"WRITE_FILE_DATA"} \cup EndPhase => verifiedFile = <<>> /\ ~completeHeard,
         s \in RequestPhase \cup NextPhase \cup CompletePhase => verifiedFile = RobotFile /\ ~completeHeard
  PROVE  Recorded' /\ HandStep
<1>1. /\ verifiedFile' = verifiedFile /\ completeHeard' = completeHeard
      /\ request = NoPacket /\ request' = NoPacket /\ query # "write"
  BY DEF SameHistory, historyVars, AirTaken, Sending
<1>2. /\ state' = s /\ query' = "write" /\ txPacket' = packet /\ payloadVerified' = payloadVerified /\ ~payloadVerified
  BY LinkedFacts DEF Writes, ExchangeInv
<1>3. Sending' /\ Outgoing' = packet
  BY <1>1, <1>2 DEF Sending, Outgoing
<1>4. ~Replied'
  BY <1>3 DEF Replied, ExchangeInv, OneInFlight
<1>5. WrittenFor(s, packet.type)
  BY <1>2, <1>3 DEF ExchangeInv, WriteFits
<1>6. s \in {"WRITE_HELLO", "WRITE_FILE_START", "WRITE_FILE_DATA", "WRITE_FILE_END", "WRITE_REPLY_REQUEST",
             "WRITE_REPLY_NEXT", "WRITE_COMPLETE"}
  BY DEF WritingStates
<1>7. /\ packet.type \in {"FILE_START", "FILE_DATA", "FILE_END"} => verifiedFile = <<>>
      /\ packet.type \in {"REPLY_REQUEST", "REPLY_NEXT", "COMPLETE"} => verifiedFile = RobotFile
      /\ packet.type # "HELLO" => ~completeHeard
  BY <1>5, <1>6 DEF WrittenFor, StartPhase, EndPhase, RequestPhase, NextPhase, CompletePhase
<1>8. /\ verifiedFile' \in {<<>>, RobotFile} /\ completeHeard' \in BOOLEAN
      /\ s \in StartPhase \cup {"WRITE_FILE_DATA"} => verifiedFile' = <<>> /\ ~completeHeard'
      /\ s \in EndPhase => ~completeHeard'
      /\ s \in RequestPhase \cup NextPhase => verifiedFile' = RobotFile /\ ~completeHeard'
      /\ s \in CompletePhase => verifiedFile' = RobotFile
  BY <1>1 DEF Recorded
<1>9. Recorded'
  BY <1>1, <1>2, <1>3, <1>4, <1>7, <1>8 DEF Recorded
<1>10. Holds = <<>>
  BY <1>2 DEF Holds, CompletePhase
<1>11. ~ReportUnderway /\ (ReportUnderway' <=> packet.type = "COMPLETE")
  BY <1>1, <1>2 DEF ReportUnderway, NoPacket, Packet
<1>12. CASE s = "WRITE_COMPLETE"
  <2>1. packet.type = "COMPLETE" /\ verifiedFile = RobotFile /\ ~completeHeard
    BY <1>5, <1>12 DEF WrittenFor, CompletePhase
  <2>2. Holds' = BeaconReply
    BY <1>2, <1>12 DEF Holds, ExchangeInv, ReplyGrows, CompletePhase
  <2>3. Report = "none" /\ Report' = "sent"
    BY <1>1, <1>11, <2>1 DEF Report
  <2> QED
    BY <1>1, <1>2, <1>9, <1>10, <2>1, <2>2, <2>3, HandReports
<1>13. CASE s # "WRITE_COMPLETE"
  <2>1. packet.type # "COMPLETE"
    BY <1>5, <1>6, <1>13 DEF WrittenFor
  <2>2. Holds' = Holds
    BY <1>2, <1>6, <1>10, <1>13 DEF Holds
  <2>3. Report' = Report
    BY <1>1, <1>11, <2>1 DEF Report
  <2> QED
    BY <1>1, <1>2, <1>9, <2>2, <2>3, HandStill
<1> QED
  BY <1>12, <1>13

\* The phase that follows one, once its answer is taken.
Follows(s, next) ==
  \/ s = "WAIT_HELLO_ACK" /\ next = "WRITE_FILE_START"
  \/ s = "WAIT_FILE_READY" /\ next \in {"WRITE_FILE_DATA", "WRITE_FILE_END"}
  \/ s = "WAIT_FILE_RECEIVED" /\ next = "WRITE_REPLY_REQUEST"
  \/ s = "WAIT_REPLY_START" /\ next = "WRITE_REPLY_NEXT"
  \/ s = "WAIT_REPLY_PIECE" /\ next \in {"WRITE_REPLY_NEXT", "WRITE_COMPLETE"}
Proceeds(s) == \E packet, next : next \in WritingStates /\ Follows(s, next) /\ Writes(packet, next, NoPacket)

LEMMA NextChunkProceeds ==
  ASSUME Inv, state \in LinkedStates, abortRequested' = abortRequested, write_next_robot_chunk(NoPacket)
  PROVE  Closes \/ \E packet, next : next \in {"WRITE_FILE_DATA", "WRITE_FILE_END"} /\ Writes(packet, next, NoPacket)
<1>1. CASE robotOffset = Len(RobotFile)
  <2>1. write_packet(Packet("FILE_END", 0, <<>>), "WRITE_FILE_END", NoPacket)
    BY <1>1 DEF write_next_robot_chunk
  <2>2. Closes \/ Writes(Packet("FILE_END", 0, <<>>), "WRITE_FILE_END", NoPacket)
    BY <2>1, WriteEffect DEF WritingStates
  <2> QED
    BY <2>2
<1>2. CASE robotOffset # Len(RobotFile)
  <2> DEFINE packet == Packet("FILE_DATA", robotOffset % 256, <<RobotFile[robotOffset + 1]>>)
  <2>1. write_packet(packet, "WRITE_FILE_DATA", NoPacket)
    BY <1>2 DEF write_next_robot_chunk
  <2> HIDE DEF packet
  <2>2. Closes \/ Writes(packet, "WRITE_FILE_DATA", NoPacket)
    BY <2>1, WriteEffect DEF WritingStates
  <2> QED
    BY <2>2
<1> QED
  BY <1>1, <1>2

\* Taking an awaited answer moves the client on to the next phase, unless the link is closed.
LEMMA TakingProceeds ==
  ASSUME ExchangeInv, NEW s, NEW m, NEW op, Taking(s, m, op)
  PROVE  Closes \/ (s = "WAIT_COMPLETE_ACK" /\ Confirms(op)) \/ Proceeds(s)
<1>1. /\ Inv /\ state \in LinkedStates /\ s \in LinkedStates /\ op \in {"none", query} /\ Consume(s, m, op)
      /\ abortRequested' = abortRequested /\ FitsIn(s, m) /\ s \in WaitingStates
  BY TakingPhase DEF Taking, ExchangeInv
<1>2. s # "WAIT_FILE_READY" \/ RobotFileFits => m.type \in ExpectedIn(s) /\ m.type # "ERROR"
  BY <1>1, ExpectedTypes DEF FitsIn, WaitingStates, HelloPhase, StartPhase, EndPhase, RequestPhase, NextPhase,
     CompletePhase, StartAnswer, Packet
<1>10. s = "WAIT_FILE_READY" /\ ~RobotFileFits => Closes
  BY RefusalCloses
<1>3. CASE Accept_HELLO_ACK(s, m, op) /\ ~Give_up(s, op)
  <2>1. write_packet(Packet("FILE_START", Len(RobotFile), RobotFile), "WRITE_FILE_START", NoPacket)
    BY <1>3 DEF Accept_HELLO_ACK
  <2>2. Closes \/ Writes(Packet("FILE_START", Len(RobotFile), RobotFile), "WRITE_FILE_START", NoPacket)
    BY <1>1, <2>1, WriteEffect DEF WritingStates
  <2> QED
    BY <1>3, <2>2 DEF Accept_HELLO_ACK, Proceeds, Follows, WritingStates
<1>4. CASE Accept_FILE_READY(s, m, op) /\ ~Give_up(s, op)
  <2>1. write_next_robot_chunk(NoPacket) /\ s = "WAIT_FILE_READY"
    BY <1>4 DEF Accept_FILE_READY
  <2> QED
    BY <1>1, <2>1, NextChunkProceeds DEF Proceeds, Follows, WritingStates
<1>5. CASE Accept_FILE_RECEIVED(s, m, op) /\ ~Give_up(s, op)
  <2>1. write_packet(Packet("REPLY_REQUEST", 0, <<>>), "WRITE_REPLY_REQUEST", NoPacket) /\ s = "WAIT_FILE_RECEIVED"
    BY <1>5 DEF Accept_FILE_RECEIVED, write_simple
  <2>2. Closes \/ Writes(Packet("REPLY_REQUEST", 0, <<>>), "WRITE_REPLY_REQUEST", NoPacket)
    BY <1>1, <2>1, WriteEffect DEF WritingStates
  <2> QED
    BY <2>1, <2>2 DEF Proceeds, Follows, WritingStates
<1>6. CASE (Accept_REPLY_START(s, m, op) \/ Accept_REPLY_DATA(s, m, op)) /\ ~Give_up(s, op)
  <2>1. /\ write_packet(Packet("REPLY_NEXT", 0, <<>>), "WRITE_REPLY_NEXT", NoPacket)
        /\ s = "WAIT_REPLY_START" \/ s = "WAIT_REPLY_PIECE"
    BY <1>6 DEF Accept_REPLY_START, Accept_REPLY_DATA, write_simple
  <2>2. Closes \/ Writes(Packet("REPLY_NEXT", 0, <<>>), "WRITE_REPLY_NEXT", NoPacket)
    BY <1>1, <2>1, WriteEffect DEF WritingStates
  <2> QED
    BY <2>1, <2>2 DEF Proceeds, Follows, WritingStates
<1>7. CASE Accept_REPLY_END(s, m, op) /\ ~Give_up(s, op)
  <2>1. write_packet(Packet("COMPLETE", 0, <<>>), "WRITE_COMPLETE", NoPacket) /\ s = "WAIT_REPLY_PIECE"
    BY <1>7 DEF Accept_REPLY_END, write_simple
  <2>2. Closes \/ Writes(Packet("COMPLETE", 0, <<>>), "WRITE_COMPLETE", NoPacket)
    BY <1>1, <2>1, WriteEffect DEF WritingStates
  <2> QED
    BY <2>1, <2>2 DEF Proceeds, Follows, WritingStates
<1>8. CASE Accept_COMPLETE_ACK(s, m, op) /\ ~Give_up(s, op)
  <2>1. \/ Closes \/ Ignore(s, op) \/ Confirms(op)
        \/ \E packet, s2 : Writes(packet, s2, NoPacket)
    BY <1>1, ConsumeEffect
  <2>2. s = "WAIT_COMPLETE_ACK" /\ payloadVerified' = TRUE
    BY <1>8 DEF Accept_COMPLETE_ACK
  <2>3. ~payloadVerified
    BY <1>1, LinkedFacts
  <2> QED
    BY <2>1, <2>2, <2>3 DEF Ignore, verdictVars, Writes
<1>9. Give_up(s, op) => Closes
  BY <1>1, GiveUpEffect
<1> QED
  BY <1>1, <1>2, <1>3, <1>4, <1>5, <1>6, <1>7, <1>8, <1>9, <1>10 DEF Consume

\* The answer to a phase is taken: the hand-over moves when it is the report or its confirmation.
LEMMA TakeRefines ==
  ASSUME ExchangeInv, ExchangeInv', Recorded, SameHistory, Replied, NEW s, NEW m, NEW op, Taking(s, m, op)
  PROVE  Recorded' /\ HandStep
<1>1. /\ SameBeacon /\ AirTaken /\ ~Sending /\ state \in LinkedStates /\ op \in {"none", query}
      /\ verifiedFile' = verifiedFile /\ completeHeard' = completeHeard /\ request' = request
  BY DEF Taking, SameHistory, historyVars, AirTaken
<1>2. /\ s = "WAIT_HELLO_ACK" => verifiedFile = <<>> /\ ~completeHeard
      /\ s = "WAIT_FILE_READY" => verifiedFile = <<>> /\ ~completeHeard
      /\ s = "WAIT_FILE_RECEIVED" => verifiedFile = RobotFile /\ ~completeHeard
      /\ s \in {"WAIT_REPLY_START", "WAIT_REPLY_PIECE"} => verifiedFile = RobotFile /\ ~completeHeard
      /\ s = "WAIT_COMPLETE_ACK" => verifiedFile = RobotFile /\ completeHeard /\ replyFile = BeaconReply
  BY TakingPhase DEF Recorded, ExchangeInv, ReplyGrows
<1>3. CASE Closes
  BY <1>3, <1>1, ClosesRefines DEF AirTaken, AirDrained
<1>4. CASE s = "WAIT_COMPLETE_ACK" /\ Confirms(op)
  <2>1. /\ state' = "CLOSING" /\ query' = op /\ payloadVerified' /\ replyFile' = replyFile /\ txPacket' = txPacket
        /\ ~payloadVerified /\ state \in CompletePhase
    BY <1>1, <1>4, LinkedFacts, TakingPhase DEF Confirms, fileVars, ExchangeInv
  <2>2. payloadVerified' = TRUE
    <3>1. payloadVerified' \in BOOLEAN
      BY DEF ExchangeInv, Inv, TypeOK, FlagsTypeOK
    <3> QED
      BY <2>1, <3>1
  <2>3. ~Sending' /\ ~ReportUnderway /\ ~ReportUnderway'
    BY <1>1, <2>1 DEF Sending, ReportUnderway, NoPacket, Packet
  <2>4. Recorded'
    BY <1>1, <1>2, <1>4, <2>1, <2>3 DEF Recorded, HelloPhase, StartPhase, EndPhase, RequestPhase, NextPhase, CompletePhase
  <2>5. Holds = BeaconReply /\ Holds' = Holds
    BY <1>2, <1>4, <2>1 DEF Holds, CompletePhase
  <2>6. Report = "heard" /\ Report' = Report
    BY <1>1, <1>2, <1>4, <2>3 DEF Report
  <2> QED
    BY <1>1, <1>2, <1>4, <2>1, <2>2, <2>4, <2>5, <2>6, HandConfirms
<1>5. CASE Proceeds(s)
  <2>1. PICK packet, next : next \in WritingStates /\ Follows(s, next) /\ Writes(packet, next, NoPacket)
    BY <1>5 DEF Proceeds
  <2>2. state \notin CompletePhase
    BY <2>1, TakingPhase DEF Follows, HelloPhase, StartPhase, EndPhase, RequestPhase, NextPhase, CompletePhase
  <2>3. next \in StartPhase \cup {"WRITE_FILE_DATA"} \cup EndPhase => verifiedFile = <<>> /\ ~completeHeard
    BY <1>2, <2>1 DEF Follows, StartPhase, EndPhase
  <2>4. next \in RequestPhase \cup NextPhase \cup CompletePhase => verifiedFile = RobotFile /\ ~completeHeard
    BY <1>2, <2>1 DEF Follows, RequestPhase, NextPhase, CompletePhase
  <2> QED
    BY <1>1, <2>1, <2>2, <2>3, <2>4, WroteRefines
<1> QED
  BY <1>3, <1>4, <1>5, TakingProceeds

\* Neither the client's phase nor its write changes: no more is on its way than before.
LEMMA PhaseRefines ==
  ASSUME ExchangeInv, Recorded, SameHistory, UNCHANGED <<state, fileVars, payloadVerified>>,
         Sending' => Sending /\ Outgoing' = Outgoing, Replied' => Replied, ReportUnderway' <=> ReportUnderway
  PROVE  Recorded' /\ HandStep
<1> USE DEF SameHistory, historyVars, fileVars
<1>1. Recorded'
  BY DEF Recorded
<1>2. Holds' = Holds /\ Report' = Report
  BY DEF Holds, Report
<1> QED
  BY <1>1, <1>2, HandStill

LEMMA NotificationArrivesRefines ==
  ASSUME ExchangeInv, ExchangeInv', Recorded, NotificationArrives
  PROVE  Recorded' /\ HandStep
<1> DEFINE m == Head(inbound)
<1> USE ArrivesContext
<1>1. Notification(m) /\ SameHistory /\ Replied
  BY DEF NotificationArrives, SameHistory, Replied
<1>2. CASE state \in WaitingStates
  <2>1. Consume(state, m, query)
    BY <1>1, <1>2 DEF Notification, WaitingStates, WritingStates
  <2>2. AirTaken
    BY <1>2 DEF AirTaken, ExchangeInv, OperationByState
  <2>3. Taking(state, m, query)
    BY <1>2, <2>1, <2>2 DEF Taking, Fits
  <2> QED
    BY <1>1, <2>3, TakeRefines
<1>3. CASE state \in WritingStates /\ Give_up(state, query)
  <2>1. Closes
    BY <1>3, GiveUpEffect DEF ExchangeInv
  <2>2. AirDrained
    BY DEF AirDrained
  <2> QED
    BY <1>1, <2>1, <2>2, ClosesRefines
<1>4. CASE state \in WritingStates /\ pending' = m /\ UNCHANGED <<attemptVars, verdictVars, fileVars, radioVars>>
  <2>1. UNCHANGED <<state, fileVars, payloadVerified, query, txPacket, request>>
    BY <1>4 DEF attemptVars, verdictVars, radioVars
  <2>2. ~Sending' /\ (ReportUnderway' <=> ReportUnderway)
    BY <2>1 DEF Sending, ReportUnderway
  <2> QED
    BY <1>1, <2>1, <2>2, PhaseRefines
<1> QED
  BY <1>1, <1>2, <1>3, <1>4 DEF Notification

\* A dropped completion can be the end of a report that never left.
LEMMA DroppedRefines ==
  ASSUME ExchangeInv, ExchangeInv', Recorded, SameHistory, request' = request, inbound' = inbound,
         notification' = notification, query' = "none",
         UNCHANGED <<state, pending, txPacket, fileVars, payloadVerified>>
  PROVE  Recorded' /\ HandStep
<1>1. Sending' => Sending /\ Outgoing' = Outgoing
  BY DEF Sending, Outgoing
<1>2. Replied' => Replied
  BY DEF Replied, Slot
<1>3. Recorded'
  BY <1>1, <1>2 DEF Recorded, SameHistory, historyVars, fileVars
<1>4. Holds' = Holds /\ verifiedFile' = verifiedFile /\ completeHeard' = completeHeard
      /\ payloadVerified' = payloadVerified
  BY DEF Holds, SameHistory, historyVars, fileVars
<1>5. ReportUnderway' => ReportUnderway
  BY DEF ReportUnderway
<1>6. CASE ReportUnderway' <=> ReportUnderway
  BY <1>1, <1>2, <1>6, PhaseRefines
<1>7. CASE ReportUnderway /\ ~ReportUnderway'
  <2>1. Report = "sent" /\ Report' = "none"
    BY <1>4, <1>7, ReportMapped DEF Report
  <2> QED
    BY <1>3, <1>4, <2>1, HandLoses
<1> QED
  BY <1>5, <1>6, <1>7

LEMMA SetupRefines ==
  ASSUME ExchangeInv, ExchangeInv', Recorded, SameHistory, Answered(TRUE), ~GattDropped, GattSucceeded,
         state \in {"DISCOVER_SERVICE", "DISCOVER_CHARACTERISTIC"}
  PROVE  Recorded' /\ HandStep
<1> USE AnsweredContext
<1>1. \/ StartSetup("DISCOVER_CHARACTERISTIC", "characteristic", listening)
      \/ StartSetup("ENABLE_NOTIFICATIONS", "ccc", TRUE)
      \/ transfer_failed(state, connected, link) /\ query' = "none"
  BY DEF GattSucceeded, WritingStates
<1>2. \/ Closes
      \/ /\ \/ state' = "DISCOVER_CHARACTERISTIC" /\ query' = "characteristic"
            \/ state' = "ENABLE_NOTIFICATIONS" /\ query' = "ccc"
         /\ UNCHANGED <<pending, link, payloadVerified>>
  <2>1. "DISCOVER_CHARACTERISTIC" \in LinkedStates /\ "ENABLE_NOTIFICATIONS" \in LinkedStates
    BY DEF LinkedStates
  <2>2. Inv /\ state \in LinkedStates /\ abortRequested' = abortRequested
    BY DEF ExchangeInv
  <2> QED
    BY <1>1, <2>1, <2>2, SetupEffect, FailEffect
<1>3. CASE Closes
  BY <1>3, ClosesRefines
<1>4. CASE /\ \/ state' = "DISCOVER_CHARACTERISTIC" /\ query' = "characteristic"
              \/ state' = "ENABLE_NOTIFICATIONS" /\ query' = "ccc"
           /\ UNCHANGED <<pending, link, payloadVerified>>
  <2>1. /\ request = NoPacket /\ query # "write" /\ ~payloadVerified /\ query' # "write" /\ request' = NoPacket
        /\ state' \notin WritingStates \cup WaitingStates
    BY <1>4, LinkedFacts DEF ExchangeInv, OperationByState, Discovering, LinkedStates, WritingStates, WaitingStates
  <2>2. ~Sending' /\ ~ReportUnderway /\ ~ReportUnderway'
    BY <2>1 DEF Sending, ReportUnderway, NoPacket, Packet
  <2>3. Recorded'
    BY <1>4, <2>1, <2>2, OutsideRecorded
  <2>4. Holds = <<>> /\ Holds' = <<>>
    BY <1>4, <2>1 DEF Holds, WritingStates, WaitingStates
  <2>5. Report' = Report /\ verifiedFile' = verifiedFile
    BY <2>2 DEF Report, SameHistory, historyVars
  <2> QED
    BY <1>4, <2>3, <2>4, <2>5, HandStill
<1> QED
  BY <1>2, <1>3, <1>4

LEMMA HelloRefines ==
  ASSUME ExchangeInv, ExchangeInv', Recorded, SameHistory, Answered(TRUE), ~GattDropped, GattSucceeded,
         state = "ENABLE_NOTIFICATIONS"
  PROVE  Recorded' /\ HandStep
<1> DEFINE packet == Packet("HELLO", TARGET_BEACON_ID, <<>>)
<1> USE AnsweredContext
<1>1. query = "ccc" /\ request = NoPacket /\ inbound = <<>> /\ notification = NoPacket
  BY DEF ExchangeInv, OperationByState, Discovering
<1>2. ~Sending /\ AirTaken
  BY <1>1 DEF Sending, AirTaken
<1>3. pending = NoPacket
  BY DEF ExchangeInv, Ops, SlotByState, WritingStates
<1>4. write_packet(packet, "WRITE_HELLO", NoPacket)
  BY <1>3 DEF GattSucceeded, WritingStates
<1>5. Closes \/ Writes(packet, "WRITE_HELLO", NoPacket)
  BY <1>4, WriteEffect DEF ExchangeInv, WritingStates
<1>6. CASE Writes(packet, "WRITE_HELLO", NoPacket)
  <2>1. /\ "WRITE_HELLO" \in WritingStates /\ state \notin CompletePhase
        /\ "WRITE_HELLO" \notin StartPhase \cup {"WRITE_FILE_DATA"} \cup EndPhase \cup RequestPhase \cup NextPhase \cup CompletePhase
    BY DEF WritingStates, StartPhase, EndPhase, RequestPhase, NextPhase, CompletePhase
  <2> HIDE DEF packet
  <2> QED
    BY <1>2, <1>6, <2>1, WroteRefines
<1> QED
  BY <1>5, <1>6, ClosesRefines

LEMMA ChunkRefines ==
  ASSUME ExchangeInv, ExchangeInv', Recorded, SameHistory, Answered(TRUE), ~GattDropped, GattSucceeded,
         state = "WRITE_FILE_DATA"
  PROVE  Recorded' /\ HandStep
<1> USE AnsweredContext
<1>1. ~Sending
  BY WriteCompleted DEF WritingStates
<1>2. notification = NoPacket /\ inbound = <<>> /\ Slot = NoPacket
  BY DEF ExchangeInv, AnswerFits, Fits, FitsIn
<1>3. pending = NoPacket
  BY <1>2 DEF Slot, WritingStates
<1>4. write_next_robot_chunk(NoPacket)
  BY <1>3 DEF GattSucceeded
<1>5. AirTaken
  BY <1>2 DEF AirTaken
<1>6. verifiedFile = <<>> /\ ~completeHeard
  BY DEF Recorded
<1>7. Closes \/ \E packet, next : next \in {"WRITE_FILE_DATA", "WRITE_FILE_END"} /\ Writes(packet, next, NoPacket)
  BY <1>4, NextChunkProceeds DEF ExchangeInv
<1>8. CASE \E packet, next : next \in {"WRITE_FILE_DATA", "WRITE_FILE_END"} /\ Writes(packet, next, NoPacket)
  <2>1. PICK packet, next : next \in {"WRITE_FILE_DATA", "WRITE_FILE_END"} /\ Writes(packet, next, NoPacket)
    BY <1>8
  <2>2. /\ next \in WritingStates /\ state \notin CompletePhase
        /\ next \notin RequestPhase \cup NextPhase \cup CompletePhase
    BY <2>1 DEF WritingStates, RequestPhase, NextPhase, CompletePhase
  <2> QED
    BY <1>1, <1>5, <1>6, <2>1, <2>2, WroteRefines
<1> QED
  BY <1>7, <1>8, ClosesRefines

\* The client begins to wait, or takes the answer that overtook its write's completion.
LEMMA RequestRefines ==
  ASSUME ExchangeInv, ExchangeInv', Recorded, SameHistory, Answered(TRUE), ~GattDropped, GattSucceeded,
         state \in WritingStates \ {"WRITE_FILE_DATA"}
  PROVE  Recorded' /\ HandStep
<1> DEFINE s == AfterWrite[state]
<1> USE AnsweredContext
<1>1. ~Sending
  BY WriteCompleted
<1>2. EnterWaiting(s)
  BY DEF GattSucceeded, WritingStates
<1>3. s \in WaitingStates
  BY AfterWriteWaits
<1>4. CASE pending = NoPacket
  <2>1. MoveOn(s) /\ query' = "none" /\ UNCHANGED <<pending, verdictVars, fileVars, scanVars, link, txPacket>>
    BY <1>2, <1>4 DEF EnterWaiting
  <2>2. state' = s /\ UNCHANGED <<pending, fileVars, payloadVerified>>
    BY <2>1 DEF MoveOn, SetState, verdictVars
  <2>3. /\ state' \in HelloPhase <=> state \in HelloPhase
        /\ state' \in StartPhase <=> state \in StartPhase
        /\ state' \in EndPhase <=> state \in EndPhase
        /\ state' \in RequestPhase <=> state \in RequestPhase
        /\ state' \in NextPhase <=> state \in NextPhase
        /\ state' \in CompletePhase <=> state \in CompletePhase
    BY <2>2, AfterWritePhase
  <2>4. state' # "WRITE_FILE_DATA"
    BY <1>3, <2>2 DEF WaitingStates
  <2>5. ~Sending' /\ ~ReportUnderway /\ ~ReportUnderway'
    <3>1. request' = request
      OBVIOUS
    <3>2. request = NoPacket /\ query # "write"
      BY <1>1 DEF Sending
    <3> QED
      BY <2>1, <3>1, <3>2 DEF Sending, ReportUnderway, NoPacket, Packet
  <2>6. Replied' => Replied
    BY <1>4, <2>2 DEF Replied, Slot, SameBeacon, beaconVars
  <2>7. Recorded'
    BY <2>2, <2>3, <2>4, <2>5, <2>6 DEF Recorded, SameHistory, historyVars
  <2>8. Holds' = Holds
    BY <2>2, <2>3 DEF Holds, CompletePhase, fileVars
  <2>9. Report' = Report /\ verifiedFile' = verifiedFile
    BY <2>5 DEF Report, SameHistory, historyVars
  <2> QED
    BY <2>2, <2>7, <2>8, <2>9, HandStill
<1>5. CASE pending # NoPacket
  <2>1. Slot = pending
    BY DEF Slot
  <2>2. notification = NoPacket /\ inbound = <<>> /\ Fits(pending)
    BY <1>5, <2>1 DEF ExchangeInv, OneInFlight, AnswerFits
  <2>3. FitsIn(s, pending)
    BY <2>2, AfterWritePhase, <1>3 DEF Fits, FitsIn, WaitingStates
  <2>4. Consume(s, pending, "none")
    BY <1>2, <1>5 DEF EnterWaiting
  <2>5. AirTaken
    BY <2>2 DEF AirTaken
  <2>6. Taking(s, pending, "none") /\ Replied
    BY <1>1, <1>3, <1>5, <2>1, <2>2, <2>3, <2>4, <2>5 DEF Taking, Replied
  <2> HIDE DEF s
  <2> QED
    BY <2>6, TakeRefines
<1> QED
  BY <1>4, <1>5

LEMMA AnsweredRefines ==
  ASSUME ExchangeInv, ExchangeInv', Recorded, NEW ok \in BOOLEAN, Answered(ok)
  PROVE  Recorded' /\ HandStep
<1> USE AnsweredContext
<1>1. QueryComplete(ok) /\ SameHistory
  BY DEF Answered, SameHistory
<1>2. CASE GattDropped
  <2>1. /\ query' = "none"
        /\ UNCHANGED <<attemptVars, foundVars, fileVars, verdictVars, pending, scanVars, link, txPacket>>
    BY <1>1, <1>2 DEF QueryComplete
  <2>2. UNCHANGED <<state, pending, txPacket, fileVars, payloadVerified>> /\ notification' = notification
    BY <2>1 DEF attemptVars, verdictVars, SameBeacon, beaconVars
  <2> QED
    BY <1>1, <2>1, <2>2, DroppedRefines
<1>3. CASE ~GattDropped /\ Give_up(state, "none")
  <2>1. Closes
    BY <1>3, GiveUpEffect DEF ExchangeInv
  <2> QED
    BY <1>1, <2>1, ClosesRefines
<1>4. CASE ~GattDropped /\ ok /\ GattSucceeded
  <2>1. Answered(TRUE)
    <3>1. ok = TRUE
      BY <1>4
    <3> QED
      BY <3>1
  <2>2. state \in {"DISCOVER_SERVICE", "DISCOVER_CHARACTERISTIC", "ENABLE_NOTIFICATIONS"} \cup WritingStates
    BY <1>4 DEF GattSucceeded, WritingStates
  <2> QED
    BY <1>1, <1>4, <2>1, <2>2, SetupRefines, HelloRefines, ChunkRefines, RequestRefines
<1> QED
  BY <1>1, <1>2, <1>3, <1>4 DEF QueryComplete

LEMMA HandoverInit == ExchangeInit => Recorded /\ Promise!Init
<1> SUFFICES ASSUME ExchangeInit PROVE Recorded /\ Promise!Init
  OBVIOUS
<1>1. /\ state = "IDLE" /\ query = "none" /\ payloadVerified = FALSE /\ request = NoPacket
      /\ verifiedFile = <<>> /\ completeHeard = FALSE
  BY DEF ExchangeInit, Init
<1>2. ~Sending /\ ~ReportUnderway
  BY <1>1 DEF Sending, ReportUnderway, NoPacket, Packet
<1>3. Recorded
  BY <1>1, <1>2 DEF Recorded, HelloPhase, StartPhase, EndPhase, RequestPhase, NextPhase, CompletePhase
<1>4. Promise!Init
  BY <1>1, <1>2 DEF Promise!Init
<1> QED
  BY <1>3, <1>4

\* Every step of the exchange is a step of the hand-over or leaves it alone.
LEMMA HandoverStep ==
  ASSUME ExchangeInv, ExchangeInv', Recorded, [ExchangeNext]_exchangeVars
  PROVE  Recorded' /\ HandStep
<1>1. CASE RobotAlone
  BY <1>1, RobotAloneRefines
<1>2. CASE BeaconStarts \/ BeaconSeesLink \/ BeaconSeesLoss \/ Beacon_enable \/ NotificationLeaves \/ UNCHANGED exchangeVars
  BY <1>2, BeaconQuietRefines
<1>3. CASE LinkUp
  BY <1>3, LinkUpRefines
<1>4. CASE LinkLost
  BY <1>4, LinkLostRefines
<1>5. CASE RobotSeesLoss
  BY <1>5, RobotSeesLossRefines
<1>6. CASE WriteLeaves
  BY <1>6, WriteLeavesRefines
<1>7. CASE Beacon_write
  BY <1>7, Beacon_writeRefines
<1>8. CASE NotificationArrives
  BY <1>8, NotificationArrivesRefines
<1>9. CASE \E ok \in BOOLEAN : Answered(ok)
  BY <1>9, AnsweredRefines
<1> QED
  BY <1>1, <1>2, <1>3, <1>4, <1>5, <1>6, <1>7, <1>8, <1>9 DEF ExchangeNext

\* The client of payload_client.c and the server of beacon_server.c keep the promise
\* of Handover: whatever is lost, late or retried, the robot calls the payload
\* delivered only when both files arrived and the beacon has heard so in this very
\* transfer.
THEOREM ExchangeImplementsHandover == ExchangeSpec => HandoverKept
<1>1. ExchangeInit => Recorded /\ Promise!Init
  BY HandoverInit
<1>2. /\ ExchangeInv /\ ExchangeInv' /\ Recorded /\ [ExchangeNext]_exchangeVars
      => Recorded' /\ [Promise!Next]_(Promise!handoverVars)
  BY HandoverStep DEF HandStep
<1> QED
  BY <1>1, <1>2, ExchangeInvariance, PTL DEF ExchangeSpec, HandoverKept, Promise!Spec
=============================================================================
