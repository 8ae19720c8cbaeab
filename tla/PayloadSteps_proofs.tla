------------------------ MODULE PayloadSteps_proofs ------------------------
(***************************************************************************)
(* What a step of the payload client may never do: rewrite the buffer of a *)
(* queued write, start something in an aborted attempt, or leave an early  *)
(* notification behind.  Each step is first summarised by what it does to  *)
(* the exchange (Quiet, Unlinked, Closes, ...); Exchange_proofs builds on  *)
(* the same summaries.                                                     *)
(***************************************************************************)
EXTENDS PayloadClient_proofs

-----------------------------------------------------------------------------
(* The slot and the GATT operation, phase by phase                          *)

SlotByState == pending # NoPacket => state \in WritingStates \cup {"STARTING", "IDLE"}

\* Until the attempt is aborted its phase says which operation is outstanding.
QueryByState ==
  ~abortRequested =>
    /\ state = "DISCOVER_SERVICE" => query = "service"
    /\ state = "DISCOVER_CHARACTERISTIC" => query = "characteristic"
    /\ state = "ENABLE_NOTIFICATIONS" => query = "ccc"
    /\ state \in WritingStates => query \in {"write", "sent"}
    /\ state \in WaitingStates => query = "none"

Ops == SlotByState /\ QueryByState

\* How a step leaves the exchange alone.
Quiet ==
  /\ UNCHANGED <<state, pending, query, txPacket, link, fileVars, payloadVerified>>
  /\ abortRequested => abortRequested'

\* The client has no connection, before or after; a verdict is kept with its file.
Unlinked ==
  /\ link \notin {"up", "closing"} /\ link' \notin {"up", "closing"}
  /\ UNCHANGED <<query, txPacket>>
  /\ pending' # NoPacket => state' \in {"STARTING", "IDLE"}
  /\ payloadVerified' => payloadVerified
  /\ payloadVerified => payloadVerified' /\ replyFile' = replyFile

\* The connection is given up.
Closes ==
  /\ state \in LinkedStates /\ state' = "CLOSING" /\ pending' = NoPacket
  /\ link' \in {"up", "closing"} /\ ~payloadVerified'
  /\ abortRequested' = abortRequested
  /\ query' = "none" \/ (query' = query /\ txPacket' = txPacket)

\* The states between attempts and before a connection are not linked ones.
LEMMA UnlinkedStates ==
  ASSUME Inv, link \notin {"up", "closing"}
  PROVE  state \notin LinkedStates /\ query = "none" /\ ~connected
BY DEF Inv, LinkByState

LEMMA StartEffect ==
  ASSUME Inv, NEW reconnect \in BOOLEAN, run_attempt(reconnect)
  PROVE  Quiet \/ Unlinked
<1>1. /\ pc = "caller" /\ UNCHANGED <<fileVars, pending, query, txPacket, link, payloadVerified>>
  BY DEF run_attempt, radioVars, verdictVars
<1>2. CASE ~MayStart(reconnect)
  BY <1>1, <1>2 DEF run_attempt, Quiet
<1>3. CASE MayStart(reconnect)
  <2>1. state = "IDLE" /\ link = "none"
    BY <1>3 DEF MayStart, Inv, LifeByState, LinkByState, LinkedStates, WritingStates, WaitingStates
  <2>2. state' = "STARTING"
    BY <1>3 DEF run_attempt, SetState
  <2> QED
    BY <1>1, <2>1, <2>2 DEF Unlinked, fileVars
<1> QED
  BY <1>2, <1>3

LEMMA LoopEffect ==
  ASSUME Inv, MainLoop
  PROVE  Quiet
<1>1. UNCHANGED <<state, pending, query, txPacket, link, fileVars, payloadVerified>>
  BY DEF MainLoop, LoopTest, LoopCleanup, LoopTimeout, LoopQueueAbort, LoopAbortAge, InterruptState, radioVars
<1>2. abortRequested => abortRequested'
  BY DEF MainLoop, LoopTest, LoopCleanup, LoopTimeout, LoopQueueAbort, LoopAbortAge
<1> QED
  BY <1>1, <1>2 DEF Quiet

LEMMA start_attempt_Effect ==
  ASSUME Inv, Ops, start_attempt_callback
  PROVE  Quiet \/ Unlinked
<1>1. state = "STARTING" /\ link = "none" /\ ~payloadVerified
  <2>1. callbacks \in {<<>>, <<"init">>, <<"start">>, <<"abort">>, <<"start", "abort">>}
        /\ callbacks # <<>> /\ Head(callbacks) = "start"
    BY DEF start_attempt_callback, NextCallback, Inv, TypeOK, RadioTypeOK
  <2>2. callbacks \in {<<"start">>, <<"start", "abort">>}
    BY <2>1, QueueFacts
  <2> QED
    BY <2>2 DEF Inv, LifeByState, LinkByState, VerdictByState, LinkedStates, WritingStates, WaitingStates
<1>2. UNCHANGED <<query, txPacket>>
  BY DEF start_attempt_callback
<1>3. CASE abortRequested
  BY <1>1, <1>2, <1>3 DEF start_attempt_callback, finish_attempt, SetState, verdictVars, Unlinked
<1>4. CASE ~abortRequested /\ reconnectRequested
  <2>1. begin_connection /\ pending' = NoPacket
    BY <1>4 DEF start_attempt_callback, ForgetAttempt
  <2>2. link' \in {"pending", link} /\ ~payloadVerified'
    BY <2>1, BeginConnection
  <2> QED
    BY <1>1, <1>2, <2>1, <2>2 DEF Unlinked
<1>5. CASE ~abortRequested /\ ~reconnectRequested
  BY <1>1, <1>2, <1>5 DEF start_attempt_callback, ForgetAttempt, Unlinked
<1> QED
  BY <1>3, <1>4, <1>5

LEMMA abort_attempt_Effect ==
  ASSUME Inv, Ops, abort_attempt_callback
  PROVE  Quiet \/ Unlinked \/ Closes
<1>1. UNCHANGED <<fileVars, OutsideAttempt, query, txPacket, payloadVerified>>
  BY DEF abort_attempt_callback
<1>2. CASE ~attemptRunning \/ state \in CleanupStates
  <2>1. UNCHANGED <<attemptVars, pending, link>>
    BY <1>2 DEF abort_attempt_callback
  <2> QED
    BY <1>1, <2>1 DEF Quiet, attemptVars, OutsideAttempt, mainVars
<1>3. CASE attemptRunning /\ state \notin CleanupStates
  <2>1. PICK r : close_attempt(state, connected, link, r)
    BY <1>3 DEF abort_attempt_callback
  <2>2. CASE state \in LinkedStates
    <3>1. connected /\ ~payloadVerified /\ link = "up"
      BY <2>2, LinkedFacts
    <3>2. state' = "CLOSING" /\ pending' = NoPacket /\ link' \in {"up", "closing"}
      BY <2>1, <2>2, <3>1 DEF close_attempt, Enter, SetState, LinkedStates, WritingStates, WaitingStates
    <3> QED
      BY <1>1, <2>2, <3>1, <3>2 DEF Closes, OutsideAttempt, mainVars
  <2>3. CASE state \notin LinkedStates
    <3>1. link \notin {"up", "closing"} /\ ~connected
      BY <1>3, <2>3 DEF Inv, LinkByState, CleanupStates
    <3>2. pending' = NoPacket /\ link' \in {link, "cancelling"}
      BY <2>1, <3>1 DEF close_attempt
    <3> QED
      BY <1>1, <3>1, <3>2 DEF Unlinked, fileVars
  <2> QED
    BY <2>2, <2>3
<1> QED
  BY <1>2, <1>3

LEMMA ContextEffect ==
  ASSUME Inv, Ops, ContextCallback
  PROVE  Quiet \/ Unlinked \/ Closes
<1>1. CASE initialise_client_callback
  BY <1>1 DEF initialise_client_callback, Quiet, attemptVars, mainVars, radioVars
<1> QED
  BY <1>1, start_attempt_Effect, abort_attempt_Effect DEF ContextCallback

LEMMA ScanEffect ==
  ASSUME Inv, Ops, \/ SendScanCommand \/ ScanCommandFailed \/ ScanCommandComplete
                   \/ \E close \in BOOLEAN : Advertisement(close)
  PROVE  Quiet \/ Unlinked
<1>1. CASE SendScanCommand
  BY <1>1 DEF SendScanCommand, Quiet, attemptVars, verdictVars, OutsideAttempt, mainVars
<1>2. CASE ScanCommandFailed
  <2>1. link \notin {"up", "closing"}
    BY <1>2 DEF ScanCommandFailed, Inv, ScanByState, ScanQuiet, LinkByState, LinkedStates, WritingStates, WaitingStates
  <2> QED
    BY <1>2, <2>1 DEF ScanCommandFailed, finish_attempt, SetState, Unlinked, fileVars
<1>3. CASE ScanCommandComplete
  <2>1. UNCHANGED <<fileVars, query, txPacket, OutsideAttempt>>
    BY <1>3 DEF ScanCommandComplete
  <2>2. link \notin {"up", "closing"}
    BY <1>3 DEF ScanCommandComplete, Inv, ScanByState, ScanQuiet, LinkByState, LinkedStates, WritingStates, WaitingStates
  <2>3. CASE state = "STOPPING_FOR_CONNECT" /\ ~abortRequested
    <3>1. begin_connection /\ ~payloadVerified
      BY <1>3, <2>3 DEF ScanCommandComplete, Inv, VerdictByState
    <3>2. pending' = NoPacket /\ link' \in {"pending", link} /\ ~payloadVerified'
      BY <3>1, BeginConnection
    <3> QED
      BY <2>1, <2>2, <3>1, <3>2 DEF Unlinked
  <2>4. CASE state = "STOPPING_SCAN" \/ (state = "STOPPING_FOR_CONNECT" /\ abortRequested)
    <3>1. state' = "IDLE" /\ UNCHANGED <<verdictVars, link>>
      BY <1>3, <2>4 DEF ScanCommandComplete, finish_attempt, SetState
    <3> QED
      BY <2>1, <2>2, <3>1 DEF Unlinked, fileVars, verdictVars
  <2>5. CASE state \notin {"STOPPING_FOR_CONNECT", "STOPPING_SCAN"}
    <3>1. UNCHANGED <<attemptVars, verdictVars, pending, link>>
      BY <1>3, <2>5 DEF ScanCommandComplete
    <3> QED
      BY <2>1, <3>1 DEF Quiet, attemptVars, verdictVars, OutsideAttempt, mainVars
  <2> QED
    BY <2>3, <2>4, <2>5
<1>4. ASSUME NEW close \in BOOLEAN, Advertisement(close)
      PROVE  Quiet \/ Unlinked
  <2>1. /\ state = "SCANNING" /\ UNCHANGED <<fileVars, verdictVars, pending, OutsideAttempt, query, txPacket>>
        /\ link' = link
    BY <1>4 DEF Advertisement, OpenGate
  <2>2. link = "none" /\ pending = NoPacket
    BY <2>1 DEF Inv, LinkByState, Ops, SlotByState, LinkedStates, WritingStates, WaitingStates
  <2> QED
    BY <2>1, <2>2 DEF Unlinked, fileVars, verdictVars
<1> QED
  BY <1>1, <1>2, <1>3, <1>4

LEMMA ConnectionFailedEffect ==
  ASSUME Inv, Ops, ConnectionFailed
  PROVE  Unlinked
<1>1. /\ link \in {"pending", "cancelling"} /\ state \in {"CONNECTING", "CLOSING"}
      /\ UNCHANGED <<fileVars, query, txPacket>>
  BY DEF ConnectionFailed
<1>2. CASE state = "CLOSING"
  BY <1>1, <1>2 DEF ConnectionFailed, finish_attempt, SetState, Unlinked, fileVars, verdictVars
<1>3. CASE state = "CONNECTING"
  <2>1. transfer_failed("IDLE", FALSE, "none") /\ ~payloadVerified
    BY <1>1, <1>3 DEF ConnectionFailed, Inv, VerdictByState
  <2>2. pending' = NoPacket /\ link' = "none" /\ ~payloadVerified'
    BY <2>1 DEF transfer_failed, close_attempt
  <2> QED
    BY <1>1, <2>1, <2>2 DEF Unlinked
<1> QED
  BY <1>1, <1>2, <1>3

LEMMA FoundEffect ==
  ASSUME ServiceResult \/ CharacteristicResult \/ StackWorking \/ PressStop \/ Tick \/ payload_client_init
  PROVE  Quiet
<1> USE DEF Quiet, attemptVars, verdictVars, radioVars, OutsideAttempt, mainVars
<1>1. CASE ServiceResult \/ CharacteristicResult
  BY <1>1 DEF ServiceResult, CharacteristicResult
<1>2. CASE StackWorking \/ PressStop
  BY <1>2 DEF StackWorking, PressStop
<1>3. CASE Tick \/ payload_client_init
  BY <1>3 DEF Tick, payload_client_init
<1> QED
  BY <1>1, <1>2, <1>3

\* The robot's steps that do not use the link.
RobotStep ==
  \/ payload_client_init \/ payload_client_attempt \/ payload_client_retry \/ MainLoop
  \/ ContextCallback \/ ServiceResult \/ CharacteristicResult
  \/ SendScanCommand \/ ScanCommandFailed \/ ScanCommandComplete
  \/ \E close \in BOOLEAN : Advertisement(close)
  \/ ConnectionFailed \/ StackWorking \/ PressStop \/ Tick

LEMMA RobotStepEffect ==
  ASSUME Inv, Ops, RobotStep
  PROVE  Quiet \/ Unlinked \/ Closes
<1>1. CASE payload_client_attempt \/ payload_client_retry
  BY <1>1, StartEffect DEF payload_client_attempt, payload_client_retry
<1>2. CASE MainLoop
  BY <1>2, LoopEffect
<1>3. CASE ContextCallback
  BY <1>3, ContextEffect
<1>4. CASE \/ SendScanCommand \/ ScanCommandFailed \/ ScanCommandComplete
           \/ \E close \in BOOLEAN : Advertisement(close)
  BY <1>4, ScanEffect
<1>5. CASE ConnectionFailed
  BY <1>5, ConnectionFailedEffect
<1>6. CASE ServiceResult \/ CharacteristicResult \/ StackWorking \/ PressStop \/ Tick \/ payload_client_init
  BY <1>6, FoundEffect
<1> QED
  BY <1>1, <1>2, <1>3, <1>4, <1>5, <1>6 DEF RobotStep

LEMMA RobotStepInv ==
  ASSUME Inv, RobotStep
  PROVE  Inv'
<1>1. CASE payload_client_init \/ payload_client_attempt \/ payload_client_retry
  BY <1>1, payload_client_init_Inv, run_attempt_Inv DEF payload_client_attempt, payload_client_retry
<1>2. CASE MainLoop
  BY <1>2, LoopTest_Inv, LoopCleanup_Inv, LoopTimeout_Inv, LoopQueueAbort_Inv, LoopAbortAge_Inv DEF MainLoop
<1>3. CASE ContextCallback
  BY <1>3, start_attempt_callback_Inv, abort_attempt_callback_Inv, initialise_client_callback_Inv DEF ContextCallback
<1>4. CASE SendScanCommand \/ ScanCommandFailed \/ ScanCommandComplete \/ \E close \in BOOLEAN : Advertisement(close)
  BY <1>4, SendScanCommand_Inv, ScanCommandFailed_Inv, ScanCommandComplete_Inv, Advertisement_Inv
<1>5. CASE ServiceResult \/ CharacteristicResult \/ ConnectionFailed
  BY <1>5, ServiceResult_Inv, CharacteristicResult_Inv, ConnectionFailed_Inv
<1>6. CASE StackWorking \/ PressStop \/ Tick
  BY <1>6, StackWorking_Inv, PressStop_Inv, Tick_Inv
<1> QED
  BY <1>1, <1>2, <1>3, <1>4, <1>5, <1>6 DEF RobotStep

-----------------------------------------------------------------------------
(* The GATT callbacks                                                       *)

\* BTstack has taken a write.
Writes(packet, s, slot) ==
  /\ state' = s /\ query' = "write" /\ txPacket' = packet /\ pending' = slot
  /\ UNCHANGED <<link, payloadVerified, abortRequested>>

\* The payload is called delivered.
Confirms(op) ==
  /\ state' = "CLOSING" /\ pending' = NoPacket /\ query' = op /\ payloadVerified'
  /\ link' \in {"up", "closing"} /\ UNCHANGED <<fileVars, txPacket, abortRequested>>

LEMMA WriteEffect ==
  ASSUME Inv, state \in LinkedStates, NEW packet, NEW slot, NEW s \in WritingStates,
         write_packet(packet, s, slot), abortRequested' = abortRequested
  PROVE  Closes \/ Writes(packet, s, slot)
<1>1. connected /\ link = "up"
  BY LinkedFacts
<1>2. CASE MoveOn(s) /\ query' = "write" /\ pending' = slot /\ UNCHANGED <<scanWanted, link, verdictVars>>
  BY <1>2 DEF write_packet, Writes, MoveOn, SetState, verdictVars
<1>3. CASE transfer_failed(s, connected, link) /\ query' = "none"
  <2>1. state' = "CLOSING" /\ pending' = NoPacket /\ link' \in {"up", "closing"} /\ payloadVerified' = FALSE
    BY <1>1, <1>3 DEF transfer_failed, close_attempt, Enter, SetState, WritingStates
  <2> QED
    BY <1>3, <2>1 DEF Closes
<1> QED
  BY <1>2, <1>3 DEF write_packet

LEMMA FailEffect ==
  ASSUME Inv, state \in LinkedStates, NEW s \in LinkedStates, transfer_failed(s, connected, link),
         query' = "none" \/ (query' = query /\ txPacket' = txPacket), abortRequested' = abortRequested
  PROVE  Closes
<1>1. connected /\ link = "up"
  BY LinkedFacts
<1>2. state' = "CLOSING" /\ pending' = NoPacket /\ link' \in {"up", "closing"} /\ payloadVerified' = FALSE
  BY <1>1 DEF transfer_failed, close_attempt, Enter, SetState, LinkedStates, WritingStates, WaitingStates
<1> QED
  BY <1>2 DEF Closes

LEMMA GiveUpEffect ==
  ASSUME Inv, state \in LinkedStates, NEW s \in LinkedStates, NEW op \in {"none", query}, Give_up(s, op),
         abortRequested' = abortRequested
  PROVE  Closes
BY FailEffect DEF Give_up

\* What handle_notification does in a phase that waits.
LEMMA ConsumeEffect ==
  ASSUME Inv, state \in LinkedStates, NEW s \in LinkedStates, NEW m, NEW op \in {"none", query},
         Consume(s, m, op), abortRequested' = abortRequested
  PROVE  \/ Closes \/ Ignore(s, op)
         \/ Confirms(op) /\ Accept_COMPLETE_ACK(s, m, op)
         \/ s \in WaitingStates /\ \E packet, s2 : s2 \in WritingStates /\ Writes(packet, s2, NoPacket)
<1>1. CASE Give_up(s, op)
  BY <1>1, GiveUpEffect
<1>2. CASE Accept_HELLO_ACK(s, m, op) /\ ~Give_up(s, op)
  <2>1. write_packet(Packet("FILE_START", Len(RobotFile), RobotFile), "WRITE_FILE_START", NoPacket)
    BY <1>2 DEF Accept_HELLO_ACK
  <2> QED
    BY <1>2, <2>1, WriteEffect DEF Accept_HELLO_ACK, WritingStates, WaitingStates
<1>3. CASE Accept_FILE_READY(s, m, op) /\ ~Give_up(s, op)
  <2>1. write_next_robot_chunk(NoPacket) /\ s \in WaitingStates
    BY <1>3 DEF Accept_FILE_READY, WaitingStates
  <2> QED
    BY <2>1, WriteEffect DEF write_next_robot_chunk, WritingStates
<1>4. CASE Accept_FILE_RECEIVED(s, m, op) /\ ~Give_up(s, op)
  <2>1. write_simple("REPLY_REQUEST", "WRITE_REPLY_REQUEST") /\ s \in WaitingStates
    BY <1>4 DEF Accept_FILE_RECEIVED, WaitingStates
  <2> QED
    BY <2>1, WriteEffect DEF write_simple, WritingStates
<1>5. CASE (Accept_REPLY_START(s, m, op) \/ Accept_REPLY_DATA(s, m, op)) /\ ~Give_up(s, op)
  <2>1. write_simple("REPLY_NEXT", "WRITE_REPLY_NEXT") /\ s \in WaitingStates
    BY <1>5 DEF Accept_REPLY_START, Accept_REPLY_DATA, WaitingStates
  <2> QED
    BY <2>1, WriteEffect DEF write_simple, WritingStates
<1>6. CASE Accept_REPLY_END(s, m, op) /\ ~Give_up(s, op)
  <2>1. write_simple("COMPLETE", "WRITE_COMPLETE") /\ s \in WaitingStates
    BY <1>6 DEF Accept_REPLY_END, WaitingStates
  <2> QED
    BY <2>1, WriteEffect DEF write_simple, WritingStates
<1>7. CASE Accept_COMPLETE_ACK(s, m, op) /\ ~Give_up(s, op)
  <2>1. connected /\ link = "up"
    BY LinkedFacts
  <2>2. /\ payloadVerified' = TRUE /\ query' = op /\ UNCHANGED <<fileVars, txPacket>>
        /\ close_attempt(s, connected, link, "COMPLETE") /\ s = "WAIT_COMPLETE_ACK"
    BY <1>7 DEF Accept_COMPLETE_ACK
  <2>3. state' = "CLOSING" /\ pending' = NoPacket /\ link' \in {"up", "closing"}
    BY <2>1, <2>2 DEF close_attempt, Enter, SetState
  <2> QED
    BY <1>7, <2>2, <2>3 DEF Confirms
<1> QED
  BY <1>1, <1>2, <1>3, <1>4, <1>5, <1>6, <1>7 DEF Consume

-----------------------------------------------------------------------------
(* The phases keep their slot and their operation                           *)

LEMMA QuietOps ==
  ASSUME Ops, Quiet
  PROVE  Ops'
BY DEF Ops, SlotByState, QueryByState, Quiet

LEMMA UnlinkedOps ==
  ASSUME Inv', Unlinked
  PROVE  Ops'
<1>1. state' \notin LinkedStates
  BY DEF Inv, LinkByState, Unlinked
<1>2. SlotByState'
  BY DEF Unlinked, SlotByState
<1>3. QueryByState'
  BY <1>1 DEF QueryByState, LinkedStates
<1> QED
  BY <1>2, <1>3 DEF Ops

LEMMA ClosesOps ==
  ASSUME Closes
  PROVE  Ops'
BY DEF Ops, SlotByState, QueryByState, Closes, WritingStates, WaitingStates

LEMMA WritesOps ==
  ASSUME NEW packet, NEW slot, NEW s \in WritingStates, Writes(packet, s, slot)
  PROVE  Ops'
BY DEF Ops, SlotByState, QueryByState, Writes, WritingStates, WaitingStates

\* An ignored notification leaves a phase that has no operation open, or the
\* operation of a set-up phase as it was.
LEMMA IgnoreOps ==
  ASSUME Ops, NEW s, NEW op, Ignore(s, op), abortRequested' = abortRequested,
         \/ s = state /\ op = query
         \/ s \in WaitingStates /\ op = "none"
  PROVE  Ops'
<1>1. pending' = NoPacket /\ query' = op /\ state' = s
  BY DEF Ignore, MoveOn, SetState, attemptVars
<1>2. QueryByState'
  BY <1>1 DEF Ops, QueryByState, WritingStates, WaitingStates
<1> QED
  BY <1>1, <1>2 DEF Ops, SlotByState

LEMMA ConsumeOps ==
  ASSUME Inv, Ops, state \in LinkedStates, NEW s \in LinkedStates, NEW m, NEW op \in {"none", query},
         Consume(s, m, op), abortRequested' = abortRequested,
         \/ s = state /\ op = query
         \/ s \in WaitingStates /\ op = "none"
  PROVE  Ops'
<1>1. CASE Closes
  BY <1>1, ClosesOps
<1>2. CASE Ignore(s, op)
  BY <1>2, IgnoreOps
<1>3. CASE Confirms(op)
  BY <1>3 DEF Confirms, Ops, SlotByState, QueryByState, WritingStates, WaitingStates
<1>4. CASE \E packet, s2 : s2 \in WritingStates /\ Writes(packet, s2, NoPacket)
  BY <1>4, WritesOps
<1> QED
  BY <1>1, <1>2, <1>3, <1>4, ConsumeEffect

LEMMA NotificationOps ==
  ASSUME Inv, Ops, NEW m, Notification(m)
  PROVE  Ops'
<1>1. state \in LinkedStates /\ abortRequested' = abortRequested
  BY GattState DEF Notification, OutsideAttempt, mainVars
<1>2. CASE Consume(state, m, query)
  BY <1>1, <1>2, ConsumeOps
<1>3. CASE Give_up(state, query)
  BY <1>1, <1>3, GiveUpEffect, ClosesOps
<1>4. CASE state \in WritingStates /\ UNCHANGED <<attemptVars, radioVars>>
  BY <1>1, <1>4 DEF attemptVars, radioVars, Ops, SlotByState, QueryByState
<1> QED
  BY <1>2, <1>3, <1>4 DEF Notification

LEMMA PacketSentOps ==
  ASSUME Inv, Ops, PacketSent
  PROVE  Ops'
<1>1. /\ query = "write" /\ query' = "sent" /\ pending' = pending /\ state' = state
      /\ abortRequested' = abortRequested
  BY DEF PacketSent, attemptVars, OutsideAttempt, mainVars
<1>2. ~abortRequested => state \notin WaitingStates \cup {"DISCOVER_SERVICE", "DISCOVER_CHARACTERISTIC", "ENABLE_NOTIFICATIONS"}
  BY <1>1 DEF Ops, QueryByState
<1> QED
  BY <1>1, <1>2 DEF Ops, SlotByState, QueryByState

LEMMA ConnectionSucceededOps ==
  ASSUME Inv, Ops, ConnectionSucceeded
  PROVE  Ops'
<1>1. state \in {"CONNECTING", "CLOSING"} /\ pending = NoPacket /\ abortRequested' = abortRequested
  BY DEF ConnectionSucceeded, OutsideAttempt, mainVars, Ops, SlotByState, WritingStates
<1>2. CASE state' = "CLOSING" /\ pending' = NoPacket
  BY <1>2 DEF Ops, SlotByState, QueryByState, WritingStates, WaitingStates
<1>3. CASE state' = "DISCOVER_SERVICE" /\ query' = "service" /\ pending' = NoPacket
  BY <1>3 DEF Ops, SlotByState, QueryByState, WritingStates, WaitingStates
<1>4. CASE transfer_failed("DISCOVER_SERVICE", TRUE, "up")
  <2>1. state' = "CLOSING" /\ pending' = NoPacket
    BY <1>4 DEF transfer_failed, close_attempt, Enter, SetState
  <2> QED
    BY <2>1, <1>2
<1> QED
  BY <1>1, <1>2, <1>3, <1>4 DEF ConnectionSucceeded, Enter, SetState

LEMMA DisconnectionOps ==
  ASSUME Disconnection
  PROVE  state' = "IDLE" /\ Ops'
<1>1. state' = "IDLE"
  BY DEF Disconnection, finish_attempt, SetState
<1> QED
  BY <1>1 DEF Ops, SlotByState, QueryByState, WritingStates, WaitingStates

\* The next set-up operation is asked for, or the link is given up.
LEMMA SetupEffect ==
  ASSUME Inv, state \in LinkedStates, NEW s \in LinkedStates, NEW op, NEW listen, StartSetup(s, op, listen),
         abortRequested' = abortRequested
  PROVE  \/ Closes
         \/ state' = s /\ query' = op /\ UNCHANGED <<pending, link, payloadVerified>>
<1>1. CASE transfer_failed(s, connected, link) /\ query' = "none"
  BY <1>1, FailEffect
<1>2. CASE SetState(s) /\ query' = op /\ UNCHANGED <<verdictVars, pending, link>>
  BY <1>2 DEF SetState, verdictVars
<1> QED
  BY <1>1, <1>2 DEF StartSetup

\* A robot chunk, or the end of the file, is handed to BTstack.
LEMMA ChunkEffect ==
  ASSUME Inv, state \in LinkedStates, NEW slot, write_next_robot_chunk(slot), abortRequested' = abortRequested
  PROVE  \/ Closes
         \/ \E packet : Writes(packet, "WRITE_FILE_END", slot) \/ Writes(packet, "WRITE_FILE_DATA", slot)
<1>1. CASE robotOffset = Len(RobotFile)
  <2>1. write_packet(Packet("FILE_END", 0, <<>>), "WRITE_FILE_END", slot)
    BY <1>1 DEF write_next_robot_chunk
  <2> QED
    BY <2>1, WriteEffect DEF WritingStates
<1>2. CASE robotOffset # Len(RobotFile)
  <2>1. PICK packet : write_packet(packet, "WRITE_FILE_DATA", slot)
    BY <1>2 DEF write_next_robot_chunk
  <2> QED
    BY <2>1, WriteEffect DEF WritingStates
<1> QED
  BY <1>1, <1>2

LEMMA AfterWriteWaits ==
  ASSUME state \in WritingStates \ {"WRITE_FILE_DATA"}
  PROVE  AfterWrite[state] \in WaitingStates /\ AfterWrite[state] \in LinkedStates
BY DEF AfterWrite, LinkedStates, WaitingStates, WritingStates

LEMMA QueryCompleteOps ==
  ASSUME Inv, Ops, NEW ok \in BOOLEAN, QueryComplete(ok)
  PROVE  Ops'
<1>1. abortRequested' = abortRequested /\ link \in {"up", "closing"}
  BY DEF QueryComplete, OutsideAttempt, mainVars, Inv, LinkByState
<1>2. CASE GattDropped
  <2>1. query' = "none" /\ pending' = pending /\ state' = state
    BY <1>2 DEF QueryComplete, attemptVars
  <2> QED
    BY <1>1, <1>2, <2>1 DEF GattDropped, Ops, SlotByState, QueryByState, WritingStates, WaitingStates
<1> SUFFICES ASSUME ~GattDropped PROVE Ops'
  BY <1>2
<1>3. state \in LinkedStates
  BY <1>1, GattState
<1>4. CASE Give_up(state, "none")
  BY <1>1, <1>3, <1>4, GiveUpEffect, ClosesOps
<1>5. CASE state = "DISCOVER_SERVICE" /\ GattSucceeded
  <2>1. \/ StartSetup("DISCOVER_CHARACTERISTIC", "characteristic", listening)
        \/ transfer_failed(state, connected, link) /\ query' = "none"
    BY <1>5 DEF GattSucceeded, WritingStates
  <2>2. \/ Closes
        \/ state' = "DISCOVER_CHARACTERISTIC" /\ query' = "characteristic" /\ pending' = pending
    BY <1>1, <1>3, <2>1, SetupEffect, FailEffect DEF LinkedStates
  <2> QED
    BY <1>5, <2>2, ClosesOps DEF Ops, SlotByState, QueryByState, WritingStates, WaitingStates
<1>6. CASE state = "DISCOVER_CHARACTERISTIC" /\ GattSucceeded
  <2>1. \/ StartSetup("ENABLE_NOTIFICATIONS", "ccc", TRUE)
        \/ transfer_failed(state, connected, link) /\ query' = "none"
    BY <1>6 DEF GattSucceeded, WritingStates
  <2>2. \/ Closes
        \/ state' = "ENABLE_NOTIFICATIONS" /\ query' = "ccc" /\ pending' = pending
    BY <1>1, <1>3, <2>1, SetupEffect, FailEffect DEF LinkedStates
  <2> QED
    BY <1>6, <2>2, ClosesOps DEF Ops, SlotByState, QueryByState, WritingStates, WaitingStates
<1>7. CASE state = "ENABLE_NOTIFICATIONS" /\ GattSucceeded
  <2>1. write_packet(Packet("HELLO", TARGET_BEACON_ID, <<>>), "WRITE_HELLO", pending)
    BY <1>7 DEF GattSucceeded, WritingStates
  <2>2. Closes \/ Writes(Packet("HELLO", TARGET_BEACON_ID, <<>>), "WRITE_HELLO", pending)
    BY <1>1, <1>3, <2>1, WriteEffect DEF WritingStates
  <2> QED
    BY <2>2, ClosesOps, WritesOps DEF WritingStates
<1>8. CASE state = "WRITE_FILE_DATA" /\ GattSucceeded
  <2>1. write_next_robot_chunk(pending)
    BY <1>8 DEF GattSucceeded
  <2> QED
    BY <1>1, <1>3, <2>1, ChunkEffect, ClosesOps, WritesOps DEF WritingStates
<1>9. CASE state \in WritingStates \ {"WRITE_FILE_DATA"} /\ EnterWaiting(AfterWrite[state])
  <2>1. AfterWrite[state] \in WaitingStates /\ AfterWrite[state] \in LinkedStates
    BY <1>9, AfterWriteWaits
  <2>2. CASE pending = NoPacket
    <3>1. state' = AfterWrite[state] /\ query' = "none" /\ pending' = pending
      BY <1>9, <2>2 DEF EnterWaiting, MoveOn, SetState
    <3> QED
      BY <2>1, <2>2, <3>1 DEF Ops, SlotByState, QueryByState, WritingStates, WaitingStates
  <2>3. CASE pending # NoPacket
    BY <1>1, <1>3, <1>9, <2>1, <2>3, ConsumeOps DEF EnterWaiting
  <2> QED
    BY <2>2, <2>3
<1> QED
  BY <1>4, <1>5, <1>6, <1>7, <1>8, <1>9 DEF QueryComplete, GattSucceeded

-----------------------------------------------------------------------------
(* The theorems                                                             *)

LEMMA NextOps == Inv /\ Ops /\ [Next]_vars => Ops'
<1> SUFFICES ASSUME Inv, Ops, [Next]_vars PROVE Ops'
  OBVIOUS
<1>1. Inv'
  BY NextInv
<1>2. CASE RobotStep
  BY <1>1, <1>2, RobotStepEffect, QuietOps, UnlinkedOps, ClosesOps
<1>3. CASE \/ \E m \in PeerPackets : Notification(m)
           \/ PacketSent
           \/ \E ok \in BOOLEAN : QueryComplete(ok)
  BY <1>3, NotificationOps, PacketSentOps, QueryCompleteOps
<1>4. CASE ConnectionSucceeded \/ Disconnection
  BY <1>4, ConnectionSucceededOps, DisconnectionOps
<1>5. CASE UNCHANGED vars
  <2>1. Quiet
    BY <1>5 DEF vars, Quiet, attemptVars, verdictVars, radioVars, mainVars
  <2> QED
    BY <2>1, QuietOps
<1> QED
  BY <1>2, <1>3, <1>4, <1>5 DEF Next, GattEvent, HciEvent, RobotStep

LEMMA InitOps == Init => Ops
BY DEF Init, Ops, SlotByState, QueryByState, WritingStates, WaitingStates

LEMMA OpsInvariance == Spec => [](Inv /\ Ops)
<1>1. Init => Inv /\ Ops
  BY InitInv, InitOps
<1>2. Inv /\ Ops /\ [Next]_vars => Inv' /\ Ops'
  BY NextInv, NextOps
<1> QED
  BY <1>1, <1>2, PTL DEF Spec

\* An early notification never outlives the write it came before: handle_notification
\* replays it, or the attempt is closed (payload_client.c, pending_notification).
THEOREM SlotIsDrained == Spec => []SlotDrained
<1>1. Inv /\ Ops => SlotDrained
  BY DEF Inv, LifeByState, Ops, SlotByState, SlotDrained
<1> QED
  BY <1>1, OpsInvariance, PTL

LEMMA RobotStepTx ==
  ASSUME RobotStep
  PROVE  txPacket' = txPacket
<1> USE DEF radioVars, scanVars
<1>1. CASE payload_client_init \/ payload_client_attempt \/ payload_client_retry
  BY <1>1 DEF payload_client_init, payload_client_attempt, payload_client_retry, run_attempt
<1>2. CASE MainLoop
  BY <1>2 DEF MainLoop, LoopTest, LoopCleanup, LoopTimeout, LoopQueueAbort, LoopAbortAge, InterruptState
<1>3. CASE ContextCallback
  BY <1>3 DEF ContextCallback, start_attempt_callback, abort_attempt_callback, initialise_client_callback
<1>4. CASE SendScanCommand \/ ScanCommandFailed \/ ScanCommandComplete \/ \E close \in BOOLEAN : Advertisement(close)
  BY <1>4 DEF SendScanCommand, ScanCommandFailed, ScanCommandComplete, Advertisement
<1>5. CASE ServiceResult \/ CharacteristicResult \/ ConnectionFailed
  BY <1>5 DEF ServiceResult, CharacteristicResult, ConnectionFailed
<1>6. CASE StackWorking \/ PressStop \/ Tick
  BY <1>6 DEF StackWorking, PressStop, Tick
<1> QED
  BY <1>1, <1>2, <1>3, <1>4, <1>5, <1>6 DEF RobotStep

\* While a write waits for BTstack no callback reaches write_packet: a notification
\* is held or ends the attempt, and the query can only fail.
LEMMA NextTx ==
  ASSUME Inv, Ops, [Next]_vars, query = "write"
  PROVE  txPacket' = txPacket
<1>1. CASE RobotStep
  BY <1>1, RobotStepTx
<1>2. CASE \E m \in PeerPackets : Notification(m)
  <2>1. PICK m \in PeerPackets : Notification(m)
    BY <1>2
  <2>2. state \in LinkedStates /\ ~abortRequested
    BY <2>1, GattState DEF Notification, GattDropped
  <2>3. state \in WritingStates
    BY <2>2 DEF Ops, QueryByState, LinkedStates
  <2> QED
    BY <2>1, <2>3 DEF Notification, Give_up, radioVars
<1>3. CASE PacketSent
  BY <1>3 DEF PacketSent
<1>4. CASE \E ok \in BOOLEAN : QueryComplete(ok)
  BY <1>4 DEF QueryComplete, Give_up
<1>5. CASE ConnectionSucceeded \/ Disconnection
  BY <1>5 DEF ConnectionSucceeded, Disconnection
<1>6. CASE UNCHANGED vars
  BY <1>6 DEF vars, radioVars
<1> QED
  BY <1>1, <1>2, <1>3, <1>4, <1>5, <1>6 DEF Next, GattEvent, HciEvent, RobotStep

\* write_packet never rewrites tx_packet while BTstack still points at it
\* (gatt_client_write_value_of_characteristic keeps the pointer).
THEOREM TxIsStable == Spec => TxStable
<1>1. Inv /\ Ops /\ [Next]_vars => (query = "write" => UNCHANGED txPacket)
  BY NextTx
<1>2. (query = "write" => UNCHANGED txPacket) => [query = "write" => UNCHANGED txPacket]_vars
  OBVIOUS
<1> QED
  BY <1>1, <1>2, OpsInvariance, PTL DEF Spec, TxStable

\* What an aborted attempt may not start.
StartsNothing ==
  /\ scanWanted' => scanWanted \/ scanActive
  /\ link' = "pending" => link = "pending"
  /\ query' \in {"none", "sent", query}

LEMMA AbortedStep ==
  ASSUME Inv, [Next]_vars, abortRequested, abortRequested'
  PROVE  StartsNothing
<1> USE DEF radioVars, scanVars, StartsNothing
<1>1. CASE payload_client_init \/ payload_client_attempt \/ payload_client_retry
  <2>1. UNCHANGED <<scanVars, link, query>>
    BY <1>1 DEF payload_client_init, payload_client_attempt, payload_client_retry, run_attempt
  <2> QED
    BY <2>1
<1>2. CASE MainLoop
  BY <1>2 DEF MainLoop, LoopTest, LoopCleanup, LoopTimeout, LoopQueueAbort, LoopAbortAge, InterruptState
<1>3. CASE ContextCallback
  <2>1. CASE start_attempt_callback
    BY <2>1 DEF start_attempt_callback
  <2>2. CASE abort_attempt_callback
    BY <2>2 DEF abort_attempt_callback, close_attempt
  <2>3. CASE initialise_client_callback
    BY <2>3 DEF initialise_client_callback
  <2> QED
    BY <1>3, <2>1, <2>2, <2>3 DEF ContextCallback
<1>4. CASE SendScanCommand \/ ScanCommandFailed \/ ScanCommandComplete \/ \E close \in BOOLEAN : Advertisement(close)
  BY <1>4 DEF SendScanCommand, ScanCommandFailed, ScanCommandComplete, Advertisement
<1>5. CASE ServiceResult \/ CharacteristicResult
  BY <1>5 DEF ServiceResult, CharacteristicResult
<1>6. CASE ConnectionFailed
  BY <1>6 DEF ConnectionFailed, transfer_failed, close_attempt
<1>7. CASE StackWorking \/ PressStop \/ Tick
  BY <1>7 DEF StackWorking, PressStop, Tick
<1>8. CASE (\E m \in PeerPackets : Notification(m)) \/ PacketSent \/ \E ok \in BOOLEAN : QueryComplete(ok)
  BY <1>8 DEF Notification, PacketSent, QueryComplete, GattDropped
<1>9. CASE ConnectionSucceeded \/ Disconnection
  BY <1>9 DEF ConnectionSucceeded, Disconnection, Enter
<1>10. CASE UNCHANGED vars
  BY <1>10 DEF vars
<1> QED
  BY <1>1, <1>2, <1>3, <1>4, <1>5, <1>6, <1>7, <1>8, <1>9, <1>10 DEF Next, GattEvent, HciEvent

\* Once run_attempt has set ST_ABORT, every callback sees it before it starts a
\* scan, a connection or a GATT operation.
THEOREM AbortIsFinal == Spec => AbortStartsNothing
<1>1. Inv /\ [Next]_vars =>
        (abortRequested /\ abortRequested' =>
           /\ scanWanted' => scanWanted \/ scanActive
           /\ link' = "pending" => link = "pending"
           /\ query' \in {"none", "sent", query})
  BY AbortedStep DEF StartsNothing
<1> QED
  BY <1>1, Invariance, PTL DEF Spec, AbortStartsNothing
=============================================================================
