----------------------- MODULE PayloadClient_proofs -----------------------
(***************************************************************************)
(* Proofs about PayloadClient for every file, every peer, every filter     *)
(* length and every choice of the timeouts the assumptions allow.          *)
(*                                                                         *)
(* Inv is inductive: it holds initially (InitInv) and every action         *)
(* preserves it (one lemma per action, gathered in NextInv).  A lemma has  *)
(* one step per conjunct of Inv.  The GATT callbacks all end an exchange   *)
(* step in one of three ways - the transfer fails, the exchange moves on,  *)
(* or it completes - so these three are lemmas of their own.               *)
(***************************************************************************)
EXTENDS PayloadClient, TLAPS, SequenceTheorems

(* What the bounded queue of context callbacks looks like.                  *)
LEMMA AppendOne ==
  ASSUME NEW S, NEW a \in S, NEW b \in S
  PROVE  Append(<<a>>, b) = <<a, b>>
<1>1. <<a>> \in Seq(S) /\ <<a, b>> \in Seq(S) /\ Len(<<a>>) = 1
  OBVIOUS
<1>2. Append(<<a>>, b) \in Seq(S) /\ Len(Append(<<a>>, b)) = 2
  BY <1>1, AppendProperties
<1>3. Append(<<a>>, b)[1] = a /\ Append(<<a>>, b)[2] = b
  BY <1>1, AppendProperties
<1>4. ASSUME NEW i \in 1..2 PROVE Append(<<a>>, b)[i] = <<a, b>>[i]
  BY <1>3
<1> QED BY <1>1, <1>2, <1>4, SeqEqual

\* The queues of context callbacks that can occur, their heads and tails, and that
\* they differ.
LEMMA QueueFacts ==
  /\ Head(<<"init">>) = "init" /\ Tail(<<"init">>) = <<>>
  /\ Head(<<"start">>) = "start" /\ Tail(<<"start">>) = <<>>
  /\ Head(<<"abort">>) = "abort" /\ Tail(<<"abort">>) = <<>>
  /\ Head(<<"start", "abort">>) = "start" /\ Tail(<<"start", "abort">>) = <<"abort">>
  /\ Append(<<>>, "abort") = <<"abort">>
  /\ Append(<<"start">>, "abort") = <<"start", "abort">>
  /\ <<"init">> # <<>> /\ <<"start">> # <<>> /\ <<"abort">> # <<>>
  /\ <<"start", "abort">> # <<>>
  /\ <<"init">> # <<"start">> /\ <<"init">> # <<"abort">> /\ <<"start">> # <<"abort">>
  /\ <<"init">> # <<"start", "abort">> /\ <<"start">> # <<"start", "abort">>
  /\ <<"abort">> # <<"start", "abort">>
<1>1. "start" \in {"start", "abort"} /\ "abort" \in {"start", "abort"}
  OBVIOUS
<1>2. Append(<<"start">>, "abort") = <<"start", "abort">>
  BY <1>1, AppendOne, Zenon
<1> QED BY <1>2

\* A file that has not begun is a file.
LEMMA EmptyFile == <<>> \in Seq(Pieces) /\ Len(<<>>) = 0
OBVIOUS

\* The empty slot has the type of a packet.
LEMMA NoPacketTyped == NoPacket \in PacketSet
BY DEF NoPacket, PacketSet, Packet, MessageTypes

(* A connection is asked for, or the refusal ends the attempt at once.         *)
LEMMA BeginConnection ==
  ASSUME begin_connection
  PROVE  /\ pending' = NoPacket /\ payloadVerified' = FALSE /\ scanWanted' = scanWanted
         /\ \/ MoveOn("CONNECTING") /\ link' = "pending" /\ faults' = faults
            \/ /\ finish_attempt(GateResult)
               /\ link' = link /\ faults' = faults \cup {"PAYLOAD"}
BY DEF begin_connection, transfer_failed, close_attempt

-----------------------------------------------------------------------------
(* The main loop                                                            *)

\* payload_client_init keeps the invariant.
LEMMA payload_client_init_Inv ==
  ASSUME Inv, payload_client_init
  PROVE  Inv'
<1> USE DEF Inv, TypeOK, payload_client_init, attemptVars, foundVars, fileVars, verdictVars,
    loopVars, radioVars, scanVars
<1>1. FlagsTypeOK'
  BY ZenonT(60) DEF FlagsTypeOK
<1>2. StatusTypeOK' /\ FaultsTypeOK' /\ DataTypeOK' /\ LoopTypeOK' /\ RadioTypeOK'
  BY QueueFacts, FileAssumed, GateAssumed, TimeoutsAssumed, NoPacketTyped DEF
     FileAssumption, GateAssumption, TimeoutAssumption, FlagsTypeOK, StatusTypeOK,
     FaultsTypeOK, DataTypeOK, LoopTypeOK, RadioTypeOK, ScanByState, LifeByState, BleStates,
     Results, SetupStates
<1>3. LinkByState' /\ ScanByState' /\ GateByState'
  BY QueueFacts, GateAssumed DEF GateAssumption, LinkByState, ScanByState, GateByState,
     LifeByState, FlagsTypeOK, StatusTypeOK, DataTypeOK, RadioTypeOK, ScanQuiet,
     LinkedStates, WritingStates, WaitingStates
<1>4. VerdictByState' /\ LifeByState'
  BY QueueFacts, FileAssumed DEF FileAssumption, VerdictByState, LifeByState, LinkByState,
     ScanByState, GateByState, FlagsTypeOK, StatusTypeOK, DataTypeOK, LoopTypeOK,
     RadioTypeOK, ReplyHeld, ScanQuiet, LinkedStates, WritingStates, WaitingStates
<1> QED BY <1>1, <1>2, <1>3, <1>4

\* run_attempt keeps the flags Boolean.
LEMMA run_attempt_Flags ==
  ASSUME FlagsTypeOK, NEW reconnect \in BOOLEAN, run_attempt(reconnect)
  PROVE  FlagsTypeOK'
<1> USE DEF FlagsTypeOK, run_attempt, foundVars, fileVars, verdictVars, bringUpVars,
    radioVars, scanVars, MayStart, SetState
<1>1. attemptRunning' \in BOOLEAN /\ listening' \in BOOLEAN /\ connected' \in BOOLEAN
  OBVIOUS
<1>2. closeConfirmed' \in BOOLEAN /\ scanConfirmed' \in BOOLEAN
  OBVIOUS
<1>3. serviceFound' \in BOOLEAN /\ characteristicFound' \in BOOLEAN /\ ready' \in BOOLEAN /\ startupFailed' \in BOOLEAN
  OBVIOUS
<1>4. abortRequested' \in BOOLEAN /\ reconnectRequested' \in BOOLEAN /\ closeAnnounced' \in BOOLEAN /\ stop' \in BOOLEAN
  OBVIOUS
<1>5. payloadVerified' \in BOOLEAN /\ scanWanted' \in BOOLEAN /\ scanActive' \in BOOLEAN
  OBVIOUS
<1> QED BY <1>1, <1>2, <1>3, <1>4, <1>5

\* run_attempt keeps the invariant.
LEMMA run_attempt_Inv ==
  ASSUME Inv, NEW reconnect \in BOOLEAN, run_attempt(reconnect)
  PROVE  Inv'
<1> USE DEF Inv, TypeOK, run_attempt, foundVars, fileVars, verdictVars, bringUpVars,
    radioVars, scanVars, MayStart, SetState
<1>1. FlagsTypeOK'
  BY run_attempt_Flags
<1>2. StatusTypeOK' /\ FaultsTypeOK' /\ DataTypeOK' /\ LoopTypeOK' /\ RadioTypeOK'
  BY QueueFacts, FileAssumed, GateAssumed, TimeoutsAssumed, NoPacketTyped DEF
     FileAssumption, GateAssumption, TimeoutAssumption, FlagsTypeOK, StatusTypeOK,
     FaultsTypeOK, DataTypeOK, LoopTypeOK, RadioTypeOK, ScanByState, LifeByState, BleStates,
     Results, SetupStates
<1>3. LinkByState' /\ ScanByState' /\ GateByState'
  BY QueueFacts, GateAssumed DEF GateAssumption, LinkByState, ScanByState, GateByState,
     LifeByState, FlagsTypeOK, StatusTypeOK, DataTypeOK, RadioTypeOK, ScanQuiet,
     LinkedStates, WritingStates, WaitingStates
<1>4. VerdictByState' /\ LifeByState'
  BY QueueFacts, FileAssumed DEF FileAssumption, VerdictByState, LifeByState, LinkByState,
     ScanByState, GateByState, FlagsTypeOK, StatusTypeOK, DataTypeOK, LoopTypeOK,
     RadioTypeOK, ReplyHeld, ScanQuiet, LinkedStates, WritingStates, WaitingStates
<1> QED BY <1>1, <1>2, <1>3, <1>4

\* LoopTest keeps the flags Boolean.
LEMMA LoopTest_Flags ==
  ASSUME FlagsTypeOK, LoopTest
  PROVE  FlagsTypeOK'
<1> USE DEF FlagsTypeOK, LoopTest, Return, Outcome, InterruptState, gateVars, foundVars,
    fileVars, radioVars, scanVars, bringUpVars
<1>1. attemptRunning' \in BOOLEAN /\ listening' \in BOOLEAN /\ connected' \in BOOLEAN
  OBVIOUS
<1>2. closeConfirmed' \in BOOLEAN /\ scanConfirmed' \in BOOLEAN
  OBVIOUS
<1>3. serviceFound' \in BOOLEAN /\ characteristicFound' \in BOOLEAN /\ ready' \in BOOLEAN /\ startupFailed' \in BOOLEAN
  OBVIOUS
<1>4. abortRequested' \in BOOLEAN /\ reconnectRequested' \in BOOLEAN /\ closeAnnounced' \in BOOLEAN /\ stop' \in BOOLEAN
  OBVIOUS
<1>5. payloadVerified' \in BOOLEAN /\ scanWanted' \in BOOLEAN /\ scanActive' \in BOOLEAN
  OBVIOUS
<1> QED BY <1>1, <1>2, <1>3, <1>4, <1>5

\* LoopTest keeps the invariant.
LEMMA LoopTest_Inv ==
  ASSUME Inv, LoopTest
  PROVE  Inv'
<1> USE DEF Inv, TypeOK, LoopTest, Return, Outcome, InterruptState, gateVars, foundVars,
    fileVars, radioVars, scanVars, bringUpVars
<1>1. FlagsTypeOK'
  BY LoopTest_Flags
<1>2. StatusTypeOK'
  BY TimeoutsAssumed DEF TimeoutAssumption, StatusTypeOK, FlagsTypeOK, LinkedStates,
     WritingStates, WaitingStates, SetupStates, CleanupStates, BleStates, Results
<1>3. FaultsTypeOK'
  BY DEF FaultsTypeOK
<1>4. DataTypeOK'
  BY FileAssumed, GateAssumed, NoPacketTyped, EmptyFile DEF FileAssumption, GateAssumption,
     DataTypeOK, ScanByState
<1>5. LoopTypeOK'
  BY TimeoutsAssumed DEF TimeoutAssumption, LoopTypeOK, StatusTypeOK, Results
<1>6. RadioTypeOK'
  BY DEF RadioTypeOK, LifeByState
<1>7. LinkByState'
  BY DEF LinkByState, ScanByState, LifeByState, FlagsTypeOK, StatusTypeOK, RadioTypeOK,
     ScanQuiet, LinkedStates, WritingStates, WaitingStates, SetupStates, CleanupStates,
     BleStates, Results
<1>8. ScanByState'
  BY GateAssumed DEF GateAssumption, ScanByState, LinkByState, LifeByState, FlagsTypeOK,
     StatusTypeOK, DataTypeOK, RadioTypeOK, ScanQuiet, LinkedStates, WritingStates,
     WaitingStates, SetupStates, CleanupStates, BleStates, Results
<1>9. GateByState'
  BY DEF GateByState, LinkByState, ScanByState, LifeByState, FlagsTypeOK, StatusTypeOK,
     RadioTypeOK, ScanQuiet, LinkedStates, WritingStates, WaitingStates, SetupStates,
     CleanupStates, BleStates, Results
<1>10. VerdictByState'
  BY FileAssumed DEF FileAssumption, VerdictByState, LinkByState, GateByState, LifeByState,
     FlagsTypeOK, StatusTypeOK, DataTypeOK, RadioTypeOK, ReplyHeld, LinkedStates,
     WritingStates, WaitingStates, SetupStates, CleanupStates, BleStates, Results
<1>11. LifeByState'
  BY DEF LifeByState, LinkByState, ScanByState, GateByState, FlagsTypeOK, StatusTypeOK,
     LoopTypeOK, RadioTypeOK, ScanQuiet, LinkedStates, WritingStates, WaitingStates,
     SetupStates, CleanupStates, BleStates, Results
<1> QED BY <1>1, <1>2, <1>3, <1>4, <1>5, <1>6, <1>7, <1>8, <1>9, <1>10, <1>11

\* LoopCleanup keeps the flags Boolean.
LEMMA LoopCleanup_Flags ==
  ASSUME FlagsTypeOK, LoopCleanup
  PROVE  FlagsTypeOK'
<1> USE DEF FlagsTypeOK, LoopCleanup, Return, InterruptState, gateVars, foundVars, fileVars,
    radioVars, scanVars, bringUpVars
<1>1. attemptRunning' \in BOOLEAN /\ listening' \in BOOLEAN /\ connected' \in BOOLEAN
  OBVIOUS
<1>2. closeConfirmed' \in BOOLEAN /\ scanConfirmed' \in BOOLEAN
  OBVIOUS
<1>3. serviceFound' \in BOOLEAN /\ characteristicFound' \in BOOLEAN /\ ready' \in BOOLEAN /\ startupFailed' \in BOOLEAN
  OBVIOUS
<1>4. abortRequested' \in BOOLEAN /\ reconnectRequested' \in BOOLEAN /\ closeAnnounced' \in BOOLEAN /\ stop' \in BOOLEAN
  OBVIOUS
<1>5. payloadVerified' \in BOOLEAN /\ scanWanted' \in BOOLEAN /\ scanActive' \in BOOLEAN
  OBVIOUS
<1> QED BY <1>1, <1>2, <1>3, <1>4, <1>5

\* LoopCleanup keeps the invariant.
LEMMA LoopCleanup_Inv ==
  ASSUME Inv, LoopCleanup
  PROVE  Inv'
<1> USE DEF Inv, TypeOK, LoopCleanup, Return, InterruptState, gateVars, foundVars, fileVars,
    radioVars, scanVars, bringUpVars
<1>1. FlagsTypeOK'
  BY LoopCleanup_Flags
<1>2. StatusTypeOK'
  BY TimeoutsAssumed DEF TimeoutAssumption, StatusTypeOK, FlagsTypeOK, LinkedStates,
     WritingStates, WaitingStates, SetupStates, CleanupStates, BleStates, Results
<1>3. FaultsTypeOK'
  BY DEF FaultsTypeOK
<1>4. DataTypeOK'
  BY FileAssumed, GateAssumed, NoPacketTyped, EmptyFile DEF FileAssumption, GateAssumption,
     DataTypeOK, ScanByState
<1>5. LoopTypeOK'
  BY TimeoutsAssumed DEF TimeoutAssumption, LoopTypeOK, StatusTypeOK, Results
<1>6. RadioTypeOK'
  BY DEF RadioTypeOK, LifeByState
<1>7. LinkByState'
  BY DEF LinkByState, ScanByState, LifeByState, FlagsTypeOK, StatusTypeOK, RadioTypeOK,
     ScanQuiet, LinkedStates, WritingStates, WaitingStates, SetupStates, CleanupStates,
     BleStates, Results
<1>8. ScanByState'
  BY GateAssumed DEF GateAssumption, ScanByState, LinkByState, LifeByState, FlagsTypeOK,
     StatusTypeOK, DataTypeOK, RadioTypeOK, ScanQuiet, LinkedStates, WritingStates,
     WaitingStates, SetupStates, CleanupStates, BleStates, Results
<1>9. GateByState'
  BY DEF GateByState, LinkByState, ScanByState, LifeByState, FlagsTypeOK, StatusTypeOK,
     RadioTypeOK, ScanQuiet, LinkedStates, WritingStates, WaitingStates, SetupStates,
     CleanupStates, BleStates, Results
<1>10. VerdictByState'
  BY FileAssumed DEF FileAssumption, VerdictByState, LinkByState, GateByState, LifeByState,
     FlagsTypeOK, StatusTypeOK, DataTypeOK, RadioTypeOK, ReplyHeld, LinkedStates,
     WritingStates, WaitingStates, SetupStates, CleanupStates, BleStates, Results
<1>11. LifeByState'
  BY DEF LifeByState, LinkByState, ScanByState, GateByState, FlagsTypeOK, StatusTypeOK,
     LoopTypeOK, RadioTypeOK, ScanQuiet, LinkedStates, WritingStates, WaitingStates,
     SetupStates, CleanupStates, BleStates, Results
<1> QED BY <1>1, <1>2, <1>3, <1>4, <1>5, <1>6, <1>7, <1>8, <1>9, <1>10, <1>11

\* LoopTimeout keeps the flags Boolean.
LEMMA LoopTimeout_Flags ==
  ASSUME FlagsTypeOK, LoopTimeout
  PROVE  FlagsTypeOK'
<1> USE DEF FlagsTypeOK, LoopTimeout, TimedOut, phase_timeout, InterruptState, gateVars,
    foundVars, fileVars, radioVars, scanVars, bringUpVars
<1>1. attemptRunning' \in BOOLEAN /\ listening' \in BOOLEAN /\ connected' \in BOOLEAN
  OBVIOUS
<1>2. closeConfirmed' \in BOOLEAN /\ scanConfirmed' \in BOOLEAN
  OBVIOUS
<1>3. serviceFound' \in BOOLEAN /\ characteristicFound' \in BOOLEAN /\ ready' \in BOOLEAN /\ startupFailed' \in BOOLEAN
  OBVIOUS
<1>4. abortRequested' \in BOOLEAN /\ reconnectRequested' \in BOOLEAN /\ closeAnnounced' \in BOOLEAN /\ stop' \in BOOLEAN
  OBVIOUS
<1>5. payloadVerified' \in BOOLEAN /\ scanWanted' \in BOOLEAN /\ scanActive' \in BOOLEAN
  OBVIOUS
<1> QED BY <1>1, <1>2, <1>3, <1>4, <1>5

\* LoopTimeout keeps the invariant.
LEMMA LoopTimeout_Inv ==
  ASSUME Inv, LoopTimeout
  PROVE  Inv'
<1> USE DEF Inv, TypeOK, LoopTimeout, TimedOut, phase_timeout, InterruptState, gateVars,
    foundVars, fileVars, radioVars, scanVars, bringUpVars
<1>1. FlagsTypeOK'
  BY LoopTimeout_Flags
<1>2. StatusTypeOK' /\ FaultsTypeOK' /\ DataTypeOK' /\ LoopTypeOK' /\ RadioTypeOK'
  BY FileAssumed, GateAssumed, TimeoutsAssumed, NoPacketTyped, SMTT(30) DEF FileAssumption,
     GateAssumption, TimeoutAssumption, FlagsTypeOK, StatusTypeOK, FaultsTypeOK, DataTypeOK,
     LoopTypeOK, RadioTypeOK, ScanByState, LifeByState, BleStates, Results, SetupStates
<1>3. LinkByState' /\ ScanByState' /\ GateByState'
  BY GateAssumed DEF GateAssumption, LinkByState, ScanByState, GateByState, LifeByState,
     FlagsTypeOK, StatusTypeOK, DataTypeOK, RadioTypeOK, ScanQuiet, LinkedStates,
     WritingStates, WaitingStates
<1>4. VerdictByState' /\ LifeByState'
  BY FileAssumed DEF FileAssumption, VerdictByState, LifeByState, LinkByState, ScanByState,
     GateByState, FlagsTypeOK, StatusTypeOK, DataTypeOK, LoopTypeOK, RadioTypeOK, ReplyHeld,
     ScanQuiet, LinkedStates, WritingStates, WaitingStates
<1> QED BY <1>1, <1>2, <1>3, <1>4

\* LoopQueueAbort keeps the invariant.
LEMMA LoopQueueAbort_Inv ==
  ASSUME Inv, LoopQueueAbort
  PROVE  Inv'
<1> USE DEF Inv, TypeOK, LoopQueueAbort, InterruptState, gateVars, foundVars, fileVars,
    radioVars, scanVars, bringUpVars
<1>a. /\ callbacks' \in {<<"abort">>, <<"start", "abort">>} /\ callbacks' # <<"init">>
      /\ callbacks' = <<"start", "abort">> <=> callbacks = <<"start">>
      /\ callbacks' # <<"start">> /\ callbacks # <<"start", "abort">>
  BY QueueFacts DEF RadioTypeOK, LifeByState
<1>1. FlagsTypeOK'
  BY DEF FlagsTypeOK
<1>2. StatusTypeOK' /\ FaultsTypeOK' /\ DataTypeOK' /\ LoopTypeOK' /\ RadioTypeOK'
  BY <1>a, FileAssumed, GateAssumed, TimeoutsAssumed, NoPacketTyped DEF FileAssumption,
     GateAssumption, TimeoutAssumption, FlagsTypeOK, StatusTypeOK, FaultsTypeOK, DataTypeOK,
     LoopTypeOK, RadioTypeOK, ScanByState, LifeByState, BleStates, Results, SetupStates
<1>3. LinkByState' /\ ScanByState' /\ GateByState'
  BY <1>a, GateAssumed DEF GateAssumption, LinkByState, ScanByState, GateByState,
     LifeByState, FlagsTypeOK, StatusTypeOK, DataTypeOK, RadioTypeOK, ScanQuiet,
     LinkedStates, WritingStates, WaitingStates
<1>4. VerdictByState' /\ LifeByState'
  BY <1>a, FileAssumed DEF FileAssumption, VerdictByState, LifeByState, LinkByState,
     ScanByState, GateByState, FlagsTypeOK, StatusTypeOK, DataTypeOK, LoopTypeOK,
     RadioTypeOK, ReplyHeld, ScanQuiet, LinkedStates, WritingStates, WaitingStates
<1> QED BY <1>1, <1>2, <1>3, <1>4

\* LoopAbortAge keeps the flags Boolean.
LEMMA LoopAbortAge_Flags ==
  ASSUME FlagsTypeOK, LoopAbortAge
  PROVE  FlagsTypeOK'
<1> USE DEF FlagsTypeOK, LoopAbortAge, Return, InterruptState, gateVars, foundVars,
    fileVars, radioVars, scanVars, bringUpVars
<1>1. attemptRunning' \in BOOLEAN /\ listening' \in BOOLEAN /\ connected' \in BOOLEAN
  OBVIOUS
<1>2. closeConfirmed' \in BOOLEAN /\ scanConfirmed' \in BOOLEAN
  OBVIOUS
<1>3. serviceFound' \in BOOLEAN /\ characteristicFound' \in BOOLEAN /\ ready' \in BOOLEAN /\ startupFailed' \in BOOLEAN
  OBVIOUS
<1>4. abortRequested' \in BOOLEAN /\ reconnectRequested' \in BOOLEAN /\ closeAnnounced' \in BOOLEAN /\ stop' \in BOOLEAN
  OBVIOUS
<1>5. payloadVerified' \in BOOLEAN /\ scanWanted' \in BOOLEAN /\ scanActive' \in BOOLEAN
  OBVIOUS
<1> QED BY <1>1, <1>2, <1>3, <1>4, <1>5

\* LoopAbortAge keeps the invariant.
LEMMA LoopAbortAge_Inv ==
  ASSUME Inv, LoopAbortAge
  PROVE  Inv'
<1> USE DEF Inv, TypeOK, LoopAbortAge, Return, InterruptState, gateVars, foundVars,
    fileVars, radioVars, scanVars, bringUpVars
<1>1. FlagsTypeOK'
  BY LoopAbortAge_Flags
<1>2. StatusTypeOK'
  BY TimeoutsAssumed DEF TimeoutAssumption, StatusTypeOK, FlagsTypeOK, LinkedStates,
     WritingStates, WaitingStates, SetupStates, CleanupStates, BleStates, Results
<1>3. FaultsTypeOK'
  BY DEF FaultsTypeOK
<1>4. DataTypeOK'
  BY FileAssumed, GateAssumed, NoPacketTyped, EmptyFile DEF FileAssumption, GateAssumption,
     DataTypeOK, ScanByState
<1>5. LoopTypeOK'
  BY TimeoutsAssumed DEF TimeoutAssumption, LoopTypeOK, StatusTypeOK, Results
<1>6. RadioTypeOK'
  BY DEF RadioTypeOK, LifeByState
<1>7. LinkByState'
  BY DEF LinkByState, ScanByState, LifeByState, FlagsTypeOK, StatusTypeOK, RadioTypeOK,
     ScanQuiet, LinkedStates, WritingStates, WaitingStates, SetupStates, CleanupStates,
     BleStates, Results
<1>8. ScanByState'
  BY GateAssumed DEF GateAssumption, ScanByState, LinkByState, LifeByState, FlagsTypeOK,
     StatusTypeOK, DataTypeOK, RadioTypeOK, ScanQuiet, LinkedStates, WritingStates,
     WaitingStates, SetupStates, CleanupStates, BleStates, Results
<1>9. GateByState'
  BY DEF GateByState, LinkByState, ScanByState, LifeByState, FlagsTypeOK, StatusTypeOK,
     RadioTypeOK, ScanQuiet, LinkedStates, WritingStates, WaitingStates, SetupStates,
     CleanupStates, BleStates, Results
<1>10. VerdictByState'
  BY FileAssumed DEF FileAssumption, VerdictByState, LinkByState, GateByState, LifeByState,
     FlagsTypeOK, StatusTypeOK, DataTypeOK, RadioTypeOK, ReplyHeld, LinkedStates,
     WritingStates, WaitingStates, SetupStates, CleanupStates, BleStates, Results
<1>11. LifeByState'
  BY DEF LifeByState, LinkByState, ScanByState, GateByState, FlagsTypeOK, StatusTypeOK,
     LoopTypeOK, RadioTypeOK, ScanQuiet, LinkedStates, WritingStates, WaitingStates,
     SetupStates, CleanupStates, BleStates, Results
<1> QED BY <1>1, <1>2, <1>3, <1>4, <1>5, <1>6, <1>7, <1>8, <1>9, <1>10, <1>11

-----------------------------------------------------------------------------
(* Context callbacks                                                        *)

\* start_attempt_callback keeps the invariant.
LEMMA start_attempt_callback_Inv ==
  ASSUME Inv, start_attempt_callback
  PROVE  Inv'
<1> DEFINE
  Common == /\ UNCHANGED <<foundVars, OutsideAttempt, scanActive, scanCommand, query, txPacket,
                           robotOffset>>
            /\ phaseAge' = 0 /\ state = "STARTING"
            /\ callbacks' \in {<<>>, <<"abort">>}
            /\ callbacks' \notin {<<"init">>, <<"start">>, <<"start", "abort">>}
            /\ (pc # "caller" /\ ~abortRequested) \/ pc = "queue" => callbacks' = <<>>
  Aborted == /\ finish_attempt("FATAL")
             /\ UNCHANGED <<gateVars, replyLength, replyFile, replyCrc, verdictVars, pending,
                            scanWanted, link>>
  Scanning == /\ ~abortRequested /\ ~reconnectRequested
              /\ ForgetAttempt /\ MoveOn("SCANNING")
              /\ scanWanted' = TRUE /\ payloadVerified' = FALSE /\ UNCHANGED <<link, faults>>
  Connecting == /\ ~abortRequested /\ reconnectRequested
                /\ ForgetAttempt /\ MoveOn("CONNECTING")
                /\ link' = "pending" /\ payloadVerified' = FALSE /\ UNCHANGED <<scanWanted, faults>>
  Refused == /\ ~abortRequested /\ reconnectRequested
             /\ ForgetAttempt /\ finish_attempt(GateResult)
             /\ payloadVerified' = FALSE /\ faults' = faults \cup {"PAYLOAD"}
             /\ UNCHANGED <<scanWanted, link>>
<1>1. Common
  BY QueueFacts DEF start_attempt_callback, NextCallback, SetState, MoveOn, finish_attempt, Inv, TypeOK,
     RadioTypeOK, LifeByState, begin_connection, transfer_failed, close_attempt
<1>2. Aborted \/ Scanning \/ Connecting \/ Refused
  BY BeginConnection DEF start_attempt_callback
<1>3. CASE Aborted
  <2>1. FlagsTypeOK'
    BY <1>1, <1>3, ZenonT(60) DEF Inv, TypeOK, FlagsTypeOK,
       finish_attempt, SetState, foundVars, OutsideAttempt, mainVars, loopVars, bringUpVars, gateVars, verdictVars
  <2>2. StatusTypeOK' /\ FaultsTypeOK'
    BY <1>1, <1>3, TimeoutsAssumed DEF Inv, TypeOK, StatusTypeOK, FaultsTypeOK, BleStates, Results, SetupStates, TimeoutAssumption,
       finish_attempt, SetState, foundVars, OutsideAttempt, mainVars, loopVars, bringUpVars, gateVars, verdictVars
  <2>3. DataTypeOK'
    BY <1>1, <1>3, EmptyFile, NoPacketTyped, FileAssumed, GateAssumed DEF Inv, TypeOK, DataTypeOK, FileAssumption, GateAssumption,
       finish_attempt, SetState, foundVars, OutsideAttempt, mainVars, loopVars, bringUpVars, gateVars, verdictVars
  <2>4. LoopTypeOK' /\ RadioTypeOK'
    BY <1>1, <1>3 DEF Inv, TypeOK, LoopTypeOK, RadioTypeOK,
       finish_attempt, SetState, foundVars, OutsideAttempt, mainVars, loopVars, bringUpVars, gateVars, verdictVars
  <2>5. LinkByState'
    BY <1>1, <1>3 DEF Inv, TypeOK, LinkByState, LinkedStates, WritingStates, WaitingStates,
       finish_attempt, SetState, foundVars, OutsideAttempt, mainVars, loopVars, bringUpVars, gateVars, verdictVars
  <2>6. ScanByState'
    BY <1>1, <1>3, GateAssumed DEF Inv, TypeOK, ScanByState, LifeByState, ScanQuiet, FlagsTypeOK, GateAssumption,
       finish_attempt, SetState, foundVars, OutsideAttempt, mainVars, loopVars, bringUpVars, gateVars, verdictVars
  <2>7. GateByState'
    BY <1>1, <1>3 DEF Inv, TypeOK, GateByState, LinkedStates, WritingStates, WaitingStates,
       finish_attempt, SetState, foundVars, OutsideAttempt, mainVars, loopVars, bringUpVars, gateVars, verdictVars
  <2>8. VerdictByState'
    BY <1>1, <1>3, EmptyFile, FileAssumed DEF Inv, TypeOK, VerdictByState, ReplyHeld, DataTypeOK, FileAssumption,
       finish_attempt, SetState, foundVars, OutsideAttempt, mainVars, loopVars, bringUpVars, gateVars, verdictVars
  <2>9. LifeByState'
    BY <1>1, <1>3 DEF Inv, TypeOK, LifeByState, ScanQuiet, FlagsTypeOK,
       finish_attempt, SetState, foundVars, OutsideAttempt, mainVars, loopVars, bringUpVars, gateVars, verdictVars
  <2> QED BY <2>1, <2>2, <2>3, <2>4, <2>5, <2>6, <2>7, <2>8, <2>9 DEF Inv, TypeOK
<1>4. CASE Scanning
  <2>1. FlagsTypeOK'
    BY <1>1, <1>4 DEF Inv, TypeOK, FlagsTypeOK,
       ForgetAttempt, MoveOn, SetState, foundVars, OutsideAttempt, mainVars, loopVars, bringUpVars, gateVars, verdictVars
  <2>2. StatusTypeOK' /\ FaultsTypeOK'
    BY <1>1, <1>4, TimeoutsAssumed DEF Inv, TypeOK, StatusTypeOK, FaultsTypeOK, BleStates, Results, SetupStates, TimeoutAssumption,
       ForgetAttempt, MoveOn, SetState, foundVars, OutsideAttempt, mainVars, loopVars, bringUpVars, gateVars, verdictVars
  <2>3. DataTypeOK'
    BY <1>1, <1>4, EmptyFile, NoPacketTyped, FileAssumed, GateAssumed DEF Inv, TypeOK, DataTypeOK, FileAssumption, GateAssumption,
       ForgetAttempt, MoveOn, SetState, foundVars, OutsideAttempt, mainVars, loopVars, bringUpVars, gateVars, verdictVars
  <2>4. LoopTypeOK' /\ RadioTypeOK'
    BY <1>1, <1>4 DEF Inv, TypeOK, LoopTypeOK, RadioTypeOK,
       ForgetAttempt, MoveOn, SetState, foundVars, OutsideAttempt, mainVars, loopVars, bringUpVars, gateVars, verdictVars
  <2>5. LinkByState'
    BY <1>1, <1>4 DEF Inv, TypeOK, LinkByState, LinkedStates, WritingStates, WaitingStates,
       ForgetAttempt, MoveOn, SetState, foundVars, OutsideAttempt, mainVars, loopVars, bringUpVars, gateVars, verdictVars
  <2>6. ScanByState'
    BY <1>1, <1>4, GateAssumed DEF Inv, TypeOK, ScanByState, LifeByState, ScanQuiet, FlagsTypeOK, GateAssumption,
       ForgetAttempt, MoveOn, SetState, foundVars, OutsideAttempt, mainVars, loopVars, bringUpVars, gateVars, verdictVars
  <2>7. GateByState'
    BY <1>1, <1>4 DEF Inv, TypeOK, GateByState, LinkedStates, WritingStates, WaitingStates,
       ForgetAttempt, MoveOn, SetState, foundVars, OutsideAttempt, mainVars, loopVars, bringUpVars, gateVars, verdictVars
  <2>8. VerdictByState'
    BY <1>1, <1>4, EmptyFile, FileAssumed DEF Inv, TypeOK, VerdictByState, ReplyHeld, DataTypeOK, FileAssumption,
       ForgetAttempt, MoveOn, SetState, foundVars, OutsideAttempt, mainVars, loopVars, bringUpVars, gateVars, verdictVars
  <2>9. LifeByState'
    BY <1>1, <1>4 DEF Inv, TypeOK, LifeByState, ScanQuiet, FlagsTypeOK,
       ForgetAttempt, MoveOn, SetState, foundVars, OutsideAttempt, mainVars, loopVars, bringUpVars, gateVars, verdictVars
  <2> QED BY <2>1, <2>2, <2>3, <2>4, <2>5, <2>6, <2>7, <2>8, <2>9 DEF Inv, TypeOK
<1>5. CASE Connecting
  <2>1. FlagsTypeOK'
    BY <1>1, <1>5 DEF Inv, TypeOK, FlagsTypeOK,
       ForgetAttempt, MoveOn, SetState, foundVars, OutsideAttempt, mainVars, loopVars, bringUpVars, gateVars, verdictVars
  <2>2. StatusTypeOK' /\ FaultsTypeOK'
    BY <1>1, <1>5, TimeoutsAssumed DEF Inv, TypeOK, StatusTypeOK, FaultsTypeOK, BleStates, Results, SetupStates, TimeoutAssumption,
       ForgetAttempt, MoveOn, SetState, foundVars, OutsideAttempt, mainVars, loopVars, bringUpVars, gateVars, verdictVars
  <2>3. DataTypeOK'
    BY <1>1, <1>5, EmptyFile, NoPacketTyped, FileAssumed, GateAssumed DEF Inv, TypeOK, DataTypeOK, FileAssumption, GateAssumption,
       ForgetAttempt, MoveOn, SetState, foundVars, OutsideAttempt, mainVars, loopVars, bringUpVars, gateVars, verdictVars
  <2>4. LoopTypeOK' /\ RadioTypeOK'
    BY <1>1, <1>5 DEF Inv, TypeOK, LoopTypeOK, RadioTypeOK,
       ForgetAttempt, MoveOn, SetState, foundVars, OutsideAttempt, mainVars, loopVars, bringUpVars, gateVars, verdictVars
  <2>5. LinkByState'
    BY <1>1, <1>5 DEF Inv, TypeOK, LinkByState, LinkedStates, WritingStates, WaitingStates,
       ForgetAttempt, MoveOn, SetState, foundVars, OutsideAttempt, mainVars, loopVars, bringUpVars, gateVars, verdictVars
  <2>6. ScanByState'
    BY <1>1, <1>5, GateAssumed DEF Inv, TypeOK, ScanByState, LifeByState, ScanQuiet, FlagsTypeOK, GateAssumption,
       ForgetAttempt, MoveOn, SetState, foundVars, OutsideAttempt, mainVars, loopVars, bringUpVars, gateVars, verdictVars
  <2>7. GateByState'
    BY <1>1, <1>5 DEF Inv, TypeOK, GateByState, LinkedStates, WritingStates, WaitingStates,
       ForgetAttempt, MoveOn, SetState, foundVars, OutsideAttempt, mainVars, loopVars, bringUpVars, gateVars, verdictVars
  <2>8. VerdictByState'
    BY <1>1, <1>5, EmptyFile, FileAssumed DEF Inv, TypeOK, VerdictByState, ReplyHeld, DataTypeOK, FileAssumption,
       ForgetAttempt, MoveOn, SetState, foundVars, OutsideAttempt, mainVars, loopVars, bringUpVars, gateVars, verdictVars
  <2>9. LifeByState'
    BY <1>1, <1>5 DEF Inv, TypeOK, LifeByState, ScanQuiet, FlagsTypeOK,
       ForgetAttempt, MoveOn, SetState, foundVars, OutsideAttempt, mainVars, loopVars, bringUpVars, gateVars, verdictVars
  <2> QED BY <2>1, <2>2, <2>3, <2>4, <2>5, <2>6, <2>7, <2>8, <2>9 DEF Inv, TypeOK
<1>6. CASE Refused
  <2>1. FlagsTypeOK'
    BY <1>1, <1>6 DEF Inv, TypeOK, FlagsTypeOK,
       ForgetAttempt, finish_attempt, GateResult, SetState, foundVars, OutsideAttempt, mainVars, loopVars, bringUpVars, gateVars, verdictVars
  <2>2. StatusTypeOK' /\ FaultsTypeOK'
    BY <1>1, <1>6, TimeoutsAssumed DEF Inv, TypeOK, StatusTypeOK, FaultsTypeOK, BleStates, Results, SetupStates, TimeoutAssumption,
       ForgetAttempt, finish_attempt, GateResult, SetState, foundVars, OutsideAttempt, mainVars, loopVars, bringUpVars, gateVars, verdictVars
  <2>3. DataTypeOK'
    BY <1>1, <1>6, EmptyFile, NoPacketTyped, FileAssumed, GateAssumed DEF Inv, TypeOK, DataTypeOK, FileAssumption, GateAssumption,
       ForgetAttempt, finish_attempt, GateResult, SetState, foundVars, OutsideAttempt, mainVars, loopVars, bringUpVars, gateVars, verdictVars
  <2>4. LoopTypeOK' /\ RadioTypeOK'
    BY <1>1, <1>6 DEF Inv, TypeOK, LoopTypeOK, RadioTypeOK,
       ForgetAttempt, finish_attempt, GateResult, SetState, foundVars, OutsideAttempt, mainVars, loopVars, bringUpVars, gateVars, verdictVars
  <2>5. LinkByState'
    BY <1>1, <1>6 DEF Inv, TypeOK, LinkByState, LinkedStates, WritingStates, WaitingStates,
       ForgetAttempt, finish_attempt, GateResult, SetState, foundVars, OutsideAttempt, mainVars, loopVars, bringUpVars, gateVars, verdictVars
  <2>6. ScanByState'
    BY <1>1, <1>6, GateAssumed DEF Inv, TypeOK, ScanByState, LifeByState, ScanQuiet, FlagsTypeOK, GateAssumption,
       ForgetAttempt, finish_attempt, GateResult, SetState, foundVars, OutsideAttempt, mainVars, loopVars, bringUpVars, gateVars, verdictVars
  <2>7. GateByState'
    BY <1>1, <1>6 DEF Inv, TypeOK, GateByState, LinkedStates, WritingStates, WaitingStates,
       ForgetAttempt, finish_attempt, GateResult, SetState, foundVars, OutsideAttempt, mainVars, loopVars, bringUpVars, gateVars, verdictVars
  <2>8. VerdictByState'
    BY <1>1, <1>6, EmptyFile, FileAssumed DEF Inv, TypeOK, VerdictByState, ReplyHeld, DataTypeOK, FileAssumption,
       ForgetAttempt, finish_attempt, GateResult, SetState, foundVars, OutsideAttempt, mainVars, loopVars, bringUpVars, gateVars, verdictVars
  <2>9. LifeByState'
    BY <1>1, <1>6 DEF Inv, TypeOK, LifeByState, ScanQuiet, FlagsTypeOK,
       ForgetAttempt, finish_attempt, GateResult, SetState, foundVars, OutsideAttempt, mainVars, loopVars, bringUpVars, gateVars, verdictVars
  <2> QED BY <2>1, <2>2, <2>3, <2>4, <2>5, <2>6, <2>7, <2>8, <2>9 DEF Inv, TypeOK
<1> QED BY <1>2, <1>3, <1>4, <1>5, <1>6

\* abort_attempt_callback keeps the flags Boolean.
LEMMA abort_attempt_callback_Flags ==
  ASSUME FlagsTypeOK, abort_attempt_callback
  PROVE  FlagsTypeOK'
<1> USE DEF FlagsTypeOK, abort_attempt_callback, gateVars, foundVars, fileVars,
    OutsideAttempt, mainVars, loopVars, bringUpVars, attemptVars, close_attempt, Enter,
    SetState, finish_attempt, GateResult
<1>1. attemptRunning' \in BOOLEAN /\ listening' \in BOOLEAN /\ connected' \in BOOLEAN
  OBVIOUS
<1>2. closeConfirmed' \in BOOLEAN /\ scanConfirmed' \in BOOLEAN
  OBVIOUS
<1>3. serviceFound' \in BOOLEAN /\ characteristicFound' \in BOOLEAN /\ ready' \in BOOLEAN /\ startupFailed' \in BOOLEAN
  OBVIOUS
<1>4. abortRequested' \in BOOLEAN /\ reconnectRequested' \in BOOLEAN /\ closeAnnounced' \in BOOLEAN /\ stop' \in BOOLEAN
  OBVIOUS
<1>5. payloadVerified' \in BOOLEAN /\ scanWanted' \in BOOLEAN /\ scanActive' \in BOOLEAN
  OBVIOUS
<1> QED BY <1>1, <1>2, <1>3, <1>4, <1>5

\* abort_attempt_callback keeps the invariant.
LEMMA abort_attempt_callback_Inv ==
  ASSUME Inv, abort_attempt_callback
  PROVE  Inv'
<1> USE DEF Inv, TypeOK, abort_attempt_callback, gateVars, foundVars, fileVars,
    OutsideAttempt, mainVars, loopVars, bringUpVars, attemptVars, close_attempt, Enter,
    SetState, finish_attempt, GateResult
<1>a. callbacks = <<"abort">> /\ callbacks' = <<>>
  BY QueueFacts DEF RadioTypeOK, LifeByState, NextCallback
<1>1. FlagsTypeOK'
  BY abort_attempt_callback_Flags
<1>2. StatusTypeOK'
  BY TimeoutsAssumed DEF TimeoutAssumption, StatusTypeOK, FlagsTypeOK, LinkedStates,
     WritingStates, WaitingStates, SetupStates, CleanupStates, BleStates, Results
<1>3. FaultsTypeOK'
  BY DEF FaultsTypeOK
<1>4. DataTypeOK'
  BY FileAssumed, GateAssumed, NoPacketTyped, EmptyFile DEF FileAssumption, GateAssumption,
     DataTypeOK, ScanByState
<1>5. LoopTypeOK'
  BY TimeoutsAssumed DEF TimeoutAssumption, LoopTypeOK, StatusTypeOK, Results
<1>6. RadioTypeOK'
  BY <1>a DEF RadioTypeOK, LifeByState
<1>7. LinkByState'
  BY <1>a DEF LinkByState, ScanByState, LifeByState, FlagsTypeOK, StatusTypeOK, RadioTypeOK,
     ScanQuiet, LinkedStates, WritingStates, WaitingStates, SetupStates, CleanupStates,
     BleStates, Results
<1>8. ScanByState'
  BY <1>a, GateAssumed DEF GateAssumption, ScanByState, LinkByState, LifeByState,
     FlagsTypeOK, StatusTypeOK, DataTypeOK, RadioTypeOK, ScanQuiet, LinkedStates,
     WritingStates, WaitingStates, SetupStates, CleanupStates, BleStates, Results
<1>9. GateByState'
  BY <1>a DEF GateByState, LinkByState, ScanByState, LifeByState, FlagsTypeOK, StatusTypeOK,
     RadioTypeOK, ScanQuiet, LinkedStates, WritingStates, WaitingStates, SetupStates,
     CleanupStates, BleStates, Results
<1>10. VerdictByState'
  BY <1>a, FileAssumed DEF FileAssumption, VerdictByState, LinkByState, GateByState,
     LifeByState, FlagsTypeOK, StatusTypeOK, DataTypeOK, RadioTypeOK, ReplyHeld,
     LinkedStates, WritingStates, WaitingStates, SetupStates, CleanupStates, BleStates,
     Results
<1>11. LifeByState'
  BY <1>a DEF LifeByState, LinkByState, ScanByState, GateByState, FlagsTypeOK, StatusTypeOK,
     LoopTypeOK, RadioTypeOK, ScanQuiet, LinkedStates, WritingStates, WaitingStates,
     SetupStates, CleanupStates, BleStates, Results
<1> QED BY <1>1, <1>2, <1>3, <1>4, <1>5, <1>6, <1>7, <1>8, <1>9, <1>10, <1>11

\* initialise_client_callback keeps the flags Boolean.
LEMMA initialise_client_callback_Flags ==
  ASSUME FlagsTypeOK, initialise_client_callback
  PROVE  FlagsTypeOK'
<1> USE DEF FlagsTypeOK, initialise_client_callback, NextCallback, attemptVars, gateVars,
    foundVars, fileVars, mainVars, loopVars, radioVars, scanVars
<1>1. attemptRunning' \in BOOLEAN /\ listening' \in BOOLEAN /\ connected' \in BOOLEAN
  OBVIOUS
<1>2. closeConfirmed' \in BOOLEAN /\ scanConfirmed' \in BOOLEAN
  OBVIOUS
<1>3. serviceFound' \in BOOLEAN /\ characteristicFound' \in BOOLEAN /\ ready' \in BOOLEAN /\ startupFailed' \in BOOLEAN
  OBVIOUS
<1>4. abortRequested' \in BOOLEAN /\ reconnectRequested' \in BOOLEAN /\ closeAnnounced' \in BOOLEAN /\ stop' \in BOOLEAN
  OBVIOUS
<1>5. payloadVerified' \in BOOLEAN /\ scanWanted' \in BOOLEAN /\ scanActive' \in BOOLEAN
  OBVIOUS
<1> QED BY <1>1, <1>2, <1>3, <1>4, <1>5

\* initialise_client_callback keeps the invariant.
LEMMA initialise_client_callback_Inv ==
  ASSUME Inv, initialise_client_callback
  PROVE  Inv'
<1> USE DEF Inv, TypeOK, initialise_client_callback, NextCallback, attemptVars, gateVars,
    foundVars, fileVars, mainVars, loopVars, radioVars, scanVars
<1>1. FlagsTypeOK'
  BY initialise_client_callback_Flags
<1>2. StatusTypeOK' /\ FaultsTypeOK' /\ DataTypeOK' /\ LoopTypeOK' /\ RadioTypeOK'
  BY QueueFacts, FileAssumed, GateAssumed, TimeoutsAssumed, NoPacketTyped, ZenonT(60) DEF
     FileAssumption, GateAssumption, TimeoutAssumption, FlagsTypeOK, StatusTypeOK,
     FaultsTypeOK, DataTypeOK, LoopTypeOK, RadioTypeOK, ScanByState, LifeByState, BleStates,
     Results, SetupStates
<1>3. LinkByState' /\ ScanByState' /\ GateByState'
  BY QueueFacts, GateAssumed DEF GateAssumption, LinkByState, ScanByState, GateByState,
     LifeByState, FlagsTypeOK, StatusTypeOK, DataTypeOK, RadioTypeOK, ScanQuiet,
     LinkedStates, WritingStates, WaitingStates
<1>4. VerdictByState' /\ LifeByState'
  BY QueueFacts, FileAssumed DEF FileAssumption, VerdictByState, LifeByState, LinkByState,
     ScanByState, GateByState, FlagsTypeOK, StatusTypeOK, DataTypeOK, LoopTypeOK,
     RadioTypeOK, ReplyHeld, ScanQuiet, LinkedStates, WritingStates, WaitingStates
<1> QED BY <1>1, <1>2, <1>3, <1>4

-----------------------------------------------------------------------------
(* GATT results, the radio and the environment                              *)

\* ServiceResult keeps the invariant.
LEMMA ServiceResult_Inv ==
  ASSUME Inv, ServiceResult
  PROVE  Inv'
<1> USE DEF Inv, TypeOK, ServiceResult, GattDropped, attemptVars, gateVars, fileVars,
    verdictVars, OutsideAttempt, mainVars, loopVars, bringUpVars, radioVars, scanVars
<1>1. FlagsTypeOK'
  BY DEF FlagsTypeOK
<1>2. StatusTypeOK' /\ FaultsTypeOK' /\ DataTypeOK' /\ LoopTypeOK' /\ RadioTypeOK'
  BY FileAssumed, GateAssumed, TimeoutsAssumed, NoPacketTyped DEF FileAssumption,
     GateAssumption, TimeoutAssumption, FlagsTypeOK, StatusTypeOK, FaultsTypeOK, DataTypeOK,
     LoopTypeOK, RadioTypeOK, ScanByState, LifeByState, BleStates, Results, SetupStates
<1>3. LinkByState' /\ ScanByState' /\ GateByState'
  BY GateAssumed DEF GateAssumption, LinkByState, ScanByState, GateByState, LifeByState,
     FlagsTypeOK, StatusTypeOK, DataTypeOK, RadioTypeOK, ScanQuiet, LinkedStates,
     WritingStates, WaitingStates
<1>4. VerdictByState' /\ LifeByState'
  BY FileAssumed DEF FileAssumption, VerdictByState, LifeByState, LinkByState, ScanByState,
     GateByState, FlagsTypeOK, StatusTypeOK, DataTypeOK, LoopTypeOK, RadioTypeOK, ReplyHeld,
     ScanQuiet, LinkedStates, WritingStates, WaitingStates
<1> QED BY <1>1, <1>2, <1>3, <1>4

\* CharacteristicResult keeps the invariant.
LEMMA CharacteristicResult_Inv ==
  ASSUME Inv, CharacteristicResult
  PROVE  Inv'
<1> USE DEF Inv, TypeOK, CharacteristicResult, GattDropped, attemptVars, gateVars, fileVars,
    verdictVars, OutsideAttempt, mainVars, loopVars, bringUpVars, radioVars, scanVars
<1>1. FlagsTypeOK'
  BY DEF FlagsTypeOK
<1>2. StatusTypeOK' /\ FaultsTypeOK' /\ DataTypeOK' /\ LoopTypeOK' /\ RadioTypeOK'
  BY FileAssumed, GateAssumed, TimeoutsAssumed, NoPacketTyped DEF FileAssumption,
     GateAssumption, TimeoutAssumption, FlagsTypeOK, StatusTypeOK, FaultsTypeOK, DataTypeOK,
     LoopTypeOK, RadioTypeOK, ScanByState, LifeByState, BleStates, Results, SetupStates
<1>3. LinkByState' /\ ScanByState' /\ GateByState'
  BY GateAssumed DEF GateAssumption, LinkByState, ScanByState, GateByState, LifeByState,
     FlagsTypeOK, StatusTypeOK, DataTypeOK, RadioTypeOK, ScanQuiet, LinkedStates,
     WritingStates, WaitingStates
<1>4. VerdictByState' /\ LifeByState'
  BY FileAssumed DEF FileAssumption, VerdictByState, LifeByState, LinkByState, ScanByState,
     GateByState, FlagsTypeOK, StatusTypeOK, DataTypeOK, LoopTypeOK, RadioTypeOK, ReplyHeld,
     ScanQuiet, LinkedStates, WritingStates, WaitingStates
<1> QED BY <1>1, <1>2, <1>3, <1>4

\* PacketSent keeps the invariant.
LEMMA PacketSent_Inv ==
  ASSUME Inv, PacketSent
  PROVE  Inv'
<1> USE DEF Inv, TypeOK, PacketSent, attemptVars, gateVars, foundVars, fileVars,
    verdictVars, OutsideAttempt, mainVars, loopVars, bringUpVars, scanVars
<1>1. FlagsTypeOK'
  BY DEF FlagsTypeOK
<1>2. StatusTypeOK' /\ FaultsTypeOK' /\ DataTypeOK' /\ LoopTypeOK' /\ RadioTypeOK'
  BY FileAssumed, GateAssumed, TimeoutsAssumed, NoPacketTyped DEF FileAssumption,
     GateAssumption, TimeoutAssumption, FlagsTypeOK, StatusTypeOK, FaultsTypeOK, DataTypeOK,
     LoopTypeOK, RadioTypeOK, ScanByState, LifeByState, BleStates, Results, SetupStates
<1>3. LinkByState' /\ ScanByState' /\ GateByState'
  BY GateAssumed DEF GateAssumption, LinkByState, ScanByState, GateByState, LifeByState,
     FlagsTypeOK, StatusTypeOK, DataTypeOK, RadioTypeOK, ScanQuiet, LinkedStates,
     WritingStates, WaitingStates
<1>4. VerdictByState' /\ LifeByState'
  BY FileAssumed DEF FileAssumption, VerdictByState, LifeByState, LinkByState, ScanByState,
     GateByState, FlagsTypeOK, StatusTypeOK, DataTypeOK, LoopTypeOK, RadioTypeOK, ReplyHeld,
     ScanQuiet, LinkedStates, WritingStates, WaitingStates
<1> QED BY <1>1, <1>2, <1>3, <1>4

\* SendScanCommand keeps the invariant.
LEMMA SendScanCommand_Inv ==
  ASSUME Inv, SendScanCommand
  PROVE  Inv'
<1> USE DEF Inv, TypeOK, SendScanCommand, attemptVars, gateVars, foundVars, fileVars,
    verdictVars, OutsideAttempt, mainVars, loopVars, bringUpVars
<1>1. FlagsTypeOK'
  BY DEF FlagsTypeOK
<1>2. StatusTypeOK' /\ FaultsTypeOK' /\ DataTypeOK' /\ LoopTypeOK' /\ RadioTypeOK'
  BY FileAssumed, GateAssumed, TimeoutsAssumed, NoPacketTyped DEF FileAssumption,
     GateAssumption, TimeoutAssumption, FlagsTypeOK, StatusTypeOK, FaultsTypeOK, DataTypeOK,
     LoopTypeOK, RadioTypeOK, ScanByState, LifeByState, BleStates, Results, SetupStates
<1>3. LinkByState' /\ ScanByState' /\ GateByState'
  BY GateAssumed DEF GateAssumption, LinkByState, ScanByState, GateByState, LifeByState,
     FlagsTypeOK, StatusTypeOK, DataTypeOK, RadioTypeOK, ScanQuiet, LinkedStates,
     WritingStates, WaitingStates
<1>4. VerdictByState' /\ LifeByState'
  BY FileAssumed DEF FileAssumption, VerdictByState, LifeByState, LinkByState, ScanByState,
     GateByState, FlagsTypeOK, StatusTypeOK, DataTypeOK, LoopTypeOK, RadioTypeOK, ReplyHeld,
     ScanQuiet, LinkedStates, WritingStates, WaitingStates
<1> QED BY <1>1, <1>2, <1>3, <1>4

\* ScanCommandFailed keeps the invariant.
LEMMA ScanCommandFailed_Inv ==
  ASSUME Inv, ScanCommandFailed
  PROVE  Inv'
<1> USE DEF Inv, TypeOK, ScanCommandFailed, finish_attempt, SetState, gateVars, foundVars,
    fileVars, OutsideAttempt, mainVars, loopVars, bringUpVars
<1>1. FlagsTypeOK'
  BY ZenonT(60) DEF FlagsTypeOK
<1>2. StatusTypeOK' /\ FaultsTypeOK' /\ DataTypeOK' /\ LoopTypeOK' /\ RadioTypeOK'
  BY FileAssumed, GateAssumed, TimeoutsAssumed, NoPacketTyped DEF FileAssumption,
     GateAssumption, TimeoutAssumption, FlagsTypeOK, StatusTypeOK, FaultsTypeOK, DataTypeOK,
     LoopTypeOK, RadioTypeOK, ScanByState, LifeByState, BleStates, Results, SetupStates
<1>3. LinkByState' /\ ScanByState' /\ GateByState'
  BY GateAssumed DEF GateAssumption, LinkByState, ScanByState, GateByState, LifeByState,
     FlagsTypeOK, StatusTypeOK, DataTypeOK, RadioTypeOK, ScanQuiet, LinkedStates,
     WritingStates, WaitingStates
<1>4. VerdictByState' /\ LifeByState'
  BY FileAssumed DEF FileAssumption, VerdictByState, LifeByState, LinkByState, ScanByState,
     GateByState, FlagsTypeOK, StatusTypeOK, DataTypeOK, LoopTypeOK, RadioTypeOK, ReplyHeld,
     ScanQuiet, LinkedStates, WritingStates, WaitingStates
<1> QED BY <1>1, <1>2, <1>3, <1>4

\* ScanCommandComplete keeps the flags Boolean.
LEMMA ScanCommandComplete_Flags ==
  ASSUME FlagsTypeOK, ScanCommandComplete
  PROVE  FlagsTypeOK'
<1> USE DEF FlagsTypeOK, ScanCommandComplete, foundVars, fileVars, OutsideAttempt, mainVars,
    loopVars, bringUpVars, attemptVars, verdictVars, finish_attempt, SetState,
    begin_connection, MoveOn, transfer_failed, close_attempt, Enter, GateResult
<1>1. attemptRunning' \in BOOLEAN /\ listening' \in BOOLEAN /\ connected' \in BOOLEAN
  OBVIOUS
<1>2. closeConfirmed' \in BOOLEAN /\ scanConfirmed' \in BOOLEAN
  OBVIOUS
<1>3. serviceFound' \in BOOLEAN /\ characteristicFound' \in BOOLEAN /\ ready' \in BOOLEAN /\ startupFailed' \in BOOLEAN
  OBVIOUS
<1>4. abortRequested' \in BOOLEAN /\ reconnectRequested' \in BOOLEAN /\ closeAnnounced' \in BOOLEAN /\ stop' \in BOOLEAN
  OBVIOUS
<1>5. payloadVerified' \in BOOLEAN /\ scanWanted' \in BOOLEAN /\ scanActive' \in BOOLEAN
  OBVIOUS
<1> QED BY <1>1, <1>2, <1>3, <1>4, <1>5

\* ScanCommandComplete keeps the invariant.
LEMMA ScanCommandComplete_Inv ==
  ASSUME Inv, ScanCommandComplete
  PROVE  Inv'
<1> USE DEF Inv, TypeOK, ScanCommandComplete, foundVars, fileVars, OutsideAttempt, mainVars,
    loopVars, bringUpVars, attemptVars, verdictVars, finish_attempt, SetState,
    begin_connection, MoveOn, transfer_failed, close_attempt, Enter, GateResult
<1>1. FlagsTypeOK'
  BY ScanCommandComplete_Flags
<1>2. StatusTypeOK'
  BY TimeoutsAssumed DEF TimeoutAssumption, StatusTypeOK, FlagsTypeOK, LinkedStates,
     WritingStates, WaitingStates, SetupStates, CleanupStates, BleStates, Results
<1>3. FaultsTypeOK'
  BY DEF FaultsTypeOK
<1>4. DataTypeOK'
  BY FileAssumed, GateAssumed, NoPacketTyped, EmptyFile DEF FileAssumption, GateAssumption,
     DataTypeOK, ScanByState
<1>5. LoopTypeOK'
  BY TimeoutsAssumed DEF TimeoutAssumption, LoopTypeOK, StatusTypeOK, Results
<1>6. RadioTypeOK'
  BY DEF RadioTypeOK, LifeByState
<1>7. LinkByState'
  BY DEF LinkByState, ScanByState, LifeByState, FlagsTypeOK, StatusTypeOK, RadioTypeOK,
     ScanQuiet, LinkedStates, WritingStates, WaitingStates, SetupStates, CleanupStates,
     BleStates, Results
<1>8. ScanByState'
  BY GateAssumed DEF GateAssumption, ScanByState, LinkByState, LifeByState, FlagsTypeOK,
     StatusTypeOK, DataTypeOK, RadioTypeOK, ScanQuiet, LinkedStates, WritingStates,
     WaitingStates, SetupStates, CleanupStates, BleStates, Results
<1>9. GateByState'
  BY DEF GateByState, LinkByState, ScanByState, LifeByState, FlagsTypeOK, StatusTypeOK,
     RadioTypeOK, ScanQuiet, LinkedStates, WritingStates, WaitingStates, SetupStates,
     CleanupStates, BleStates, Results
<1>10. VerdictByState'
  BY FileAssumed DEF FileAssumption, VerdictByState, LinkByState, GateByState, LifeByState,
     FlagsTypeOK, StatusTypeOK, DataTypeOK, RadioTypeOK, ReplyHeld, LinkedStates,
     WritingStates, WaitingStates, SetupStates, CleanupStates, BleStates, Results
<1>11. LifeByState'
  BY DEF LifeByState, LinkByState, ScanByState, GateByState, FlagsTypeOK, StatusTypeOK,
     LoopTypeOK, RadioTypeOK, ScanQuiet, LinkedStates, WritingStates, WaitingStates,
     SetupStates, CleanupStates, BleStates, Results
<1> QED BY <1>1, <1>2, <1>3, <1>4, <1>5, <1>6, <1>7, <1>8, <1>9, <1>10, <1>11

\* Advertisement keeps the flags Boolean.
LEMMA Advertisement_Flags ==
  ASSUME FlagsTypeOK, NEW close \in BOOLEAN, Advertisement(close)
  PROVE  FlagsTypeOK'
<1> USE DEF FlagsTypeOK, Advertisement, attemptVars, OpenGate, MoveOn, SetState, foundVars,
    fileVars, verdictVars, OutsideAttempt, mainVars, loopVars, bringUpVars
<1>1. attemptRunning' \in BOOLEAN /\ listening' \in BOOLEAN /\ connected' \in BOOLEAN
  OBVIOUS
<1>2. closeConfirmed' \in BOOLEAN /\ scanConfirmed' \in BOOLEAN
  OBVIOUS
<1>3. serviceFound' \in BOOLEAN /\ characteristicFound' \in BOOLEAN /\ ready' \in BOOLEAN /\ startupFailed' \in BOOLEAN
  OBVIOUS
<1>4. abortRequested' \in BOOLEAN /\ reconnectRequested' \in BOOLEAN /\ closeAnnounced' \in BOOLEAN /\ stop' \in BOOLEAN
  OBVIOUS
<1>5. payloadVerified' \in BOOLEAN /\ scanWanted' \in BOOLEAN /\ scanActive' \in BOOLEAN
  OBVIOUS
<1> QED BY <1>1, <1>2, <1>3, <1>4, <1>5

\* Advertisement keeps the invariant.
LEMMA Advertisement_Inv ==
  ASSUME Inv, NEW close \in BOOLEAN, Advertisement(close)
  PROVE  Inv'
<1> USE DEF Inv, TypeOK, Advertisement, attemptVars, OpenGate, MoveOn, SetState, foundVars,
    fileVars, verdictVars, OutsideAttempt, mainVars, loopVars, bringUpVars
<1>1. FlagsTypeOK'
  BY Advertisement_Flags
<1>2. StatusTypeOK'
  BY TimeoutsAssumed DEF TimeoutAssumption, StatusTypeOK, FlagsTypeOK, LinkedStates,
     WritingStates, WaitingStates, SetupStates, CleanupStates, BleStates, Results
<1>3. FaultsTypeOK'
  BY DEF FaultsTypeOK
<1>4. DataTypeOK'
  BY FileAssumed, GateAssumed, NoPacketTyped, EmptyFile DEF FileAssumption, GateAssumption,
     DataTypeOK, ScanByState
<1>5. LoopTypeOK'
  BY TimeoutsAssumed DEF TimeoutAssumption, LoopTypeOK, StatusTypeOK, Results
<1>6. RadioTypeOK'
  BY DEF RadioTypeOK, LifeByState
<1>7. LinkByState'
  BY DEF LinkByState, ScanByState, LifeByState, FlagsTypeOK, StatusTypeOK, RadioTypeOK,
     ScanQuiet, LinkedStates, WritingStates, WaitingStates, SetupStates, CleanupStates,
     BleStates, Results
<1>8. ScanByState'
  BY GateAssumed DEF GateAssumption, ScanByState, LinkByState, LifeByState, FlagsTypeOK,
     StatusTypeOK, DataTypeOK, RadioTypeOK, ScanQuiet, LinkedStates, WritingStates,
     WaitingStates, SetupStates, CleanupStates, BleStates, Results
<1>9. GateByState'
  BY DEF GateByState, LinkByState, ScanByState, LifeByState, FlagsTypeOK, StatusTypeOK,
     RadioTypeOK, ScanQuiet, LinkedStates, WritingStates, WaitingStates, SetupStates,
     CleanupStates, BleStates, Results
<1>10. VerdictByState'
  BY FileAssumed DEF FileAssumption, VerdictByState, LinkByState, GateByState, LifeByState,
     FlagsTypeOK, StatusTypeOK, DataTypeOK, RadioTypeOK, ReplyHeld, LinkedStates,
     WritingStates, WaitingStates, SetupStates, CleanupStates, BleStates, Results
<1>11. LifeByState'
  BY DEF LifeByState, LinkByState, ScanByState, GateByState, FlagsTypeOK, StatusTypeOK,
     LoopTypeOK, RadioTypeOK, ScanQuiet, LinkedStates, WritingStates, WaitingStates,
     SetupStates, CleanupStates, BleStates, Results
<1> QED BY <1>1, <1>2, <1>3, <1>4, <1>5, <1>6, <1>7, <1>8, <1>9, <1>10, <1>11

\* ConnectionFailed keeps the flags Boolean.
LEMMA ConnectionFailed_Flags ==
  ASSUME FlagsTypeOK, ConnectionFailed
  PROVE  FlagsTypeOK'
<1> USE DEF FlagsTypeOK, ConnectionFailed, finish_attempt, SetState, verdictVars,
    transfer_failed, close_attempt, Enter, GateResult, gateVars, foundVars, fileVars,
    OutsideAttempt, mainVars, loopVars, bringUpVars
<1>1. attemptRunning' \in BOOLEAN /\ listening' \in BOOLEAN /\ connected' \in BOOLEAN
  OBVIOUS
<1>2. closeConfirmed' \in BOOLEAN /\ scanConfirmed' \in BOOLEAN
  OBVIOUS
<1>3. serviceFound' \in BOOLEAN /\ characteristicFound' \in BOOLEAN /\ ready' \in BOOLEAN /\ startupFailed' \in BOOLEAN
  OBVIOUS
<1>4. abortRequested' \in BOOLEAN /\ reconnectRequested' \in BOOLEAN /\ closeAnnounced' \in BOOLEAN /\ stop' \in BOOLEAN
  OBVIOUS
<1>5. payloadVerified' \in BOOLEAN /\ scanWanted' \in BOOLEAN /\ scanActive' \in BOOLEAN
  OBVIOUS
<1> QED BY <1>1, <1>2, <1>3, <1>4, <1>5

\* ConnectionFailed keeps the invariant.
LEMMA ConnectionFailed_Inv ==
  ASSUME Inv, ConnectionFailed
  PROVE  Inv'
<1> USE DEF Inv, TypeOK, ConnectionFailed, finish_attempt, SetState, verdictVars,
    transfer_failed, close_attempt, Enter, GateResult, gateVars, foundVars, fileVars,
    OutsideAttempt, mainVars, loopVars, bringUpVars
<1>1. FlagsTypeOK'
  BY ConnectionFailed_Flags
<1>2. StatusTypeOK'
  BY TimeoutsAssumed DEF TimeoutAssumption, StatusTypeOK, FlagsTypeOK, LinkedStates,
     WritingStates, WaitingStates, SetupStates, CleanupStates, BleStates, Results
<1>3. FaultsTypeOK'
  BY DEF FaultsTypeOK
<1>4. DataTypeOK'
  BY FileAssumed, GateAssumed, NoPacketTyped, EmptyFile DEF FileAssumption, GateAssumption,
     DataTypeOK, ScanByState
<1>5. LoopTypeOK'
  BY TimeoutsAssumed DEF TimeoutAssumption, LoopTypeOK, StatusTypeOK, Results
<1>6. RadioTypeOK'
  BY DEF RadioTypeOK, LifeByState
<1>7. LinkByState'
  BY DEF LinkByState, ScanByState, LifeByState, FlagsTypeOK, StatusTypeOK, RadioTypeOK,
     ScanQuiet, LinkedStates, WritingStates, WaitingStates, SetupStates, CleanupStates,
     BleStates, Results
<1>8. ScanByState'
  BY GateAssumed DEF GateAssumption, ScanByState, LinkByState, LifeByState, FlagsTypeOK,
     StatusTypeOK, DataTypeOK, RadioTypeOK, ScanQuiet, LinkedStates, WritingStates,
     WaitingStates, SetupStates, CleanupStates, BleStates, Results
<1>9. GateByState'
  BY DEF GateByState, LinkByState, ScanByState, LifeByState, FlagsTypeOK, StatusTypeOK,
     RadioTypeOK, ScanQuiet, LinkedStates, WritingStates, WaitingStates, SetupStates,
     CleanupStates, BleStates, Results
<1>10. VerdictByState'
  BY FileAssumed DEF FileAssumption, VerdictByState, LinkByState, GateByState, LifeByState,
     FlagsTypeOK, StatusTypeOK, DataTypeOK, RadioTypeOK, ReplyHeld, LinkedStates,
     WritingStates, WaitingStates, SetupStates, CleanupStates, BleStates, Results
<1>11. LifeByState'
  BY DEF LifeByState, LinkByState, ScanByState, GateByState, FlagsTypeOK, StatusTypeOK,
     LoopTypeOK, RadioTypeOK, ScanQuiet, LinkedStates, WritingStates, WaitingStates,
     SetupStates, CleanupStates, BleStates, Results
<1> QED BY <1>1, <1>2, <1>3, <1>4, <1>5, <1>6, <1>7, <1>8, <1>9, <1>10, <1>11

\* ConnectionSucceeded keeps the flags Boolean.
LEMMA ConnectionSucceeded_Flags ==
  ASSUME FlagsTypeOK, ConnectionSucceeded
  PROVE  FlagsTypeOK'
<1> USE DEF FlagsTypeOK, ConnectionSucceeded, gateVars, fileVars, OutsideAttempt, mainVars,
    loopVars, bringUpVars, Enter, SetState, verdictVars, transfer_failed, close_attempt,
    finish_attempt, GateResult
<1>1. attemptRunning' \in BOOLEAN /\ listening' \in BOOLEAN /\ connected' \in BOOLEAN
  OBVIOUS
<1>2. closeConfirmed' \in BOOLEAN /\ scanConfirmed' \in BOOLEAN
  OBVIOUS
<1>3. serviceFound' \in BOOLEAN /\ characteristicFound' \in BOOLEAN /\ ready' \in BOOLEAN /\ startupFailed' \in BOOLEAN
  OBVIOUS
<1>4. abortRequested' \in BOOLEAN /\ reconnectRequested' \in BOOLEAN /\ closeAnnounced' \in BOOLEAN /\ stop' \in BOOLEAN
  OBVIOUS
<1>5. payloadVerified' \in BOOLEAN /\ scanWanted' \in BOOLEAN /\ scanActive' \in BOOLEAN
  OBVIOUS
<1> QED BY <1>1, <1>2, <1>3, <1>4, <1>5

\* ConnectionSucceeded keeps the invariant.
LEMMA ConnectionSucceeded_Inv ==
  ASSUME Inv, ConnectionSucceeded
  PROVE  Inv'
<1> USE DEF Inv, TypeOK, ConnectionSucceeded, gateVars, fileVars, OutsideAttempt, mainVars,
    loopVars, bringUpVars, Enter, SetState, verdictVars, transfer_failed, close_attempt,
    finish_attempt, GateResult
<1>1. FlagsTypeOK'
  BY ConnectionSucceeded_Flags
<1>2. StatusTypeOK'
  BY TimeoutsAssumed DEF TimeoutAssumption, StatusTypeOK, FlagsTypeOK, LinkedStates,
     WritingStates, WaitingStates, SetupStates, CleanupStates, BleStates, Results
<1>3. FaultsTypeOK'
  BY DEF FaultsTypeOK
<1>4. DataTypeOK'
  BY FileAssumed, GateAssumed, NoPacketTyped, EmptyFile DEF FileAssumption, GateAssumption,
     DataTypeOK, ScanByState
<1>5. LoopTypeOK'
  BY TimeoutsAssumed DEF TimeoutAssumption, LoopTypeOK, StatusTypeOK, Results
<1>6. RadioTypeOK'
  BY DEF RadioTypeOK, LifeByState
<1>7. LinkByState'
  BY DEF LinkByState, ScanByState, LifeByState, FlagsTypeOK, StatusTypeOK, RadioTypeOK,
     ScanQuiet, LinkedStates, WritingStates, WaitingStates, SetupStates, CleanupStates,
     BleStates, Results
<1>8. ScanByState'
  BY GateAssumed DEF GateAssumption, ScanByState, LinkByState, LifeByState, FlagsTypeOK,
     StatusTypeOK, DataTypeOK, RadioTypeOK, ScanQuiet, LinkedStates, WritingStates,
     WaitingStates, SetupStates, CleanupStates, BleStates, Results
<1>9. GateByState'
  BY DEF GateByState, LinkByState, ScanByState, LifeByState, FlagsTypeOK, StatusTypeOK,
     RadioTypeOK, ScanQuiet, LinkedStates, WritingStates, WaitingStates, SetupStates,
     CleanupStates, BleStates, Results
<1>10. VerdictByState'
  BY FileAssumed DEF FileAssumption, VerdictByState, LinkByState, GateByState, LifeByState,
     FlagsTypeOK, StatusTypeOK, DataTypeOK, RadioTypeOK, ReplyHeld, LinkedStates,
     WritingStates, WaitingStates, SetupStates, CleanupStates, BleStates, Results
<1>11. LifeByState'
  BY DEF LifeByState, LinkByState, ScanByState, GateByState, FlagsTypeOK, StatusTypeOK,
     LoopTypeOK, RadioTypeOK, ScanQuiet, LinkedStates, WritingStates, WaitingStates,
     SetupStates, CleanupStates, BleStates, Results
<1> QED BY <1>1, <1>2, <1>3, <1>4, <1>5, <1>6, <1>7, <1>8, <1>9, <1>10, <1>11

\* Disconnection keeps the invariant.
LEMMA Disconnection_Inv ==
  ASSUME Inv, Disconnection
  PROVE  Inv'
<1> USE DEF Inv, TypeOK, Disconnection, finish_attempt, SetState, verdictVars, GateResult,
    gateVars, foundVars, fileVars, OutsideAttempt, mainVars, loopVars, bringUpVars, scanVars
<1>1. FlagsTypeOK'
  <2>1. listening' \in BOOLEAN /\ connected' \in BOOLEAN /\ attemptRunning' \in BOOLEAN
    OBVIOUS
  <2>2. payloadVerified' \in BOOLEAN
    BY DEF FlagsTypeOK
  <2>3. UNCHANGED <<abortRequested, closeConfirmed, scanConfirmed, serviceFound,
                    characteristicFound, reconnectRequested, ready, startupFailed,
                    closeAnnounced, stop, scanWanted, scanActive>>
    OBVIOUS
  <2> QED
    BY <2>1, <2>2, <2>3 DEF FlagsTypeOK
<1>2. StatusTypeOK'
  BY TimeoutsAssumed DEF TimeoutAssumption, StatusTypeOK, FlagsTypeOK, LinkedStates,
     WritingStates, WaitingStates, SetupStates, CleanupStates, BleStates, Results
<1>3. FaultsTypeOK'
  BY DEF FaultsTypeOK
<1>4. DataTypeOK'
  BY FileAssumed, GateAssumed, NoPacketTyped, EmptyFile DEF FileAssumption, GateAssumption,
     DataTypeOK, ScanByState
<1>5. LoopTypeOK'
  BY TimeoutsAssumed DEF TimeoutAssumption, LoopTypeOK, StatusTypeOK, Results
<1>6. RadioTypeOK'
  BY DEF RadioTypeOK, LifeByState
<1>7. LinkByState'
  BY DEF LinkByState, ScanByState, LifeByState, FlagsTypeOK, StatusTypeOK, RadioTypeOK,
     ScanQuiet, LinkedStates, WritingStates, WaitingStates, SetupStates, CleanupStates,
     BleStates, Results
<1>8. ScanByState'
  BY GateAssumed DEF GateAssumption, ScanByState, LinkByState, LifeByState, FlagsTypeOK,
     StatusTypeOK, DataTypeOK, RadioTypeOK, ScanQuiet, LinkedStates, WritingStates,
     WaitingStates, SetupStates, CleanupStates, BleStates, Results
<1>9. GateByState'
  BY DEF GateByState, LinkByState, ScanByState, LifeByState, FlagsTypeOK, StatusTypeOK,
     RadioTypeOK, ScanQuiet, LinkedStates, WritingStates, WaitingStates, SetupStates,
     CleanupStates, BleStates, Results
<1>10. VerdictByState'
  BY FileAssumed DEF FileAssumption, VerdictByState, LinkByState, GateByState, LifeByState,
     FlagsTypeOK, StatusTypeOK, DataTypeOK, RadioTypeOK, ReplyHeld, LinkedStates,
     WritingStates, WaitingStates, SetupStates, CleanupStates, BleStates, Results
<1>11. LifeByState'
  BY DEF LifeByState, LinkByState, ScanByState, GateByState, FlagsTypeOK, StatusTypeOK,
     LoopTypeOK, RadioTypeOK, ScanQuiet, LinkedStates, WritingStates, WaitingStates,
     SetupStates, CleanupStates, BleStates, Results
<1> QED BY <1>1, <1>2, <1>3, <1>4, <1>5, <1>6, <1>7, <1>8, <1>9, <1>10, <1>11

\* StackWorking keeps the invariant.
LEMMA StackWorking_Inv ==
  ASSUME Inv, StackWorking
  PROVE  Inv'
<1> USE DEF Inv, TypeOK, StackWorking, attemptVars, gateVars, foundVars, fileVars,
    verdictVars, mainVars, loopVars, radioVars, scanVars
<1>1. FlagsTypeOK'
  BY DEF FlagsTypeOK
<1>2. StatusTypeOK' /\ FaultsTypeOK' /\ DataTypeOK' /\ LoopTypeOK' /\ RadioTypeOK'
  BY FileAssumed, GateAssumed, TimeoutsAssumed, NoPacketTyped DEF FileAssumption,
     GateAssumption, TimeoutAssumption, FlagsTypeOK, StatusTypeOK, FaultsTypeOK, DataTypeOK,
     LoopTypeOK, RadioTypeOK, ScanByState, LifeByState, BleStates, Results, SetupStates
<1>3. LinkByState' /\ ScanByState' /\ GateByState'
  BY GateAssumed DEF GateAssumption, LinkByState, ScanByState, GateByState, LifeByState,
     FlagsTypeOK, StatusTypeOK, DataTypeOK, RadioTypeOK, ScanQuiet, LinkedStates,
     WritingStates, WaitingStates
<1>4. VerdictByState' /\ LifeByState'
  BY FileAssumed DEF FileAssumption, VerdictByState, LifeByState, LinkByState, ScanByState,
     GateByState, FlagsTypeOK, StatusTypeOK, DataTypeOK, LoopTypeOK, RadioTypeOK, ReplyHeld,
     ScanQuiet, LinkedStates, WritingStates, WaitingStates
<1> QED BY <1>1, <1>2, <1>3, <1>4

\* PressStop keeps the flags Boolean.
LEMMA PressStop_Flags ==
  ASSUME FlagsTypeOK, PressStop
  PROVE  FlagsTypeOK'
<1> USE DEF FlagsTypeOK, PressStop, attemptVars, gateVars, foundVars, fileVars, verdictVars,
    mainVars, loopVars, bringUpVars, radioVars, scanVars
<1>1. attemptRunning' \in BOOLEAN /\ listening' \in BOOLEAN /\ connected' \in BOOLEAN
  OBVIOUS
<1>2. closeConfirmed' \in BOOLEAN /\ scanConfirmed' \in BOOLEAN
  OBVIOUS
<1>3. serviceFound' \in BOOLEAN /\ characteristicFound' \in BOOLEAN /\ ready' \in BOOLEAN /\ startupFailed' \in BOOLEAN
  OBVIOUS
<1>4. abortRequested' \in BOOLEAN /\ reconnectRequested' \in BOOLEAN /\ closeAnnounced' \in BOOLEAN /\ stop' \in BOOLEAN
  OBVIOUS
<1>5. payloadVerified' \in BOOLEAN /\ scanWanted' \in BOOLEAN /\ scanActive' \in BOOLEAN
  OBVIOUS
<1> QED BY <1>1, <1>2, <1>3, <1>4, <1>5

\* PressStop keeps the invariant.
LEMMA PressStop_Inv ==
  ASSUME Inv, PressStop
  PROVE  Inv'
<1> USE DEF Inv, TypeOK, PressStop, attemptVars, gateVars, foundVars, fileVars, verdictVars,
    mainVars, loopVars, bringUpVars, radioVars, scanVars
<1>1. FlagsTypeOK'
  BY PressStop_Flags
<1>2. StatusTypeOK' /\ FaultsTypeOK' /\ DataTypeOK' /\ LoopTypeOK' /\ RadioTypeOK'
  BY FileAssumed, GateAssumed, TimeoutsAssumed, NoPacketTyped DEF FileAssumption,
     GateAssumption, TimeoutAssumption, FlagsTypeOK, StatusTypeOK, FaultsTypeOK, DataTypeOK,
     LoopTypeOK, RadioTypeOK, ScanByState, LifeByState, BleStates, Results, SetupStates
<1>3. LinkByState' /\ ScanByState' /\ GateByState'
  BY GateAssumed DEF GateAssumption, LinkByState, ScanByState, GateByState, LifeByState,
     FlagsTypeOK, StatusTypeOK, DataTypeOK, RadioTypeOK, ScanQuiet, LinkedStates,
     WritingStates, WaitingStates
<1>4. VerdictByState' /\ LifeByState'
  BY FileAssumed DEF FileAssumption, VerdictByState, LifeByState, LinkByState, ScanByState,
     GateByState, FlagsTypeOK, StatusTypeOK, DataTypeOK, LoopTypeOK, RadioTypeOK, ReplyHeld,
     ScanQuiet, LinkedStates, WritingStates, WaitingStates
<1> QED BY <1>1, <1>2, <1>3, <1>4

\* Tick keeps the invariant.
LEMMA Tick_Inv ==
  ASSUME Inv, Tick
  PROVE  Inv'
<1> USE DEF Inv, TypeOK, Tick, Older, gateVars, foundVars, fileVars, verdictVars,
    bringUpVars, radioVars, scanVars
<1>1. FlagsTypeOK'
  BY DEF FlagsTypeOK
<1>2. StatusTypeOK' /\ FaultsTypeOK' /\ DataTypeOK' /\ LoopTypeOK' /\ RadioTypeOK'
  BY FileAssumed, GateAssumed, TimeoutsAssumed, NoPacketTyped DEF FileAssumption,
     GateAssumption, TimeoutAssumption, FlagsTypeOK, StatusTypeOK, FaultsTypeOK, DataTypeOK,
     LoopTypeOK, RadioTypeOK, ScanByState, LifeByState, BleStates, Results, SetupStates
<1>3. LinkByState' /\ ScanByState' /\ GateByState'
  BY GateAssumed DEF GateAssumption, LinkByState, ScanByState, GateByState, LifeByState,
     FlagsTypeOK, StatusTypeOK, DataTypeOK, RadioTypeOK, ScanQuiet, LinkedStates,
     WritingStates, WaitingStates
<1>4. VerdictByState' /\ LifeByState'
  BY FileAssumed DEF FileAssumption, VerdictByState, LifeByState, LinkByState, ScanByState,
     GateByState, FlagsTypeOK, StatusTypeOK, DataTypeOK, LoopTypeOK, RadioTypeOK, ReplyHeld,
     ScanQuiet, LinkedStates, WritingStates, WaitingStates
<1> QED BY <1>1, <1>2, <1>3, <1>4

-----------------------------------------------------------------------------
(***************************************************************************)
(* The file exchange.  A GATT callback runs in a linked state and leaves   *)
(* the main loop, the stack's bring-up and the gate alone (GattFrame);     *)
(* whatever it writes, the packets and the files stay well formed          *)
(* (ExchangeTyped).                                                        *)
(***************************************************************************)
GattFrame == UNCHANGED <<OutsideAttempt, gateVars, callbacks, scanActive, scanCommand>>

ExchangeTyped ==
  /\ serviceFound \in BOOLEAN /\ characteristicFound \in BOOLEAN /\ listening \in BOOLEAN
  /\ pending \in PacketSet /\ txPacket \in PacketSet
  /\ robotOffset \in 0..Len(RobotFile) /\ replyLength \in 0..TRANSFER_MAX_FILE_SIZE
  /\ replyFile \in Seq(Pieces) /\ replyCrc \in Seq(Pieces)
  /\ Len(replyFile) <= replyLength

\* The invariant types the exchange's own variables.
LEMMA ExchangeTypedNow == ASSUME Inv PROVE ExchangeTyped
BY DEF Inv, TypeOK, FlagsTypeOK, DataTypeOK, VerdictByState, ExchangeTyped

\* The client is in a linked state whenever a GATT event can reach it.
LEMMA GattState ==
  ASSUME Inv, ~GattDropped, link \in {"up", "closing"}
  PROVE  state \in LinkedStates /\ connected
BY DEF Inv, LinkByState, GattDropped

\* What a linked state says of the rest.
LEMMA LinkedFacts ==
  ASSUME Inv, state \in LinkedStates
  PROVE  /\ attemptRunning /\ connected /\ closeConfirmed /\ ~payloadVerified /\ ScanQuiet
         /\ link = "up" /\ closing # "COMPLETE" /\ ready
         /\ callbacks \notin {<<"start">>, <<"start", "abort">>, <<"init">>}
BY DEF Inv, LinkByState, ScanByState, GateByState, VerdictByState, LifeByState, LinkedStates,
   WritingStates, WaitingStates

\* A GATT callback that fails the transfer: the link is closed or lost, the verdict
\* is RETRY or FATAL, nothing of the reply is trusted.
LEMMA ExchangeFailed ==
  ASSUME Inv, state \in LinkedStates, NEW s \in LinkedStates,
         transfer_failed(s, connected, link), query' \in {"none", query},
         ExchangeTyped', GattFrame
  PROVE  Inv'
<1>a. /\ state' = "CLOSING" /\ phaseAge' = 0 /\ closing' \in {"RETRY", "FATAL"}
      /\ link' \in {"up", "closing"} /\ connected' = connected
      /\ pending' = NoPacket /\ faults' = faults \cup {"PAYLOAD"} /\ payloadVerified' = FALSE
      /\ UNCHANGED <<result, attemptRunning, listening, scanWanted>>
  BY LinkedFacts DEF transfer_failed, close_attempt, Enter, SetState, GateResult, LinkedStates,
     WritingStates, WaitingStates
<1>b. s \in LinkedStates /\ query' \in {"none", query} /\ ExchangeTyped' /\ GattFrame
  OBVIOUS
<1>1. FlagsTypeOK'
  BY <1>a, <1>b, LinkedFacts
     DEF Inv, TypeOK, FlagsTypeOK, ExchangeTyped, GattFrame, OutsideAttempt, mainVars, loopVars, bringUpVars, gateVars, ScanQuiet
<1>2. StatusTypeOK' /\ FaultsTypeOK'
  BY <1>a, <1>b, LinkedFacts, TimeoutsAssumed
     DEF Inv, TypeOK, StatusTypeOK, FaultsTypeOK, TimeoutAssumption, BleStates, Results, LinkedStates, WritingStates, WaitingStates, CleanupStates, SetupStates
<1>3. DataTypeOK'
  BY <1>a, <1>b, LinkedFacts
     DEF Inv, TypeOK, DataTypeOK, ExchangeTyped, GattFrame, OutsideAttempt, mainVars, loopVars, bringUpVars, gateVars
<1>4. LoopTypeOK' /\ RadioTypeOK'
  BY <1>a, <1>b, LinkedFacts
     DEF Inv, TypeOK, LoopTypeOK, RadioTypeOK, GattFrame, OutsideAttempt, mainVars, loopVars, bringUpVars, gateVars
<1>5. LinkByState'
  BY <1>a, <1>b, LinkedFacts
     DEF Inv, LinkByState, LinkedStates, WritingStates, WaitingStates
<1>6. ScanByState'
  BY <1>a, <1>b, LinkedFacts
     DEF Inv, ScanByState, ScanQuiet, GattFrame, OutsideAttempt, mainVars, loopVars, bringUpVars, gateVars, LinkedStates, WritingStates, WaitingStates
<1>7. GateByState'
  BY <1>a, <1>b, LinkedFacts
     DEF Inv, GateByState, GattFrame, OutsideAttempt, mainVars, loopVars, bringUpVars, gateVars, LinkedStates, WritingStates, WaitingStates
<1>8. VerdictByState'
  BY <1>a, <1>b, LinkedFacts
     DEF Inv, VerdictByState, ExchangeTyped, ReplyHeld, GattFrame, OutsideAttempt, mainVars, loopVars, bringUpVars, gateVars, LinkedStates, WritingStates, WaitingStates
<1>9. LifeByState'
  BY <1>a, <1>b, LinkedFacts
     DEF Inv, LifeByState, ScanQuiet, GattFrame, OutsideAttempt, mainVars, loopVars, bringUpVars, gateVars, LinkedStates, WritingStates, WaitingStates
<1> QED BY <1>1, <1>2, <1>3, <1>4, <1>5, <1>6, <1>7, <1>8, <1>9 DEF Inv, TypeOK

\* A GATT callback that moves the exchange to another linked state.
LEMMA ExchangeMoved ==
  ASSUME Inv, state \in LinkedStates, NEW s \in LinkedStates, SetState(s),
         query' \in {"none", "characteristic", "ccc", "write", query},
         UNCHANGED <<closing, result, attemptRunning, connected, verdictVars, scanWanted, link>>,
         ExchangeTyped', GattFrame,
         s \in {"WRITE_REPLY_NEXT", "WAIT_REPLY_PIECE"} => replyLength' > 0,
         s \in {"WRITE_COMPLETE", "WAIT_COMPLETE_ACK"} => ReplyHeld'
  PROVE  Inv'
<1>a. /\ state' = s /\ phaseAge' = 0
      /\ UNCHANGED <<closing, result, attemptRunning, connected, payloadVerified, faults,
                     scanWanted, link>>
  BY DEF SetState, verdictVars
<1>1. FlagsTypeOK'
  BY <1>a, LinkedFacts
     DEF Inv, TypeOK, FlagsTypeOK, ExchangeTyped, GattFrame, OutsideAttempt, mainVars, loopVars, bringUpVars, gateVars, ScanQuiet
<1>2. StatusTypeOK' /\ FaultsTypeOK'
  BY <1>a, LinkedFacts, TimeoutsAssumed
     DEF Inv, TypeOK, StatusTypeOK, FaultsTypeOK, TimeoutAssumption, BleStates, Results, LinkedStates, WritingStates, WaitingStates, CleanupStates, SetupStates
<1>3. DataTypeOK'
  BY <1>a, LinkedFacts
     DEF Inv, TypeOK, DataTypeOK, ExchangeTyped, GattFrame, OutsideAttempt, mainVars, loopVars, bringUpVars, gateVars
<1>4. LoopTypeOK' /\ RadioTypeOK'
  BY <1>a, LinkedFacts
     DEF Inv, TypeOK, LoopTypeOK, RadioTypeOK, GattFrame, OutsideAttempt, mainVars, loopVars, bringUpVars, gateVars
<1>5. LinkByState'
  BY <1>a, LinkedFacts
     DEF Inv, LinkByState, LinkedStates, WritingStates, WaitingStates
<1>6. ScanByState'
  BY <1>a, LinkedFacts
     DEF Inv, ScanByState, ScanQuiet, GattFrame, OutsideAttempt, mainVars, loopVars, bringUpVars, gateVars, LinkedStates, WritingStates, WaitingStates
<1>7. GateByState'
  BY <1>a, LinkedFacts
     DEF Inv, GateByState, GattFrame, OutsideAttempt, mainVars, loopVars, bringUpVars, gateVars, LinkedStates, WritingStates, WaitingStates
<1>8. VerdictByState'
  BY <1>a, LinkedFacts
     DEF Inv, VerdictByState, ExchangeTyped, ReplyHeld, GattFrame, OutsideAttempt, mainVars, loopVars, bringUpVars, gateVars, LinkedStates, WritingStates, WaitingStates
<1>9. LifeByState'
  BY <1>a, LinkedFacts
     DEF Inv, LifeByState, ScanQuiet, GattFrame, OutsideAttempt, mainVars, loopVars, bringUpVars, gateVars, LinkedStates, WritingStates, WaitingStates
<1> QED BY <1>1, <1>2, <1>3, <1>4, <1>5, <1>6, <1>7, <1>8, <1>9 DEF Inv, TypeOK

\* A GATT callback that leaves the phase and the files as they are.
LEMMA ExchangeStayed ==
  ASSUME Inv, state \in LinkedStates, query' \in {"none", "sent", query},
         query' = "sent" => query # "none",
         UNCHANGED <<attemptVars, verdictVars, scanWanted, link, fileVars>>,
         listening' = listening, ExchangeTyped', GattFrame
  PROVE  Inv'
<1>a. UNCHANGED <<state, phaseAge, closing, result, attemptRunning, connected, payloadVerified, faults,
                  scanWanted, link, robotOffset, replyLength, replyFile, replyCrc>>
  BY DEF attemptVars, verdictVars, fileVars
<1>1. FlagsTypeOK'
  BY <1>a, LinkedFacts
     DEF Inv, TypeOK, FlagsTypeOK, ExchangeTyped, GattFrame, OutsideAttempt, mainVars, loopVars, bringUpVars, gateVars, ScanQuiet
<1>2. StatusTypeOK' /\ FaultsTypeOK'
  BY <1>a, LinkedFacts, TimeoutsAssumed
     DEF Inv, TypeOK, StatusTypeOK, FaultsTypeOK, TimeoutAssumption, BleStates, Results, LinkedStates, WritingStates, WaitingStates, CleanupStates, SetupStates
<1>3. DataTypeOK'
  BY <1>a, LinkedFacts
     DEF Inv, TypeOK, DataTypeOK, ExchangeTyped, GattFrame, OutsideAttempt, mainVars, loopVars, bringUpVars, gateVars
<1>4. LoopTypeOK' /\ RadioTypeOK'
  BY <1>a, LinkedFacts
     DEF Inv, TypeOK, LoopTypeOK, RadioTypeOK, GattFrame, OutsideAttempt, mainVars, loopVars, bringUpVars, gateVars
<1>5. LinkByState'
  BY <1>a, LinkedFacts
     DEF Inv, LinkByState, LinkedStates, WritingStates, WaitingStates
<1>6. ScanByState'
  BY <1>a, LinkedFacts
     DEF Inv, ScanByState, ScanQuiet, GattFrame, OutsideAttempt, mainVars, loopVars, bringUpVars, gateVars, LinkedStates, WritingStates, WaitingStates
<1>7. GateByState'
  BY <1>a, LinkedFacts
     DEF Inv, GateByState, GattFrame, OutsideAttempt, mainVars, loopVars, bringUpVars, gateVars, LinkedStates, WritingStates, WaitingStates
<1>8. VerdictByState'
  BY <1>a, LinkedFacts
     DEF Inv, VerdictByState, ExchangeTyped, ReplyHeld, GattFrame, OutsideAttempt, mainVars, loopVars, bringUpVars, gateVars, LinkedStates, WritingStates, WaitingStates
<1>9. LifeByState'
  BY <1>a, LinkedFacts
     DEF Inv, LifeByState, ScanQuiet, GattFrame, OutsideAttempt, mainVars, loopVars, bringUpVars, gateVars, LinkedStates, WritingStates, WaitingStates
<1> QED BY <1>1, <1>2, <1>3, <1>4, <1>5, <1>6, <1>7, <1>8, <1>9 DEF Inv, TypeOK

\* The callback that calls the payload delivered, holding the verified reply.
LEMMA ExchangeDone ==
  ASSUME Inv, state \in LinkedStates, ReplyHeld, NEW s \in LinkedStates,
         payloadVerified' = TRUE, faults' = faults \ {"PAYLOAD"},
         close_attempt(s, connected, link, "COMPLETE"), UNCHANGED <<fileVars, foundVars, txPacket>>,
         query' \in {"none", query}, GattFrame
  PROVE  Inv'
<1>a. /\ state' = "CLOSING" /\ phaseAge' = 0 /\ closing' \in {"COMPLETE", "FATAL"}
      /\ link' \in {"up", "closing"} /\ connected' = connected /\ pending' = NoPacket
      /\ UNCHANGED <<result, attemptRunning, listening, scanWanted>>
  BY LinkedFacts DEF close_attempt, Enter, SetState, LinkedStates, WritingStates, WaitingStates
<1>b. ExchangeTyped'
  BY <1>a, ExchangeTypedNow, NoPacketTyped DEF ExchangeTyped, fileVars, foundVars
<1>c. ReplyHeld'
  BY DEF ReplyHeld, fileVars
<1>1. FlagsTypeOK'
  BY <1>a, <1>b, <1>c, LinkedFacts
     DEF Inv, TypeOK, FlagsTypeOK, ExchangeTyped, GattFrame, OutsideAttempt, mainVars, loopVars, bringUpVars, gateVars, ScanQuiet
<1>2. StatusTypeOK' /\ FaultsTypeOK'
  BY <1>a, <1>b, <1>c, LinkedFacts, TimeoutsAssumed
     DEF Inv, TypeOK, StatusTypeOK, FaultsTypeOK, TimeoutAssumption, BleStates, Results, LinkedStates, WritingStates, WaitingStates, CleanupStates, SetupStates
<1>3. DataTypeOK'
  BY <1>a, <1>b, <1>c, LinkedFacts
     DEF Inv, TypeOK, DataTypeOK, ExchangeTyped, GattFrame, OutsideAttempt, mainVars, loopVars, bringUpVars, gateVars
<1>4. LoopTypeOK' /\ RadioTypeOK'
  BY <1>a, <1>b, <1>c, LinkedFacts
     DEF Inv, TypeOK, LoopTypeOK, RadioTypeOK, GattFrame, OutsideAttempt, mainVars, loopVars, bringUpVars, gateVars
<1>5. LinkByState'
  BY <1>a, <1>b, <1>c, LinkedFacts
     DEF Inv, LinkByState, LinkedStates, WritingStates, WaitingStates
<1>6. ScanByState'
  BY <1>a, <1>b, <1>c, LinkedFacts
     DEF Inv, ScanByState, ScanQuiet, GattFrame, OutsideAttempt, mainVars, loopVars, bringUpVars, gateVars, LinkedStates, WritingStates, WaitingStates
<1>7. GateByState'
  BY <1>a, <1>b, <1>c, LinkedFacts
     DEF Inv, GateByState, GattFrame, OutsideAttempt, mainVars, loopVars, bringUpVars, gateVars, LinkedStates, WritingStates, WaitingStates
<1>8. VerdictByState'
  BY <1>a, <1>b, <1>c, LinkedFacts
     DEF Inv, VerdictByState, ExchangeTyped, ReplyHeld, GattFrame, OutsideAttempt, mainVars, loopVars, bringUpVars, gateVars, LinkedStates, WritingStates, WaitingStates
<1>9. LifeByState'
  BY <1>a, <1>b, <1>c, LinkedFacts
     DEF Inv, LifeByState, ScanQuiet, GattFrame, OutsideAttempt, mainVars, loopVars, bringUpVars, gateVars, LinkedStates, WritingStates, WaitingStates
<1> QED BY <1>1, <1>2, <1>3, <1>4, <1>5, <1>6, <1>7, <1>8, <1>9 DEF Inv, TypeOK

FilesTyped ==
  /\ robotOffset \in 0..Len(RobotFile) /\ replyLength \in 0..TRANSFER_MAX_FILE_SIZE
  /\ replyFile \in Seq(Pieces) /\ replyCrc \in Seq(Pieces)
  /\ Len(replyFile) <= replyLength

\* A packet put together from parts of their types is a packet.
LEMMA PacketTyped ==
  ASSUME NEW type \in MessageTypes, NEW number \in Nat, NEW body \in Seq(Pieces)
  PROVE  Packet(type, number, body) \in PacketSet
BY DEF Packet, PacketSet

\* What a callback may assume of an exchange that has reached the phase s.
PhaseFacts(s) ==
  /\ s \in {"WRITE_REPLY_NEXT", "WAIT_REPLY_PIECE"} => replyLength > 0
  /\ s \in {"WRITE_COMPLETE", "WAIT_COMPLETE_ACK"} => ReplyHeld

\* write_packet keeps the invariant, whether BTstack takes the write or refuses it.
LEMMA Wrote ==
  ASSUME Inv, state \in LinkedStates,
         NEW packet \in PacketSet, NEW slot \in PacketSet, NEW s \in WritingStates,
         write_packet(packet, s, slot), UNCHANGED <<foundVars, OutsideAttempt, gateVars, callbacks>>,
         FilesTyped', PhaseFacts(s)'
  PROVE  Inv'
<1>1. GattFrame /\ s \in LinkedStates
  BY DEF write_packet, GattFrame, LinkedStates
<1>2. CASE /\ MoveOn(s) /\ query' = "write" /\ pending' = slot
           /\ UNCHANGED <<scanWanted, link, verdictVars>>
  <2>1. ExchangeTyped'
    BY <1>2, ExchangeTypedNow DEF ExchangeTyped, FilesTyped, write_packet, MoveOn, foundVars
  <2> QED BY <1>1, <1>2, <2>1, ExchangeMoved DEF MoveOn, PhaseFacts
<1>3. CASE transfer_failed(s, connected, link) /\ query' = "none"
  <2>1. pending' = NoPacket /\ listening' = listening
    BY <1>1, <1>3, LinkedFacts DEF transfer_failed, close_attempt, Enter, LinkedStates,
       WritingStates, WaitingStates
  <2>2. ExchangeTyped'
    BY <1>3, <2>1, ExchangeTypedNow, NoPacketTyped DEF ExchangeTyped, FilesTyped, write_packet, foundVars
  <2> QED BY <1>1, <1>3, <2>2, ExchangeFailed
<1> QED BY <1>2, <1>3 DEF write_packet

\* A notification that ends the transfer keeps the invariant.
LEMMA GaveUp ==
  ASSUME Inv, state \in LinkedStates, NEW s \in LinkedStates, NEW op \in {"none", query},
         Give_up(s, op), UNCHANGED <<foundVars, OutsideAttempt, gateVars, callbacks>>
  PROVE  Inv'
<1>1. pending' = NoPacket /\ listening' = listening
  BY LinkedFacts DEF Give_up, transfer_failed, close_attempt, Enter, LinkedStates,
     WritingStates, WaitingStates
<1>2. ExchangeTyped' /\ GattFrame
  BY <1>1, ExchangeTypedNow, NoPacketTyped DEF ExchangeTyped, Give_up, fileVars, foundVars, GattFrame
<1> QED BY <1>2, ExchangeFailed DEF Give_up

\* write_next_robot_chunk keeps the invariant.
LEMMA SentChunk ==
  ASSUME Inv, state \in LinkedStates, NEW slot \in PacketSet, write_next_robot_chunk(slot),
         UNCHANGED <<foundVars, OutsideAttempt, gateVars, callbacks>>
  PROVE  Inv'
<1> USE FileAssumed DEF FileAssumption
<1>1. ExchangeTyped
  BY ExchangeTypedNow
<1>2. CASE robotOffset = Len(RobotFile)
  <2>1. Packet("FILE_END", 0, <<>>) \in PacketSet
    BY PacketTyped, EmptyFile DEF MessageTypes
  <2>2. FilesTyped' /\ PhaseFacts("WRITE_FILE_END")'
    BY <1>1, <1>2 DEF write_next_robot_chunk, FilesTyped, ExchangeTyped, PhaseFacts
  <2> QED BY <1>2, <2>1, <2>2, Wrote DEF write_next_robot_chunk, WritingStates
<1>3. CASE robotOffset # Len(RobotFile)
  <2>1. robotOffset + 1 \in 1..Len(RobotFile) /\ robotOffset % 256 \in Nat
    BY <1>1, <1>3 DEF ExchangeTyped
  <2>2. <<RobotFile[robotOffset + 1]>> \in Seq(Pieces)
    BY <2>1
  <2>3. Packet("FILE_DATA", robotOffset % 256, <<RobotFile[robotOffset + 1]>>) \in PacketSet
    BY <2>1, <2>2, PacketTyped, ZenonT(60) DEF MessageTypes
  <2>4. FilesTyped' /\ PhaseFacts("WRITE_FILE_DATA")'
    BY <1>1, <1>3, <2>1 DEF write_next_robot_chunk, FilesTyped, ExchangeTyped, PhaseFacts
  <2> QED BY <1>3, <2>3, <2>4, Wrote DEF write_next_robot_chunk, WritingStates
<1> QED BY <1>2, <1>3

\* A simple packet, the reply as the step leaves it.
LEMMA WroteSimple ==
  ASSUME Inv, state \in LinkedStates, NEW type \in MessageTypes, NEW s \in WritingStates,
         write_simple(type, s), UNCHANGED <<foundVars, OutsideAttempt, gateVars, callbacks>>,
         FilesTyped', PhaseFacts(s)'
  PROVE  Inv'
<1>1. Packet(type, 0, <<>>) \in PacketSet
  BY PacketTyped, EmptyFile
<1> QED BY <1>1, Wrote, NoPacketTyped DEF write_simple

\* handle_notification, for a notification that has just come and for one that
\* waited in the slot.
LEMMA Consumed ==
  ASSUME Inv, state \in LinkedStates, NEW s \in LinkedStates, PhaseFacts(s),
         NEW m \in PacketSet, NEW op \in {"none", query}, Consume(s, m, op),
         UNCHANGED <<foundVars, OutsideAttempt, gateVars, callbacks>>
  PROVE  Inv'
<1> USE FileAssumed DEF FileAssumption
<1>1. ExchangeTyped /\ m.number \in Nat /\ m.body \in Seq(Pieces)
  BY ExchangeTypedNow DEF PacketSet
<1>2. CASE Give_up(s, op)
  BY <1>2, GaveUp
<1>3. CASE Accept_HELLO_ACK(s, m, op) /\ ~Give_up(s, op)
  <2>1. FilesTyped' /\ PhaseFacts("WRITE_FILE_START")'
    BY <1>1, <1>3 DEF Accept_HELLO_ACK, FilesTyped, ExchangeTyped, PhaseFacts
  <2>2. Packet("FILE_START", Len(RobotFile), RobotFile) \in PacketSet
    BY PacketTyped DEF MessageTypes
  <2> QED BY <1>3, <2>1, <2>2, Wrote, NoPacketTyped DEF Accept_HELLO_ACK, WritingStates
<1>4. CASE Accept_FILE_READY(s, m, op) /\ ~Give_up(s, op)
  BY <1>4, SentChunk, NoPacketTyped DEF Accept_FILE_READY
<1>5. CASE Accept_FILE_RECEIVED(s, m, op) /\ ~Give_up(s, op)
  <2>1. FilesTyped' /\ PhaseFacts("WRITE_REPLY_REQUEST")'
    BY <1>1, <1>5 DEF Accept_FILE_RECEIVED, FilesTyped, ExchangeTyped, PhaseFacts, fileVars
  <2> QED BY <1>5, <2>1, WroteSimple DEF Accept_FILE_RECEIVED, WritingStates, MessageTypes
<1>6. CASE Accept_REPLY_START(s, m, op) /\ ~Give_up(s, op)
  <2>1. /\ replyLength' = m.number /\ m.number \in 1..TRANSFER_MAX_FILE_SIZE
        /\ replyFile' = <<>> /\ replyCrc' = m.body /\ robotOffset' = robotOffset
    BY <1>6 DEF Accept_REPLY_START, GoodReplyLength
  <2>2. FilesTyped' /\ PhaseFacts("WRITE_REPLY_NEXT")'
    BY <1>1, <2>1, EmptyFile DEF FilesTyped, ExchangeTyped, PhaseFacts
  <2> QED BY <1>6, <2>2, WroteSimple DEF Accept_REPLY_START, WritingStates, MessageTypes
<1>7. CASE Accept_REPLY_DATA(s, m, op) /\ ~Give_up(s, op)
  <2>1. /\ replyFile' = replyFile \o m.body /\ UNCHANGED <<robotOffset, replyLength, replyCrc>>
        /\ Len(m.body) = 1 /\ Len(replyFile) + 1 <= replyLength /\ replyLength > 0
    BY <1>1, <1>7 DEF Accept_REPLY_DATA, GoodChunk, PhaseFacts
  <2>2. replyFile' \in Seq(Pieces) /\ Len(replyFile') = Len(replyFile) + 1
    <3>1. replyFile \in Seq(Pieces) /\ m.body \in Seq(Pieces)
      BY <1>1 DEF ExchangeTyped
    <3>2. replyFile \o m.body \in Seq(Pieces) /\ Len(replyFile \o m.body) = Len(replyFile) + Len(m.body)
      BY <3>1, ConcatProperties
    <3> QED BY <2>1, <3>1, <3>2
  <2>3. FilesTyped' /\ PhaseFacts("WRITE_REPLY_NEXT")'
    BY <1>1, <2>1, <2>2 DEF FilesTyped, ExchangeTyped, PhaseFacts
  <2> QED BY <1>7, <2>3, WroteSimple DEF Accept_REPLY_DATA, WritingStates, MessageTypes
<1>8. CASE Accept_REPLY_END(s, m, op) /\ ~Give_up(s, op)
  <2>1. replyLength > 0 /\ ReplyVerified(m) /\ UNCHANGED fileVars
    BY <1>8 DEF Accept_REPLY_END, PhaseFacts
  <2>2. FilesTyped' /\ PhaseFacts("WRITE_COMPLETE")'
    BY <1>1, <2>1 DEF ReplyVerified, ReplyHeld, FilesTyped, ExchangeTyped, PhaseFacts, fileVars
  <2> QED BY <1>8, <2>2, WroteSimple DEF Accept_REPLY_END, WritingStates, MessageTypes
<1>9. CASE Accept_COMPLETE_ACK(s, m, op) /\ ~Give_up(s, op)
  <2>1. ReplyHeld /\ GattFrame
    BY <1>9 DEF Accept_COMPLETE_ACK, PhaseFacts, GattFrame
  <2> QED BY <1>9, <2>1, ExchangeDone DEF Accept_COMPLETE_ACK
<1>10. CASE Ignore(s, op)
  <2>1. /\ state' = s /\ (s = state \/ phaseAge' = 0) /\ (s = state => phaseAge' = phaseAge)
        /\ UNCHANGED <<closing, result, attemptRunning, connected, listening>>
    BY <1>10 DEF Ignore, attemptVars, MoveOn, SetState
  <2>2. ExchangeTyped' /\ GattFrame /\ query' \in {"none", query} /\ PhaseFacts(s)'
    BY <1>1, <1>10, <2>1, NoPacketTyped DEF Ignore, ExchangeTyped, GattFrame, fileVars, foundVars,
       scanVars, PhaseFacts, ReplyHeld
  <2>3. CASE SetState(s)
    BY <1>10, <2>1, <2>2, <2>3, ExchangeMoved DEF Ignore, scanVars, PhaseFacts
  <2>4. CASE s = state
    BY <1>10, <2>1, <2>2, <2>4, ExchangeStayed DEF Ignore, scanVars, attemptVars
  <2> QED BY <1>10, <2>3, <2>4 DEF Ignore, MoveOn
<1> QED BY <1>2, <1>3, <1>4, <1>5, <1>6, <1>7, <1>8, <1>9, <1>10 DEF Consume

\* Notification keeps the invariant, whatever packet a peer sends.
LEMMA Notification_Inv ==
  ASSUME Inv, NEW m \in PacketSet, Notification(m)
  PROVE  Inv'
<1>1. state \in LinkedStates /\ PhaseFacts(state)
  BY GattState DEF Notification, Inv, VerdictByState, PhaseFacts
<1>2. UNCHANGED <<foundVars, OutsideAttempt, gateVars, callbacks>>
  BY DEF Notification
<1>3. CASE Consume(state, m, query)
  BY <1>1, <1>2, <1>3, Consumed
<1>4. CASE Give_up(state, query)
  BY <1>1, <1>2, <1>4, GaveUp
<1>5. CASE pending' = m /\ UNCHANGED <<attemptVars, verdictVars, fileVars, radioVars>>
  <2>1. /\ GattFrame /\ query' = query
        /\ UNCHANGED <<attemptVars, verdictVars, scanWanted, link, fileVars>>
        /\ listening' = listening
    BY <1>2, <1>5 DEF GattFrame, radioVars, scanVars, attemptVars
  <2>2. ExchangeTyped'
    BY <1>1, <1>2, <1>5, ExchangeTypedNow DEF ExchangeTyped, foundVars, attemptVars, fileVars, radioVars
  <2> QED BY <1>1, <2>1, <2>2, ExchangeStayed
<1> QED BY <1>3, <1>4, <1>5 DEF Notification

\* A discovery or subscription that fails keeps the invariant.
LEMMA SetupFailed ==
  ASSUME Inv, state \in LinkedStates, NEW s \in LinkedStates,
         transfer_failed(s, connected, link), query' = "none", GattFrame,
         characteristicFound' \in BOOLEAN, serviceFound' \in BOOLEAN, UNCHANGED <<fileVars, txPacket>>
  PROVE  Inv'
<1>1. pending' = NoPacket /\ listening' = listening
  BY LinkedFacts DEF transfer_failed, close_attempt, Enter, LinkedStates, WritingStates, WaitingStates
<1>2. ExchangeTyped'
  BY <1>1, ExchangeTypedNow, NoPacketTyped DEF ExchangeTyped, fileVars
<1> QED BY <1>2, ExchangeFailed

\* A set-up operation is asked for, with the listener on or off, or refused.
LEMMA StartedSetup ==
  ASSUME Inv, state \in LinkedStates, NEW s \in LinkedStates \ (WritingStates \cup WaitingStates),
         NEW op \in {"characteristic", "ccc"}, NEW listen \in BOOLEAN, StartSetup(s, op, listen),
         characteristicFound' \in BOOLEAN, serviceFound' \in BOOLEAN,
         UNCHANGED <<fileVars, txPacket, scanActive, scanCommand, OutsideAttempt, gateVars, callbacks>>
  PROVE  Inv'
<1>1. GattFrame
  BY DEF GattFrame
<1>2. CASE /\ SetState(s) /\ listening' = listen /\ query' = op
           /\ UNCHANGED <<closing, result, attemptRunning, connected, verdictVars,
                          pending, scanWanted, link>>
  <2>1. ExchangeTyped'
    BY <1>2, ExchangeTypedNow DEF ExchangeTyped, fileVars
  <2> QED BY <1>1, <1>2, <2>1, ExchangeMoved DEF WritingStates, WaitingStates
<1>3. CASE transfer_failed(s, connected, link) /\ query' = "none"
  BY <1>1, <1>3, SetupFailed
<1> QED BY <1>2, <1>3 DEF StartSetup

\* A step that at most ends the GATT operation.
LEMMA NothingMoved ==
  ASSUME Inv, query' \in {"none", query},
         UNCHANGED <<attemptVars, foundVars, fileVars, verdictVars, pending, scanVars, link, txPacket,
                     OutsideAttempt, gateVars, callbacks>>
  PROVE  Inv'
<1> USE DEF Inv, TypeOK, attemptVars, foundVars, fileVars, verdictVars, scanVars, OutsideAttempt,
            mainVars, loopVars, bringUpVars, gateVars
<1>1. TypeOK'
  BY DEF FlagsTypeOK, StatusTypeOK, FaultsTypeOK, DataTypeOK, LoopTypeOK, RadioTypeOK
<1>2. LinkByState' /\ ScanByState' /\ GateByState'
  BY DEF LinkByState, ScanByState, GateByState, ScanQuiet
<1>3. VerdictByState' /\ LifeByState'
  BY DEF VerdictByState, LifeByState, ReplyHeld, ScanQuiet
<1> QED BY <1>1, <1>2, <1>3

\* QueryComplete keeps the invariant.
LEMMA QueryComplete_Inv ==
  ASSUME Inv, NEW ok \in BOOLEAN, QueryComplete(ok)
  PROVE  Inv'
<1>1. link \in {"up", "closing"} /\ UNCHANGED <<OutsideAttempt, gateVars, callbacks>>
  BY DEF Inv, LinkByState, QueryComplete
<1>2. CASE GattDropped
  <2>1. /\ query' = "none"
        /\ UNCHANGED <<attemptVars, foundVars, fileVars, verdictVars, pending, scanVars, link, txPacket>>
    BY <1>2 DEF QueryComplete
  <2> QED BY <1>1, <2>1, NothingMoved
<1> SUFFICES ASSUME ~GattDropped PROVE Inv'
  BY <1>2
<1>3. state \in LinkedStates
  BY <1>1, GattState
<1>4. CASE Give_up(state, "none") /\ UNCHANGED foundVars
  BY <1>1, <1>3, <1>4, GaveUp
<1>5. CASE state = "DISCOVER_SERVICE" /\ GattSucceeded
  <2>1. /\ UNCHANGED <<serviceFound, fileVars, txPacket, scanActive, scanCommand>>
        /\ characteristicFound' \in {FALSE, characteristicFound}
        /\ \/ StartSetup("DISCOVER_CHARACTERISTIC", "characteristic", listening)
           \/ transfer_failed(state, connected, link) /\ query' = "none"
    BY <1>5 DEF GattSucceeded, WritingStates
  <2>a. characteristicFound' \in BOOLEAN /\ serviceFound' \in BOOLEAN /\ listening \in BOOLEAN
    BY <2>1, ExchangeTypedNow DEF ExchangeTyped
  <2>2. CASE StartSetup("DISCOVER_CHARACTERISTIC", "characteristic", listening)
    BY <1>1, <1>3, <2>1, <2>a, <2>2, StartedSetup DEF LinkedStates, WritingStates, WaitingStates
  <2>3. CASE transfer_failed(state, connected, link) /\ query' = "none"
    BY <1>1, <1>3, <2>1, <2>a, <2>3, SetupFailed DEF GattFrame
  <2> QED BY <2>1, <2>2, <2>3
<1>6. CASE state = "DISCOVER_CHARACTERISTIC" /\ GattSucceeded
  <2>1. /\ UNCHANGED <<foundVars, fileVars, txPacket, scanActive, scanCommand>>
        /\ \/ StartSetup("ENABLE_NOTIFICATIONS", "ccc", TRUE)
           \/ transfer_failed(state, connected, link) /\ query' = "none"
    BY <1>6 DEF GattSucceeded, WritingStates
  <2>a. characteristicFound' \in BOOLEAN /\ serviceFound' \in BOOLEAN
    BY <2>1, ExchangeTypedNow DEF ExchangeTyped, foundVars
  <2>2. CASE StartSetup("ENABLE_NOTIFICATIONS", "ccc", TRUE)
    BY <1>1, <1>3, <2>1, <2>a, <2>2, StartedSetup DEF LinkedStates, WritingStates, WaitingStates
  <2>3. CASE transfer_failed(state, connected, link) /\ query' = "none"
    BY <1>1, <1>3, <2>1, <2>a, <2>3, SetupFailed DEF GattFrame
  <2> QED BY <2>1, <2>2, <2>3
<1>7. CASE state = "ENABLE_NOTIFICATIONS" /\ GattSucceeded
  <2>1. /\ write_packet(Packet("HELLO", TARGET_BEACON_ID, <<>>), "WRITE_HELLO", pending)
        /\ UNCHANGED <<foundVars, fileVars>>
    BY <1>7 DEF GattSucceeded, WritingStates
  <2>2. FilesTyped' /\ PhaseFacts("WRITE_HELLO")' /\ pending \in PacketSet
    BY <2>1, ExchangeTypedNow DEF FilesTyped, ExchangeTyped, PhaseFacts, fileVars
  <2>3. Packet("HELLO", TARGET_BEACON_ID, <<>>) \in PacketSet
    BY PacketTyped, EmptyFile DEF MessageTypes, TARGET_BEACON_ID
  <2> QED BY <1>1, <1>3, <2>1, <2>2, <2>3, Wrote DEF WritingStates
<1>8. CASE state = "WRITE_FILE_DATA" /\ GattSucceeded
  <2>1. write_next_robot_chunk(pending) /\ UNCHANGED foundVars /\ pending \in PacketSet
    BY <1>8, ExchangeTypedNow DEF GattSucceeded, ExchangeTyped
  <2> QED BY <1>1, <1>3, <2>1, SentChunk
<1>9. CASE state \in WritingStates \ {"WRITE_FILE_DATA"} /\ EnterWaiting(AfterWrite[state])
           /\ UNCHANGED foundVars
  <2>1. /\ AfterWrite[state] \in LinkedStates /\ PhaseFacts(AfterWrite[state])
        /\ AfterWrite[state] \in WaitingStates
    BY <1>9 DEF AfterWrite, Inv, VerdictByState, PhaseFacts, LinkedStates, WaitingStates, WritingStates
  <2>2. CASE pending = NoPacket
    <3>1. /\ MoveOn(AfterWrite[state]) /\ query' = "none"
          /\ UNCHANGED <<pending, verdictVars, fileVars, scanVars, link, txPacket>>
      BY <1>9, <2>2 DEF EnterWaiting
    <3>2. ExchangeTyped' /\ GattFrame
      BY <1>1, <1>9, <3>1, ExchangeTypedNow DEF ExchangeTyped, MoveOn, fileVars, foundVars,
         GattFrame, scanVars
    <3>3. /\ AfterWrite[state] \in {"WRITE_REPLY_NEXT", "WAIT_REPLY_PIECE"} => replyLength' > 0
          /\ AfterWrite[state] \in {"WRITE_COMPLETE", "WAIT_COMPLETE_ACK"} => ReplyHeld'
      BY <2>1, <3>1 DEF PhaseFacts, ReplyHeld, fileVars
    <3>4. /\ SetState(AfterWrite[state])
          /\ UNCHANGED <<closing, result, attemptRunning, connected, verdictVars, scanWanted, link>>
      BY <3>1 DEF MoveOn, scanVars
    <3> QED BY <1>3, <2>1, <3>1, <3>2, <3>3, <3>4, ExchangeMoved
  <2>3. CASE pending # NoPacket
    BY <1>1, <1>3, <1>9, <2>1, <2>3, Consumed, ExchangeTypedNow DEF EnterWaiting, ExchangeTyped
  <2> QED BY <2>2, <2>3
<1> QED BY <1>4, <1>5, <1>6, <1>7, <1>8, <1>9 DEF QueryComplete, GattSucceeded

-----------------------------------------------------------------------------
(* The invariant                                                            *)

\* The invariant holds when the client starts.
LEMMA InitInv == Init => Inv
<1> SUFFICES ASSUME Init PROVE Inv
  OBVIOUS
<1> USE FileAssumed, GateAssumed, TimeoutsAssumed
    DEF FileAssumption, GateAssumption, TimeoutAssumption, Init
<1>1. FlagsTypeOK /\ StatusTypeOK /\ FaultsTypeOK /\ LoopTypeOK /\ RadioTypeOK
  <2>1. FlagsTypeOK
    BY DEF FlagsTypeOK
  <2>2. StatusTypeOK /\ FaultsTypeOK
    BY DEF StatusTypeOK, FaultsTypeOK, BleStates, Results
  <2>3. LoopTypeOK
    BY DEF LoopTypeOK
  <2>4. RadioTypeOK
    BY DEF RadioTypeOK
  <2> QED BY <2>1, <2>2, <2>3, <2>4
<1>2. DataTypeOK
  BY NoPacketTyped, EmptyFile DEF DataTypeOK
<1>3. LinkByState /\ ScanByState /\ GateByState
  BY DEF LinkByState, ScanByState, GateByState, ScanQuiet, LinkedStates, WritingStates, WaitingStates
<1>4. VerdictByState
  BY EmptyFile DEF VerdictByState, ReplyHeld
<1>5. LifeByState
  BY QueueFacts DEF LifeByState, ScanQuiet
<1> QED BY <1>1, <1>2, <1>3, <1>4, <1>5 DEF Inv, TypeOK

\* Every step of the client, of its callbacks and of what surrounds it keeps the
\* invariant, and so does a step that changes nothing.
LEMMA NextInv == Inv /\ [Next]_vars => Inv'
<1> SUFFICES ASSUME Inv, [Next]_vars PROVE Inv'
  OBVIOUS
<1>1. CASE payload_client_init \/ payload_client_attempt \/ payload_client_retry
  BY <1>1, payload_client_init_Inv, run_attempt_Inv DEF payload_client_attempt, payload_client_retry
<1>2. CASE MainLoop
  BY <1>2, LoopTest_Inv, LoopCleanup_Inv, LoopTimeout_Inv, LoopQueueAbort_Inv, LoopAbortAge_Inv
     DEF MainLoop
<1>3. CASE ContextCallback
  BY <1>3, start_attempt_callback_Inv, abort_attempt_callback_Inv, initialise_client_callback_Inv
     DEF ContextCallback
<1>4. CASE GattEvent
  BY <1>4, PeerPacketsAssumed, Notification_Inv, ServiceResult_Inv, CharacteristicResult_Inv, PacketSent_Inv,
     QueryComplete_Inv DEF GattEvent
<1>5. CASE HciEvent
  BY <1>5, SendScanCommand_Inv, ScanCommandFailed_Inv, ScanCommandComplete_Inv, Advertisement_Inv,
     ConnectionFailed_Inv, ConnectionSucceeded_Inv, Disconnection_Inv, StackWorking_Inv DEF HciEvent
<1>6. CASE PressStop \/ Tick
  BY <1>6, PressStop_Inv, Tick_Inv
<1>7. CASE UNCHANGED vars
  <2>1. /\ query' = query /\ UNCHANGED callbacks
        /\ UNCHANGED <<attemptVars, foundVars, fileVars, verdictVars, pending, scanVars, link,
                       txPacket, OutsideAttempt, gateVars>>
    BY <1>7 DEF vars, radioVars, OutsideAttempt
  <2> QED BY <2>1, NothingMoved
<1> QED BY <1>1, <1>2, <1>3, <1>4, <1>5, <1>6, <1>7 DEF Next

\* The client keeps Inv for every file, peer, filter and choice of the timeouts.
THEOREM Invariance == Spec => []Inv
<1>1. Init => Inv
  BY InitInv
<1>2. Inv /\ [Next]_vars => Inv'
  BY NextInv
<1> QED BY <1>1, <1>2, PTL DEF Spec

\* Every variable keeps its type: no buffer, counter or queue leaves its bounds.
THEOREM TypeCorrect == Spec => []TypeOK
<1>1. Inv => TypeOK
  BY DEF Inv
<1> QED BY <1>1, Invariance, PTL

\* A result other than FATAL hands the radio back idle.
THEOREM ReleasesRadio == Spec => []RadioReleased
<1>1. Inv => RadioReleased
  BY DEF Inv, RadioReleased, LinkByState, ScanByState, LifeByState, ScanQuiet, LinkedStates,
     WritingStates, WaitingStates
<1> QED BY <1>1, Invariance, PTL

\* RETRY leaves what payload_client_retry asks for.
THEOREM RetryIsPossible == Spec => []RetryPossible
<1>1. Inv => RetryPossible
  BY DEF Inv, RetryPossible, GateByState, LifeByState
<1> QED BY <1>1, Invariance, PTL

\* COMPLETE is returned only with the whole verified reply held.
THEOREM CompleteOnlyVerified == Spec => []CompleteIsVerified
<1>1. Inv => CompleteIsVerified
  BY DEF Inv, CompleteIsVerified, VerdictByState, LifeByState, ReplyHeld
<1> QED BY <1>1, Invariance, PTL

\* The client holds a connection handle exactly while the controller has the link.
THEOREM HandleIsLink == Spec => []HandleMatchesLink
<1>1. Inv => HandleMatchesLink
  BY DEF Inv, LinkByState, HandleMatchesLink
<1> QED BY <1>1, Invariance, PTL

=============================================================================
