----------------------------- MODULE MCExchange -----------------------------
(* Two-piece files each way, and a filter and a gate of one reading: what   *)
(* opens the gate is the business of MCPayloadClient.  One of two robots is *)
(* sent out: its file fills received_file[] to the last piece, or is one    *)
(* piece longer.                                                            *)
EXTENDS Exchange

CONSTANTS p, q

MCPieces == {p, q}
MCRobotFile == <<p, q>>
MCLongFile == <<p, q, p>>
MCBeaconReply == <<q, p>>
MCPeerPackets == {}

VARIABLE fits                 \* which of the two robots runs, chosen at the start

LongFile == INSTANCE Exchange WITH RobotFile <- MCLongFile

MCInit == ExchangeInit /\ fits \in BOOLEAN
MCNext ==
  \/ fits /\ ExchangeNext /\ UNCHANGED fits
  \/ ~fits /\ LongFile!ExchangeNext /\ UNCHANGED fits
MCSpec == MCInit /\ [][MCNext]_<<exchangeVars, fits>>

\* Two states that differ only in values written before they are next read, or
\* never read at all (faults, closeAnnounced), have the same future: TLC
\* identifies them.
InUse(value, states) == IF state \in states THEN value ELSE 0
ReplyStates == {"WRITE_REPLY_NEXT", "WAIT_REPLY_PIECE", "WRITE_COMPLETE", "WAIT_COMPLETE_ACK"}
ExchangeView ==
  <<fits, state, closing, result, attemptRunning, connected, listening,
    InUse(phaseAge, BleStates \ {"IDLE"}),
    closeConfirmed, scanConfirmed, InUse(<<sampleCount, closeCount>>, {"SCANNING"}),
    InUse(serviceFound, {"DISCOVER_SERVICE"}),
    InUse(characteristicFound, {"DISCOVER_CHARACTERISTIC"}),
    robotOffset,
    IF payloadVerified \/ state \in ReplyStates THEN <<replyLength, replyFile, replyCrc>> ELSE 0,
    IF query = "write" THEN txPacket ELSE NoPacket,
    payloadVerified, pending, pc, elapsed, attemptAge, abortAge, returned,
    abortRequested, reconnectRequested, bringUpVars, scanVars, link, query, callbacks, stop,
    beaconVars, airVars, historyVars>>
=============================================================================
