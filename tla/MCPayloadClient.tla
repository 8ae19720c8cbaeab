-------------------------- MODULE MCPayloadClient --------------------------
(* A small instance of PayloadClient for TLC: files of two pieces and a peer *)
(* that may send any notification, right or wrong, at any time.             *)
EXTENDS PayloadClient

CONSTANTS p, q

MCPieces == {p, q}
MCRobotFile == <<p, q>>

MCPeerPackets ==
  {Packet("HELLO_ACK", 1, <<>>), Packet("HELLO_ACK", 2, <<>>),
   Packet("FILE_READY", 1, <<>>),
   Packet("FILE_RECEIVED", 0, <<p, q>>), Packet("FILE_RECEIVED", 1, <<p, q>>),
   Packet("REPLY_START", 2, <<p, q>>), Packet("REPLY_START", 0, <<>>),
   Packet("REPLY_START", 3, <<p, q>>),
   Packet("REPLY_DATA", 0, <<p>>), Packet("REPLY_DATA", 1, <<q>>),
   Packet("REPLY_DATA", 1, <<p>>), Packet("REPLY_DATA", 2, <<p>>),
   Packet("REPLY_END", 0, <<p, q>>),
   Packet("COMPLETE_ACK", 1, <<>>), Packet("ERROR", 0, <<>>)}

\* A peer with little to say, for the liveness run and the counterexamples.
MCFewPackets == {Packet("HELLO_ACK", 1, <<>>), Packet("ERROR", 0, <<>>)}

\* Two states that differ only in values written before they are next read, or
\* never read (closeAnnounced), have the same future: TLC identifies them.
InUse(value, states) == IF state \in states THEN value ELSE 0
ReplyStates == {"WRITE_REPLY_NEXT", "WAIT_REPLY_PIECE", "WRITE_COMPLETE", "WAIT_COMPLETE_ACK"}
PayloadView ==
  <<state, closing, result, attemptRunning, connected, listening,
    InUse(phaseAge, BleStates \ {"IDLE"}),
    closeConfirmed, scanConfirmed, InUse(<<sampleCount, closeCount>>, {"SCANNING"}),
    InUse(serviceFound, {"DISCOVER_SERVICE"}),
    InUse(characteristicFound, {"DISCOVER_CHARACTERISTIC"}),
    robotOffset,
    IF payloadVerified \/ state \in ReplyStates THEN <<replyLength, replyFile, replyCrc>> ELSE 0,
    IF query = "write" THEN txPacket ELSE NoPacket,
    verdictVars, pending, pc, elapsed, attemptAge, abortAge, returned,
    abortRequested, reconnectRequested, bringUpVars, scanVars, link, query, callbacks, stop>>
=============================================================================
