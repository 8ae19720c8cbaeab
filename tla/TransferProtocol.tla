-------------------------- MODULE TransferProtocol --------------------------
(***************************************************************************)
(* The packets of src/ble_transfer/transfer_protocol.h, which the robot    *)
(* writes and the beacon notifies.                                         *)
(*                                                                         *)
(* Data is abstracted: a file is a sequence of pieces, one piece per       *)
(* packet, and the CRC of a file is the file itself, so a CRC collision is *)
(* not modelled.                                                           *)
(***************************************************************************)
EXTENDS Naturals, Sequences

CONSTANTS
  Pieces,                  \* what one packet of file data can carry
  TRANSFER_MAX_FILE_SIZE   \* longest file either side can hold, in pieces

MessageTypes ==
  {"NONE", "HELLO", "HELLO_ACK", "FILE_START", "FILE_READY", "FILE_DATA",
   "FILE_END", "FILE_RECEIVED", "REPLY_REQUEST", "REPLY_START", "REPLY_NEXT",
   "REPLY_DATA", "REPLY_END", "COMPLETE", "COMPLETE_ACK", "ERROR"}

\* number is the beacon id, a length, a sequence number or a status; body is
\* file data or a CRC.
Packet(type, number, body) == [type |-> type, number |-> number, body |-> body]
PacketSet == [type : MessageTypes, number : Nat, body : Seq(Pieces)]
NoPacket == Packet("NONE", 0, <<>>)
=============================================================================
