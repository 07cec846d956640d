--------------------------------- MODULE Ubx ---------------------------------
(***************************************************************************)
(* The UBX packets the drivers exchange with a RaceBox (ubx.h).  A packet  *)
(* carries the header fields every handler tests and, of its payload, only *)
(* the value a handler branches on or stores:                              *)
(*                                                                         *)
(*   arg   the acknowledged message id for an ACK or a NACK (0 when the    *)
(*         acknowledged class is not 0xFF), the announced record count,    *)
(*         the record's position in the device's memory, a state byte, an  *)
(*         erase percentage, the enable byte of a recording command;       *)
(*   aux   the data rate byte of a recording command or a state change.    *)
(*                                                                         *)
(* Frames as bytes, checksums and buffering belong to RaceBoxFifo and to   *)
(* the codec.                                                              *)
(***************************************************************************)
EXTENDS Naturals

UBX_CLASS_RACEBOX == 255

UBX_ID_LIVE         == 1
UBX_ID_ACK          == 2
UBX_ID_NACK         == 3
UBX_ID_HISTORY      == 33
UBX_ID_REC_STATUS   == 34
UBX_ID_DOWNLOAD     == 35
UBX_ID_ERASE        == 36
UBX_ID_REC_CONFIG   == 37
UBX_ID_STATE_CHANGE == 38
UBX_ID_MEM_UNLOCK   == 48

\* The payload length of a complete live or history record.
RACEBOX_PAYLOAD_LEN == 80

UbxPacket == [cls : Nat, id : Nat, len : Nat, arg : Nat, aux : Nat]

\* A packet of the RaceBox class.
Packet(id, len, arg) ==
  [cls |-> UBX_CLASS_RACEBOX, id |-> id, len |-> len, arg |-> arg, aux |-> 0]

\* An ACK or a NACK says which command it answers in its first two bytes.
Answers(pkt, cmd) == pkt.len >= 2 /\ pkt.arg = cmd

\* raceBoxParse accepts live and history payloads that are long enough.
Parses(pkt) ==
  /\ pkt.cls = UBX_CLASS_RACEBOX
  /\ pkt.id \in {UBX_ID_LIVE, UBX_ID_HISTORY}
  /\ pkt.len >= RACEBOX_PAYLOAD_LEN
==============================================================================
