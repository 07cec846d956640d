------------------------------ MODULE MCRecorder ------------------------------
(* The recorder handed any packet in any state: answers to its own and to    *)
(* other commands, short and complete messages, other classes.               *)
EXTENDS RecorderRequests

MCDeliverable ==
  {Packet(id, len, cmd) : id \in {UBX_ID_ACK, UBX_ID_NACK}, len \in {0, 2},
     cmd \in {UBX_ID_MEM_UNLOCK, UBX_ID_ERASE}}
    \cup {Packet(UBX_ID_REC_STATUS, len, 1) : len \in {4, 12}}
    \cup {Packet(UBX_ID_ERASE, len, 50) : len \in {0, 1}}
    \cup {[Packet(UBX_ID_STATE_CHANGE, 12, byte) EXCEPT !.aux = rate] : byte \in {0, 1}, rate \in {0, 10}}
    \cup {[Packet(UBX_ID_ACK, 2, UBX_ID_MEM_UNLOCK) EXCEPT !.cls = 1]}
==============================================================================
