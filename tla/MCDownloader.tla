----------------------------- MODULE MCDownloader -----------------------------
(* The downloader driven by every kind of packet it can be handed: complete  *)
(* and short ones, answers to its own and to other commands, other classes.  *)
EXTENDS DownloaderSilence

MCDeliverable ==
  {Packet(UBX_ID_DOWNLOAD, 4, n) : n \in 0 .. 2}
    \cup {Packet(UBX_ID_DOWNLOAD, 2, 1), Packet(UBX_ID_STATE_CHANGE, 12, 1)}
    \cup {Packet(UBX_ID_HISTORY, len, 0) : len \in {RACEBOX_PAYLOAD_LEN, 40}}
    \cup {Packet(id, len, cmd) : id \in {UBX_ID_ACK, UBX_ID_NACK}, len \in {0, 2},
            cmd \in {UBX_ID_MEM_UNLOCK, UBX_ID_DOWNLOAD, UBX_ID_ERASE}}
    \cup {[Packet(UBX_ID_DOWNLOAD, 4, 2) EXCEPT !.cls = 1]}
==============================================================================
