------------------------------- MODULE MCSession -------------------------------
(* Download sessions of a small device: two records, a FIFO of two packets   *)
(* whose overflow can cost two of them, one boundary marker, one link loss.  *)
EXTENDS DownloadSession

\* The session's packets come from the device, not from Next's environment.
NoPackets == {}
==============================================================================
