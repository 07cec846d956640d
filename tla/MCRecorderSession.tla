-------------------------- MODULE MCRecorderSession --------------------------
(* Recording sessions with a device behind a FIFO of two packets.            *)
EXTENDS RecorderSession

\* The session's packets come from the device, not from Next's environment.
NoPackets == {}
==============================================================================
