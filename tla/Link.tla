--------------------------------- MODULE Link ---------------------------------
(***************************************************************************)
(* What lies between a driver and the RaceBox: the connection, the         *)
(* commands under way to the device, and the receive FIFO of RaceBoxBle,   *)
(* counted in packets.  The radio keeps order and loses nothing while it   *)
(* is up.                                                                  *)
(***************************************************************************)
EXTENDS Ubx, Sequences

CONSTANTS
  FifoCap,      \* packets the FIFO holds (4096 bytes in the code)
  MaxMangled,   \* most packets one overflowing push can cost
  MaxDrops      \* bound: link losses

ASSUME LinkAssumptions ==
  /\ FifoCap \in Nat \ {0}
  /\ MaxMangled \in Nat \ {0}
  /\ MaxDrops \in Nat

VARIABLES
  connected,  \* the link is up
  fifo,       \* packets received and not yet dispatched
  toDev,      \* commands on their way to the device
  drops       \* link losses so far

linkVars == <<connected, fifo, toDev, drops>>

LinkTypeOK ==
  /\ connected \in BOOLEAN
  /\ fifo \in Seq(UbxPacket)
  /\ toDev \in Seq(UbxPacket)
  /\ drops \in Nat

LinkInit == connected = TRUE /\ fifo = <<>> /\ toDev = <<>> /\ drops = 0

\* writeValue() can fail on a link that is up; it cannot succeed on one that is down.
Results == IF connected THEN BOOLEAN ELSE {FALSE}

Transmit(commands) == toDev' = toDev \o commands

Receives(id) == toDev # <<>> /\ Head(toDev).id = id

\* push(): the newest bytes always get in.  When the FIFO is full the oldest go,
\* which costs whole frames: the damaged one and those it swallows while
\* extractFrame() resynchronises, k in all.
Push(pkt, k) ==
  /\ IF Len(fifo) < FifoCap THEN k = 0 ELSE k \in 1 .. Len(fifo)
  /\ fifo' = Append(SubSeq(fifo, k + 1, Len(fifo)), pkt)

\* Mutant: the frame is read and left in the FIFO.
PeekFrame == UNCHANGED fifo
ExtractFrame == fifo' = Tail(fifo)

\* Mutant: the FIFO survives the link.
KeepFifo == UNCHANGED fifo
ClearFifo == fifo' = <<>>

\* The disconnect event; commands the device has not read are gone too.
LinkDown ==
  /\ connected
  /\ drops < MaxDrops
  /\ connected' = FALSE
  /\ drops' = drops + 1
  /\ ClearFifo
  /\ toDev' = <<>>

LinkUp == ~connected /\ connected' = TRUE /\ UNCHANGED <<fifo, toDev, drops>>
===============================================================================
