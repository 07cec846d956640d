----------------------------- MODULE FrameStream -----------------------------
(***************************************************************************)
(* The way of a message from the RaceBox to the application, byte by byte: *)
(* the device frames it, the radio cuts the stream into notifications, the *)
(* NimBLE task pushes these into the ring (RaceBoxFifo), the loop takes    *)
(* frames out, decodes them (UbxCodec) and hands each to the live or to    *)
(* the packet callback (RaceBoxBle::_drainFifo), the live ones parsed      *)
(* (RaceBoxParser).  The link may be lost anywhere in a frame.             *)
(*                                                                         *)
(* The device is external.  Where it frames a message it does so by the    *)
(* protocol's own description, not by this library's code: the checksum is *)
(* in closed form and the payload follows a table of fields.               *)
(***************************************************************************)
EXTENDS RaceBoxFifo, RaceBoxParser

CONSTANTS
  Readings,    \* what the device may measure and report live
  Others,      \* other packets it may send
  Commands,    \* packets the application may pass to sendCommand()
  ChunkSizes,  \* sizes of a notification
  Backlog,     \* bytes the device lets wait on the air before it sends more
  MaxSent,     \* bound: messages sent unasked, on all connections
  MaxCommands, \* bound: commands sent
  MaxDrops     \* bound: link losses

ASSUME StreamAssumptions ==
  /\ Commands \subseteq UbxBytes
  /\ ChunkSizes \subseteq Nat \ {0}
  /\ Backlog \in Nat
  /\ MaxSent \in Nat /\ MaxCommands \in Nat /\ MaxDrops \in Nat

VARIABLES
  link,          \* "up"; "closing": lost, not handled yet; "down"
  air,           \* bytes the device has sent and the radio has not delivered
  written,       \* the frame of the last command, <<>> once the device read it
  command,       \* the packet that frame is to stand for
  decodeErrors,  \* _decodeErrorCount
  sent, heard,   \* on this connection: messages sent, callbacks run
  emitted,       \* messages sent unasked, on all of them
  commands, drops

streamVars == <<link, air, written, command, decodeErrors, sent, heard,
                emitted, commands, drops>>
vars == <<fifoVars, streamVars>>

------------------------------------------------------------------------------
(* The device's side of the protocol.                                       *)

\* Offset and width of each field of a live record; one byte holds the battery.
Layout ==
  [iTOW |-> <<0, 4>>, year |-> <<4, 2>>, month |-> <<6, 1>>, day |-> <<7, 1>>,
   hour |-> <<8, 1>>, minute |-> <<9, 1>>, second |-> <<10, 1>>, validityFlags |-> <<11, 1>>,
   fixStatus |-> <<20, 1>>, numSVs |-> <<23, 1>>, longitude |-> <<24, 4>>, latitude |-> <<28, 4>>,
   wgsAltitude |-> <<32, 4>>, altitude |-> <<36, 4>>, speed |-> <<48, 4>>, heading |-> <<52, 4>>,
   speedAccuracy |-> <<56, 4>>, gForceX |-> <<68, 2>>, gForceY |-> <<70, 2>>, gForceZ |-> <<72, 2>>,
   rotRateX |-> <<74, 2>>, rotRateY |-> <<76, 2>>, rotRateZ |-> <<78, 2>>]

\* What these fields can hold, in two's complement where they are signed.
UInt16 == {v \in Nat : v \div 256 < 256}
Int16 == {v \in Int : v \div 256 \in -128 .. 127}
UInt32 == {v \in Nat : v \div 16777216 < 256}
Int32 == {v \in Int : v \div 16777216 \in -128 .. 127}

Measurable ==
  [iTOW : UInt32, year : UInt16, month : Byte, day : Byte, hour : Byte, minute : Byte,
   second : Byte, validityFlags : Byte, fixStatus : Byte, numSVs : Byte,
   longitude : Int32, latitude : Int32, wgsAltitude : Int32, altitude : Int32,
   speed : UInt32, heading : UInt32, speedAccuracy : UInt32,
   batteryLevel : 0 .. 127, charging : BOOLEAN,
   gForceX : Int16, gForceY : Int16, gForceZ : Int16,
   rotRateX : Int16, rotRateY : Int16, rotRateZ : Int16]

IsLive(pkt) == pkt.cls = UBX_CLASS_RACEBOX /\ pkt.id = UBX_ID_LIVE

\* The device reports what it can measure, and sends nothing longer than the
\* library is made for; a live record is not too long.
ASSUME DeviceAssumptions ==
  /\ Readings \subseteq Measurable
  /\ Others \subseteq {p \in UbxBytes : Len(p.payload) <= UBX_MAX_PAYLOAD /\ ~IsLive(p)}
  /\ RACEBOX_PAYLOAD_LEN <= UBX_MAX_PAYLOAD

Covers(field, off) == off - Layout[field][1] \in 0 .. Layout[field][2] - 1

\* The k-th byte of a value in two's complement.
ByteOf(value, k) == (value \div <<1, 256, 65536, 16777216>>[k + 1]) % 256

PayloadByte(reading, off) ==
  IF off = 67 THEN reading.batteryLevel + (IF reading.charging THEN 128 ELSE 0)
  ELSE IF \E f \in DOMAIN Layout : Covers(f, off)
    THEN LET f == CHOOSE f \in DOMAIN Layout : Covers(f, off)
         IN  ByteOf(reading[f], off - Layout[f][1])
    ELSE 0

LivePacket(reading) ==
  [cls |-> UBX_CLASS_RACEBOX, id |-> UBX_ID_LIVE,
   payload |-> [i \in 1 .. RACEBOX_PAYLOAD_LEN |-> PayloadByte(reading, i - 1)]]

\* The Fletcher sums in closed form: the i-th of n bytes counts n - i + 1 times.
Sum(term) ==
  LET upTo[i \in 0 .. Len(term)] == IF i = 0 THEN 0 ELSE upTo[i - 1] + term[i]
  IN  upTo[Len(term)]

Framed(pkt) ==
  LET n    == Len(pkt.payload)
      body == <<pkt.cls, pkt.id, n % 256, n \div 256>> \o pkt.payload
      weighted == [i \in 1 .. n + 4 |-> (n + 5 - i) * body[i]]
  IN  <<181, 98>> \o body \o <<Sum(body) % 256, Sum(weighted) % 256>>

\* A message: its frame and the callback it is meant for.
ToLiveCb(r) == [bytes |-> Framed(LivePacket(r)), meant |-> [cb |-> "live", arg |-> r]]
ToPacketCb(p) == [bytes |-> Framed(p), meant |-> [cb |-> "packet", arg |-> p]]

Messages == {ToLiveCb(r) : r \in Readings} \cup {ToPacketCb(p) : p \in Others}

------------------------------------------------------------------------------
StreamInit ==
  /\ FifoInit
  /\ link = "up" /\ air = <<>>
  /\ written = <<>> /\ command = <<>>
  /\ decodeErrors = 0
  /\ sent = <<>> /\ heard = <<>>
  /\ emitted = 0 /\ commands = 0 /\ drops = 0

StreamTypeOK ==
  /\ FifoTypeOK
  /\ link \in {"up", "closing", "down"}
  /\ air \in Seq(Byte) /\ written \in Seq(Byte)
  /\ decodeErrors \in Nat /\ emitted \in Nat /\ commands \in Nat /\ drops \in Nat

\* The device sends a message.
Emit(msg) ==
  /\ link = "up" /\ Len(air) <= Backlog
  /\ sent' = Append(sent, msg)
  /\ air' = air \o msg.bytes
  /\ UNCHANGED <<fifoVars, link, decodeErrors, heard, commands, drops>>

DevSend(msg) ==
  /\ emitted < MaxSent
  /\ emitted' = emitted + 1
  /\ Emit(msg)
  /\ UNCHANGED <<written, command>>

\* It acknowledges a command it can read.
Ack(pkt) == ToPacketCb([cls |-> UBX_CLASS_RACEBOX, id |-> UBX_ID_ACK, payload |-> <<pkt.cls, pkt.id>>])

DevAnswer ==
  /\ written # <<>>
  /\ \E pkt \in Commands : written = Framed(pkt) /\ Emit(Ack(pkt))
  /\ written' = <<>> /\ command' = <<>>
  /\ UNCHANGED emitted

\* A notification of at most size bytes: _handleNotification() pushes them.
Notified(size) ==
  /\ link = "up" /\ air # <<>>
  /\ LET n == IF size < Len(air) THEN size ELSE Len(air)
     IN  PushEnter(SubSeq(air, 1, n)) /\ air' = SubSeq(air, n + 1, Len(air))
  /\ UNCHANGED <<link, written, command, decodeErrors, sent, heard, emitted, commands, drops>>

Pushing == (PushByte \/ PushLeave \/ NotifyOverflow) /\ UNCHANGED streamVars

\* The link is lost, in the middle of whatever was on the air.
Drop ==
  /\ link = "up" /\ drops < MaxDrops
  /\ link' = "closing" /\ drops' = drops + 1
  /\ air' = <<>> /\ written' = <<>> /\ command' = <<>>
  /\ UNCHANGED <<fifoVars, decodeErrors, sent, heard, emitted, commands>>

\* _handleDisconnect(), in the NimBLE task.
HandleDisconnect ==
  /\ link = "closing"
  /\ Clear
  /\ link' = "down"
  /\ UNCHANGED <<air, written, command, decodeErrors, sent, heard, emitted, commands, drops>>

------------------------------------------------------------------------------
(* The loop.                                                                *)

InDrain == frame # <<>> \/ mutex = "extract"

\* update() makes the link again before it drains.
Reconnect ==
  /\ link = "down" /\ ~InDrain
  /\ link' = "up"
  /\ sent' = <<>> /\ heard' = <<>>
  /\ UNCHANGED <<fifoVars, air, written, command, decodeErrors, emitted, commands, drops>>

Extracting ==
  /\ (frame = <<>> /\ ExtractEnter) \/ SkipByte \/ TakeFrame \/ NoFrame
  /\ UNCHANGED streamVars

Heard(pkt) ==
  IF ~IsLive(pkt) THEN <<[cb |-> "packet", arg |-> pkt]>>
  ELSE IF raceBoxParses(pkt) THEN <<[cb |-> "live", arg |-> raceBoxParse(pkt)]>>
  ELSE <<>>

\* The loop in _drainFifo(), for one frame.
Dispatch ==
  /\ ConsumeFrame
  /\ IF ubxDecodes(frame)
       THEN heard' = heard \o Heard(ubxDecode(frame)) /\ UNCHANGED decodeErrors
       ELSE decodeErrors' = decodeErrors + 1 /\ UNCHANGED heard
  /\ UNCHANGED <<link, air, written, command, sent, emitted, commands, drops>>

\* sendCommand(): a packet that does not fit is not written at all.
SendCommand(pkt) ==
  /\ ~InDrain /\ link = "up" /\ written = <<>> /\ commands < MaxCommands
  /\ written' = ubxEncode(pkt, UBX_FRAME_OVERHEAD + UBX_MAX_PAYLOAD)
  /\ command' = IF written' = <<>> THEN <<>> ELSE pkt
  /\ commands' = commands + 1
  /\ UNCHANGED <<fifoVars, link, air, decodeErrors, sent, heard, emitted, drops>>

Loop == Extracting \/ Dispatch

StreamNext ==
  \/ \E msg \in Messages : DevSend(msg)
  \/ \E size \in ChunkSizes : Notified(size)
  \/ \E pkt \in Commands : SendCommand(pkt)
  \/ Pushing \/ HandleDisconnect \/ Loop
  \/ Drop \/ Reconnect \/ DevAnswer

StreamSpec == StreamInit /\ [][StreamNext]_vars

\* Both tasks run.  The radio delivers while the link is up, and the NimBLE
\* task gets the mutex in the end: FreeRTOS wakes a waiter when it is given back.
FairStreamSpec ==
  /\ StreamSpec
  /\ WF_vars(Pushing) /\ WF_vars(Loop)
  /\ SF_vars(\E size \in ChunkSizes : Notified(size))

------------------------------------------------------------------------------
(* What the stream promises.                                                *)

Meant(i) == sent[i].meant

\* What messages sent one after the other are as bytes: of the first none, one, two ... of them.
BytesOfFirst(msgs) ==
  LET upTo[i \in 0 .. Len(msgs)] == IF i = 0 THEN <<>> ELSE upTo[i - 1] \o msgs[i].bytes
  IN  upTo

\* After the first a bytes lies a packet's frame, not too long for the library.
FrameAt(bytes, a) ==
  LET n   == U16(bytes[a + 5], bytes[a + 6])
      pkt == [cls |-> bytes[a + 3], id |-> bytes[a + 4], payload |-> SubSeq(bytes, a + 7, a + 6 + n)]
  IN  /\ n <= UBX_MAX_PAYLOAD /\ a + 8 + n <= Len(bytes)
      /\ SubSeq(bytes, a + 1, a + 8 + n) = Framed(pkt)

\* Among the messages' bytes lies a frame that none of them begins with.
FalseFrame(msgs) ==
  LET upTo == BytesOfFirst(msgs)
      all  == upTo[Len(msgs)]
  IN  \E a \in 0 .. Len(all) - 8 :
        FrameAt(all, a) /\ \A i \in 1 .. Len(msgs) : Len(upTo[i - 1]) # a

(* Nothing wrong is ever handed to the application: what its callbacks get  *)
(* on a connection are messages the device sent on it, in that order, each  *)
(* at most once and with every field as it was measured, however frames are *)
(* cut, whatever an overflow tears out of them, wherever the link was lost, *)
(* unless there is a FalseFrame that the search for the next header finds.  *)
HeardIsSent ==
  \E place \in [DOMAIN heard -> DOMAIN sent] :
    /\ \A i \in DOMAIN heard : heard[i] = Meant(place[i])
    /\ \A i, j \in DOMAIN heard : i < j => place[i] < place[j]

(* As long as the ring has not overflowed nothing is lost or damaged, with  *)
(* both tasks at the ring: what was heard is exactly the first messages of  *)
(* the connection, and not one frame failed to decode.                      *)
LosslessUnlessOverflow ==
  overflowCount = 0 =>
    /\ decodeErrors = 0
    /\ Len(heard) <= Len(sent) /\ \A i \in DOMAIN heard : heard[i] = Meant(i)

(* sendCommand() writes what the device can read: a frame of exactly the    *)
(* packet it was given, checksum included, and only if it fits the buffer.  *)
CommandsAreFrames ==
  written # <<>> => written = Framed(command) /\ Len(command.payload) <= UBX_MAX_PAYLOAD

(* A message sent is heard, unless the ring overflows or the link is lost:  *)
(* no frame waits in the ring for bytes that will not come.                 *)
EverythingArrives ==
  \A n \in 1 .. MaxSent :
    (link = "up" /\ Len(sent) >= n) ~> (Len(heard) >= n \/ overflowCount > 0 \/ link # "up")
==============================================================================
