------------------------------- MODULE MCStream -------------------------------
(* A ring of 100 bytes, which a live frame of 88 nearly fills; notifications *)
(* of at most 60 bytes and of 244, what an MTU of 247 leaves.                *)
EXTENDS FrameStream

\* The stream's bytes come from the device, not from Next's environment.
NoBytes == {}

\* The parser test's values, some negative.
Paris ==
  [iTOW |-> 123456789, year |-> 2024, month |-> 4, day |-> 15, hour |-> 10, minute |-> 30,
   second |-> 45, validityFlags |-> 7, fixStatus |-> 3, numSVs |-> 12,
   longitude |-> 23522000, latitude |-> 488566016, wgsAltitude |-> 200000, altitude |-> -100000,
   speed |-> 10000, heading |-> 9000000, speedAccuracy |-> 500, batteryLevel |-> 85,
   charging |-> FALSE, gForceX |-> 100, gForceY |-> -200, gForceZ |-> 980,
   rotRateX |-> 50, rotRateY |-> -30, rotRateZ |-> 10]

\* Its position looks like the header of a frame that ends in the next one.
Lima ==
  [Paris EXCEPT !.longitude = 98 * 256 + 181 - 16777216, !.latitude = 70,
                !.batteryLevel = 100, !.charging = TRUE, !.rotRateZ = -32768]

MCReadings == {Lima}

Bytes(cls, id, payload) == [cls |-> cls, id |-> id, payload |-> payload]

MCOthers == {Bytes(1, UBX_ID_LIVE, <<181, 98>>)}

MCCommands ==
  {Bytes(255, UBX_ID_DOWNLOAD, <<>>), Bytes(255, UBX_ID_MEM_UNLOCK, <<64, 226, 1, 0>>),
   Bytes(255, UBX_ID_REC_CONFIG, [i \in 1 .. UBX_MAX_PAYLOAD + 1 |-> 255])}
MCMessages == Messages \cup {Ack(pkt) : pkt \in MCCommands}

\* However these messages follow each other, no frame lies across them: HeardIsSent holds as it stands.
ASSUME NoFalseFrame ==
  \A n \in 0 .. MaxSent + MaxCommands : \A msgs \in [1 .. n -> MCMessages] : ~FalseFrame(msgs)
==============================================================================
