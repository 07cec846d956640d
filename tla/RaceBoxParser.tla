----------------------------- MODULE RaceBoxParser -----------------------------
(***************************************************************************)
(* raceBoxParse(): the fields of a live or history record, read from the   *)
(* 80 bytes of its payload.  The library then scales some of them to       *)
(* degrees, metres and km/h in floating point; here they keep the units of *)
(* the wire.                                                               *)
(***************************************************************************)
EXTENDS UbxCodec, Integers

\* The payload's byte at an offset counted from 0.
At(p, off) == p[off + 1]

Signed16(v) == IF v >= 32768 THEN v - 65536 ELSE v

readU16(p, off) == U16(At(p, off), At(p, off + 1))
readI16(p, off) == Signed16(readU16(p, off))
readU32(p, off) == readU16(p, off) + 65536 * readU16(p, off + 2)
readI32(p, off) == readU16(p, off) + 65536 * readI16(p, off + 2)

raceBoxParses(pkt) ==
  /\ pkt.cls = UBX_CLASS_RACEBOX
  /\ pkt.id \in {UBX_ID_LIVE, UBX_ID_HISTORY}
  /\ Len(pkt.payload) >= RACEBOX_PAYLOAD_LEN

raceBoxParse(pkt) ==
  LET p == pkt.payload
  IN  [iTOW |-> readU32(p, 0), year |-> readU16(p, 4), month |-> At(p, 6), day |-> At(p, 7),
       hour |-> At(p, 8), minute |-> At(p, 9), second |-> At(p, 10), validityFlags |-> At(p, 11),
       fixStatus |-> At(p, 20), numSVs |-> At(p, 23),
       longitude |-> readI32(p, 24), latitude |-> readI32(p, 28),
       wgsAltitude |-> readI32(p, 32), altitude |-> readI32(p, 36),
       speed |-> readU32(p, 48), heading |-> readU32(p, 52), speedAccuracy |-> readU32(p, 56),
       batteryLevel |-> At(p, 67) % 128, charging |-> At(p, 67) >= 128,
       gForceX |-> readI16(p, 68), gForceY |-> readI16(p, 70), gForceZ |-> readI16(p, 72),
       rotRateX |-> readI16(p, 74), rotRateY |-> readI16(p, 76), rotRateZ |-> readI16(p, 78)]
===============================================================================
