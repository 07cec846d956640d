------------------------------- MODULE UbxCodec -------------------------------
(***************************************************************************)
(* UBX frames as bytes (ubx.h, ubx.cpp): a packet is its class, its id and *)
(* the bytes of its payload; a frame adds two sync bytes, the length in    *)
(* little-endian order and a two-byte Fletcher checksum.                   *)
(***************************************************************************)
EXTENDS Ubx, Sequences

CONSTANT UBX_MAX_PAYLOAD   \* 256 in the code

\* The length travels as a uint16_t.
ASSUME UbxCodecAssumption == UBX_MAX_PAYLOAD \in Nat /\ UBX_MAX_PAYLOAD < 256 * 256

UBX_SYNC_1 == 181
UBX_SYNC_2 == 98
UBX_FRAME_OVERHEAD == 8

Byte == 0 .. 255

UbxBytes == [cls : Byte, id : Byte, payload : Seq(Byte)]

\* Two bytes as a uint16_t, the low one first.
U16(lo, hi) == lo + 256 * hi

\* The body of the checksum loop; both sums are uint8_t and wrap.
\* Mutant: the second sum is taken before the first.
AddSwapped(ck, byte) == <<(ck[1] + byte) % 256, (ck[2] + ck[1]) % 256>>
Add(ck, byte) ==
  LET a == (ck[1] + byte) % 256 IN <<a, (ck[2] + a) % 256>>

ubxChecksum(bytes) ==
  LET step[s \in (Byte \X Byte) \X Byte] == Add(s[1], s[2])
      ckAfter[i \in 0 .. Len(bytes)] ==
        IF i = 0 THEN <<0, 0>> ELSE step[<<ckAfter[i - 1], bytes[i]>>]
  IN  ckAfter[Len(bytes)]

\* <<>> stands for the 0 of a packet that does not fit in room bytes.
ubxEncode(pkt, room) ==
  LET n    == Len(pkt.payload)
      body == <<pkt.cls, pkt.id, n % 256, n \div 256>> \o pkt.payload
  IN  IF room < UBX_FRAME_OVERHEAD + n \/ n > UBX_MAX_PAYLOAD THEN <<>>
      ELSE <<UBX_SYNC_1, UBX_SYNC_2>> \o body \o ubxChecksum(body)

PayloadLen(buf) == U16(buf[5], buf[6])

\* Mutant: the sums are not compared.
ChecksumIgnored(buf) == TRUE
\* Mutant: the last payload byte is left out.
ChecksumOfOneLess(buf) ==
  LET n == PayloadLen(buf)
  IN  <<buf[7 + n], buf[8 + n]>> = ubxChecksum(SubSeq(buf, 3, 5 + n))
\* The sums cover the class up to the last payload byte.
ChecksumHolds(buf) ==
  LET n == PayloadLen(buf)
  IN  <<buf[7 + n], buf[8 + n]>> = ubxChecksum(SubSeq(buf, 3, 6 + n))

\* Whether ubxDecode accepts the bytes, and the packet it then returns.
ubxDecodes(buf) ==
  /\ Len(buf) >= UBX_FRAME_OVERHEAD
  /\ buf[1] = UBX_SYNC_1 /\ buf[2] = UBX_SYNC_2
  /\ Len(buf) >= UBX_FRAME_OVERHEAD + PayloadLen(buf)
  /\ PayloadLen(buf) <= UBX_MAX_PAYLOAD
  /\ ChecksumHolds(buf)

ubxDecode(buf) ==
  [cls |-> buf[3], id |-> buf[4], payload |-> SubSeq(buf, 7, 6 + PayloadLen(buf))]
===============================================================================
