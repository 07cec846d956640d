------------------------------ MODULE DriverLemmas ------------------------------
(***************************************************************************)
(* Facts the proofs about the drivers and about their sessions rest on: the*)
(* clock and its subtraction, the packets a driver builds, outputs of at   *)
(* most one item, and what a step of the link does to the two sequences it *)
(* carries, place by place.                                                *)
(***************************************************************************)
EXTENDS Link, Millis, TLAPS

(* The counter may read 0.                                                  *)
LEMMA ZeroIsTime == 0 \in Time
BY ClockSizeAssumption DEF Time

(* The clock stays in its range, and elapsed time is a natural number.      *)
LEMMA TimeLaws ==
  /\ \A t \in Time : Later(t) \in Time
  /\ \A t, since \in Time : Elapsed(t, since) \in 0 .. ClockSize - 1
  /\ \A t \in Time : Elapsed(t, t) = 0
BY ClockSizeAssumption DEF Time, Later, Elapsed

(* One clock step makes elapsed time one longer, unless a full turn of the  *)
(* counter has gone by, when it is 0 again.                                 *)
LEMMA ElapsedGrows ==
  ASSUME NEW now \in Time, NEW since \in Time
  PROVE  Elapsed(Later(now), since) =
           IF Elapsed(now, since) + 1 = ClockSize THEN 0 ELSE Elapsed(now, since) + 1
BY ClockSizeAssumption DEF Time, Later, Elapsed

(* The packets the driver builds are packets.                               *)
LEMMA PacketType ==
  ASSUME NEW id \in Nat, NEW len \in Nat, NEW arg \in Nat
  PROVE  Packet(id, len, arg) \in UbxPacket
BY DEF Packet, UbxPacket, UBX_CLASS_RACEBOX

IsUnlockAck(pkt) == pkt.id = UBX_ID_ACK /\ pkt.arg = UBX_ID_MEM_UNLOCK

(* An output holds at most one item.                                        *)
LEMMA AtMostOne ==
  ASSUME NEW S, NEW c \in S, NEW out, out = <<c>> \/ out = <<>>
  PROVE  out \in Seq(S)
<1>1. CASE out = <<c>>
  BY <1>1
<1>2. CASE out = <<>>
  BY <1>2
<1>. QED
  BY <1>1, <1>2

------------------------------------------------------------------------------
(* Sequences a link carries: a packet taken at the front, a packet put at   *)
(* the back of what an overflow leaves, a command sent or not.              *)

(* Taking the front element moves every other one place on.                 *)
LEMMA TakenFront ==
  ASSUME NEW S, NEW s \in Seq(S), s # <<>>
  PROVE  /\ Head(s) \in S /\ Head(s) = s[1]
         /\ Tail(s) \in Seq(S) /\ Len(Tail(s)) = Len(s) - 1
         /\ \A i \in 1 .. Len(s) - 1 : Tail(s)[i] = s[i + 1]
OBVIOUS

(* Dropping k elements and appending one moves the rest k places on.        *)
LEMMA PutBack ==
  ASSUME NEW S, NEW s \in Seq(S), NEW k \in 0 .. Len(s), NEW e \in S
  PROVE  LET t == Append(SubSeq(s, k + 1, Len(s)), e)
         IN  /\ t \in Seq(S) /\ Len(t) = Len(s) - k + 1
             /\ \A i \in 1 .. Len(s) - k : t[i] = s[i + k]
             /\ t[Len(s) - k + 1] = e
OBVIOUS

(* At most one command was appended.                                        *)
LEMMA SentOrNot ==
  ASSUME NEW S, NEW s \in Seq(S), NEW e \in S, NEW out, out = <<e>> \/ out = <<>>
  PROVE  /\ s \o out \in Seq(S)
         /\ Len(s \o out) = Len(s) + (IF out = <<>> THEN 0 ELSE 1)
         /\ \A i \in 1 .. Len(s) : (s \o out)[i] = s[i]
         /\ out = <<e>> => (s \o out)[Len(s) + 1] = e
         /\ out = <<>> => s \o out = s
<1>1. CASE out = <<e>>
  BY <1>1
<1>2. CASE out = <<>>
  <2>1. s \o <<>> = s
    OBVIOUS
  <2>2. <<>> # <<e>>
    OBVIOUS
  <2>. QED
    BY <1>2, <2>1, <2>2
<1>. QED
  BY <1>1, <1>2

\* The FIFO lost its k oldest packets and gained pkt.
Arrived(pkt, k) ==
  /\ k \in 0 .. Len(fifo)
  /\ fifo' \in Seq(UbxPacket) /\ Len(fifo') = Len(fifo) - k + 1
  /\ \A i \in DOMAIN fifo' :
       /\ i \in Nat /\ i <= Len(fifo')
       /\ i < Len(fifo') => i + k \in DOMAIN fifo /\ fifo'[i] = fifo[i + k]
  /\ Len(fifo') \in DOMAIN fifo' /\ fifo'[Len(fifo')] = pkt

(* A packet is pushed to the back of the FIFO.                              *)
LEMMA PushArrives ==
  ASSUME LinkTypeOK, NEW pkt \in UbxPacket, NEW k \in Nat, Push(pkt, k)
  PROVE  Arrived(pkt, k)
<1>1. fifo \in Seq(UbxPacket) /\ k \in 0 .. Len(fifo)
  BY DEF LinkTypeOK, Push
<1>2. fifo' = Append(SubSeq(fifo, k + 1, Len(fifo)), pkt)
  BY DEF Push
<1>3. /\ fifo' \in Seq(UbxPacket) /\ Len(fifo') = Len(fifo) - k + 1
      /\ \A i \in 1 .. Len(fifo) - k : fifo'[i] = fifo[i + k]
      /\ fifo'[Len(fifo) - k + 1] = pkt
  BY <1>1, <1>2, PutBack
<1>. QED
  BY <1>1, <1>3 DEF Arrived

\* The packet at the front of the FIFO was taken out.
Taken ==
  /\ fifo[1] \in UbxPacket /\ Head(fifo) = fifo[1] /\ 1 \in DOMAIN fifo
  /\ fifo' \in Seq(UbxPacket) /\ Len(fifo') = Len(fifo) - 1
  /\ \A i \in DOMAIN fifo' :
       i \in Nat /\ i + 1 \in DOMAIN fifo /\ i + 1 > 1 /\ fifo'[i] = fifo[i + 1]

(* extractFrame() takes the packet at the front.                            *)
LEMMA ExtractTakes ==
  ASSUME LinkTypeOK, fifo # <<>>, ExtractFrame
  PROVE  Taken
BY TakenFront DEF LinkTypeOK, ExtractFrame, Taken

\* The device read the command at the front of the air.
Read(id) ==
  /\ toDev' \in Seq(UbxPacket) /\ 1 \in DOMAIN toDev
  /\ toDev[1].id = id /\ Head(toDev) = toDev[1] /\ toDev[1] \in UbxPacket
  /\ \A i \in DOMAIN toDev' :
       i \in Nat /\ i + 1 \in DOMAIN toDev /\ i + 1 > 1 /\ toDev'[i] = toDev[i + 1]

(* The device takes the command at the front.                               *)
LEMMA DeviceReads ==
  ASSUME LinkTypeOK, NEW id, Receives(id), toDev' = Tail(toDev)
  PROVE  Read(id)
BY TakenFront DEF LinkTypeOK, Receives, Read

\* The command cmd went onto the air, or nothing did.
Aired(cmd) ==
  /\ toDev' \in Seq(UbxPacket)
  /\ \A i \in DOMAIN toDev' : \/ i \in DOMAIN toDev /\ toDev'[i] = toDev[i]
                              \/ i = Len(toDev) + 1 /\ toDev'[i] = cmd

(* A driver that sends at most one command airs at most that one.           *)
LEMMA TransmitAirs ==
  ASSUME LinkTypeOK, NEW cmd \in UbxPacket, NEW out, out = <<cmd>> \/ out = <<>>, Transmit(out)
  PROVE  Aired(cmd)
BY SentOrNot DEF LinkTypeOK, Transmit, Aired

(* A driver that sends nothing leaves the air alone.                        *)
LEMMA TransmitNothing ==
  ASSUME LinkTypeOK, NEW out, out = <<>>, Transmit(out)
  PROVE  toDev' = toDev
<1>1. \A s \in Seq(UbxPacket) : s \o <<>> = s
  OBVIOUS
<1>. QED
  BY <1>1 DEF LinkTypeOK, Transmit
=================================================================================
