-------------------------- MODULE FrameStreamProofs ---------------------------
(***************************************************************************)
(* Proofs about FrameStream, for any ring, any chunks, any messages the    *)
(* device may send and any number of losses of the link: every variable    *)
(* stays in its type, the ring is still a queue with the NimBLE task and   *)
(* the loop at it, a command is written as its frame, nothing is lost as   *)
(* long as the ring does not overflow, and nothing that was not sent is    *)
(* heard even if it does.                                                  *)
(*                                                                         *)
(* StreamInv is the inductive invariant for the loss. Its heart is         *)
(* InFlight: what is in the ring, in the pusher's hands and on the air, in *)
(* this order, are the first bytes of the messages that were sent and not  *)
(* yet taken; all of them while the link is up. So a frame is always cut   *)
(* out at the seam between two messages, and none of their bytes is ever   *)
(* skipped.                                                                *)
(*                                                                         *)
(* Traced is the one that survives an overflow: the frame cut out and what *)
(* is under way are pieces of the connection's bytes, in this order, with  *)
(* gaps where bytes were skipped or lost. A frame cut out of them that     *)
(* decodes is one of the messages, or lies across their seams or inside    *)
(* one (FalseFrame).                                                       *)
(***************************************************************************)
EXTENDS FrameCodecProofs, RaceBoxFifoProofs

------------------------------------------------------------------------------
(* Messages, one after the other.                                           *)

\* Where each message starts, when they follow each other, and where they end.
Starts(start, msgs) ==
  /\ start \in [1 .. Len(msgs) + 1 -> Nat]
  /\ \A i \in 1 .. Len(msgs) : start[i + 1] = start[i] + Len(msgs[i].bytes)
  /\ \A i, j \in 1 .. Len(msgs) + 1 : i <= j => start[i] <= start[j]

\* The bytes are the first ones of the messages after the t-th; all of them
\* while the link is up.
InFlight(bytes, msgs, t, state) ==
  /\ t \in 0 .. Len(msgs)
  /\ \E start :
       /\ Starts(start, msgs)
       /\ Len(bytes) <= start[Len(msgs) + 1] - start[t + 1]
       /\ state = "up" => Len(bytes) = start[Len(msgs) + 1] - start[t + 1]
       /\ \A i \in t + 1 .. Len(msgs) : \A k \in 1 .. Len(msgs[i].bytes) :
            LET q == start[i] - start[t + 1] + k
            IN  q <= Len(bytes) => bytes[q] = msgs[i].bytes[k]

(* At first nothing is under way.                                           *)
LEMMA NothingInFlight == InFlight(<<>>, <<>>, 0, "up")
<1>. DEFINE start == [i \in 1 .. 1 |-> 0]
<1>1. Starts(start, <<>>)
  BY DEF Starts
<1>. QED
  BY <1>1 DEF InFlight

(* What is cut off at the end leaves a beginning.                           *)
LEMMA CutShort ==
  ASSUME NEW msgs \in Seq(AllMessages), NEW t, NEW state, NEW bytes \in Seq(Byte), NEW left \in Seq(Byte),
         InFlight(bytes, msgs, t, state), Len(left) <= Len(bytes),
         \A i \in 1 .. Len(left) : left[i] = bytes[i], NEW later, later # "up"
  PROVE  InFlight(left, msgs, t, later)
<1>1. PICK start :
       /\ Starts(start, msgs)
       /\ Len(bytes) <= start[Len(msgs) + 1] - start[t + 1]
       /\ \A i \in t + 1 .. Len(msgs) : \A k \in 1 .. Len(msgs[i].bytes) :
            LET q == start[i] - start[t + 1] + k
            IN  q <= Len(bytes) => bytes[q] = msgs[i].bytes[k]
  BY DEF InFlight
<1>2. t \in 0 .. Len(msgs)
  BY DEF InFlight
<1>5. /\ start[Len(msgs) + 1] \in Nat /\ start[t + 1] \in Nat
      /\ \A i \in t + 1 .. Len(msgs) : start[i] \in Nat /\ start[t + 1] <= start[i]
  <2>1. /\ t + 1 \in 1 .. Len(msgs) + 1 /\ Len(msgs) + 1 \in 1 .. Len(msgs) + 1
        /\ \A i \in t + 1 .. Len(msgs) : i \in 1 .. Len(msgs) + 1 /\ t + 1 <= i
    BY <1>2
  <2>. QED
    BY <1>1, <2>1 DEF Starts
<1>3. Len(left) <= start[Len(msgs) + 1] - start[t + 1]
  BY <1>1, <1>5
<1>4. ASSUME NEW i \in t + 1 .. Len(msgs), NEW k \in 1 .. Len(msgs[i].bytes),
             start[i] - start[t + 1] + k <= Len(left)
      PROVE  left[start[i] - start[t + 1] + k] = msgs[i].bytes[k]
  <2>. DEFINE q == start[i] - start[t + 1] + k
  <2>1. msgs[i] \in AllMessages /\ Len(msgs[i].bytes) \in Nat
    BY <1>2, MessageBytes
  <2>2. q \in 1 .. Len(left)
    <3>1. k \in Nat /\ k >= 1
      BY <2>1
    <3>. QED
      BY <1>4, <1>5, <3>1
  <2>3. q <= Len(bytes) => bytes[q] = msgs[i].bytes[k]
    BY <1>1
  <2>. HIDE DEF q
  <2>4. left[q] = msgs[i].bytes[k]
    BY <2>2, <2>3
  <2>. QED
    BY <2>4 DEF q
<1>. QED
  BY <1>1, <1>2, <1>3, <1>4 DEF InFlight

(* A message sent follows what is under way.                                *)
LEMMA OneMore ==
  ASSUME NEW msgs \in Seq(AllMessages), NEW msg \in AllMessages, NEW t, NEW bytes \in Seq(Byte),
         InFlight(bytes, msgs, t, "up")
  PROVE  InFlight(bytes \o msg.bytes, Append(msgs, msg), t, "up")
<1>. DEFINE n == Len(msgs)
            m == Len(bytes)
            more == Append(msgs, msg)
            all == bytes \o msg.bytes
<1>1. PICK start :
       /\ Starts(start, msgs)
       /\ m = start[n + 1] - start[t + 1]
       /\ \A i \in t + 1 .. n : \A k \in 1 .. Len(msgs[i].bytes) :
            LET q == start[i] - start[t + 1] + k
            IN  q <= m => bytes[q] = msgs[i].bytes[k]
  BY DEF InFlight
<1>2. t \in 0 .. n /\ n \in Nat /\ m \in Nat
  BY DEF InFlight
<1>3. /\ start \in [1 .. n + 1 -> Nat]
      /\ \A i \in 1 .. n : start[i + 1] = start[i] + Len(msgs[i].bytes)
      /\ \A i, j \in 1 .. n + 1 : i <= j => start[i] <= start[j]
  BY <1>1 DEF Starts
<1>4. msg.bytes \in Seq(Byte) /\ Len(msg.bytes) \in Nat /\ \A i \in 1 .. n : Len(msgs[i].bytes) \in Nat
  <2>1. \A i \in 1 .. n : msgs[i] \in AllMessages
    OBVIOUS
  <2>. QED
    BY <2>1, MessageBytes
<1>5. Len(more) = n + 1 /\ more[n + 1] = msg /\ \A i \in 1 .. n : more[i] = msgs[i]
  BY <1>2
<1>6. /\ all \in Seq(Byte) /\ Len(all) = m + Len(msg.bytes)
      /\ \A i \in 1 .. Len(all) : all[i] = IF i <= m THEN bytes[i] ELSE msg.bytes[i - m]
  <2>1. bytes \in Seq(Byte) /\ msg.bytes \in Seq(Byte)
    BY <1>4
  <2>. QED
    BY <2>1, ConcatProperties, Zenon
<1>. DEFINE next == [i \in 1 .. n + 2 |-> IF i <= n + 1 THEN start[i] ELSE start[n + 1] + Len(msg.bytes)]
<1>. HIDE DEF n, m, more, all
<1>7. /\ next \in [1 .. n + 2 -> Nat] /\ \A i \in 1 .. n + 1 : next[i] = start[i]
      /\ next[n + 2] = start[n + 1] + Len(msg.bytes)
  BY <1>2, <1>3, <1>4
<1>. HIDE DEF next
<1>8. Starts(next, more)
  <2>1. ASSUME NEW i \in 1 .. n + 1 PROVE next[i + 1] = next[i] + Len(more[i].bytes)
    <3>1. CASE i = n + 1
      <4>1. i + 1 = n + 2 /\ next[i] = start[n + 1]
        BY <1>2, <1>7, <3>1
      <4>. QED
        BY <1>5, <1>7, <3>1, <4>1
    <3>2. CASE i # n + 1
      <4>1. i \in 1 .. n /\ i + 1 \in 1 .. n + 1
        BY <1>2, <3>2
      <4>. QED
        BY <1>3, <1>5, <1>7, <4>1
    <3>. QED
      BY <3>1, <3>2
  <2>2. ASSUME NEW i \in 1 .. n + 2, NEW j \in 1 .. n + 2, i <= j PROVE next[i] <= next[j]
    <3>1. CASE j = n + 2 /\ i = n + 2
      BY <1>7, <3>1
    <3>2. CASE j = n + 2 /\ i # n + 2
      <4>1. i \in 1 .. n + 1 /\ n + 1 \in 1 .. n + 1 /\ i <= n + 1
        BY <1>2, <3>2
      <4>2. start[i] <= start[n + 1] /\ start[i] \in Nat /\ start[n + 1] \in Nat
        BY <1>3, <4>1
      <4>. QED
        BY <1>4, <1>7, <3>2, <4>1, <4>2
    <3>3. CASE j # n + 2
      <4>1. i \in 1 .. n + 1 /\ j \in 1 .. n + 1
        BY <1>2, <2>2, <3>3
      <4>. QED
        BY <1>3, <1>7, <2>2, <4>1
    <3>. QED
      BY <3>1, <3>2, <3>3
  <2>. QED
    BY <1>2, <1>5, <1>7, <2>1, <2>2 DEF Starts
<1>9. Len(all) = next[n + 2] - next[t + 1]
  <2>1. t + 1 \in 1 .. n + 1 /\ n + 1 \in 1 .. n + 1
    BY <1>2
  <2>. QED
    BY <1>1, <1>3, <1>4, <1>6, <1>7, <2>1, SMTT(30)
<1>10. ASSUME NEW i \in t + 1 .. n + 1, NEW k \in 1 .. Len(more[i].bytes),
              next[i] - next[t + 1] + k <= Len(all)
       PROVE  all[next[i] - next[t + 1] + k] = more[i].bytes[k]
  <2>1. /\ t + 1 \in 1 .. n + 1 /\ i \in 1 .. n + 1 /\ t + 1 <= i /\ n + 1 \in 1 .. n + 1
        /\ next[i] = start[i] /\ next[t + 1] = start[t + 1]
        /\ start[i] \in Nat /\ start[t + 1] \in Nat /\ start[n + 1] \in Nat /\ start[t + 1] <= start[i]
    BY <1>2, <1>3, <1>7
  <2>2. CASE i = n + 1
    <3>1. more[i] = msg
      BY <1>5, <2>2
    <3>2. k \in 1 .. Len(msg.bytes)
      BY <3>1
    <3>3. k \in Nat /\ k >= 1 /\ k <= Len(msg.bytes)
      BY <1>4, <3>2
    <3>4. next[i] - next[t + 1] + k = m + k
      BY <1>1, <1>2, <2>1, <2>2, <3>3
    <3>5. m + k \in 1 .. Len(all) /\ ~(m + k <= m) /\ m + k - m = k
      BY <1>2, <1>4, <1>6, <3>3
    <3>6. \A j \in 1 .. Len(all) : j = m + k => ~(j <= m) /\ j - m = k
      BY <1>2, <3>3
    <3>7. all[m + k] = msg.bytes[k]
      <4>1. PICK j \in 1 .. Len(all) : j = m + k
        BY <3>5
      <4>2. ~(j <= m) /\ j - m = k
        BY <3>6, <4>1
      <4>. QED
        BY <1>6, <4>1, <4>2
    <3>. QED
      BY <3>1, <3>4, <3>7
  <2>3. CASE i # n + 1
    <3>1. i \in 1 .. n /\ i + 1 \in 1 .. n + 1 /\ i + 1 <= n + 1 /\ i \in t + 1 .. n
      BY <1>2, <2>3
    <3>2. more[i] = msgs[i] /\ k \in 1 .. Len(msgs[i].bytes) /\ Len(msgs[i].bytes) \in Nat
      BY <1>4, <1>5, <3>1
    <3>3. start[i] + Len(msgs[i].bytes) <= start[n + 1]
      <4>1. start[i + 1] <= start[n + 1] /\ start[i + 1] = start[i] + Len(msgs[i].bytes)
        BY <1>3, <2>1, <3>1
      <4>. QED
        BY <4>1
    <3>7. k \in Nat /\ k >= 1 /\ k <= Len(msgs[i].bytes)
      BY <3>2
    <3>9. m = start[n + 1] - start[t + 1]
      BY <1>1
    <3>8. start[i] - start[t + 1] + k \in 1 .. m
      <4>. DEFINE a == start[i]
                  b == start[t + 1]
                  e == start[n + 1]
                  l == Len(msgs[i].bytes)
      <4>1. /\ a \in Nat /\ b \in Nat /\ e \in Nat /\ l \in Nat /\ b <= a /\ a + l <= e
            /\ m = e - b /\ k \in Nat /\ 1 <= k /\ k <= l
        BY <2>1, <3>2, <3>3, <3>7, <3>9
      <4>. HIDE DEF a, b, e, l
      <4>2. a - b + k \in 1 .. m
        BY <4>1
      <4>. QED
        BY <4>2 DEF a, b
    <3>4. PICK q \in 1 .. m : q = start[i] - start[t + 1] + k
      BY <3>8
    <3>5. bytes[q] = msgs[i].bytes[k]
      BY <1>1, <3>1, <3>2, <3>4
    <3>6. q \in 1 .. Len(all) /\ q <= m
      BY <1>2, <1>4, <1>6, <3>4, SMTT(30)
    <3>. QED
      BY <1>6, <2>1, <3>2, <3>4, <3>5, <3>6
  <2>. QED
    BY <2>2, <2>3
<1>11. InFlight(all, more, t, "up")
  <2>1. Len(more) = n + 1 /\ t \in 0 .. n + 1 /\ n + 1 + 1 = n + 2
    BY <1>2, <1>5
  <2>2. Len(all) <= next[n + 2] - next[t + 1]
    BY <1>4, <1>6, <1>9
  <2>. QED
    BY <1>8, <1>9, <1>10, <2>1, <2>2 DEF InFlight
<1>. QED
  BY <1>11 DEF all, more

(* What is under way begins with the next message.                          *)
LEMMA NextMessage ==
  ASSUME NEW msgs \in Seq(AllMessages), NEW t, NEW state, NEW bytes \in Seq(Byte),
         InFlight(bytes, msgs, t, state), bytes # <<>>
  PROVE  /\ t + 1 \in 1 .. Len(msgs)
         /\ \A k \in 1 .. Len(msgs[t + 1].bytes) : k <= Len(bytes) => bytes[k] = msgs[t + 1].bytes[k]
<1>1. PICK start :
       /\ Starts(start, msgs)
       /\ Len(bytes) <= start[Len(msgs) + 1] - start[t + 1]
       /\ \A i \in t + 1 .. Len(msgs) : \A k \in 1 .. Len(msgs[i].bytes) :
            LET q == start[i] - start[t + 1] + k
            IN  q <= Len(bytes) => bytes[q] = msgs[i].bytes[k]
  BY DEF InFlight
<1>2. t \in 0 .. Len(msgs) /\ Len(bytes) \in Nat /\ Len(bytes) # 0
  BY DEF InFlight
<1>3. start[t + 1] \in Nat
  BY <1>1, <1>2 DEF Starts
<1>4. t + 1 \in 1 .. Len(msgs)
  BY <1>1, <1>2, <1>3
<1>5. ASSUME NEW k \in 1 .. Len(msgs[t + 1].bytes), k <= Len(bytes) PROVE bytes[k] = msgs[t + 1].bytes[k]
  <2>1. t + 1 \in t + 1 .. Len(msgs)
    BY <1>2, <1>4
  <2>2. Len(msgs[t + 1].bytes) \in Nat
    BY <1>4, MessageBytes
  <2>3. start[t + 1] - start[t + 1] + k = k
    BY <1>3, <2>2
  <2>. QED
    BY <1>1, <1>5, <2>1, <2>3
<1>. QED
  BY <1>4, <1>5

(* Once it is taken, the rest begins with the one after it.                 *)
LEMMA OneTaken ==
  ASSUME NEW msgs \in Seq(AllMessages), NEW t, NEW state, NEW bytes \in Seq(Byte),
         t + 1 \in 1 .. Len(msgs), InFlight(msgs[t + 1].bytes \o bytes, msgs, t, state)
  PROVE  InFlight(bytes, msgs, t + 1, state)
<1>. DEFINE f == msgs[t + 1].bytes
            all == f \o bytes
            n == Len(msgs)
<1>1. PICK start :
       /\ Starts(start, msgs)
       /\ Len(all) <= start[n + 1] - start[t + 1]
       /\ state = "up" => Len(all) = start[n + 1] - start[t + 1]
       /\ \A i \in t + 1 .. n : \A k \in 1 .. Len(msgs[i].bytes) :
            LET q == start[i] - start[t + 1] + k
            IN  q <= Len(all) => all[q] = msgs[i].bytes[k]
  BY DEF InFlight
<1>2. t \in 0 .. n /\ t + 1 \in 1 .. n /\ n \in Nat /\ Len(bytes) \in Nat
  BY DEF InFlight
<1>3. f \in Seq(Byte) /\ Len(f) \in Nat /\ \A i \in 1 .. n : Len(msgs[i].bytes) \in Nat
  <2>1. \A i \in 1 .. n : msgs[i] \in AllMessages
    OBVIOUS
  <2>. QED
    BY <1>2, <2>1, MessageBytes
<1>4. /\ Len(all) = Len(f) + Len(bytes)
      /\ \A i \in 1 .. Len(f) + Len(bytes) : all[i] = IF i <= Len(f) THEN f[i] ELSE bytes[i - Len(f)]
  <2>1. f \in Seq(Byte) /\ bytes \in Seq(Byte)
    BY <1>3
  <2>. QED
    BY <2>1, ConcatProperties, Zenon
<1>5. /\ start \in [1 .. n + 1 -> Nat]
      /\ \A i \in 1 .. n : start[i + 1] = start[i] + Len(msgs[i].bytes)
      /\ \A i, j \in 1 .. n + 1 : i <= j => start[i] <= start[j]
  BY <1>1 DEF Starts
<1>6. start[t + 2] = start[t + 1] + Len(f)
  <2>1. t + 1 + 1 = t + 2
    BY <1>2
  <2>. QED
    BY <1>2, <1>5, <2>1
<1>. HIDE DEF f, all, n
<1>7. t + 1 \in 1 .. n + 1 /\ t + 2 \in 1 .. n + 1 /\ n + 1 \in 1 .. n + 1
  BY <1>2
<1>8. /\ start[t + 1] \in Nat /\ start[t + 2] \in Nat /\ start[n + 1] \in Nat
  BY <1>5, <1>7
<1>9. /\ Len(bytes) <= start[n + 1] - start[t + 2]
      /\ state = "up" => Len(bytes) = start[n + 1] - start[t + 2]
  <2>. DEFINE l == Len(all)
              m == Len(f)
              o == Len(bytes)
              x == start[t + 1]
              y == start[t + 2]
              z == start[n + 1]
  <2>1. /\ m \in Nat /\ o \in Nat /\ x \in Nat /\ y \in Nat /\ z \in Nat
        /\ l = m + o /\ y = x + m /\ l <= z - x /\ (state = "up" => l = z - x)
    BY <1>1, <1>2, <1>3, <1>4, <1>6, <1>8
  <2>. HIDE DEF l, m, o, x, y, z
  <2>2. o <= z - y /\ (l = z - x => o = z - y)
    BY <2>1
  <2>. QED
    BY <2>1, <2>2 DEF o, y, z
<1>10. ASSUME NEW i \in t + 2 .. n, NEW k \in 1 .. Len(msgs[i].bytes),
              start[i] - start[t + 2] + k <= Len(bytes)
       PROVE  bytes[start[i] - start[t + 2] + k] = msgs[i].bytes[k]
  <2>1. i \in 1 .. n /\ i \in 1 .. n + 1 /\ i \in t + 1 .. n /\ t + 2 <= i
    BY <1>2
  <2>2. start[i] \in Nat /\ start[t + 2] <= start[i] /\ Len(msgs[i].bytes) \in Nat
    BY <1>3, <1>5, <1>7, <2>1
  <2>3. PICK r \in 1 .. Len(bytes) : r = start[i] - start[t + 2] + k
    BY <1>2, <1>8, <1>10, <2>2
  <2>4. PICK q \in Nat : q = r + Len(f)
    BY <1>2, <1>3, <2>3
  <2>9. q \in 1 .. Len(f) + Len(bytes) /\ ~(q <= Len(f)) /\ q - Len(f) = r
    BY <1>2, <1>3, <2>3, <2>4, SMTT(30)
  <2>10. k \in Nat
    BY <2>2
  <2>11. Len(f) \in Nat /\ start[i] \in Nat
    BY <1>3, <2>2
  <2>5. q = start[i] - start[t + 1] + k
    <3>. DEFINE a == start[i]
                b == start[t + 1]
                c == start[t + 2]
                l == Len(f)
    <3>1. /\ a \in Nat /\ b \in Nat /\ c \in Nat /\ l \in Nat /\ k \in Nat /\ c = b + l
          /\ r = a - c + k /\ q = r + l
      BY <1>6, <1>8, <2>3, <2>4, <2>10, <2>11
    <3>. HIDE DEF a, b, c, l
    <3>2. q = a - b + k
      BY <3>1
    <3>. QED
      BY <3>2 DEF a, b
  <2>6. q <= Len(all)
    BY <1>2, <1>3, <1>4, <2>9
  <2>7. all[q] = msgs[i].bytes[k]
    BY <1>1, <2>1, <2>5, <2>6
  <2>8. all[q] = bytes[r]
    BY <1>4, <2>9
  <2>. QED
    BY <2>3, <2>7, <2>8
<1>11. /\ t + 1 \in 0 .. n /\ t + 1 + 1 = t + 2
  BY <1>2
<1>. QED
  BY <1>1, <1>9, <1>10, <1>11 DEF InFlight, n

------------------------------------------------------------------------------
(* Types, commands, and the ring.                                           *)

\* The link's state says what may still be under way.
LinkKeepsPace ==
  /\ npc # "push" => todo = <<>>
  /\ link # "up" => air = <<>>
  /\ link = "down" => npc = "idle" /\ len = 0

\* What holds whether the ring overflows or not.
StreamBase ==
  /\ StreamTypeOK /\ RingInv
  /\ sent \in Seq(AllMessages)
  /\ CommandsAreFrames
  /\ LinkKeepsPace

(* A notification takes the front of what is on the air.                    *)
LEMMA Cut ==
  ASSUME NEW s \in Seq(Byte), NEW size \in ChunkSizes, s # <<>>
  PROVE  LET n == IF size < Len(s) THEN size ELSE Len(s)
         IN  /\ SubSeq(s, 1, n) \in Seq(Byte) /\ SubSeq(s, n + 1, Len(s)) \in Seq(Byte)
             /\ SubSeq(s, 1, n) \o SubSeq(s, n + 1, Len(s)) = s
<1>. DEFINE n == IF size < Len(s) THEN size ELSE Len(s)
<1>1. size \in Nat /\ Len(s) \in Nat /\ n \in 0 .. Len(s)
  BY StreamAssumptions
<1>. HIDE DEF n
<1>2. \A i \in 1 .. n : s[i] \in Byte
  BY <1>1
<1>3. SubSeq(s, 1, n) \in Seq(Byte)
  BY <1>1, <1>2
<1>4. \A i \in n + 1 .. Len(s) : s[i] \in Byte
  BY <1>1
<1>5. SubSeq(s, n + 1, Len(s)) \in Seq(Byte)
  BY <1>1, <1>4
<1>6. SubSeq(s, 1, n) \o SubSeq(s, n + 1, Len(s)) = s
  <2>1. 1 \in 1 .. Len(s) + 1 /\ n \in 1 - 1 .. Len(s) /\ Len(s) \in n .. Len(s)
    BY <1>1
  <2>2. SubSeq(s, 1, n) \o SubSeq(s, n + 1, Len(s)) = SubSeq(s, 1, Len(s))
    BY <2>1, ConcatAdjacentSubSeq
  <2>. QED
    BY <2>2, SubSeqFull
<1>. QED
  BY <1>3, <1>5, <1>6 DEF n

(* Every step of the stream is one at the ring, or leaves it alone.         *)
LEMMA StreamStepsRing == StreamTypeOK /\ [StreamNext]_vars => [RingNext]_fifoVars
<1>. SUFFICES ASSUME StreamTypeOK, [StreamNext]_vars PROVE [RingNext]_fifoVars
  OBVIOUS
<1>1. ASSUME NEW msg \in Messages, DevSend(msg) PROVE UNCHANGED fifoVars
  BY <1>1 DEF DevSend, Emit
<1>2. ASSUME NEW size \in ChunkSizes, Notified(size) PROVE RingNext
  <2>. DEFINE n == IF size < Len(air) THEN size ELSE Len(air)
  <2>1. SubSeq(air, 1, n) \in Seq(Byte)
    BY <1>2, Cut DEF StreamTypeOK, Notified
  <2>2. PushEnter(SubSeq(air, 1, n))
    BY <1>2 DEF Notified
  <2>. HIDE DEF n
  <2>. QED
    BY <2>1, <2>2 DEF RingNext
<1>3. ASSUME NEW pkt \in Commands, SendCommand(pkt) PROVE UNCHANGED fifoVars
  BY <1>3 DEF SendCommand
<1>4. DevAnswer => UNCHANGED fifoVars
  BY DEF DevAnswer, Emit
<1>5. Pushing \/ HandleDisconnect \/ Loop => RingNext
  BY DEF Pushing, HandleDisconnect, Loop, Extracting, Dispatch, RingNext
<1>6. Drop \/ Reconnect \/ UNCHANGED vars => UNCHANGED fifoVars
  BY DEF Drop, Reconnect, vars
<1>. QED
  BY <1>1, <1>2, <1>3, <1>4, <1>5, <1>6 DEF StreamNext

(* Before the first step nothing is under way.                              *)
LEMMA StreamInitBase == StreamInit => StreamBase
<1>. SUFFICES ASSUME StreamInit PROVE StreamBase
  OBVIOUS
<1>1. RingInv
  BY RingInit DEF StreamInit
<1>2. StreamTypeOK
  BY <1>1 DEF StreamInit, StreamTypeOK, RingInv
<1>. QED
  BY <1>1, <1>2 DEF StreamInit, FifoInit, StreamBase, CommandsAreFrames, LinkKeepsPace

(* What sendCommand() writes is the packet's frame, or nothing.             *)
LEMMA CommandWritten ==
  ASSUME NEW pkt \in Commands, SendCommand(pkt)
  PROVE  /\ written' \in Seq(Byte)
         /\ written' # <<>> => /\ command' = pkt /\ written' = Framed(pkt)
                               /\ Len(pkt.payload) <= UBX_MAX_PAYLOAD
<1>1. /\ pkt \in UbxBytes /\ Len(pkt.payload) \in Nat /\ UBX_MAX_PAYLOAD \in Nat
      /\ UBX_MAX_PAYLOAD < 256 * 256
  BY StreamAssumptions, UbxCodecAssumption, PacketParts
<1>2. UBX_FRAME_OVERHEAD + UBX_MAX_PAYLOAD \in Nat
  BY <1>1 DEF UBX_FRAME_OVERHEAD
<1>3. written' = ubxEncode(pkt, UBX_FRAME_OVERHEAD + UBX_MAX_PAYLOAD)
  BY DEF SendCommand
<1>4. command' = IF written' = <<>> THEN <<>> ELSE pkt
  BY DEF SendCommand
<1>5. CASE Len(pkt.payload) <= UBX_MAX_PAYLOAD
  <2>1. written' = Framed(pkt)
    <3>1. UBX_FRAME_OVERHEAD + Len(pkt.payload) <= UBX_FRAME_OVERHEAD + UBX_MAX_PAYLOAD
      BY <1>1, <1>5 DEF UBX_FRAME_OVERHEAD
    <3>. QED
      BY <1>1, <1>2, <1>3, <1>5, <3>1, EncodeFrames
  <2>2. Framed(pkt) \in Seq(Byte)
    BY <1>1, <1>5, FrameBytes DEF IsFrame
  <2>. QED
    BY <1>4, <1>5, <2>1, <2>2
<1>6. CASE ~(Len(pkt.payload) <= UBX_MAX_PAYLOAD)
  <2>1. written' = <<>>
    BY <1>1, <1>2, <1>3, <1>6, EncodeFrames
  <2>. QED
    BY <2>1
<1>. QED
  BY <1>5, <1>6

(* Sending a message: it is one of the device's, and its bytes are on the   *)
(* air.                                                                     *)
LEMMA Emitted ==
  ASSUME StreamBase, NEW msg \in AllMessages, Emit(msg)
  PROVE  sent' \in Seq(AllMessages) /\ air' \in Seq(Byte) /\ link = "up" /\ link' = "up"
<1>1. msg.bytes \in Seq(Byte)
  BY MessageBytes
<1>2. air \in Seq(Byte) /\ sent \in Seq(AllMessages)
  BY DEF StreamBase, StreamTypeOK
<1>3. air' = air \o msg.bytes /\ sent' = Append(sent, msg) /\ link = "up" /\ link' = "up"
  BY DEF Emit
<1>. QED
  BY <1>1, <1>2, <1>3

(* An answer is one of the device's messages.                               *)
LEMMA AnswerIsMessage ==
  /\ \A pkt \in Commands : Ack(pkt) \in AllMessages
  /\ \A msg \in Messages : msg \in AllMessages
BY DEF AllMessages

\* What a step must keep besides the ring.
RestOfBase ==
  /\ link \in {"up", "closing", "down"}
  /\ air \in Seq(Byte) /\ written \in Seq(Byte)
  /\ decodeErrors \in Nat /\ emitted \in Nat /\ commands \in Nat /\ drops \in Nat
  /\ sent \in Seq(AllMessages)
  /\ CommandsAreFrames
  /\ LinkKeepsPace

(* Every step keeps the stream's variables in their types, what sendCommand *)
(* wrote a frame, and what is under way in step with the link.              *)
LEMMA StreamBaseStep == StreamBase /\ [StreamNext]_vars => StreamBase'
<1>. SUFFICES ASSUME StreamBase, [StreamNext]_vars PROVE StreamBase'
  OBVIOUS
<1>1. RingInv'
  BY StreamStepsRing, RingStep DEF StreamBase
<1>2. RestOfBase
  BY DEF StreamBase, StreamTypeOK, RestOfBase
<1>3. SUFFICES RestOfBase'
  BY <1>1 DEF StreamBase, StreamTypeOK, RestOfBase, RingInv
<1>. USE DEF RestOfBase, LinkKeepsPace, CommandsAreFrames, fifoVars, pusher
<1>4. ASSUME NEW msg \in Messages, DevSend(msg) PROVE RestOfBase'
  <2>1. sent' \in Seq(AllMessages) /\ air' \in Seq(Byte) /\ link = "up" /\ link' = "up"
    BY <1>4, Emitted, AnswerIsMessage DEF DevSend
  <2>2. UNCHANGED <<written, command, decodeErrors, commands, drops, fifoVars>> /\ emitted' \in Nat
    BY <1>2, <1>4 DEF DevSend, Emit
  <2>. QED
    BY <1>2, <2>1, <2>2
<1>5. CASE DevAnswer
  <2>1. PICK pkt \in Commands : Emit(Ack(pkt))
    BY <1>5 DEF DevAnswer
  <2>2. sent' \in Seq(AllMessages) /\ air' \in Seq(Byte) /\ link = "up" /\ link' = "up"
    BY <2>1, Emitted, AnswerIsMessage
  <2>3. written' = <<>> /\ UNCHANGED <<decodeErrors, emitted, commands, drops, fifoVars>>
    BY <1>5, <2>1 DEF DevAnswer, Emit
  <2>. QED
    BY <1>2, <2>2, <2>3
<1>6. ASSUME NEW size \in ChunkSizes, Notified(size) PROVE RestOfBase'
  <2>1. air' \in Seq(Byte) /\ link = "up"
    BY <1>2, <1>6, Cut DEF Notified
  <2>2. npc' = "push" /\ UNCHANGED <<link, written, command, decodeErrors, sent, emitted, commands, drops>>
    BY <1>6 DEF Notified, PushEnter
  <2>. QED
    BY <1>2, <2>1, <2>2
<1>7. ASSUME NEW pkt \in Commands, SendCommand(pkt) PROVE RestOfBase'
  <2>1. /\ written' \in Seq(Byte)
        /\ written' # <<>> => /\ command' = pkt /\ written' = Framed(pkt)
                              /\ Len(pkt.payload) <= UBX_MAX_PAYLOAD
    BY <1>7, CommandWritten
  <2>2. commands' \in Nat /\ UNCHANGED <<fifoVars, link, air, decodeErrors, sent, emitted, drops>>
    BY <1>2, <1>7 DEF SendCommand
  <2>. QED
    BY <1>2, <2>1, <2>2
<1>8. CASE Pushing
  <2>1. npc = "push" \/ npc = "notify"
    BY <1>8 DEF Pushing, PushByte, PushLeave, NotifyOverflow
  <2>2. npc' # "push" => todo' = <<>>
    BY <1>2, <1>8 DEF Pushing, PushByte, PushLeave, NotifyOverflow
  <2>3. UNCHANGED streamVars
    BY <1>8 DEF Pushing
  <2>. QED
    BY <1>2, <2>1, <2>2, <2>3 DEF streamVars
<1>9. CASE HandleDisconnect
  <2>1. /\ link = "closing" /\ link' = "down" /\ npc = "idle" /\ npc' = "idle" /\ len' = 0 /\ todo' = todo
        /\ UNCHANGED <<air, written, command, decodeErrors, sent, emitted, commands, drops>>
    BY <1>9 DEF HandleDisconnect, Clear, pusher
  <2>. QED
    BY <1>2, <2>1
<1>10. CASE Loop
  <2>1. UNCHANGED <<link, air, written, command, sent, emitted, commands, drops, pusher>>
    BY <1>10 DEF Loop, Extracting, ExtractEnter, SkipByte, TakeFrame, NoFrame, streamVars,
                 Dispatch, ConsumeFrame
  <2>2. decodeErrors' \in Nat
    BY <1>2, <1>10 DEF Loop, Extracting, streamVars, Dispatch
  <2>3. link = "down" => len' = 0
    <3>. SUFFICES ASSUME link = "down" PROVE len' = 0
      OBVIOUS
    <3>1. len = 0 /\ ~HasOverhead
      BY <1>2 DEF HasOverhead, UBX_FRAME_OVERHEAD
    <3>. QED
      BY <1>10, <3>1 DEF Loop, Extracting, ExtractEnter, SkipByte, Garbage, TakeFrame, FrameComplete,
                         NoFrame, Dispatch, ConsumeFrame, ring
  <2>. QED
    BY <1>2, <2>1, <2>2, <2>3 DEF pusher
<1>11. CASE Drop
  <2>1. /\ link' = "closing" /\ air' = <<>> /\ written' = <<>> /\ drops' \in Nat
        /\ UNCHANGED <<fifoVars, decodeErrors, sent, emitted, commands>>
    BY <1>2, <1>11 DEF Drop
  <2>. QED
    BY <1>2, <2>1
<1>12. CASE Reconnect
  <2>1. /\ link' = "up" /\ sent' = <<>>
        /\ UNCHANGED <<fifoVars, air, written, command, decodeErrors, emitted, commands, drops>>
    BY <1>12 DEF Reconnect
  <2>. QED
    BY <1>2, <2>1
<1>13. CASE UNCHANGED vars
  BY <1>2, <1>13 DEF vars, streamVars, fifoVars
<1>. QED
  <2>. HIDE DEF RestOfBase
  <2>. QED
    BY <1>4, <1>5, <1>6, <1>7, <1>8, <1>9, <1>10, <1>11, <1>12, <1>13 DEF StreamNext

(* So all of this always holds.                                             *)
LEMMA StreamInvariantBase == StreamSpec => []StreamBase
BY StreamInitBase, StreamBaseStep, PTL DEF StreamSpec

(* The link, the bytes on the air, the messages and what was heard stay in  *)
(* their types, and so do the ring's variables below them.                  *)
THEOREM StreamTypeCorrect == StreamSpec => []StreamTypeOK
<1>1. StreamBase => StreamTypeOK
  BY DEF StreamBase
<1>. QED
  BY <1>1, StreamInvariantBase, PTL

(* Whatever sendCommand() writes the device decodes to the packet it was    *)
(* asked to send.                                                           *)
THEOREM CommandsAreReadable == StreamSpec => []CommandsAreFrames
<1>1. StreamBase => CommandsAreFrames
  BY DEF StreamBase
<1>. QED
  BY <1>1, StreamInvariantBase, PTL

(* With the tasks of the driver at it the ring is still a bounded queue.    *)
THEOREM StreamRingIsQueue == StreamSpec => RingImplementsQueue
<1>1. StreamInit => Queue!BQInit
  BY DEF StreamInit, FifoInit, Contents, Queue!BQInit
<1>2. StreamBase /\ StreamBase' /\ [StreamNext]_vars => [Queue!BQNext]_Queue!bqVars
  BY StepKeepsQueue, StreamStepsRing DEF StreamBase
<1>. QED
  BY <1>1, <1>2, StreamInvariantBase, PTL DEF StreamSpec, RingImplementsQueue, Queue!BQSpec

------------------------------------------------------------------------------
(* The bytes under way, step by step.                                       *)

\* The bytes the device sent and the loop has not taken.
pending == (Contents \o todo) \o air

\* How many messages it has taken.
Taken == Len(heard) + (IF frame = <<>> THEN 0 ELSE 1)

\* What holds as long as it does not: the callbacks were for the first messages, the frame cut out is
\* the next one's, and the rest is under way.
Lossless ==
  /\ decodeErrors = 0
  /\ heard \in Seq({msg.meant : msg \in AllMessages})
  /\ \A i \in 1 .. Len(heard) : heard[i] = Meant(i)
  /\ frame # <<>> => frame = sent[Taken].bytes
  /\ InFlight(pending, sent, Taken, link)

\* What is under way are bytes.
PendingIsBytes ==
  /\ Contents \in Seq(Byte) /\ Len(Contents) = len /\ todo \in Seq(Byte) /\ air \in Seq(Byte)
  /\ pending \in Seq(Byte) /\ len \in Nat
  /\ \A i \in 1 .. len : Contents[i] = Peek(i - 1)

(* They are, before and after a step.                                       *)
LEMMA PendingParts == StreamBase => PendingIsBytes
<1>. SUFFICES ASSUME StreamBase PROVE PendingIsBytes
  OBVIOUS
<1>1. /\ Contents \in Seq(Byte) /\ Len(Contents) = len
      /\ \A i \in 1 .. len : Contents[i] = Peek(i - 1)
  BY ContentsSeq DEF StreamBase, RingInv, ContentsAreBytes
<1>2. todo \in Seq(Byte) /\ air \in Seq(Byte) /\ len \in Nat
  BY FifoAssumptions DEF StreamBase, RingInv, FifoTypeOK, StreamTypeOK
<1>3. Contents \o todo \in Seq(Byte)
  BY <1>1, <1>2
<1>4. pending \in Seq(Byte)
  <2>. DEFINE c == Contents \o todo
  <2>1. c \in Seq(Byte)
    BY <1>3
  <2>. HIDE DEF c
  <2>2. c \o air \in Seq(Byte)
    BY <1>2, <2>1
  <2>. QED
    BY <2>2 DEF pending, c
<1>. QED
  BY <1>1, <1>2, <1>4 DEF PendingIsBytes

(* Likewise after a step.                                                   *)
LEMMA PendingPartsNext == StreamBase' => PendingIsBytes'
BY PendingParts, PTL

(* An unchanged ring has the same contents.                                 *)
LEMMA RingUnmoved == UNCHANGED ring => UNCHANGED Contents
BY DEF ring, Contents, Peek

(* A message sent is put behind what is under way.                          *)
LEMMA EmitMoves ==
  ASSUME StreamBase, NEW msg \in AllMessages, Emit(msg)
  PROVE  pending' = Cat(pending, msg.bytes)
<1>1. air' = air \o msg.bytes /\ UNCHANGED fifoVars
  BY DEF Emit
<1>2. UNCHANGED <<Contents, todo>>
  BY <1>1 DEF Contents, Peek, fifoVars
<1>. DEFINE c == Contents \o todo
<1>3. c \in Seq(Byte) /\ air \in Seq(Byte) /\ msg.bytes \in Seq(Byte)
  <2>1. Contents \in Seq(Byte) /\ todo \in Seq(Byte) /\ air \in Seq(Byte)
    BY PendingParts DEF PendingIsBytes
  <2>. QED
    BY <2>1, MessageBytes
<1>4. pending' = c \o (air \o msg.bytes) /\ pending = c \o air
  BY <1>1, <1>2 DEF pending
<1>. HIDE DEF c
<1>5. (c \o air) \o msg.bytes = c \o (air \o msg.bytes)
  BY <1>3, Associative
<1>. QED
  BY <1>4, <1>5 DEF Cat

(* A notification changes nothing of it: bytes go from the air to the      *)
(* pusher.                                                                  *)
LEMMA NotifiedMoves ==
  ASSUME StreamBase, NEW size \in ChunkSizes, Notified(size)
  PROVE  pending' = pending
<1>. DEFINE n == IF size < Len(air) THEN size ELSE Len(air)
            s == SubSeq(air, 1, n)
            u == SubSeq(air, n + 1, Len(air))
<1>1. todo = <<>> /\ todo' = s /\ air' = u /\ air # <<>> /\ UNCHANGED ring
  BY DEF Notified, PushEnter, StreamBase, LinkKeepsPace
<1>2. Contents \in Seq(Byte) /\ air \in Seq(Byte)
  BY PendingParts DEF PendingIsBytes
<1>3. s \in Seq(Byte) /\ u \in Seq(Byte) /\ s \o u = air
  BY <1>1, <1>2, Cut
<1>4. Contents' = Contents
  BY <1>1, RingUnmoved
<1>. HIDE DEF s, u
<1>5. PICK c \in Seq(Byte) : c = Contents
  BY <1>2
<1>6. (c \o s) \o u = c \o (s \o u)
  BY <1>3, Associative
<1>7. c \o <<>> = c
  BY <1>5
<1>. QED
  BY <1>1, <1>3, <1>4, <1>5, <1>6, <1>7 DEF pending

(* A turn of push() moves a byte into the ring, over the oldest if need be. *)
LEMMA PushMoves ==
  ASSUME StreamBase, StreamBase', PushByte, UNCHANGED air
  PROVE  \E r \in Seq(Byte) : pending = Cat(r, pending') /\ (len < RACEBOX_FIFO_SIZE => r = <<>>)
<1>1. todo # <<>> /\ todo' = Tail(todo) /\ air' = air
  BY DEF PushByte
<1>2. /\ Contents \in Seq(Byte) /\ Len(Contents) = len /\ todo \in Seq(Byte) /\ air \in Seq(Byte)
      /\ len \in Nat /\ \A i \in 1 .. len : Contents[i] = Peek(i - 1)
  BY PendingParts DEF PendingIsBytes
<1>3. /\ Contents' \in Seq(Byte) /\ Len(Contents') = len'
      /\ \A i \in 1 .. len' : Contents'[i] = Peek(i - 1)'
  BY PendingPartsNext DEF PendingIsBytes
<1>4. PICK c \in Seq(Byte), d \in Seq(Byte), b \in Byte, u \in Seq(Byte), a \in Seq(Byte) :
        c = Contents /\ d = Contents' /\ b = Head(todo) /\ u = Tail(todo) /\ a = air
  <2>1. Head(todo) \in Byte /\ Tail(todo) \in Seq(Byte)
    BY <1>1, <1>2, HeadTailProperties
  <2>. HIDE DEF Contents
  <2>. QED
    BY <1>2, <1>3, <2>1
<1>. DEFINE e == <<b>>
<1>5. e \in Seq(Byte)
  OBVIOUS
<1>6. todo = Cat(e, u)
  <2>1. Len(todo) = 1 + Len(u) /\ todo[1] = b /\ \A i \in 1 .. Len(u) : u[i] = todo[1 + i]
    BY <1>1, <1>2, <1>4
  <2>. QED
    BY <1>2, <2>1, FirstAndRest
<1>7. PICK r \in Seq(Byte) : Cat(c, e) = Cat(r, d) /\ (len < RACEBOX_FIFO_SIZE => r = <<>>)
  <2>1. RingInv
    BY DEF StreamBase
  <2>. DEFINE m == len + 1
              x == Append(c, b)
  <2>2. m \in Nat /\ x \in Seq(Byte) /\ Len(x) = m /\ x[m] = b /\ \A i \in 1 .. len : x[i] = c[i]
    BY <1>2, <1>4
  <2>3. Cat(c, e) = x
    BY AppendIsConcat DEF Cat
  <2>. HIDE DEF x, m
  <2>4. CASE len < RACEBOX_FIFO_SIZE
    <3>1. len' = m /\ Peek(len - 1)' = b /\ \A i \in 1 .. len : Peek(i - 1)' = Peek(i - 1)
      BY <1>4, <2>1, <2>4, Pushed DEF m
    <3>2. Len(d) = m /\ d[m] = b
      <4>1. Len(d) = m /\ len' \in 1 .. len'
        BY <1>2, <1>3, <1>4, <3>1 DEF m
      <4>2. Contents'[len'] = Peek(len - 1)'
        BY <1>3, <4>1
      <4>. QED
        BY <1>4, <3>1, <4>1, <4>2
    <3>3. ASSUME NEW i \in 1 .. m PROVE d[i] = x[i]
      <4>1. CASE i = m
        BY <2>2, <3>2, <4>1
      <4>2. CASE i # m
        <5>1. i \in 1 .. len /\ i \in 1 .. len'
          BY <1>2, <3>1, <4>2 DEF m
        <5>. QED
          BY <1>2, <1>3, <1>4, <2>2, <3>1, <5>1
      <4>. QED
        BY <4>1, <4>2
    <3>4. d = x
      BY <2>2, <3>2, <3>3, SeqEqual
    <3>. DEFINE no == <<>>
    <3>5. no \in Seq(Byte) /\ Cat(no, d) = d
      BY CatLaws, Zenon
    <3>6. no = <<>>
      OBVIOUS
    <3>. HIDE DEF no
    <3>. QED
      BY <2>3, <3>4, <3>5, <3>6
  <2>5. CASE ~(len < RACEBOX_FIFO_SIZE)
    <3>1. len' = len /\ Peek(len - 1)' = b /\ \A i \in 1 .. len - 1 : Peek(i - 1)' = Peek(i)
      BY <1>4, <2>1, <2>5, Pushed
    <3>2. Len(x) = 1 + Len(d) /\ Len(d) = len
      BY <1>2, <1>3, <1>4, <2>2, <3>1 DEF m
    <3>3. ASSUME NEW i \in 1 .. Len(d) PROVE d[i] = x[1 + i]
      <4>1. d[i] = Peek(i - 1)' /\ i \in 1 .. len
        BY <1>3, <1>4, <3>1, <3>2
      <4>2. CASE i = len
        <5>1. 1 + i = m
          BY <1>2, <4>2 DEF m
        <5>2. Peek(i - 1)' = b
          <6>1. i = len'
            BY <3>1, <4>2
          <6>. QED
            BY <3>1, <4>2, <6>1
        <5>. QED
          BY <2>2, <4>1, <5>1, <5>2
      <4>3. CASE i # len
        <5>1. i \in 1 .. len - 1 /\ 1 + i \in 1 .. len /\ 1 + i - 1 = i
          BY <1>2, <4>1, <4>3
        <5>2. x[1 + i] = Peek(i)
          BY <1>2, <1>4, <2>2, <5>1
        <5>. QED
          BY <3>1, <4>1, <5>1, <5>2
      <4>. QED
        BY <4>2, <4>3
    <3>4. <<x[1]>> \in Seq(Byte) /\ x = Cat(<<x[1]>>, d)
      BY <2>2, <3>2, <3>3, FirstAndRest
    <3>. QED
      BY <2>3, <2>5, <3>4
  <2>. QED
    BY <2>4, <2>5
<1>. HIDE DEF e
<1>8. pending = Cat(Cat(c, Cat(e, u)), a) /\ pending' = Cat(Cat(d, u), a)
  BY <1>1, <1>4, <1>6 DEF pending, Cat
<1>9. Cat(c, Cat(e, u)) = Cat(r, Cat(d, u))
  <2>1. Cat(Cat(c, e), u) = Cat(c, Cat(e, u))
    BY <1>5, CatAssoc
  <2>2. Cat(Cat(r, d), u) = Cat(r, Cat(d, u))
    BY CatAssoc
  <2>. QED
    BY <1>7, <2>1, <2>2, Zenon
<1>10. Cat(d, u) \in Seq(Byte)
  BY CatLaws
<1>11. Cat(Cat(r, Cat(d, u)), a) = Cat(r, Cat(Cat(d, u), a))
  BY <1>10, CatAssoc
<1>. QED
  BY <1>7, <1>8, <1>9, <1>11, Zenon

(* A byte skipped, or a frame taken, was in front of what is under way.     *)
LEMMA FrontMoves ==
  ASSUME StreamBase, StreamBase', NEW r \in Seq(Byte), Contents = r \o Contents', UNCHANGED <<todo, air>>
  PROVE  pending = Cat(r, pending')
<1>1. PICK c \in Seq(Byte), u \in Seq(Byte), a \in Seq(Byte) : c = Contents' /\ u = todo /\ a = air
  <2>1. Contents' \in Seq(Byte) /\ todo \in Seq(Byte) /\ air \in Seq(Byte)
    BY PendingParts, PendingPartsNext DEF PendingIsBytes
  <2>. QED
    BY <2>1
<1>2. pending = Cat(Cat(Cat(r, c), u), a) /\ pending' = Cat(Cat(c, u), a)
  BY <1>1 DEF pending, Cat
<1>3. Cat(Cat(r, c), u) = Cat(r, Cat(c, u))
  BY CatAssoc
<1>4. Cat(c, u) \in Seq(Byte)
  BY CatLaws
<1>5. Cat(Cat(r, Cat(c, u)), a) = Cat(r, Cat(Cat(c, u), a))
  BY <1>4, CatAssoc
<1>. QED
  BY <1>2, <1>3, <1>5, Zenon

(* A byte that begins no frame is skipped.                                  *)
LEMMA SkipMoves ==
  ASSUME StreamBase, StreamBase', SkipByte, UNCHANGED streamVars
  PROVE  \E r \in Seq(Byte) : pending = Cat(r, pending')
<1>1. RingInv /\ RingInv' /\ UNCHANGED <<todo, air>>
  BY DEF StreamBase, SkipByte, pusher, streamVars
<1>2. Queue!Skip
  BY <1>1, SkipSkips
<1>3. Contents # <<>> /\ Contents' = SubSeq(Contents, 1 + 1, Len(Contents))
  BY <1>2 DEF Queue!Skip, Queue!Without
<1>4. PICK c \in Seq(Byte), d \in Seq(Byte) : c = Contents /\ d = Contents'
  <2>1. Contents \in Seq(Byte) /\ Contents' \in Seq(Byte)
    BY PendingParts, PendingPartsNext DEF PendingIsBytes
  <2>. HIDE DEF Contents
  <2>. QED
    BY <2>1
<1>5. c # <<>> /\ d = SubSeq(c, 2, Len(c))
  BY <1>3, <1>4
<1>6. Len(c) = 1 + Len(d) /\ \A i \in 1 .. Len(d) : d[i] = c[1 + i]
  <2>1. d = Tail(c)
    BY <1>5, TailIsSubSeq
  <2>2. c # <<>>
    BY <1>5
  <2>. QED
    BY <2>1, <2>2
<1>7. <<c[1]>> \in Seq(Byte) /\ c = Cat(<<c[1]>>, d)
  BY <1>6, FirstAndRest
<1>. DEFINE r == <<c[1]>>
<1>8. Contents = r \o Contents'
  BY <1>4, <1>7 DEF Cat
<1>. HIDE DEF r
<1>9. r \in Seq(Byte)
  BY <1>7 DEF r
<1>. QED
  BY <1>1, <1>8, <1>9, FrontMoves

(* So is a frame when it is taken.                                          *)
LEMMA TakeMoves ==
  ASSUME StreamBase, StreamBase', TakeFrame, UNCHANGED streamVars
  PROVE  /\ frame = <<>> /\ frame' \in Seq(Byte) /\ Len(frame') = 8 + PayloadLen(frame')
         /\ pending = Cat(frame', pending')
<1>1. RingInv /\ RingInv' /\ UNCHANGED <<todo, air>>
  BY DEF StreamBase, TakeFrame, pusher, streamVars
<1>2. /\ FrameLen \in 0 .. len /\ FrameLen >= 8
      /\ frame = <<>> /\ frame' \in Seq(Byte) /\ Len(frame') = FrameLen
      /\ \A i \in 1 .. FrameLen : frame'[i] = Peek(i - 1)
  BY <1>1, FrameCut
<1>3. frame' \o Contents' = Contents
  BY <1>1, FrameTaken DEF Queue!Take
<1>4. Len(frame') = 8 + PayloadLen(frame')
  <2>1. 5 \in 1 .. FrameLen /\ 6 \in 1 .. FrameLen
    BY <1>2
  <2>2. frame'[5] = Peek(5 - 1) /\ frame'[6] = Peek(6 - 1)
    BY <1>2, <2>1
  <2>3. PayloadLen(frame') = Announced
    BY <2>2 DEF PayloadLen, Announced
  <2>. QED
    BY <1>2, <2>3 DEF FrameLen, UBX_FRAME_OVERHEAD
<1>5. PICK f \in Seq(Byte) : f = frame'
  BY <1>2
<1>6. Contents = f \o Contents'
  BY <1>3, <1>5
<1>7. pending = Cat(f, pending')
  BY <1>1, <1>6, FrontMoves
<1>. QED
  BY <1>2, <1>4, <1>5, <1>7

(* What neither moves bytes nor takes a frame loses nothing.                *)
LEMMA Unmoved ==
  ASSUME Lossless, pending' = pending, UNCHANGED <<decodeErrors, heard, frame, sent, link>>
  PROVE  Lossless'
<1>1. Taken' = Taken
  BY DEF Taken
<1>2. InFlight(pending', sent', Taken', link')
  BY <1>1 DEF Lossless
<1>3. \A i \in 1 .. Len(heard') : heard'[i] = Meant(i)'
  BY DEF Lossless, Meant
<1>. QED
  BY <1>1, <1>2, <1>3 DEF Lossless

(* How many were taken is a number of messages sent.                        *)
LEMMA TakenType ==
  ASSUME StreamBase, Lossless
  PROVE  /\ Taken \in 0 .. Len(sent) /\ Len(sent) \in Nat /\ Len(heard) \in Nat
         /\ frame # <<>> => Taken = Len(heard) + 1
         /\ frame = <<>> => Taken = Len(heard)
<1>1. Len(sent) \in Nat /\ Len(heard) \in Nat
  BY DEF StreamBase, Lossless
<1>2. Taken \in 0 .. Len(sent)
  BY DEF Lossless, InFlight
<1>. QED
  BY <1>1, <1>2 DEF Taken

(* A message sent follows those under way.                                  *)
LEMMA EmitLossless ==
  ASSUME StreamBase, Lossless, NEW msg \in AllMessages, Emit(msg)
  PROVE  Lossless'
<1>1. /\ air' = air \o msg.bytes /\ sent' = Append(sent, msg) /\ link = "up" /\ link' = "up"
      /\ UNCHANGED <<fifoVars, decodeErrors, heard>>
  BY DEF Emit
<1>2. UNCHANGED <<Contents, todo, frame>>
  BY <1>1 DEF Contents, Peek, fifoVars
<1>3. Taken' = Taken
  BY <1>1, <1>2 DEF Taken
<1>4. pending' = pending \o msg.bytes
  BY EmitMoves DEF Cat
<1>5. InFlight(pending', sent', Taken', link')
  <2>1. pending \in Seq(Byte) /\ sent \in Seq(AllMessages) /\ InFlight(pending, sent, Taken, "up")
    BY <1>1, PendingParts DEF Lossless, StreamBase, PendingIsBytes
  <2>2. InFlight(pending \o msg.bytes, Append(sent, msg), Taken, "up")
    BY <2>1, OneMore
  <2>. QED
    BY <1>1, <1>3, <1>4, <2>2
<1>6. Taken \in 0 .. Len(sent) /\ Len(sent) \in Nat /\ Len(heard) \in Nat /\ Len(heard) <= Taken
  BY TakenType
<1>7. \A i \in 1 .. Len(sent) : sent'[i] = sent[i]
  BY <1>1 DEF StreamBase
<1>8. \A i \in 1 .. Len(heard') : heard'[i] = Meant(i)'
  BY <1>1, <1>6, <1>7 DEF Lossless, Meant
<1>9. frame' # <<>> => frame' = sent'[Taken'].bytes
  BY <1>2, <1>3, <1>6, <1>7, TakenType DEF Lossless
<1>. QED
  BY <1>1, <1>5, <1>8, <1>9 DEF Lossless

(* A notification moves bytes from the air to the pusher.                   *)
LEMMA NotifiedLossless ==
  ASSUME StreamBase, Lossless, NEW size \in ChunkSizes, Notified(size)
  PROVE  Lossless'
<1>1. UNCHANGED <<frame, link, decodeErrors, sent, heard>>
  BY DEF Notified, PushEnter
<1>. QED
  BY <1>1, NotifiedMoves, Unmoved

(* Then, as long as there is room, from the pusher to the ring.             *)
LEMMA PushLossless ==
  ASSUME StreamBase, StreamBase', Lossless, PushByte, UNCHANGED streamVars,
         overflowCount = 0, overflowCount' = 0
  PROVE  Lossless'
<1>1. UNCHANGED <<frame, link, air, decodeErrors, sent, heard>>
  BY DEF PushByte, streamVars
<1>2. len < RACEBOX_FIFO_SIZE
  BY Pushed DEF StreamBase
<1>3. pending = Cat(<<>>, pending') /\ pending' \in Seq(Byte)
  BY <1>1, <1>2, PushMoves, PendingPartsNext DEF PendingIsBytes
<1>4. pending' = pending
  <2>1. PICK p \in Seq(Byte) : p = pending'
    BY <1>3
  <2>2. Cat(<<>>, p) = p
    BY CatLaws, Zenon
  <2>. QED
    BY <1>3, <2>1, <2>2, Zenon
<1>. QED
  BY <1>1, <1>4, Unmoved

(* The link is lost, and with it what was on the air.                       *)
LEMMA DropLossless ==
  ASSUME StreamBase, StreamBase', Lossless, Drop
  PROVE  Lossless'
<1>1. /\ link' = "closing" /\ air' = <<>> /\ UNCHANGED <<fifoVars, decodeErrors, sent, heard>>
  BY DEF Drop
<1>2. UNCHANGED <<ring, todo, frame>>
  BY <1>1 DEF fifoVars, ring
<1>3. Contents' = Contents
  BY <1>2, RingUnmoved
<1>4. Contents \in Seq(Byte) /\ todo \in Seq(Byte) /\ air \in Seq(Byte) /\ pending \in Seq(Byte)
  BY PendingParts DEF PendingIsBytes
<1>. DEFINE c == Contents \o todo
<1>5. c \in Seq(Byte)
  BY <1>4
<1>6. pending' = c /\ pending = c \o air
  <2>1. pending' = c \o <<>>
    BY <1>1, <1>2, <1>3 DEF pending
  <2>2. pending = c \o air
    BY DEF pending
  <2>. HIDE DEF c
  <2>3. c \o <<>> = c
    BY <1>5
  <2>. QED
    BY <2>1, <2>2, <2>3
<1>. HIDE DEF c
<1>7. Len(c) <= Len(pending) /\ \A i \in 1 .. Len(c) : c[i] = pending[i]
  BY <1>4, <1>5, <1>6
<1>8. Taken' = Taken
  BY <1>1, <1>2 DEF Taken
<1>9. InFlight(pending', sent', Taken', link')
  <2>1. sent \in Seq(AllMessages) /\ InFlight(pending, sent, Taken, link) /\ "closing" # "up"
    BY DEF StreamBase, Lossless
  <2>2. InFlight(c, sent, Taken, "closing")
    BY <1>4, <1>5, <1>7, <2>1, CutShort
  <2>. QED
    BY <1>1, <1>6, <1>8, <2>2
<1>. QED
  BY <1>1, <1>2, <1>8, <1>9 DEF Lossless, Meant

(* With the ring empty and nothing to push nothing is under way.            *)
LEMMA NothingPendingNext ==
  ASSUME len' = 0, todo' = <<>>, air' = <<>>
  PROVE  pending' = <<>>
<1>1. Contents' = <<>>
  BY DEF Contents
<1>2. pending' = (<<>> \o <<>>) \o <<>>
  BY <1>1 DEF pending
<1>. QED
  BY <1>2

(* The ring is emptied of a beginning: the rest of it will not come.        *)
LEMMA DisconnectLossless ==
  ASSUME StreamBase, Lossless, HandleDisconnect
  PROVE  Lossless'
<1>1. /\ link = "closing" /\ link' = "down" /\ len' = 0 /\ npc = "idle"
      /\ UNCHANGED <<air, todo, frame, decodeErrors, sent, heard>>
  BY DEF HandleDisconnect, Clear, pusher
<1>2. todo' = <<>> /\ air' = <<>>
  BY <1>1 DEF StreamBase, LinkKeepsPace
<1>3. pending' = <<>>
  BY <1>1, <1>2, NothingPendingNext
<1>4. Taken' = Taken
  BY <1>1 DEF Taken
<1>5. InFlight(pending', sent', Taken', link')
  <2>1. /\ sent \in Seq(AllMessages) /\ InFlight(pending, sent, Taken, link) /\ pending \in Seq(Byte)
        /\ "down" # "up" /\ <<>> \in Seq(Byte)
    BY PendingParts DEF StreamBase, Lossless, PendingIsBytes
  <2>2. Len(<<>>) <= Len(pending) /\ \A i \in 1 .. Len(<<>>) : (<<>>)[i] = pending[i]
    BY <2>1
  <2>3. InFlight(<<>>, sent, Taken, "down")
    <3>. DEFINE e == <<>>
    <3>. HIDE DEF e
    <3>1. e \in Seq(Byte) /\ Len(e) <= Len(pending) /\ \A i \in 1 .. Len(e) : e[i] = pending[i]
      BY <2>1, <2>2 DEF e
    <3>2. InFlight(e, sent, Taken, "down")
      BY <2>1, <3>1, CutShort
    <3>. QED
      BY <3>2 DEF e
  <2>. QED
    BY <1>1, <1>3, <1>4, <2>3
<1>. QED
  BY <1>1, <1>4, <1>5 DEF Lossless, Meant

(* A new connection starts with nothing sent and nothing under way.         *)
LEMMA ReconnectLossless ==
  ASSUME StreamBase, Lossless, Reconnect
  PROVE  Lossless'
<1>1. /\ link = "down" /\ link' = "up" /\ sent' = <<>> /\ heard' = <<>> /\ frame = <<>>
      /\ UNCHANGED <<len, todo, air, frame, decodeErrors>>
  BY DEF Reconnect, InDrain, fifoVars
<1>2. len' = 0 /\ todo' = <<>> /\ air' = <<>>
  BY <1>1 DEF StreamBase, LinkKeepsPace
<1>3. pending' = <<>>
  BY <1>2, NothingPendingNext
<1>4. Taken' = 0
  BY <1>1 DEF Taken
<1>5. InFlight(pending', sent', Taken', link')
  BY <1>1, <1>3, <1>4, NothingInFlight
<1>6. heard' \in Seq({msg.meant : msg \in AllMessages}) /\ Len(heard') = 0
  BY <1>1
<1>. QED
  BY <1>1, <1>5, <1>6 DEF Lossless

(* The ring begins with the next message.                                   *)
LEMMA FrontMessage ==
  ASSUME StreamBase, Lossless, frame = <<>>, HasOverhead
  PROVE  LET b == sent[Taken + 1].bytes
         IN  /\ Taken + 1 \in 1 .. Len(sent) /\ WellFramed(sent[Taken + 1])
             /\ \A k \in 1 .. Len(b) : k <= len => Peek(k - 1) = b[k]
<1>. DEFINE msg == sent[Taken + 1]
            c == Contents \o todo
<1>1. /\ Contents \in Seq(Byte) /\ Len(Contents) = len /\ todo \in Seq(Byte) /\ air \in Seq(Byte)
      /\ pending \in Seq(Byte) /\ len \in Nat /\ \A i \in 1 .. len : Contents[i] = Peek(i - 1)
  BY PendingParts DEF PendingIsBytes
<1>2. len >= 8
  BY DEF HasOverhead, UBX_FRAME_OVERHEAD
<1>3. c \in Seq(Byte) /\ Len(c) >= len /\ \A i \in 1 .. len : c[i] = Contents[i]
  BY <1>1
<1>4. pending = c \o air
  BY DEF pending
<1>. HIDE DEF c
<1>5. Len(pending) >= len /\ \A i \in 1 .. len : pending[i] = c[i]
  BY <1>1, <1>3, <1>4
<1>6. pending # <<>>
  BY <1>1, <1>2, <1>5
<1>7. sent \in Seq(AllMessages) /\ InFlight(pending, sent, Taken, link)
  BY DEF StreamBase, Lossless
<1>8. /\ Taken + 1 \in 1 .. Len(sent)
      /\ \A k \in 1 .. Len(msg.bytes) : k <= Len(pending) => pending[k] = msg.bytes[k]
  BY <1>1, <1>6, <1>7, NextMessage
<1>9. msg \in AllMessages
  BY <1>7, <1>8
<1>10. WellFramed(msg) /\ Len(msg.bytes) \in Nat
  BY <1>9, MessagesAreHeardAsMeant, MessageBytes
<1>. HIDE DEF msg
<1>11. ASSUME NEW k \in 1 .. Len(msg.bytes), k <= len PROVE Peek(k - 1) = msg.bytes[k]
  <2>1. k \in 1 .. len /\ k <= Len(pending)
    BY <1>1, <1>5, <1>10, <1>11
  <2>. QED
    BY <1>1, <1>3, <1>5, <1>8, <2>1
<1>. QED
  BY <1>8, <1>10, <1>11 DEF msg

(* So there is no garbage, and what is cut out is that message.             *)
LEMMA FrontIsFrame ==
  ASSUME StreamBase, Lossless, frame = <<>>, HasOverhead
  PROVE  ~Garbage /\ FrameLen = Len(sent[Taken + 1].bytes)
<1>. DEFINE b == sent[Taken + 1].bytes
<1>1. /\ Len(b) = UBX_FRAME_OVERHEAD + PayloadLen(b) /\ PayloadLen(b) \in 0 .. UBX_MAX_PAYLOAD
      /\ b[1] = UBX_SYNC_1 /\ b[2] = UBX_SYNC_2
  BY FrontMessage DEF WellFramed
<1>2. \A k \in 1 .. Len(b) : k <= len => Peek(k - 1) = b[k]
  BY FrontMessage
<1>3. len \in Nat /\ len >= 8 /\ UBX_MAX_PAYLOAD \in Nat
  BY PendingParts, UbxCodecAssumption DEF PendingIsBytes, HasOverhead, UBX_FRAME_OVERHEAD
<1>. HIDE DEF b
<1>4. Len(b) \in Nat /\ Len(b) >= 8
  BY <1>1, <1>3 DEF UBX_FRAME_OVERHEAD
<1>5. Peek(0) = b[1] /\ Peek(1) = b[2] /\ Peek(4) = b[5] /\ Peek(5) = b[6]
  <2>1. /\ 1 \in 1 .. Len(b) /\ 2 \in 1 .. Len(b) /\ 5 \in 1 .. Len(b) /\ 6 \in 1 .. Len(b)
        /\ 1 <= len /\ 2 <= len /\ 5 <= len /\ 6 <= len
    BY <1>3, <1>4
  <2>2. Peek(1 - 1) = b[1] /\ Peek(2 - 1) = b[2] /\ Peek(5 - 1) = b[5] /\ Peek(6 - 1) = b[6]
    BY <1>2, <2>1
  <2>. QED
    BY <2>2
<1>6. AtHeader
  BY <1>1, <1>5 DEF AtHeader
<1>7. Announced = PayloadLen(b)
  BY <1>5 DEF Announced, PayloadLen
<1>8. FrameLen = Len(b)
  BY <1>1, <1>7 DEF FrameLen
<1>9. ~Garbage
  BY <1>1, <1>3, <1>6, <1>7 DEF Garbage
<1>. QED
  BY <1>8, <1>9 DEF b

------------------------------------------------------------------------------
(* Nothing is lost.                                                         *)

(* The next message is cut out whole, and the one after it comes next.      *)
LEMMA TakeLossless ==
  ASSUME StreamBase, StreamBase', Lossless, TakeFrame, UNCHANGED streamVars
  PROVE  Lossless'
<1>1. /\ mutex = "extract" /\ HasOverhead /\ UNCHANGED <<todo, overflowCount>>
      /\ UNCHANGED <<link, air, decodeErrors, sent, heard>>
  BY DEF TakeFrame, FrameComplete, streamVars, pusher
<1>2. RingInv /\ RingInv' /\ frame = <<>>
  BY <1>1 DEF StreamBase, RingInv
<1>3. /\ FrameLen \in 0 .. len /\ FrameLen >= 8
      /\ frame' \in Seq(Byte) /\ Len(frame') = FrameLen
      /\ \A i \in 1 .. FrameLen : frame'[i] = Peek(i - 1)
  BY <1>2, FrameCut
<1>4. frame' # <<>> /\ frame' \o Contents' = Contents
  BY <1>2, FrameTaken DEF Queue!Take
<1>. DEFINE t == Taken
            b == sent[t + 1].bytes
<1>5. /\ t + 1 \in 1 .. Len(sent) /\ FrameLen = Len(b) /\ b \in Seq(Byte)
      /\ \A k \in 1 .. Len(b) : k <= len => Peek(k - 1) = b[k]
  BY <1>1, <1>2, FrontMessage, FrontIsFrame DEF WellFramed
<1>6. frame' = b
  <2>. HIDE DEF b
  <2>1. \A k \in 1 .. Len(b) : frame'[k] = b[k]
    <3>1. \A k \in 1 .. Len(b) : k \in 1 .. FrameLen /\ k <= len
      <4>1. len \in Nat
        BY PendingParts DEF PendingIsBytes
      <4>. QED
        BY <1>3, <1>5, <4>1
    <3>. QED
      BY <1>3, <1>5, <3>1
  <2>. QED
    BY <1>3, <1>5, <2>1, SeqEqual
<1>7. t = Len(heard) /\ t \in Nat /\ Taken' = t + 1
  <2>1. Taken' = Len(heard) + 1
    BY <1>1, <1>4 DEF Taken
  <2>. QED
    BY <1>2, <2>1, TakenType
<1>8. pending = b \o pending'
  BY <1>6, TakeMoves DEF Cat
<1>9. InFlight(pending', sent', Taken', link')
  <2>1. sent \in Seq(AllMessages) /\ pending' \in Seq(Byte) /\ InFlight(pending, sent, t, link)
    BY PendingPartsNext DEF StreamBase, Lossless, PendingIsBytes
  <2>2. InFlight(sent[t + 1].bytes \o pending', sent, t, link)
    BY <1>8, <2>1
  <2>. HIDE DEF t
  <2>3. PICK p \in Seq(Byte) : p = pending'
    BY <2>1
  <2>4. InFlight(p, sent, t + 1, link)
    BY <1>5, <2>1, <2>2, <2>3, OneTaken
  <2>. QED
    BY <1>1, <1>7, <2>3, <2>4
<1>10. frame' = sent'[Taken'].bytes
  BY <1>1, <1>6, <1>7
<1>. QED
  BY <1>1, <1>9, <1>10 DEF Lossless, Meant

(* It decodes, and is heard as it was meant.                                *)
LEMMA DispatchLossless ==
  ASSUME StreamBase, Lossless, Dispatch
  PROVE  Lossless'
<1>1. frame # <<>> /\ frame' = <<>> /\ UNCHANGED <<ring, todo, link, air, sent>>
  BY DEF Dispatch, ConsumeFrame, pusher
<1>. DEFINE n == Len(heard)
            msg == sent[n + 1]
            M == {m.meant : m \in AllMessages}
<1>2. n \in Nat /\ Taken = n + 1 /\ n + 1 \in 1 .. Len(sent) /\ Len(sent) \in Nat
  BY <1>1, TakenType
<1>3. frame = msg.bytes
  BY <1>1, <1>2 DEF Lossless
<1>4. msg \in AllMessages
  BY <1>2 DEF StreamBase
<1>5. ubxDecodes(frame) /\ Heard(ubxDecode(frame)) = <<msg.meant>>
  <2>1. WellFramed(msg)
    BY <1>4, MessagesAreHeardAsMeant
  <2>. HIDE DEF msg
  <2>. QED
    BY <1>3, <2>1 DEF WellFramed
<1>6. heard' = heard \o <<msg.meant>> /\ decodeErrors' = decodeErrors
  BY <1>5 DEF Dispatch
<1>7. heard \in Seq(M) /\ msg.meant \in M
  BY <1>4 DEF Lossless
<1>8. heard' = Append(heard, msg.meant)
  <2>. HIDE DEF M, msg
  <2>. QED
    BY <1>6, <1>7, AppendIsConcat
<1>. DEFINE e == msg.meant
<1>9. heard' \in Seq(M) /\ Len(heard') = n + 1 /\ heard'[n + 1] = e /\ \A i \in 1 .. n : heard'[i] = heard[i]
  <2>. HIDE DEF M, e
  <2>. QED
    BY <1>7, <1>8, AppendProperties DEF e
<1>10. ASSUME NEW i \in 1 .. n + 1 PROVE heard'[i] = sent[i].meant
  <2>1. CASE i = n + 1
    BY <1>9, <2>1
  <2>2. CASE i # n + 1
    <3>1. i \in 1 .. n
      BY <1>2, <2>2
    <3>. QED
      BY <1>9, <3>1 DEF Lossless, Meant
  <2>. QED
    BY <2>1, <2>2
<1>11. Taken' = Taken
  BY <1>1, <1>2, <1>9 DEF Taken
<1>12. pending' = pending
  BY <1>1, RingUnmoved DEF pending
<1>13. InFlight(pending', sent', Taken', link')
  BY <1>1, <1>11, <1>12 DEF Lossless
<1>. QED
  BY <1>1, <1>6, <1>9, <1>10, <1>13 DEF Lossless, Meant

\* The inductive invariant.
StreamInv == StreamBase /\ (overflowCount = 0 => Lossless)

(* Before the first step nothing is lost.                                   *)
LEMMA StreamInitLossless == StreamInit => Lossless
<1>. SUFFICES ASSUME StreamInit PROVE Lossless
  OBVIOUS
<1>1. /\ len = 0 /\ todo = <<>> /\ air = <<>> /\ link = "up" /\ sent = <<>> /\ heard = <<>>
      /\ frame = <<>> /\ decodeErrors = 0
  BY DEF StreamInit, FifoInit
<1>2. Contents = <<>>
  BY <1>1, EmptyContents
<1>3. pending = (<<>> \o <<>>) \o <<>>
  BY <1>1, <1>2 DEF pending
<1>4. pending = <<>>
  BY <1>3
<1>5. Taken = 0
  BY <1>1 DEF Taken
<1>6. InFlight(pending, sent, Taken, link)
  BY <1>1, <1>4, <1>5, NothingInFlight
<1>. QED
  BY <1>1, <1>6 DEF Lossless

(* Every step loses nothing, as long as the ring does not overflow.         *)
LEMMA LosslessStep ==
  ASSUME StreamBase, StreamBase', Lossless, [StreamNext]_vars, overflowCount = 0, overflowCount' = 0
  PROVE  Lossless'
<1>1. ASSUME NEW msg \in Messages, DevSend(msg) PROVE Lossless'
  BY <1>1, EmitLossless, AnswerIsMessage DEF DevSend
<1>2. CASE DevAnswer
  <2>1. PICK pkt \in Commands : Emit(Ack(pkt))
    BY <1>2 DEF DevAnswer
  <2>. QED
    BY <2>1, EmitLossless, AnswerIsMessage
<1>3. ASSUME NEW size \in ChunkSizes, Notified(size) PROVE Lossless'
  BY <1>3, NotifiedLossless
<1>4. ASSUME UNCHANGED <<ring, todo, link, air, frame, decodeErrors, sent, heard>> PROVE Lossless'
  <2>1. pending' = pending
    BY <1>4, RingUnmoved DEF pending
  <2>. QED
    BY <1>4, <2>1, Unmoved
<1>5. ASSUME NEW pkt \in Commands, SendCommand(pkt) PROVE Lossless'
  BY <1>4, <1>5 DEF SendCommand, fifoVars, ring
<1>6. CASE Pushing
  <2>1. CASE PushByte
    BY <1>6, <2>1, PushLossless DEF Pushing
  <2>2. CASE ~PushByte
    BY <1>4, <1>6, <2>2 DEF Pushing, PushLeave, NotifyOverflow, streamVars
  <2>. QED
    BY <2>1, <2>2
<1>7. CASE HandleDisconnect
  BY <1>7, DisconnectLossless
<1>8. CASE Loop
  <2>1. CASE Dispatch
    BY <2>1, DispatchLossless
  <2>2. CASE TakeFrame /\ UNCHANGED streamVars
    BY <2>2, TakeLossless
  <2>3. CASE SkipByte
    <3>1. frame = <<>> /\ HasOverhead /\ Garbage
      BY <2>3 DEF SkipByte, Garbage, StreamBase, RingInv
    <3>. QED
      BY <3>1, FrontIsFrame
  <2>4. CASE ((frame = <<>> /\ ExtractEnter) \/ NoFrame) /\ UNCHANGED streamVars
    BY <1>4, <2>4 DEF ExtractEnter, NoFrame, pusher, streamVars
  <2>. QED
    BY <1>8, <2>1, <2>2, <2>3, <2>4 DEF Loop, Extracting
<1>9. CASE Drop
  BY <1>9, DropLossless
<1>10. CASE Reconnect
  BY <1>10, ReconnectLossless
<1>11. CASE UNCHANGED vars
  BY <1>4, <1>11 DEF vars, fifoVars, streamVars, ring
<1>. QED
  BY <1>1, <1>2, <1>3, <1>5, <1>6, <1>7, <1>8, <1>9, <1>10, <1>11 DEF StreamNext

(* The overflow counter never goes back to 0.                               *)
LEMMA OverflowStays ==
  ASSUME StreamBase, [StreamNext]_vars, overflowCount' = 0
  PROVE  overflowCount = 0
<1>1. [RingNext]_fifoVars /\ RingInv /\ overflowCount \in Nat
  BY StreamStepsRing DEF StreamBase, RingInv, FifoTypeOK
<1>2. overflowCount' = overflowCount \/ overflowCount' = overflowCount + 1
  BY <1>1 DEF RingNext, PushEnter, PushByte, MakeRoom, PushLeave, NotifyOverflow, Clear, ExtractEnter,
     SkipByte, TakeFrame, NoFrame, ConsumeFrame, fifoVars
<1>. QED
  BY <1>1, <1>2

(* The invariant holds throughout: what is under way, ring, pusher and air  *)
(* together, is what was sent and not yet taken, until the ring overflows.  *)
THEOREM StreamInvariant == StreamSpec => []StreamInv
<1>1. StreamInit => StreamInv
  BY StreamInitBase, StreamInitLossless DEF StreamInv
<1>2. StreamInv /\ [StreamNext]_vars => StreamInv'
  BY StreamBaseStep, LosslessStep, OverflowStays DEF StreamInv
<1>. QED
  BY <1>1, <1>2, PTL DEF StreamSpec

(* As long as the ring has not overflowed, however the notifications cut up *)
(* the stream and however often the link is lost, no frame fails to decode, *)
(* and the i-th callback is for the i-th message the device sent on this    *)
(* connection.                                                              *)
THEOREM NothingLostUnlessOverflow == StreamSpec => []LosslessUnlessOverflow
<1>1. StreamInv => LosslessUnlessOverflow
  <2>. SUFFICES ASSUME StreamInv, overflowCount = 0
                PROVE  /\ decodeErrors = 0
                       /\ Len(heard) <= Len(sent) /\ \A i \in DOMAIN heard : heard[i] = Meant(i)
    BY DEF LosslessUnlessOverflow
  <2>1. StreamBase /\ Lossless
    BY DEF StreamInv
  <2>2. Len(heard) <= Len(sent)
    BY <2>1, TakenType
  <2>3. DOMAIN heard = 1 .. Len(heard)
    BY <2>1 DEF Lossless
  <2>. QED
    BY <2>1, <2>2, <2>3 DEF Lossless
<1>. QED
  BY <1>1, StreamInvariant, PTL

------------------------------------------------------------------------------
(* Nothing wrong is heard.                                                  *)

\* The callbacks run were for messages that lie within the first q bytes, in their order.
Placed(h, msgs, q) ==
  /\ h \in Seq({msg.meant : msg \in AllMessages})
  /\ \E place \in [1 .. Len(h) -> 1 .. Len(msgs)] :
       /\ \A i \in 1 .. Len(h) : h[i] = msgs[place[i]].meant /\ Len(BytesOfFirst(msgs)[place[i]]) <= q
       /\ \A i, j \in 1 .. Len(h) : i < j => place[i] < place[j]

(* More messages, or more of the bytes, do not change that.                 *)
LEMMA PlacedStays ==
  ASSUME NEW msgs \in Seq(AllMessages), NEW h, NEW q \in Nat, NEW r \in Nat, q <= r, Placed(h, msgs, q)
  PROVE  /\ Placed(h, msgs, r)
         /\ \A msg \in AllMessages : Placed(h, Append(msgs, msg), r)
<1>. DEFINE upTo == BytesOfFirst(msgs)
            N == Len(msgs)
            n == Len(h)
            Is(place) == /\ \A i \in 1 .. n : h[i] = msgs[place[i]].meant /\ Len(upTo[place[i]]) <= q
                         /\ \A i, j \in 1 .. n : i < j => place[i] < place[j]
<1>1. PICK place \in [1 .. n -> 1 .. N] : Is(place)
  BY DEF Placed
<1>2. h \in Seq({msg.meant : msg \in AllMessages}) /\ N \in Nat
  BY DEF Placed
<1>3. upTo \in [0 .. N -> Seq(Byte)]
  BY BytesRun, Zenon
<1>. HIDE DEF upTo
<1>4. ASSUME NEW i \in 1 .. n
      PROVE  /\ place[i] \in 1 .. N /\ place[i] \in 0 .. N /\ h[i] = msgs[place[i]].meant
             /\ Len(upTo[place[i]]) <= r
  <2>1. place[i] \in 1 .. N /\ place[i] \in 0 .. N
    BY <1>1, <1>2
  <2>2. Len(upTo[place[i]]) \in Nat
    BY <1>3, <2>1
  <2>. QED
    BY <1>1, <2>1, <2>2
<1>5. Placed(h, msgs, r)
  BY <1>1, <1>2, <1>4 DEF Placed, upTo
<1>6. ASSUME NEW msg \in AllMessages PROVE Placed(h, Append(msgs, msg), r)
  <2>. DEFINE longer == Append(msgs, msg)
              more == BytesOfFirst(longer)
  <2>1. Len(longer) = N + 1 /\ \A i \in 1 .. N : longer[i] = msgs[i]
    BY AppendProperties
  <2>2. \A i \in 0 .. N : more[i] = upTo[i]
    BY BytesGrow, Zenon DEF upTo
  <2>. HIDE DEF longer
  <2>3. \A i \in 1 .. n : h[i] = longer[place[i]].meant /\ Len(more[place[i]]) <= r
    BY <1>4, <2>1, <2>2
  <2>4. place \in [1 .. n -> 1 .. Len(longer)]
    BY <1>1, <1>2, <2>1
  <2>5. Placed(h, longer, r)
    BY <1>1, <1>2, <2>3, <2>4 DEF Placed
  <2>. QED
    BY <2>5 DEF longer
<1>. QED
  BY <1>5, <1>6

(* The message at the q-th byte may be heard next.                          *)
LEMMA PlacedNext ==
  ASSUME NEW msgs \in Seq(AllMessages), NEW h, NEW j \in 1 .. Len(msgs),
         Placed(h, msgs, Len(BytesOfFirst(msgs)[j - 1]))
  PROVE  Placed(Append(h, msgs[j].meant), msgs, Len(BytesOfFirst(msgs)[j]))
<1>. DEFINE upTo == BytesOfFirst(msgs)
            N == Len(msgs)
            n == Len(h)
            M == {msg.meant : msg \in AllMessages}
            e == msgs[j].meant
            q == Len(upTo[j - 1])
            r == Len(upTo[j])
            Is(place) == /\ \A i \in 1 .. n : h[i] = msgs[place[i]].meant /\ Len(upTo[place[i]]) <= q
                         /\ \A i, k \in 1 .. n : i < k => place[i] < place[k]
<1>1. PICK place \in [1 .. n -> 1 .. N] : Is(place)
  BY DEF Placed
<1>2. h \in Seq(M) /\ n \in Nat /\ N \in Nat /\ e \in M
  BY DEF Placed
<1>3. q \in Nat /\ r \in Nat /\ q < r
  <2>1. q \in Nat /\ Len(msgs[j].bytes) \in Nat /\ r = q + Len(msgs[j].bytes)
    BY MessageInStream, Zenon
  <2>2. Len(msgs[j].bytes) >= 8
    <3>1. WellFramed(msgs[j])
      BY MessagesAreHeardAsMeant
    <3>. QED
      BY <3>1, UbxCodecAssumption DEF WellFramed, UBX_FRAME_OVERHEAD
  <2>. HIDE DEF q, r
  <2>. QED
    BY <2>1, <2>2
<1>4. ASSUME NEW i \in 1 .. n
      PROVE  place[i] < j /\ Len(upTo[place[i]]) <= r
  <2>1. place[i] \in 1 .. N /\ j \in 0 .. N /\ place[i] \in 0 .. N
    <3>1. place[i] \in 1 .. N
      BY <1>1
    <3>. HIDE DEF N
    <3>2. j \in 1 .. N
      BY DEF N
    <3>. QED
      BY <1>2, <3>1, <3>2
  <2>2. Len(upTo[place[i]]) \in Nat
    <3>1. upTo \in [0 .. N -> Seq(Byte)]
      BY BytesRun, Zenon
    <3>. HIDE DEF upTo
    <3>. QED
      BY <2>1, <3>1
  <2>3. Len(upTo[place[i]]) <= q
    BY <1>1
  <2>4. CASE place[i] < j
    <3>. HIDE DEF q, r, upTo
    <3>. QED
      BY <1>3, <2>2, <2>3, <2>4
  <2>5. CASE ~(place[i] < j)
    <3>1. j \in 0 .. place[i]
      BY <2>1, <2>5
    <3>2. r <= Len(upTo[place[i]])
      BY <2>1, <3>1, BytesNest, Zenon
    <3>. HIDE DEF q, r, upTo
    <3>. QED
      BY <1>3, <2>2, <2>3, <3>2
  <2>. QED
    BY <2>4, <2>5
<1>. DEFINE g == Append(h, e)
            p == [i \in 1 .. n + 1 |-> IF i = n + 1 THEN j ELSE place[i]]
<1>5. g \in Seq(M) /\ Len(g) = n + 1 /\ g[n + 1] = e /\ \A i \in 1 .. n : g[i] = h[i]
  <2>. HIDE DEF M, e
  <2>. QED
    BY <1>2, AppendProperties
<1>6. p \in [1 .. n + 1 -> 1 .. N] /\ p[n + 1] = j /\ \A i \in 1 .. n : p[i] = place[i]
  BY <1>1, <1>2
<1>. HIDE DEF g, p, M, q, r
<1>7. ASSUME NEW i \in 1 .. n + 1
      PROVE  g[i] = msgs[p[i]].meant /\ Len(upTo[p[i]]) <= r
  <2>1. CASE i = n + 1
    <3>1. Len(upTo[p[i]]) = r
      BY <1>6, <2>1 DEF r
    <3>. QED
      BY <1>3, <1>5, <1>6, <2>1, <3>1
  <2>2. CASE i # n + 1
    <3>1. i \in 1 .. n
      BY <1>2, <2>2
    <3>. QED
      BY <1>1, <1>4, <1>5, <1>6, <3>1
  <2>. QED
    BY <2>1, <2>2
<1>8. ASSUME NEW i \in 1 .. n + 1, NEW k \in 1 .. n + 1, i < k
      PROVE  p[i] < p[k]
  <2>1. i \in 1 .. n
    BY <1>2, <1>8
  <2>2. CASE k = n + 1
    BY <1>4, <1>6, <2>1, <2>2
  <2>3. CASE k # n + 1
    <3>1. k \in 1 .. n
      BY <1>2, <2>3
    <3>. QED
      BY <1>1, <1>6, <1>8, <2>1, <3>1
  <2>. QED
    BY <2>2, <2>3
<1>9. Placed(g, msgs, r)
  BY <1>5, <1>6, <1>7, <1>8 DEF Placed, M
<1>. QED
  BY <1>9 DEF g, r

\* The connection's bytes: what is behind the frame cut out, the frame, what was lost or skipped since,
\* what is under way, and what was lost with the link.  What was heard lies behind.
Trace(msgs, f, p, state, h) ==
  \E past, skipped, lost \in Seq(Byte) :
    /\ Stream(msgs) = Cat(past, Cat(f, Cat(skipped, Cat(p, lost))))
    /\ state = "up" => lost = <<>>
    /\ f # <<>> => Len(f) = 8 + PayloadLen(f)
    /\ ~FalseFrame(msgs) => Placed(h, msgs, Len(past))

(* Nothing of a new connection was sent or heard.                           *)
LEMMA TraceNew == Trace(<<>>, <<>>, <<>>, "up", <<>>)
<1>. DEFINE e == <<>>
            none == <<>>
            no == <<>>
<1>1. /\ e \in Seq(Byte) /\ none \in Seq(AllMessages) /\ Len(none) = 0
      /\ no \in Seq({msg.meant : msg \in AllMessages}) /\ Len(no) = 0
  OBVIOUS
<1>2. Stream(none) = <<>>
  <2>. HIDE DEF none
  <2>1. BytesOfFirst(none)[0] = <<>>
    BY <1>1, BytesRun, Zenon
  <2>. QED
    BY <1>1, <2>1 DEF Stream
<1>3. Cat(e, Cat(e, Cat(e, Cat(e, e)))) = e
  <2>1. Cat(e, e) = e
    BY <1>1, CatLaws, Zenon
  <2>. HIDE DEF e
  <2>. QED
    BY <2>1, Zenon
<1>4. Placed(no, none, Len(e))
  <2>. DEFINE place == [i \in 1 .. 0 |-> 0]
  <2>1. place \in [1 .. 0 -> 1 .. 0]
    OBVIOUS
  <2>. HIDE DEF no, none, e, place
  <2>2. place \in [1 .. Len(no) -> 1 .. Len(none)]
    BY <1>1, <2>1
  <2>3. \A i \in 1 .. Len(no) : FALSE
    BY <1>1
  <2>. QED
    BY <1>1, <2>2, <2>3, Zenon DEF Placed
<1>5. \E past, skipped, lost \in Seq(Byte) :
        /\ Stream(none) = Cat(past, Cat(e, Cat(skipped, Cat(e, lost))))
        /\ "up" = "up" => lost = e
        /\ e # e => Len(e) = 8 + PayloadLen(e)
        /\ ~FalseFrame(none) => Placed(no, none, Len(past))
  <2>. HIDE DEF no, none, e
  <2>1. Stream(none) = Cat(e, Cat(e, Cat(e, Cat(e, e))))
    BY <1>2, <1>3 DEF e
  <2>. QED
    BY <1>1, <1>4, <2>1, Zenon
<1>6. Trace(none, e, e, "up", no)
  <2>. HIDE DEF no, none
  <2>. QED
    BY <1>5 DEF Trace
<1>. QED
  BY <1>6

(* A message sent is under way.                                             *)
LEMMA TraceSent ==
  ASSUME NEW msgs \in Seq(AllMessages), NEW msg \in AllMessages, NEW f \in Seq(Byte),
         NEW p \in Seq(Byte), NEW h, Trace(msgs, f, p, "up", h)
  PROVE  Trace(Append(msgs, msg), f, Cat(p, msg.bytes), "up", h)
<1>1. PICK past \in Seq(Byte), skipped \in Seq(Byte) :
        /\ Stream(msgs) = Cat(past, Cat(f, Cat(skipped, Cat(p, <<>>))))
        /\ f # <<>> => Len(f) = 8 + PayloadLen(f)
        /\ ~FalseFrame(msgs) => Placed(h, msgs, Len(past))
  BY DEF Trace
<1>. DEFINE b == msg.bytes
<1>2. b \in Seq(Byte)
  BY MessageBytes
<1>3. Stream(Append(msgs, msg)) = Cat(Stream(msgs), b)
  BY StreamGrows DEF Cat
<1>. HIDE DEF b
<1>4. Cat(Cat(past, Cat(f, Cat(skipped, Cat(p, <<>>)))), b)
        = Cat(past, Cat(f, Cat(skipped, Cat(Cat(p, b), <<>>))))
  <2>. DEFINE u == Cat(skipped, p)
              v == Cat(f, u)
              w == Cat(p, b)
  <2>1. u \in Seq(Byte) /\ v \in Seq(Byte) /\ w \in Seq(Byte)
    BY <1>2, CatLaws
  <2>2. Cat(p, <<>>) = p /\ Cat(w, <<>>) = w
    BY <2>1, CatLaws, Zenon
  <2>3. Cat(u, b) = Cat(skipped, w)
    BY <1>2, CatAssoc
  <2>. HIDE DEF u, w
  <2>4. Cat(v, b) = Cat(f, Cat(u, b))
    BY <1>2, <2>1, CatAssoc
  <2>. HIDE DEF v
  <2>5. Cat(Cat(past, v), b) = Cat(past, Cat(v, b))
    BY <1>2, <2>1, CatAssoc
  <2>. QED
    BY <2>2, <2>3, <2>4, <2>5, Zenon DEF u, v, w
<1>5. ASSUME ~FalseFrame(Append(msgs, msg)) PROVE Placed(h, Append(msgs, msg), Len(past))
  <2>1. Placed(h, msgs, Len(past))
    BY <1>1, <1>5, FalseFrameStays
  <2>. QED
    BY <2>1, PlacedStays
<1>. DEFINE longer == Append(msgs, msg)
            q == Cat(p, b)
            e == <<>>
<1>6. e \in Seq(Byte) /\ Stream(longer) = Cat(past, Cat(f, Cat(skipped, Cat(q, e))))
  BY <1>1, <1>3, <1>4
<1>7. Trace(longer, f, q, "up", h)
  <2>1. "up" = "up" => e = <<>>
    OBVIOUS
  <2>2. ~FalseFrame(longer) => Placed(h, longer, Len(past))
    BY <1>5
  <2>. HIDE DEF longer, q, e
  <2>. QED
    BY <1>1, <1>6, <2>1, <2>2, Zenon DEF Trace
<1>. QED
  BY <1>7 DEF b

(* What is cut off at the end is lost.                                      *)
LEMMA TraceLost ==
  ASSUME NEW msgs, NEW f \in Seq(Byte), NEW p \in Seq(Byte), NEW r \in Seq(Byte), NEW h,
         NEW state, NEW later, later # "up", Trace(msgs, f, Cat(p, r), state, h)
  PROVE  Trace(msgs, f, p, later, h)
<1>1. PICK past \in Seq(Byte), skipped \in Seq(Byte), lost \in Seq(Byte) :
        /\ Stream(msgs) = Cat(past, Cat(f, Cat(skipped, Cat(Cat(p, r), lost))))
        /\ f # <<>> => Len(f) = 8 + PayloadLen(f)
        /\ ~FalseFrame(msgs) => Placed(h, msgs, Len(past))
  BY DEF Trace
<1>2. Cat(Cat(p, r), lost) = Cat(p, Cat(r, lost)) /\ Cat(r, lost) \in Seq(Byte)
  BY CatLaws
<1>. QED
  BY <1>1, <1>2 DEF Trace

(* What is cut off in front is skipped.                                     *)
LEMMA TraceSkipped ==
  ASSUME NEW msgs, NEW f \in Seq(Byte), NEW p \in Seq(Byte), NEW r \in Seq(Byte), NEW h,
         NEW state, Trace(msgs, f, Cat(r, p), state, h)
  PROVE  Trace(msgs, f, p, state, h)
<1>1. PICK past \in Seq(Byte), skipped \in Seq(Byte), lost \in Seq(Byte) :
        /\ Stream(msgs) = Cat(past, Cat(f, Cat(skipped, Cat(Cat(r, p), lost))))
        /\ state = "up" => lost = <<>>
        /\ f # <<>> => Len(f) = 8 + PayloadLen(f)
        /\ ~FalseFrame(msgs) => Placed(h, msgs, Len(past))
  BY DEF Trace
<1>2. Cat(skipped, Cat(Cat(r, p), lost)) = Cat(Cat(skipped, r), Cat(p, lost)) /\ Cat(skipped, r) \in Seq(Byte)
  BY CatLaws
<1>. QED
  BY <1>1, <1>2 DEF Trace

(* A frame is cut out in front.                                             *)
LEMMA TraceTaken ==
  ASSUME NEW msgs \in Seq(AllMessages), NEW f \in Seq(Byte), NEW p \in Seq(Byte), NEW h,
         NEW state, Trace(msgs, <<>>, Cat(f, p), state, h), Len(f) = 8 + PayloadLen(f)
  PROVE  Trace(msgs, f, p, state, h)
<1>1. PICK past \in Seq(Byte), skipped \in Seq(Byte), lost \in Seq(Byte) :
        /\ Stream(msgs) = Cat(past, Cat(<<>>, Cat(skipped, Cat(Cat(f, p), lost))))
        /\ state = "up" => lost = <<>>
        /\ ~FalseFrame(msgs) => Placed(h, msgs, Len(past))
  BY DEF Trace
<1>. DEFINE t == Cat(past, skipped)
            e == <<>>
            u == Cat(p, lost)
            v == Cat(f, u)
<1>2. t \in Seq(Byte) /\ Len(t) = Len(past) + Len(skipped)
  BY CatLaws
<1>3. Stream(msgs) = Cat(t, Cat(f, Cat(e, u)))
  <2>1. u \in Seq(Byte) /\ v \in Seq(Byte) /\ Cat(skipped, v) \in Seq(Byte)
    BY CatLaws
  <2>2. Cat(Cat(f, p), lost) = v
    BY CatAssoc
  <2>3. Cat(e, u) = u /\ Cat(e, Cat(skipped, v)) = Cat(skipped, v)
    BY <2>1, CatLaws, Zenon
  <2>. HIDE DEF u
  <2>. HIDE DEF v
  <2>4. Cat(past, Cat(skipped, v)) = Cat(t, v)
    BY <2>1, CatAssoc
  <2>. HIDE DEF t, e
  <2>5. Stream(msgs) = Cat(past, Cat(e, Cat(skipped, Cat(Cat(f, p), lost))))
    BY <1>1 DEF e
  <2>. QED
    BY <2>2, <2>3, <2>4, <2>5, Zenon DEF v
<1>. HIDE DEF t
<1>4. Len(past) \in Nat /\ Len(t) \in Nat /\ Len(past) <= Len(t)
  BY <1>2
<1>5. ~FalseFrame(msgs) => Placed(h, msgs, Len(t))
  BY <1>1, <1>4, PlacedStays
<1>6. e \in Seq(Byte)
  OBVIOUS
<1>. HIDE DEF e
<1>7. f # <<>> => Len(f) = 8 + PayloadLen(f)
  OBVIOUS
<1>. QED
  BY <1>1, <1>2, <1>5, <1>3, <1>6, <1>7, Zenon DEF Trace

(* A frame is done with: what is heard of it, if anything, is the message it*)
(* was.                                                                     *)
LEMMA TraceHeard ==
  ASSUME NEW msgs \in Seq(AllMessages), NEW f \in Seq(Byte), NEW p \in Seq(Byte), NEW h,
         NEW state, Trace(msgs, f, p, state, h), f # <<>>,
         NEW g, g = IF ubxDecodes(f) THEN h \o Heard(ubxDecode(f)) ELSE h
  PROVE  Trace(msgs, <<>>, p, state, g)
<1>1. PICK past \in Seq(Byte), skipped \in Seq(Byte), lost \in Seq(Byte) :
        /\ Stream(msgs) = Cat(past, Cat(f, Cat(skipped, Cat(p, lost))))
        /\ state = "up" => lost = <<>>
        /\ Len(f) = 8 + PayloadLen(f)
        /\ ~FalseFrame(msgs) => Placed(h, msgs, Len(past))
  BY DEF Trace
<1>. DEFINE t == Cat(past, f)
            rest == Cat(skipped, Cat(p, lost))
            e == <<>>
<1>2. t \in Seq(Byte) /\ Len(t) = Len(past) + Len(f) /\ rest \in Seq(Byte) /\ e \in Seq(Byte)
  BY CatLaws
<1>3. Stream(msgs) = Cat(t, Cat(e, rest))
  <2>1. Stream(msgs) = Cat(past, Cat(f, rest))
    BY <1>1
  <2>. HIDE DEF rest
  <2>2. Cat(e, rest) = rest
    BY <1>2, CatLaws, Zenon
  <2>3. Cat(past, Cat(f, rest)) = Cat(t, rest)
    BY <1>2, CatAssoc
  <2>. QED
    BY <2>1, <2>2, <2>3, Zenon
<1>4. Stream(msgs) = past \o (f \o rest)
  BY <1>1 DEF Cat
<1>. HIDE DEF t
<1>5. Len(past) \in Nat /\ Len(t) \in Nat /\ Len(past) <= Len(t)
  BY <1>2
<1>6. ASSUME ~FalseFrame(msgs) PROVE Placed(g, msgs, Len(t))
  <2>. HIDE DEF rest
  <2>1. Placed(h, msgs, Len(past))
    BY <1>1, <1>6
  <2>2. CASE ~ubxDecodes(f)
    BY <1>5, <2>1, <2>2, PlacedStays
  <2>3. CASE ubxDecodes(f)
    <3>1. PICK j \in 1 .. Len(msgs) : Len(BytesOfFirst(msgs)[j - 1]) = Len(past) /\ f = msgs[j].bytes
      BY <1>1, <1>2, <1>4, <1>6, <2>3, FrameFound
    <3>. DEFINE said == msgs[j].meant
                M == {msg.meant : msg \in AllMessages}
    <3>2. msgs[j] \in AllMessages
      OBVIOUS
    <3>3. Heard(ubxDecode(f)) = <<said>>
      <4>1. WellFramed(msgs[j])
        BY <3>2, MessagesAreHeardAsMeant
      <4>. QED
        BY <3>1, <4>1 DEF WellFramed
    <3>4. h \in Seq(M) /\ said \in M
      BY <2>1, <3>2 DEF Placed
    <3>5. g = Append(h, said)
      <4>. HIDE DEF said, M
      <4>1. Append(h, said) = h \o <<said>>
        BY <3>4, AppendIsConcat
      <4>. QED
        BY <2>3, <3>3, <4>1, Zenon
    <3>6. Placed(Append(h, said), msgs, Len(BytesOfFirst(msgs)[j]))
      BY <2>1, <3>1, PlacedNext
    <3>7. Len(BytesOfFirst(msgs)[j]) = Len(t)
      <4>1. Len(BytesOfFirst(msgs)[j]) = Len(BytesOfFirst(msgs)[j - 1]) + Len(msgs[j].bytes)
        BY MessageInStream, Zenon
      <4>. QED
        BY <1>2, <3>1, <4>1, Zenon
    <3>. QED
      BY <3>5, <3>6, <3>7
  <2>. QED
    BY <2>2, <2>3
<1>7. Trace(msgs, e, p, state, g)
  <2>1. Stream(msgs) = Cat(t, Cat(e, Cat(skipped, Cat(p, lost))))
    BY <1>3
  <2>2. e # <<>> => Len(e) = 8 + PayloadLen(e)
    OBVIOUS
  <2>. HIDE DEF e
  <2>. QED
    BY <1>1, <1>2, <1>6, <2>1, <2>2, Zenon DEF Trace
<1>. QED
  BY <1>7

\* The frame cut out, and what is under way, within this connection's bytes.
Traced == Trace(sent, frame, pending, link, heard)

(* What moves no bytes and runs no callback changes nothing.                *)
LEMMA Untouched ==
  ASSUME Traced, pending' = pending, UNCHANGED <<sent, frame, link, heard>>
  PROVE  Traced'
BY DEF Traced

(* Before the first step, nothing was sent.                                 *)
LEMMA StreamInitTraced == StreamInit => Traced
<1>. SUFFICES ASSUME StreamInit PROVE Traced
  OBVIOUS
<1>1. /\ len = 0 /\ todo = <<>> /\ air = <<>> /\ link = "up" /\ sent = <<>> /\ heard = <<>> /\ frame = <<>>
  BY DEF StreamInit, FifoInit
<1>2. Contents = <<>>
  BY <1>1, EmptyContents
<1>3. pending = (<<>> \o <<>>) \o <<>>
  BY <1>1, <1>2 DEF pending
<1>4. pending = <<>>
  BY <1>3
<1>. QED
  BY <1>1, <1>4, TraceNew DEF Traced

(* A message sent is put behind the others.                                 *)
LEMMA EmitTraced ==
  ASSUME StreamBase, Traced, NEW msg \in AllMessages, Emit(msg)
  PROVE  Traced'
<1>1. /\ sent' = Append(sent, msg) /\ link = "up" /\ link' = "up" /\ UNCHANGED <<frame, heard>>
  BY DEF Emit, fifoVars
<1>2. pending' = Cat(pending, msg.bytes)
  BY EmitMoves
<1>3. sent \in Seq(AllMessages) /\ frame \in Seq(Byte) /\ pending \in Seq(Byte)
  BY PendingParts DEF StreamBase, RingInv, FifoTypeOK, PendingIsBytes
<1>4. Trace(sent, frame, pending, "up", heard)
  BY <1>1 DEF Traced
<1>5. Trace(Append(sent, msg), frame, Cat(pending, msg.bytes), "up", heard)
  BY <1>3, <1>4, TraceSent
<1>. QED
  BY <1>1, <1>2, <1>5 DEF Traced

(* What goes from the front of what is under way, in a push or a resync, is *)
(* skipped.                                                                 *)
LEMMA FrontTraced ==
  ASSUME StreamBase, StreamBase', Traced, NEW r \in Seq(Byte), pending = Cat(r, pending'),
         UNCHANGED <<sent, frame, link, heard>>
  PROVE  Traced'
<1>1. frame \in Seq(Byte) /\ pending' \in Seq(Byte)
  BY PendingPartsNext DEF StreamBase, RingInv, FifoTypeOK, PendingIsBytes
<1>2. PICK p \in Seq(Byte) : p = pending'
  BY <1>1
<1>3. Trace(sent, frame, Cat(r, p), link, heard)
  BY <1>2 DEF Traced
<1>4. Trace(sent, frame, p, link, heard)
  BY <1>1, <1>3, TraceSkipped
<1>. QED
  BY <1>2, <1>4 DEF Traced

(* A frame taken is cut out of it.                                          *)
LEMMA TakeTraced ==
  ASSUME StreamBase, StreamBase', Traced, TakeFrame, UNCHANGED streamVars
  PROVE  Traced'
<1>1. UNCHANGED <<sent, link, heard>> /\ sent \in Seq(AllMessages)
  BY DEF streamVars, StreamBase
<1>2. PICK p \in Seq(Byte), f \in Seq(Byte) : p = pending' /\ f = frame'
  BY TakeMoves, PendingPartsNext DEF PendingIsBytes
<1>3. frame = <<>> /\ Len(f) = 8 + PayloadLen(f) /\ pending = Cat(f, p)
  BY <1>2, TakeMoves
<1>4. Trace(sent, <<>>, Cat(f, p), link, heard)
  BY <1>3 DEF Traced
<1>5. Trace(sent, f, p, link, heard)
  BY <1>1, <1>3, <1>4, TraceTaken
<1>. QED
  BY <1>1, <1>2, <1>5 DEF Traced

(* A callback is for the message its frame was.                             *)
LEMMA DispatchTraced ==
  ASSUME StreamBase, Traced, Dispatch
  PROVE  Traced'
<1>1. frame # <<>> /\ frame' = <<>> /\ UNCHANGED <<ring, todo, link, air, sent>>
  BY DEF Dispatch, ConsumeFrame, pusher
<1>2. pending' = pending
  BY <1>1, RingUnmoved DEF pending
<1>3. sent \in Seq(AllMessages) /\ frame \in Seq(Byte) /\ pending \in Seq(Byte)
  BY PendingParts DEF StreamBase, RingInv, FifoTypeOK, PendingIsBytes
<1>4. PICK g : g = heard'
  OBVIOUS
<1>5. g = IF ubxDecodes(frame) THEN heard \o Heard(ubxDecode(frame)) ELSE heard
  BY <1>4 DEF Dispatch
<1>6. Trace(sent, frame, pending, link, heard)
  BY DEF Traced
<1>7. Trace(sent, <<>>, pending, link, g)
  BY <1>1, <1>3, <1>5, <1>6, TraceHeard
<1>. QED
  BY <1>1, <1>2, <1>4, <1>7 DEF Traced

(* What was on the air is lost with the link.                               *)
LEMMA DropTraced ==
  ASSUME StreamBase, StreamBase', Traced, Drop
  PROVE  Traced'
<1>1. /\ link' = "closing" /\ air' = <<>> /\ UNCHANGED <<fifoVars, sent, heard>>
  BY DEF Drop
<1>2. UNCHANGED <<ring, todo, frame>>
  BY <1>1 DEF fifoVars, ring
<1>3. Contents' = Contents
  BY <1>2, RingUnmoved
<1>. DEFINE c == Contents \o todo
<1>4. c \in Seq(Byte) /\ air \in Seq(Byte) /\ frame \in Seq(Byte)
  <2>1. Contents \in Seq(Byte) /\ todo \in Seq(Byte) /\ air \in Seq(Byte)
    BY PendingParts DEF PendingIsBytes
  <2>. QED
    BY <2>1 DEF StreamBase, RingInv, FifoTypeOK
<1>5. pending' = c \o <<>> /\ pending = c \o air
  BY <1>1, <1>2, <1>3 DEF pending
<1>. HIDE DEF c
<1>6. pending' = c
  BY <1>4, <1>5
<1>7. Trace(sent, frame, Cat(c, air), link, heard)
  BY <1>5 DEF Traced, Cat
<1>8. Trace(sent, frame, c, "closing", heard)
  BY <1>4, <1>7, TraceLost
<1>. QED
  BY <1>1, <1>2, <1>6, <1>8 DEF Traced

(* So is what the ring held, when it is emptied.                            *)
LEMMA DisconnectTraced ==
  ASSUME StreamBase, Traced, HandleDisconnect
  PROVE  Traced'
<1>1. /\ link = "closing" /\ link' = "down" /\ len' = 0 /\ npc = "idle"
      /\ UNCHANGED <<air, todo, frame, sent, heard>>
  BY DEF HandleDisconnect, Clear, pusher
<1>2. todo' = <<>> /\ air' = <<>>
  BY <1>1 DEF StreamBase, LinkKeepsPace
<1>3. pending' = <<>>
  BY <1>1, <1>2, NothingPendingNext
<1>4. frame \in Seq(Byte) /\ pending \in Seq(Byte)
  BY PendingParts DEF StreamBase, RingInv, FifoTypeOK, PendingIsBytes
<1>. DEFINE e == <<>>
<1>5. e \in Seq(Byte) /\ Cat(e, pending) = pending
  BY <1>4, CatLaws, Zenon
<1>6. pending' = e
  BY <1>3
<1>. HIDE DEF e
<1>7. Trace(sent, frame, Cat(e, pending), link, heard)
  BY <1>5 DEF Traced
<1>8. Trace(sent, frame, e, "down", heard)
  BY <1>4, <1>5, <1>7, TraceLost
<1>. QED
  BY <1>1, <1>6, <1>8 DEF Traced

(* A new connection starts with nothing sent.                               *)
LEMMA ReconnectTraced ==
  ASSUME StreamBase, Reconnect
  PROVE  Traced'
<1>1. /\ link = "down" /\ link' = "up" /\ sent' = <<>> /\ heard' = <<>> /\ frame = <<>>
      /\ UNCHANGED <<len, todo, air, frame>>
  BY DEF Reconnect, InDrain, fifoVars
<1>2. len' = 0 /\ todo' = <<>> /\ air' = <<>>
  BY <1>1 DEF StreamBase, LinkKeepsPace
<1>3. pending' = <<>>
  BY <1>2, NothingPendingNext
<1>. QED
  BY <1>1, <1>3, TraceNew DEF Traced

(* Every step does one of these.                                            *)
LEMMA TracedStep ==
  ASSUME StreamBase, StreamBase', Traced, [StreamNext]_vars
  PROVE  Traced'
<1>1. ASSUME NEW msg \in Messages, DevSend(msg) PROVE Traced'
  BY <1>1, EmitTraced, AnswerIsMessage DEF DevSend
<1>2. CASE DevAnswer
  <2>1. PICK pkt \in Commands : Emit(Ack(pkt))
    BY <1>2 DEF DevAnswer
  <2>. QED
    BY <2>1, EmitTraced, AnswerIsMessage
<1>3. ASSUME NEW size \in ChunkSizes, Notified(size) PROVE Traced'
  <2>1. UNCHANGED <<sent, frame, link, heard>>
    BY <1>3 DEF Notified, PushEnter
  <2>. QED
    BY <1>3, <2>1, NotifiedMoves, Untouched
<1>4. ASSUME UNCHANGED <<ring, todo, link, air, frame, sent, heard>> PROVE Traced'
  <2>1. pending' = pending
    BY <1>4, RingUnmoved DEF pending
  <2>. QED
    BY <1>4, <2>1, Untouched
<1>5. ASSUME NEW pkt \in Commands, SendCommand(pkt) PROVE Traced'
  BY <1>4, <1>5 DEF SendCommand, fifoVars, ring
<1>6. CASE Pushing
  <2>1. CASE PushByte
    <3>1. UNCHANGED <<sent, frame, link, heard, air>>
      BY <1>6, <2>1 DEF Pushing, PushByte, streamVars
    <3>. QED
      BY <2>1, <3>1, PushMoves, FrontTraced
  <2>2. CASE ~PushByte
    BY <1>4, <1>6, <2>2 DEF Pushing, PushLeave, NotifyOverflow, streamVars
  <2>. QED
    BY <2>1, <2>2
<1>7. CASE HandleDisconnect
  BY <1>7, DisconnectTraced
<1>8. CASE Loop
  <2>1. CASE Dispatch
    BY <2>1, DispatchTraced
  <2>2. CASE TakeFrame /\ UNCHANGED streamVars
    BY <2>2, TakeTraced
  <2>3. CASE SkipByte /\ UNCHANGED streamVars
    <3>1. UNCHANGED <<sent, frame, link, heard>>
      BY <2>3 DEF SkipByte, streamVars
    <3>. QED
      BY <2>3, <3>1, SkipMoves, FrontTraced
  <2>4. CASE ((frame = <<>> /\ ExtractEnter) \/ NoFrame) /\ UNCHANGED streamVars
    BY <1>4, <2>4 DEF ExtractEnter, NoFrame, pusher, streamVars
  <2>. QED
    BY <1>8, <2>1, <2>2, <2>3, <2>4 DEF Loop, Extracting
<1>9. CASE Drop
  BY <1>9, DropTraced
<1>10. CASE Reconnect
  BY <1>10, ReconnectTraced
<1>11. CASE UNCHANGED vars
  BY <1>4, <1>11 DEF vars, fifoVars, streamVars, ring
<1>. QED
  BY <1>1, <1>2, <1>3, <1>5, <1>6, <1>7, <1>8, <1>9, <1>10, <1>11 DEF StreamNext

(* What is heard lies among what was sent.                                  *)
THEOREM HeardIsSentUnlessFalseFrame == StreamSpec => [](FalseFrame(sent) \/ HeardIsSent)
<1>1. StreamBase /\ Traced => FalseFrame(sent) \/ HeardIsSent
  <2>. SUFFICES ASSUME StreamBase, Traced, ~FalseFrame(sent) PROVE HeardIsSent
    OBVIOUS
  <2>1. PICK past \in Seq(Byte) : Placed(heard, sent, Len(past))
    BY DEF Traced, Trace
  <2>2. PICK place \in [1 .. Len(heard) -> 1 .. Len(sent)] :
          /\ \A i \in 1 .. Len(heard) : heard[i] = sent[place[i]].meant
          /\ \A i, j \in 1 .. Len(heard) : i < j => place[i] < place[j]
    BY <2>1 DEF Placed
  <2>3. DOMAIN heard = 1 .. Len(heard) /\ DOMAIN sent = 1 .. Len(sent)
    BY <2>1 DEF Placed, StreamBase
  <2>. QED
    BY <2>2, <2>3 DEF HeardIsSent, Meant
<1>2. StreamInit => Traced
  BY StreamInitTraced
<1>3. StreamBase /\ StreamBase' /\ Traced /\ [StreamNext]_vars => Traced'
  BY TracedStep
<1>. QED
  BY <1>1, <1>2, <1>3, StreamInvariantBase, PTL DEF StreamSpec
===============================================================================
