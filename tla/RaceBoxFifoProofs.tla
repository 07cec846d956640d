--------------------------- MODULE RaceBoxFifoProofs ---------------------------
(***************************************************************************)
(* Proofs about RaceBoxFifo, for any ring size, any limit of a payload and *)
(* any notifications: the ring implements ByteQueue, turn by turn of the   *)
(* loops in push() and extractFrame().                                     *)
(*                                                                         *)
(* RingInv is the inductive invariant.  Its heart is that head is always   *)
(* len slots ahead of tail, around the end of the array: the code keeps    *)
(* three indices where two would do, and nothing else ties them together.  *)
(***************************************************************************)
EXTENDS RaceBoxFifo, SequenceTheorems, TLAPS

\* The inductive invariant: besides, who is in a loop holds the mutex, and no frame is cut out over another.
RingInv ==
  /\ FifoTypeOK
  /\ head = Wrap(tail + len)
  /\ mutex = "push" <=> npc = "push"
  /\ mutex = "extract" => frame = <<>>

\* A step of either task at the ring, whatever is pushed and whoever calls.
RingNext ==
  \/ \E data \in Seq(Byte) : PushEnter(data)
  \/ PushByte \/ PushLeave \/ NotifyOverflow \/ Clear
  \/ ExtractEnter \/ SkipByte \/ TakeFrame \/ NoFrame
  \/ ConsumeFrame

USE DEF Queue!bqVars, Queue!Without, Queue!Newest, Queue!BQInit, Queue!Put, Queue!Skip, Queue!Take,
        Queue!Consume, Queue!Empty, Queue!BQNext

------------------------------------------------------------------------------
(* Indices.                                                                 *)

(* Over less than two rounds of the ring, wrapping is one subtraction.      *)
LEMMA WrapLaw ==
  \A i \in 0 .. 2 * RACEBOX_FIFO_SIZE - 1 :
    Wrap(i) = IF i < RACEBOX_FIFO_SIZE THEN i ELSE i - RACEBOX_FIFO_SIZE
BY FifoAssumptions DEF Wrap

(* A wrapped index is a slot.                                               *)
LEMMA WrapSlot == \A i \in Nat : Wrap(i) \in Slots
BY FifoAssumptions DEF Wrap, Slots

(* Wrapping before a further addition makes no difference.                  *)
LEMMA WrapTwice ==
  ASSUME NEW t \in Slots, NEW n \in 0 .. RACEBOX_FIFO_SIZE, NEW i \in 0 .. RACEBOX_FIFO_SIZE - n
  PROVE  Wrap(Wrap(t + n) + i) = Wrap(t + n + i)
<1>1. RACEBOX_FIFO_SIZE \in Nat \ {0} /\ t \in 0 .. RACEBOX_FIFO_SIZE - 1
  BY FifoAssumptions DEF Slots
<1>2. Wrap(t + n) = IF t + n < RACEBOX_FIFO_SIZE THEN t + n ELSE t + n - RACEBOX_FIFO_SIZE
  BY <1>1, WrapLaw
<1>3. t + n + i \in 0 .. 2 * RACEBOX_FIFO_SIZE - 1 /\ Wrap(t + n) + i \in 0 .. 2 * RACEBOX_FIFO_SIZE - 1
  BY <1>1, <1>2
<1>. QED
  BY <1>1, <1>2, <1>3, WrapLaw

(* Bytes less than a round apart are in different slots.                    *)
LEMMA WrapApart ==
  ASSUME NEW t \in Slots, NEW i \in 0 .. RACEBOX_FIFO_SIZE - 1, NEW j \in 0 .. RACEBOX_FIFO_SIZE - 1,
         Wrap(t + i) = Wrap(t + j)
  PROVE  i = j
<1>1. RACEBOX_FIFO_SIZE \in Nat \ {0} /\ t \in 0 .. RACEBOX_FIFO_SIZE - 1
  BY FifoAssumptions DEF Slots
<1>2. t + i \in 0 .. 2 * RACEBOX_FIFO_SIZE - 1 /\ t + j \in 0 .. 2 * RACEBOX_FIFO_SIZE - 1
  BY <1>1
<1>. QED
  BY <1>1, <1>2, WrapLaw

(* Any byte looked at is a byte, and an announced length a natural number.  *)
LEMMA PeekType ==
  ASSUME FifoTypeOK
  PROVE  /\ \A i \in Nat : Peek(i) \in Byte
         /\ FrameLen \in Nat /\ FrameLen >= 8
<1>1. tail \in Nat /\ buf \in [Slots -> Byte]
  BY FifoAssumptions DEF FifoTypeOK, Slots
<1>2. \A i \in Nat : Wrap(tail + i) \in Slots
  BY <1>1, WrapSlot
<1>3. \A i \in Nat : Peek(i) \in Byte
  BY <1>1, <1>2 DEF Peek
<1>4. Peek(4) \in Nat /\ Peek(5) \in Nat
  BY <1>3 DEF Byte
<1>. QED
  BY <1>3, <1>4 DEF FrameLen, Announced, U16, UBX_FRAME_OVERHEAD

\* The bytes held are a sequence.
ContentsAreBytes ==
  /\ Contents \in Seq(Byte) /\ Len(Contents) = len
  /\ \A i \in 1 .. len : Contents[i] = Peek(i - 1)

(* They are, before and after a step.                                       *)
LEMMA ContentsSeq == FifoTypeOK => ContentsAreBytes
<1>. SUFFICES ASSUME FifoTypeOK PROVE ContentsAreBytes
  OBVIOUS
<1>1. len \in Nat
  BY FifoAssumptions DEF FifoTypeOK
<1>2. \A i \in 1 .. len : Peek(i - 1) \in Byte
  BY <1>1, PeekType
<1>. QED
  BY <1>1, <1>2 DEF Contents, ContentsAreBytes

(* Likewise after a step.                                                   *)
LEMMA ContentsSeqNext == FifoTypeOK' => ContentsAreBytes'
BY ContentsSeq, PTL

------------------------------------------------------------------------------
(* Bytes in, bytes out.                                                     *)

(* Bytes are dropped from the front.                                        *)
LEMMA Dropped ==
  ASSUME RingInv, NEW n \in 0 .. len, DropBytes(n)
  PROVE  /\ tail' \in Slots /\ len' \in 0 .. RACEBOX_FIFO_SIZE /\ head' = Wrap(tail' + len')
         /\ \A i \in 1 .. len - n : Peek(i - 1)' = Peek(n + i - 1)
         /\ len' = len - n
<1>1. /\ tail \in Slots /\ tail \in Nat /\ len \in 0 .. RACEBOX_FIFO_SIZE /\ RACEBOX_FIFO_SIZE \in Nat
      /\ head = Wrap(tail + len)
  BY FifoAssumptions DEF RingInv, FifoTypeOK, Slots
<1>2. tail' = Wrap(tail + n) /\ len' = len - n /\ UNCHANGED <<buf, head>>
  BY DEF DropBytes
<1>3. n \in 0 .. RACEBOX_FIFO_SIZE /\ n \in Nat
  BY <1>1
<1>4. ASSUME NEW i \in 0 .. len - n
      PROVE  Wrap(tail' + i) = Wrap(tail + n + i)
  <2>1. i \in 0 .. RACEBOX_FIFO_SIZE - n
    BY <1>1
  <2>. QED
    BY <1>1, <1>2, <1>3, <2>1, WrapTwice
<1>5. head' = Wrap(tail' + len')
  <2>1. len - n \in 0 .. len - n /\ tail + n + (len - n) = tail + len
    BY <1>1
  <2>. QED
    BY <1>1, <1>2, <1>4, <2>1
<1>6. ASSUME NEW i \in 1 .. len - n PROVE Peek(i - 1)' = Peek(n + i - 1)
  <2>1. i - 1 \in 0 .. len - n /\ tail + n + (i - 1) = tail + (n + i - 1)
    BY <1>1
  <2>2. Wrap(tail' + (i - 1)) = Wrap(tail + (n + i - 1))
    BY <1>4, <2>1
  <2>. QED
    BY <1>2, <2>2 DEF Peek
<1>. QED
  BY <1>1, <1>2, <1>3, <1>5, <1>6, WrapSlot

(* A byte goes in at the back, once there is room for it.                   *)
LEMMA Pushed ==
  ASSUME RingInv, PushByte
  PROVE  /\ tail' \in Slots /\ len' \in 0 .. RACEBOX_FIFO_SIZE /\ head' = Wrap(tail' + len')
         /\ head' \in Slots /\ buf' \in [Slots -> Byte] /\ Head(todo) \in Byte
         /\ IF len < RACEBOX_FIFO_SIZE
              THEN /\ len' = len + 1
                   /\ \A i \in 1 .. len : Peek(i - 1)' = Peek(i - 1)
                   /\ UNCHANGED <<overflowCount, overflowed>>
              ELSE /\ len' = len
                   /\ \A i \in 1 .. len - 1 : Peek(i - 1)' = Peek(i)
                   /\ overflowCount' = overflowCount + 1 /\ overflowed' = TRUE
         /\ Peek(len - 1)' = Head(todo)
<1>1. /\ tail \in Slots /\ head \in Slots /\ tail \in Nat /\ len \in 0 .. RACEBOX_FIFO_SIZE
      /\ RACEBOX_FIFO_SIZE \in Nat \ {0}
      /\ head = Wrap(tail + len) /\ buf \in [Slots -> Byte]
      /\ tail \in 0 .. RACEBOX_FIFO_SIZE - 1
  BY FifoAssumptions DEF RingInv, FifoTypeOK, Slots
<1>2. Head(todo) \in Byte
  BY DEF RingInv, FifoTypeOK, PushByte
<1>3. buf' = [buf EXCEPT ![head] = Head(todo)] /\ head' = Wrap(head + 1) /\ MakeRoom
  BY DEF PushByte
<1>4. buf' \in [Slots -> Byte] /\ buf'[head] = Head(todo) /\ \A s \in Slots : s # head => buf'[s] = buf[s]
  BY <1>1, <1>2, <1>3
<1>5. head' \in Slots
  BY <1>1, <1>3, WrapSlot DEF Slots
<1>6. CASE len < RACEBOX_FIFO_SIZE
  <2>1. tail' = tail /\ len' = len + 1 /\ UNCHANGED <<overflowCount, overflowed>>
    BY <1>1, <1>3, <1>6 DEF MakeRoom
  <2>2. head' = Wrap(tail + len + 1)
    <3>1. 1 \in 0 .. RACEBOX_FIFO_SIZE - len
      BY <1>1, <1>6
    <3>. QED
      BY <1>1, <1>3, <3>1, WrapTwice
  <2>3. ASSUME NEW i \in 1 .. len PROVE Peek(i - 1)' = Peek(i - 1)
    <3>1. i - 1 \in 0 .. RACEBOX_FIFO_SIZE - 1 /\ len \in 0 .. RACEBOX_FIFO_SIZE - 1 /\ i - 1 # len
      BY <1>1, <1>6
    <3>2. Wrap(tail + (i - 1)) # head
      BY <1>1, <3>1, WrapApart
    <3>3. Wrap(tail + (i - 1)) \in Slots
      BY <1>1, <3>1, WrapSlot
    <3>. QED
      BY <1>4, <2>1, <3>2, <3>3 DEF Peek
  <2>4. Peek(len - 1)' = Head(todo)
    <3>1. tail + (len' - 1) = tail + len
      BY <1>1, <2>1
    <3>. QED
      BY <1>1, <1>4, <2>1, <3>1 DEF Peek
  <2>. QED
    BY <1>1, <1>2, <1>4, <1>5, <1>6, <2>1, <2>2, <2>3, <2>4
<1>7. CASE ~(len < RACEBOX_FIFO_SIZE)
  <2>1. /\ len = RACEBOX_FIFO_SIZE /\ len' = len /\ tail' = Wrap(tail + 1)
        /\ overflowCount' = overflowCount + 1 /\ overflowed' = TRUE
    BY <1>1, <1>3, <1>7 DEF MakeRoom
  <2>2. head = tail
    <3>1. tail + len \in 0 .. 2 * RACEBOX_FIFO_SIZE - 1 /\ ~(tail + len < RACEBOX_FIFO_SIZE)
          /\ tail + len - RACEBOX_FIFO_SIZE = tail
      BY <1>1, <2>1
    <3>. QED
      BY <1>1, <3>1, WrapLaw
  <2>3. tail' \in Slots /\ tail' = head'
    BY <1>1, <1>3, <1>5, <2>1, <2>2
  <2>4. head' = Wrap(tail' + len')
    <3>1. /\ tail' \in 0 .. RACEBOX_FIFO_SIZE - 1
          /\ tail' + len' \in 0 .. 2 * RACEBOX_FIFO_SIZE - 1 /\ ~(tail' + len' < RACEBOX_FIFO_SIZE)
          /\ tail' + len' - RACEBOX_FIFO_SIZE = tail'
      BY <1>1, <2>1, <2>3 DEF Slots
    <3>2. \A t \in 0 .. RACEBOX_FIFO_SIZE - 1 : Wrap(t + RACEBOX_FIFO_SIZE) = t
      <4>. SUFFICES ASSUME NEW t \in 0 .. RACEBOX_FIFO_SIZE - 1
                    PROVE  Wrap(t + RACEBOX_FIFO_SIZE) = t
        OBVIOUS
      <4>1. PICK i \in Nat : i = t + RACEBOX_FIFO_SIZE
        BY <1>1
      <4>2. i \in 0 .. 2 * RACEBOX_FIFO_SIZE - 1 /\ ~(i < RACEBOX_FIFO_SIZE) /\ i - RACEBOX_FIFO_SIZE = t
        BY <1>1, <4>1
      <4>3. Wrap(i) = t
        BY <4>2, WrapLaw
      <4>. QED
        BY <4>1, <4>3
    <3>. QED
      BY <2>1, <2>3, <3>1, <3>2
  <2>5. ASSUME NEW i \in 0 .. RACEBOX_FIFO_SIZE - 1 PROVE Wrap(tail' + i) = Wrap(tail + (1 + i))
    <3>1. 1 \in 0 .. RACEBOX_FIFO_SIZE /\ i \in 0 .. RACEBOX_FIFO_SIZE - 1 /\ tail + 1 + i = tail + (1 + i)
      BY <1>1
    <3>. QED
      BY <1>1, <2>1, <3>1, WrapTwice
  <2>6. ASSUME NEW i \in 1 .. len - 1 PROVE Peek(i - 1)' = Peek(i)
    <3>1. i - 1 \in 0 .. RACEBOX_FIFO_SIZE - 1 /\ 1 + (i - 1) = i
          /\ i \in 0 .. RACEBOX_FIFO_SIZE - 1 /\ 0 \in 0 .. RACEBOX_FIFO_SIZE - 1 /\ i # 0
      BY <1>1, <2>1
    <3>2. Wrap(tail' + (i - 1)) = Wrap(tail + i)
      BY <2>5, <3>1
    <3>3. Wrap(tail + i) # Wrap(tail + 0)
      BY <1>1, <3>1, WrapApart
    <3>4. Wrap(tail + 0) = tail
      BY <1>1, WrapLaw
    <3>5. Wrap(tail + i) \in Slots
      BY <1>1, <3>1, WrapSlot
    <3>. QED
      BY <1>4, <2>2, <3>2, <3>3, <3>4, <3>5 DEF Peek
  <2>7. Peek(len - 1)' = Head(todo)
    <3>1. len - 1 \in 0 .. RACEBOX_FIFO_SIZE - 1 /\ 1 + (len - 1) = len
      BY <1>1, <2>1
    <3>2. Wrap(tail' + (len - 1)) = head
      BY <1>1, <2>5, <3>1
    <3>. QED
      BY <1>4, <2>1, <3>2 DEF Peek
  <2>. QED
    BY <1>1, <1>2, <1>4, <1>5, <1>7, <2>1, <2>3, <2>4, <2>6, <2>7
<1>. QED
  BY <1>6, <1>7


------------------------------------------------------------------------------
(* The invariant.                                                           *)

(* The ring starts empty.                                                   *)
LEMMA RingInit == FifoInit => RingInv
<1>. SUFFICES ASSUME FifoInit PROVE RingInv
  OBVIOUS
<1>1. RACEBOX_FIFO_SIZE \in Nat \ {0} /\ 0 \in Slots /\ Wrap(0) = 0
  BY FifoAssumptions, WrapLaw DEF Slots
<1>2. buf \in [Slots -> Byte]
  BY DEF FifoInit, Byte
<1>3. overflowed \in BOOLEAN
  BY DEF FifoInit
<1>4. FifoTypeOK
  BY <1>1, <1>2, <1>3 DEF FifoInit, FifoTypeOK
<1>. QED
  BY <1>1, <1>4 DEF FifoInit, RingInv

(* A frame is cut out byte by byte, from the front.                         *)
LEMMA FrameCut ==
  ASSUME RingInv, TakeFrame
  PROVE  /\ FrameLen \in 0 .. len /\ FrameLen >= 8
         /\ frame = <<>> /\ frame' \in Seq(Byte) /\ Len(frame') = FrameLen
         /\ \A i \in 1 .. FrameLen : frame'[i] = Peek(i - 1)
<1>1. FrameLen \in Nat /\ FrameLen >= 8 /\ \A i \in Nat : Peek(i) \in Byte
  BY PeekType DEF RingInv
<1>2. len \in Nat /\ len >= FrameLen /\ mutex = "extract"
  BY FifoAssumptions DEF TakeFrame, FrameComplete, RingInv, FifoTypeOK
<1>3. frame' = [i \in 1 .. FrameLen |-> Peek(i - 1)]
  BY DEF TakeFrame
<1>. HIDE DEF FrameLen
<1>4. \A i \in 1 .. FrameLen : Peek(i - 1) \in Byte
  BY <1>1
<1>. QED
  BY <1>1, <1>2, <1>3, <1>4 DEF RingInv

(* Every step keeps head, tail and length together, and the mutex with its  *)
(* holder.                                                                  *)
LEMMA RingStep == RingInv /\ [RingNext]_fifoVars => RingInv'
<1>. SUFFICES ASSUME RingInv, [RingNext]_fifoVars PROVE RingInv'
  OBVIOUS
<1>. USE DEF RingInv, FifoTypeOK
<1>1. ASSUME NEW data \in Seq(Byte), PushEnter(data) PROVE RingInv'
  BY <1>1, FifoAssumptions DEF PushEnter, ring
<1>2. CASE PushByte
  <2>1. /\ tail' \in Slots /\ len' \in 0 .. RACEBOX_FIFO_SIZE /\ head' = Wrap(tail' + len')
        /\ head' \in Slots /\ buf' \in [Slots -> Byte]
    BY <1>2, Pushed
  <2>3. overflowCount' \in Nat
    <3>1. overflowCount' = overflowCount \/ overflowCount' = overflowCount + 1
      BY <1>2, Pushed
    <3>2. overflowCount \in Nat
      OBVIOUS
    <3>. HIDE DEF RingInv, FifoTypeOK
    <3>. QED
      BY <3>1, <3>2
  <2>4. overflowed' = overflowed \/ overflowed' = TRUE
    BY <1>2, Pushed
  <2>5. overflowed' \in BOOLEAN
    BY <2>4
  <2>2. todo' \in Seq(Byte) /\ UNCHANGED <<mutex, npc, frame>>
    BY <1>2 DEF PushByte
  <2>. QED
    BY <2>1, <2>2, <2>3, <2>5
<1>3. CASE PushLeave
  BY <1>3 DEF PushLeave, ring
<1>4. CASE NotifyOverflow
  BY <1>4 DEF NotifyOverflow, ring
<1>5. CASE Clear
  <2>1. 0 \in Slots /\ 0 \in 0 .. RACEBOX_FIFO_SIZE /\ Wrap(0) = 0
    BY FifoAssumptions, WrapLaw DEF Slots
  <2>. QED
    BY <1>5, <2>1 DEF Clear, pusher
<1>6. CASE ExtractEnter
  BY <1>6 DEF ExtractEnter, ring, pusher
<1>7. CASE SkipByte
  <2>1. DropBytes(1) /\ UNCHANGED <<overflowCount, mutex, pusher, frame>>
    BY <1>7 DEF SkipByte
  <2>2. 1 \in 0 .. len
    BY <1>7, FifoAssumptions DEF SkipByte, Garbage, HasOverhead, UBX_FRAME_OVERHEAD
  <2>3. tail' \in Slots /\ len' \in 0 .. RACEBOX_FIFO_SIZE /\ head' = Wrap(tail' + len')
    BY <2>1, <2>2, Dropped
  <2>. QED
    BY <2>1, <2>3 DEF DropBytes, pusher
<1>8. CASE TakeFrame
  <2>1. /\ DropBytes(FrameLen) /\ mutex' = "free" /\ mutex = "extract"
        /\ UNCHANGED <<overflowCount, pusher>>
    BY <1>8 DEF TakeFrame
  <2>2. FrameLen \in 0 .. len /\ frame' \in Seq(Byte)
    BY <1>8, FrameCut
  <2>3. tail' \in Slots /\ len' \in 0 .. RACEBOX_FIFO_SIZE /\ head' = Wrap(tail' + len')
    BY <2>1, <2>2, Dropped
  <2>. QED
    BY <2>1, <2>2, <2>3 DEF DropBytes, pusher
<1>9. CASE NoFrame
  BY <1>9 DEF NoFrame, ring, pusher
<1>10. CASE ConsumeFrame
  BY <1>10 DEF ConsumeFrame, ring, pusher
<1>11. CASE UNCHANGED fifoVars
  BY <1>11 DEF fifoVars
<1>. QED
  BY <1>1, <1>2, <1>3, <1>4, <1>5, <1>6, <1>7, <1>8, <1>9, <1>10, <1>11 DEF RingNext

(* RaceBoxFifo's own environment is one of many.                            *)
LEMMA FifoStepsRing == FifoNext => RingNext
BY FifoAssumptions DEF FifoNext, RingNext

(* Every variable of the ring stays in its type, whatever is pushed; and    *)
(* the three indices agree, with no push and no extraction at the same time.*)
THEOREM RingInvariant == FifoSpec => []RingInv
BY RingInit, RingStep, FifoStepsRing, PTL DEF FifoSpec

(* The ring's indices stay slots, its length within its size, its bytes     *)
(* bytes: FifoTypeOK, whatever RaceBoxFifo is given to push.                *)
THEOREM FifoTypeCorrect == FifoSpec => []FifoTypeOK
<1>1. RingInv => FifoTypeOK
  BY DEF RingInv
<1>. QED
  BY <1>1, RingInvariant, PTL

------------------------------------------------------------------------------
(* The ring implements the queue.                                           *)

(* An empty ring is an empty queue.                                         *)
LEMMA EmptyContents == len = 0 => Contents = <<>>
BY DEF Contents

(* A turn of push() puts a byte into the queue, over the oldest if need be. *)
LEMMA PushPuts ==
  ASSUME RingInv, RingInv', PushByte
  PROVE  Queue!Put
<1>1. /\ Contents \in Seq(Byte) /\ Len(Contents) = len
      /\ \A i \in 1 .. len : Contents[i] = Peek(i - 1)
  BY ContentsSeq, ContentsSeqNext DEF RingInv, ContentsAreBytes
<1>2. /\ Contents' \in Seq(Byte) /\ Len(Contents') = len'
      /\ \A i \in 1 .. len' : Contents'[i] = Peek(i - 1)'
  BY ContentsSeq, ContentsSeqNext DEF RingInv, ContentsAreBytes
<1>3. len \in 0 .. RACEBOX_FIFO_SIZE /\ RACEBOX_FIFO_SIZE \in Nat \ {0}
  BY FifoAssumptions DEF RingInv, FifoTypeOK
<1>4. frame' = frame
  BY DEF PushByte
<1>5. CASE len < RACEBOX_FIFO_SIZE
  <2>1. /\ len' = len + 1 /\ overflowCount' = overflowCount
        /\ \A i \in 1 .. len : Peek(i - 1)' = Peek(i - 1)
    BY <1>5, Pushed
  <2>2. Contents'[len'] \in Byte /\ Contents' # <<>>
    BY <1>2, <1>3, <2>1
  <2>3. Contents' = Append(Contents, Contents'[len'])
    <3>. DEFINE t == Append(Contents, Contents'[len'])
    <3>1. t \in Seq(Byte) /\ Len(t) = len'
      BY <1>1, <1>3, <2>1, <2>2
    <3>2. \A i \in 1 .. len' : Contents'[i] = t[i]
      BY <1>1, <1>2, <1>3, <2>1
    <3>. QED
      BY <1>2, <3>1, <3>2, SeqEqual
  <2>. QED
    BY <1>1, <1>2, <1>4, <1>5, <2>1, <2>2, <2>3
<1>6. CASE ~(len < RACEBOX_FIFO_SIZE)
  <2>1. /\ len' = len /\ len = RACEBOX_FIFO_SIZE /\ overflowCount' = overflowCount + 1
        /\ \A i \in 1 .. len - 1 : Peek(i - 1)' = Peek(i)
    BY <1>3, <1>6, Pushed
  <2>2. Contents'[len'] \in Byte /\ Contents' # <<>>
    BY <1>2, <1>3, <2>1
  <2>3. Contents' = Append(SubSeq(Contents, 1 + 1, Len(Contents)), Contents'[len'])
    <3>. DEFINE rest == SubSeq(Contents, 1 + 1, Len(Contents))
                t == Append(rest, Contents'[len'])
    <3>1. /\ rest \in Seq(Byte) /\ Len(rest) = len - 1
          /\ \A i \in 1 .. len - 1 : rest[i] = Contents[i + 1]
      BY <1>1, <1>3, <2>1
    <3>2. \A i \in 1 .. len - 1 : rest[i] = Contents'[i]
      <4>. SUFFICES ASSUME NEW i \in 1 .. len - 1 PROVE rest[i] = Contents'[i]
        OBVIOUS
      <4>1. i + 1 \in 1 .. len /\ i \in 1 .. len' /\ i + 1 - 1 = i
        BY <1>3, <2>1
      <4>2. Contents'[i] = Peek(i - 1)'
        BY <1>2, <4>1
      <4>3. Contents[i + 1] = Peek(i)
        BY <1>1, <4>1
      <4>. QED
        BY <2>1, <3>1, <4>2, <4>3
    <3>. HIDE DEF rest
    <3>3. t \in Seq(Byte) /\ Len(t) = len'
      BY <1>3, <2>1, <2>2, <3>1
    <3>4. \A i \in 1 .. len' : Contents'[i] = t[i]
      BY <1>3, <2>1, <3>1, <3>2
    <3>5. Contents' = t
      BY <1>2, <3>3, <3>4, SeqEqual
    <3>. QED
      BY <3>5 DEF rest
  <2>. QED
    BY <1>1, <1>2, <1>4, <1>6, <2>1, <2>2, <2>3
<1>. QED
  BY <1>5, <1>6

(* A byte that begins no frame is skipped.                                  *)
LEMMA SkipSkips ==
  ASSUME RingInv, RingInv', SkipByte
  PROVE  Queue!Skip
<1>1. /\ Contents \in Seq(Byte) /\ Len(Contents) = len
      /\ \A i \in 1 .. len : Contents[i] = Peek(i - 1)
      /\ Contents' \in Seq(Byte) /\ Len(Contents') = len'
      /\ \A i \in 1 .. len' : Contents'[i] = Peek(i - 1)'
  BY ContentsSeq, ContentsSeqNext DEF RingInv, ContentsAreBytes
<1>2. 1 \in 0 .. len /\ len \in Nat /\ len >= 1
  BY FifoAssumptions DEF RingInv, FifoTypeOK, SkipByte, Garbage, HasOverhead, UBX_FRAME_OVERHEAD
<1>3. /\ len' = len - 1 /\ UNCHANGED <<overflowCount, frame>>
      /\ \A i \in 1 .. len - 1 : Peek(i - 1)' = Peek(1 + i - 1)
  BY <1>2, Dropped DEF SkipByte
<1>4. Contents # <<>>
  BY <1>1, <1>2
<1>5. Contents' = SubSeq(Contents, 1 + 1, Len(Contents))
  <2>. DEFINE rest == SubSeq(Contents, 1 + 1, Len(Contents))
  <2>1. /\ rest \in Seq(Byte) /\ Len(rest) = len'
        /\ \A i \in 1 .. len' : rest[i] = Contents[i + 1]
    BY <1>1, <1>2, <1>3
  <2>2. \A i \in 1 .. len' : Contents'[i] = rest[i]
    <3>. SUFFICES ASSUME NEW i \in 1 .. len' PROVE Contents'[i] = rest[i]
      OBVIOUS
    <3>1. i + 1 \in 1 .. len /\ i \in 1 .. len - 1 /\ i + 1 - 1 = i /\ 1 + i - 1 = i
      BY <1>2, <1>3
    <3>2. Contents[i + 1] = Peek(i) /\ Contents'[i] = Peek(i)
      BY <1>1, <1>3, <3>1
    <3>. QED
      BY <2>1, <3>2
  <2>. HIDE DEF rest
  <2>3. Contents' = rest
    BY <1>1, <2>1, <2>2, SeqEqual
  <2>. QED
    BY <2>3 DEF rest
<1>. QED
  BY <1>3, <1>4, <1>5

(* What extractFrame() returns and what it leaves are what was there.       *)
LEMMA FrameTaken ==
  ASSUME RingInv, RingInv', TakeFrame
  PROVE  Queue!Take
<1>1. /\ Contents \in Seq(Byte) /\ Len(Contents) = len
      /\ \A i \in 1 .. len : Contents[i] = Peek(i - 1)
      /\ Contents' \in Seq(Byte) /\ Len(Contents') = len'
      /\ \A i \in 1 .. len' : Contents'[i] = Peek(i - 1)'
  BY ContentsSeq, ContentsSeqNext DEF RingInv, ContentsAreBytes
<1>2. /\ FrameLen \in 0 .. len /\ FrameLen >= 8 /\ len \in Nat
      /\ frame = <<>> /\ frame' \in Seq(Byte) /\ Len(frame') = FrameLen
      /\ \A i \in 1 .. FrameLen : frame'[i] = Peek(i - 1)
  BY FrameCut, FifoAssumptions DEF RingInv, FifoTypeOK
<1>3. /\ len' = len - FrameLen /\ overflowCount' = overflowCount
      /\ \A i \in 1 .. len - FrameLen : Peek(i - 1)' = Peek(FrameLen + i - 1)
  BY <1>2, Dropped DEF TakeFrame
<1>. DEFINE whole == frame' \o Contents'
<1>4. PICK n \in Nat : n = FrameLen
  BY <1>2
<1>5. /\ whole \in Seq(Byte) /\ Len(whole) = len
      /\ \A i \in 1 .. len : whole[i] = IF i <= n THEN frame'[i] ELSE Contents'[i - n]
  <2>1. /\ Len(frame') = n /\ Len(Contents') = len - n /\ n \in 0 .. len /\ len \in Nat
        /\ frame' \in Seq(Byte) /\ Contents' \in Seq(Byte)
    BY <1>1, <1>2, <1>3, <1>4
  <2>2. PICK f \in Seq(Byte), c \in Seq(Byte) : f = frame' /\ c = Contents'
    BY <2>1
  <2>3. /\ f \o c \in Seq(Byte) /\ Len(f \o c) = len
        /\ \A i \in 1 .. len : (f \o c)[i] = IF i <= n THEN f[i] ELSE c[i - n]
    BY <2>1, <2>2, ConcatProperties
  <2>. QED
    BY <2>2, <2>3
<1>6. \A i \in 1 .. len : whole[i] = Contents[i]
  <2>. SUFFICES ASSUME NEW i \in 1 .. len PROVE whole[i] = Contents[i]
    OBVIOUS
  <2>1. CASE i <= n
    BY <1>1, <1>2, <1>4, <1>5, <2>1
  <2>2. CASE ~(i <= n)
    <3>1. i - n \in 1 .. len - n /\ n + (i - n) - 1 = i - 1 /\ i - n \in 1 .. len'
      BY <1>2, <1>3, <1>4, <2>2
    <3>2. Contents'[i - n] = Peek(i - n - 1)'
      BY <1>1, <3>1
    <3>3. Peek(i - n - 1)' = Peek(i - 1)
      BY <1>3, <1>4, <3>1
    <3>. QED
      BY <1>1, <1>5, <2>2, <3>2, <3>3
  <2>. QED
    BY <2>1, <2>2
<1>. HIDE DEF whole
<1>7. whole = Contents
  BY <1>1, <1>5, <1>6, SeqEqual
<1>8. frame' # <<>>
  BY <1>2
<1>. QED
  BY <1>2, <1>3, <1>7, <1>8 DEF whole

(* Every other step leaves the queue as it is, empties it or lets the frame *)
(* that was cut out go.                                                     *)
LEMMA StepKeepsQueue ==
  ASSUME RingInv, RingInv', [RingNext]_fifoVars
  PROVE  [Queue!BQNext]_Queue!bqVars
<1>1. UNCHANGED ring => UNCHANGED Contents
  BY DEF ring, Contents, Peek
<1>2. CASE Clear
  <2>1. Contents' = <<>>
    BY <1>2 DEF Clear, Contents
  <2>. QED
    BY <1>2, <2>1 DEF Clear
<1>3. CASE (\E data \in Seq(Byte) : PushEnter(data)) \/ PushLeave \/ NotifyOverflow \/ NoFrame
           \/ ExtractEnter \/ UNCHANGED fifoVars
  BY <1>1, <1>3 DEF PushEnter, PushLeave, NotifyOverflow, NoFrame, ExtractEnter, fifoVars, ring
<1>4. CASE ConsumeFrame
  BY <1>1, <1>4 DEF ConsumeFrame
<1>. QED
  BY <1>2, <1>3, <1>4, PushPuts, SkipSkips, FrameTaken DEF RingNext

(* The ring is a bounded byte queue, for any size of it and any bytes       *)
(* pushed: RaceBoxFifo implements ByteQueue.                                *)
THEOREM RingIsQueue == FifoSpec => RingImplementsQueue
<1>1. FifoInit => Queue!BQInit
  BY DEF FifoInit, Contents
<1>2. RingInv /\ RingInv' /\ [FifoNext]_fifoVars => [Queue!BQNext]_Queue!bqVars
  BY StepKeepsQueue, FifoStepsRing
<1>. QED
  BY <1>1, <1>2, RingInvariant, PTL DEF FifoSpec, RingImplementsQueue, Queue!BQSpec

HIDE DEF Queue!bqVars, Queue!Without, Queue!Newest, Queue!BQInit, Queue!Put, Queue!Skip, Queue!Take,
         Queue!Consume, Queue!Empty, Queue!BQNext
================================================================================
