------------------------------ MODULE RaceBoxFifo ------------------------------
(***************************************************************************)
(* RaceBoxFifo: the ring of bytes between the NimBLE task, which pushes    *)
(* notifications and clears on a disconnect, and the Arduino loop, which   *)
(* takes complete frames out.                                              *)
(*                                                                         *)
(* push() and extractFrame() hold the mutex over a loop; every turn of     *)
(* these loops is a step here, so that either task may run between any two *)
(* of them, as far as the mutex lets it.                                   *)
(***************************************************************************)
EXTENDS UbxCodec

CONSTANTS
  RACEBOX_FIFO_SIZE,   \* 4096 in the code
  Notifications        \* byte sequences the environment may push

ASSUME FifoAssumptions ==
  /\ RACEBOX_FIFO_SIZE \in Nat \ {0}
  /\ Notifications \subseteq Seq(Byte)

VARIABLES
  buf, head, tail, len,   \* _buf, _head, _tail, _len
  overflowCount,          \* _overflowCount
  mutex,                  \* who holds _mutex
  npc,                    \* where the NimBLE task is in push()
  todo,                   \* data[i..] of the push under way
  overflowed,             \* push()'s local flag
  frame                   \* what extractFrame() returned, <<>> for false

ring == <<buf, head, tail, len>>
pusher == <<npc, todo, overflowed>>
fifoVars == <<buf, head, tail, len, overflowCount, mutex, npc, todo, overflowed, frame>>

Slots == 0 .. RACEBOX_FIFO_SIZE - 1

\* Mutant: an index wraps one slot late.
WrapLate(i) == i % (RACEBOX_FIFO_SIZE + 1)
Wrap(i) == i % RACEBOX_FIFO_SIZE

FifoTypeOK ==
  /\ buf \in [Slots -> Byte]
  /\ head \in Slots /\ tail \in Slots
  /\ len \in 0 .. RACEBOX_FIFO_SIZE
  /\ overflowCount \in Nat
  /\ mutex \in {"free", "push", "extract"}
  /\ npc \in {"idle", "push", "notify"}
  /\ todo \in Seq(Byte)
  /\ overflowed \in BOOLEAN
  /\ frame \in Seq(Byte)

FifoInit ==
  /\ buf = [i \in Slots |-> 0]
  /\ head = 0 /\ tail = 0 /\ len = 0
  /\ overflowCount = 0
  /\ mutex = "free"
  /\ npc = "idle" /\ todo = <<>> /\ overflowed = FALSE
  /\ frame = <<>>

------------------------------------------------------------------------------
(* The NimBLE task: push() and clear().                                     *)

PushEnter(data) ==
  /\ npc = "idle" /\ mutex = "free"
  /\ mutex' = "push"
  /\ npc' = "push" /\ todo' = data /\ overflowed' = FALSE
  /\ UNCHANGED <<ring, overflowCount, frame>>

\* Room for one more byte: the oldest goes if there is none.
\* Mutant: the tail stays where it is.
KeepTail ==
  IF len >= RACEBOX_FIFO_SIZE
    THEN /\ overflowCount' = overflowCount + 1 /\ overflowed' = TRUE
         /\ UNCHANGED <<tail, len>>
    ELSE len' = len + 1 /\ UNCHANGED <<tail, overflowCount, overflowed>>
MakeRoom ==
  IF len >= RACEBOX_FIFO_SIZE
    THEN /\ tail' = Wrap(tail + 1) /\ UNCHANGED len
         /\ overflowCount' = overflowCount + 1 /\ overflowed' = TRUE
    ELSE len' = len + 1 /\ UNCHANGED <<tail, overflowCount, overflowed>>

PushByte ==
  /\ npc = "push" /\ todo # <<>>
  /\ MakeRoom
  /\ buf' = [buf EXCEPT ![head] = Head(todo)]
  /\ head' = Wrap(head + 1)
  /\ todo' = Tail(todo)
  /\ UNCHANGED <<mutex, npc, frame>>

PushLeave ==
  /\ npc = "push" /\ todo = <<>>
  /\ mutex' = "free"
  /\ npc' = IF overflowed THEN "notify" ELSE "idle"
  /\ UNCHANGED <<ring, overflowCount, todo, overflowed, frame>>

\* The overflow callback runs after the mutex was given back.
NotifyOverflow ==
  /\ npc = "notify"
  /\ npc' = "idle"
  /\ UNCHANGED <<ring, overflowCount, mutex, todo, overflowed, frame>>

Clear ==
  /\ npc = "idle" /\ mutex = "free"
  /\ head' = 0 /\ tail' = 0 /\ len' = 0
  /\ UNCHANGED <<buf, overflowCount, mutex, pusher, frame>>

------------------------------------------------------------------------------
(* The loop: extractFrame().                                                *)

ExtractEnter ==
  /\ mutex = "free"
  /\ mutex' = "extract"
  /\ frame' = <<>>
  /\ UNCHANGED <<ring, overflowCount, pusher>>

\* _peek(): the i-th byte from the tail, counted from 0.
Peek(i) == buf[Wrap(tail + i)]

AtHeader == Peek(0) = UBX_SYNC_1 /\ Peek(1) = UBX_SYNC_2
Announced == U16(Peek(4), Peek(5))
FrameLen == UBX_FRAME_OVERHEAD + Announced
HasOverhead == len >= UBX_FRAME_OVERHEAD

\* Mutant: a frame is taken only once another byte follows it.
FrameFollowed == HasOverhead /\ AtHeader /\ Announced <= UBX_MAX_PAYLOAD /\ len > FrameLen
FrameComplete == HasOverhead /\ AtHeader /\ Announced <= UBX_MAX_PAYLOAD /\ len >= FrameLen

\* What cannot be the start of a frame.
Garbage == HasOverhead /\ (~AtHeader \/ Announced > UBX_MAX_PAYLOAD)

\* _drop(n), for n <= _len.
DropBytes(n) ==
  /\ tail' = Wrap(tail + n)
  /\ len' = len - n
  /\ UNCHANGED <<buf, head>>

SkipByte ==
  /\ mutex = "extract" /\ Garbage
  /\ DropBytes(1)
  /\ UNCHANGED <<overflowCount, mutex, pusher, frame>>

TakeFrame ==
  /\ mutex = "extract" /\ FrameComplete
  /\ frame' = [i \in 1 .. FrameLen |-> Peek(i - 1)]
  /\ DropBytes(FrameLen)
  /\ mutex' = "free"
  /\ UNCHANGED <<overflowCount, pusher>>

NoFrame ==
  /\ mutex = "extract" /\ ~Garbage /\ ~FrameComplete
  /\ mutex' = "free"
  /\ UNCHANGED <<ring, overflowCount, pusher, frame>>

\* The caller is done with the frame.
ConsumeFrame ==
  /\ frame # <<>> /\ mutex # "extract"
  /\ frame' = <<>>
  /\ UNCHANGED <<ring, overflowCount, mutex, pusher>>

FifoNext ==
  \/ \E data \in Notifications : PushEnter(data)
  \/ PushByte \/ PushLeave \/ NotifyOverflow \/ Clear
  \/ (frame = <<>> /\ ExtractEnter) \/ SkipByte \/ TakeFrame \/ NoFrame
  \/ ConsumeFrame

FifoSpec == FifoInit /\ [][FifoNext]_fifoVars

------------------------------------------------------------------------------
(* What the ring promises.                                                  *)

Contents == [i \in 1 .. len |-> Peek(i - 1)]

(* The ring is a bounded byte queue: whatever the two tasks do to head,     *)
(* tail and length, the bytes held are the newest ones in the order they    *)
(* came, frames are cut from the front, and the overflow counter counts.    *)
Queue == INSTANCE ByteQueue
           WITH queue <- Contents, taken <- frame, dropped <- overflowCount,
                Capacity <- RACEBOX_FIFO_SIZE

RingImplementsQueue == Queue!BQSpec
===============================================================================
