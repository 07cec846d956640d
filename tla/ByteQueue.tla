------------------------------- MODULE ByteQueue -------------------------------
(***************************************************************************)
(* What RaceBoxFifo promises of its bytes, with no ring, no tasks and no   *)
(* mutex: a queue that keeps the newest Capacity bytes in order, gives     *)
(* them up only at its front, and counts the ones it had to drop.          *)
(***************************************************************************)
EXTENDS Naturals, Sequences

CONSTANTS Capacity, Byte

VARIABLES
  queue,     \* the bytes held, oldest first
  taken,     \* the bytes the last frame was cut out as, <<>> once consumed
  dropped    \* bytes lost to overflow so far

bqVars == <<queue, taken, dropped>>

Without(n) == SubSeq(queue, n + 1, Len(queue))
Newest == queue[Len(queue)]

BQInit == queue = <<>> /\ taken = <<>> /\ dropped = 0

\* Whatever byte is the newest afterwards has been put in.
Put ==
  /\ queue' # <<>> /\ Newest' \in Byte
  /\ IF Len(queue) < Capacity
       THEN queue' = Append(queue, Newest') /\ UNCHANGED dropped
       ELSE queue' = Append(Without(1), Newest') /\ dropped' = dropped + 1
  /\ UNCHANGED taken

Skip ==
  /\ queue # <<>>
  /\ queue' = Without(1)
  /\ UNCHANGED <<taken, dropped>>

Take ==
  /\ taken = <<>> /\ taken' # <<>>
  /\ taken' \o queue' = queue
  /\ UNCHANGED dropped

Consume == taken' = <<>> /\ UNCHANGED <<queue, dropped>>

Empty == queue' = <<>> /\ UNCHANGED <<taken, dropped>>

BQNext == Put \/ Skip \/ Take \/ Consume \/ Empty

BQSpec == BQInit /\ [][BQNext]_bqVars
================================================================================
