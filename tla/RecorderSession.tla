---------------------------- MODULE RecorderSession ----------------------------
(***************************************************************************)
(* Recording control end to end: the application's loop, RaceBoxRecorder,  *)
(* the link (Link) and the RaceBox.                                        *)
(*                                                                         *)
(* The loop is that of the LibTest example: pc = "drain" in ble.update(),  *)
(* which rec.update() follows at once, and "app" in the application's      *)
(* calls.                                                                  *)
(* The RaceBox is external: it answers an unlock according to the code it  *)
(* holds, refuses or obeys recording and erase commands once unlocked,     *)
(* reports every change of its recording state, its button's included, and *)
(* forgets the unlock with the link.                                       *)
(*                                                                         *)
(* asked and cancels only observe.                                         *)
(***************************************************************************)
EXTENDS RaceBoxRecorder, Link

CONSTANTS
  DeviceCode,   \* the code the device was set up with
  EchoesRate,   \* whether its firmware reports the data rate (RaceBoxRecorder.cpp:291-297)
  MaxAsked,     \* bound: requests, status queries and cancellations, granted or not
  MaxEvents     \* bound: presses of the device's button

ASSUME RecorderSessionAssumptions ==
  /\ DeviceCode \in Nat
  /\ EchoesRate \in BOOLEAN
  /\ MaxAsked \in Nat /\ MaxEvents \in Nat

VARIABLES
  pc,           \* where the application's loop is
  polled,       \* rec.update() has run since the clock last moved
  dev,          \* the device
  events,       \* button presses
  asked,        \* requests, status queries and cancellations
  cancels       \* erases cancelled

loopVars == <<pc, polled>>
devVars == <<dev, events>>
appVars == <<asked, cancels>>
vars == <<recVars, linkVars, loopVars, devVars, appVars>>

SessionTypeOK ==
  /\ TypeOK
  /\ LinkTypeOK
  /\ pc \in {"drain", "app"}
  /\ polled \in BOOLEAN
  /\ dev \in [unlocked : BOOLEAN, recording : {0, 1}, rate : Nat, owes : BOOLEAN,
              erasing : BOOLEAN, progress : Nat]
  /\ asked \in Nat /\ cancels \in Nat /\ events \in Nat

SessionInit ==
  /\ Init
  /\ LinkInit
  /\ pc = "drain" /\ polled = FALSE
  /\ dev = [unlocked |-> FALSE, recording |-> 0, rate |-> DefaultRate, owes |-> FALSE,
            erasing |-> FALSE, progress |-> 0]
  /\ asked = 0 /\ cancels = 0 /\ events = 0

------------------------------------------------------------------------------
(* The application's loop.                                                  *)

Dispatch ==
  /\ pc = "drain"
  /\ fifo # <<>>
  /\ ExtractFrame
  /\ \E ok \in Results : OnPacket(Head(fifo), ok)
  /\ Transmit(tx')
  /\ UNCHANGED <<connected, drops, loopVars, devVars, appVars>>

Drained == pc = "drain" /\ fifo = <<>>

Reconnect ==
  /\ pc = "drain"
  /\ LinkUp
  /\ Silent
  /\ UNCHANGED <<loopVars, devVars, appVars>>

Watch ==
  /\ Drained
  /\ Update
  /\ pc' = "app"
  /\ polled' = TRUE
  /\ UNCHANGED <<linkVars, devVars, appVars>>

\* What a call of the application's leaves alone.
AppStep ==
  /\ pc = "app"
  /\ Transmit(tx')
  /\ UNCHANGED <<connected, fifo, drops, loopVars, devVars>>

AskedOnceMore == asked < MaxAsked /\ asked' = asked + 1

AppRequest ==
  /\ AskedOnceMore /\ UNCHANGED cancels
  /\ \E ok \in Results :
       \/ StartRecording(ok) \/ StopRecording(ok) \/ EraseMemory(ok)
       \/ \E rate \in Rates : StartRecordingWith(rate, ok)

AppQuery ==
  /\ AskedOnceMore /\ UNCHANGED cancels
  /\ \E ok \in Results : QueryStatus(ok)

AppCancel ==
  /\ AskedOnceMore /\ cancels' = cancels + 1
  /\ \E ok \in Results : CancelErase(ok)

AppConfigure ==
  /\ \/ \E rate \in Rates : SetConfig(rate)
     \/ asked = 0 /\ \E code \in Codes : SetSecurityCode(code)
  /\ UNCHANGED appVars

App == (AppRequest \/ AppQuery \/ AppCancel \/ AppConfigure) /\ AppStep

LoopAgain ==
  /\ pc = "app"
  /\ pc' = "drain"
  /\ Silent
  /\ UNCHANGED <<linkVars, polled, devVars, appVars>>

Loop == Dispatch \/ Watch \/ LoopAgain

\* The loop polls the timer at least once per clock step.
ClockTick ==
  /\ polled
  /\ Tick
  /\ polled' = FALSE
  /\ UNCHANGED <<linkVars, pc, devVars, appVars>>

------------------------------------------------------------------------------
(* The link and the RaceBox.                                                *)

Notify(pkt) == \E k \in 0 .. MaxMangled : Push(pkt, k)
Answer(id, cmd) == Notify(Packet(id, 2, cmd))

\* Whether an erase under way survives the link is the firmware's business.
Drop ==
  /\ LinkDown
  /\ \E erasing \in {FALSE, dev.erasing} :
       dev' = [dev EXCEPT !.unlocked = FALSE, !.owes = FALSE, !.erasing = erasing]
  /\ Silent
  /\ UNCHANGED <<loopVars, events, appVars>>

\* The device reads a command.
Reads(id) == Receives(id) /\ toDev' = Tail(toDev)

DevUnlock ==
  /\ Reads(UBX_ID_MEM_UNLOCK)
  /\ IF Head(toDev).arg = DeviceCode
       THEN dev' = [dev EXCEPT !.unlocked = TRUE] /\ Answer(UBX_ID_ACK, UBX_ID_MEM_UNLOCK)
       ELSE UNCHANGED dev /\ Answer(UBX_ID_NACK, UBX_ID_MEM_UNLOCK)
  /\ UNCHANGED events

DevRefuses ==
  /\ \E id \in {UBX_ID_REC_CONFIG, UBX_ID_ERASE} : Reads(id) /\ Answer(UBX_ID_NACK, id)
  /\ UNCHANGED <<dev, events>>

DevConfigure ==
  /\ Reads(UBX_ID_REC_CONFIG)
  /\ dev.unlocked
  /\ dev' = [dev EXCEPT !.recording = Head(toDev).arg, !.rate = Head(toDev).aux, !.owes = TRUE]
  /\ Answer(UBX_ID_ACK, UBX_ID_REC_CONFIG)
  /\ UNCHANGED events

DevEraseStart ==
  /\ Reads(UBX_ID_ERASE) /\ Head(toDev).len = 0
  /\ dev.unlocked /\ ~dev.erasing
  /\ dev' = [dev EXCEPT !.erasing = TRUE, !.progress = 0]
  /\ UNCHANGED <<fifo, events>>

\* Whether the device acknowledges a cancellation is not said; both may be.
DevEraseCancel ==
  /\ Reads(UBX_ID_ERASE) /\ Head(toDev).len = 1
  /\ dev' = [dev EXCEPT !.erasing = FALSE]
  /\ UNCHANGED fifo \/ Answer(UBX_ID_ACK, UBX_ID_ERASE)
  /\ UNCHANGED events

DevProgress ==
  /\ dev.erasing /\ dev.progress < 50
  /\ dev' = [dev EXCEPT !.progress = 50]
  /\ Notify(Packet(UBX_ID_ERASE, 1, 50))
  /\ UNCHANGED <<toDev, events>>

DevErased ==
  /\ dev.erasing /\ dev.progress = 50
  /\ dev' = [dev EXCEPT !.erasing = FALSE, !.progress = 100]
  /\ Answer(UBX_ID_ACK, UBX_ID_ERASE)
  /\ UNCHANGED <<toDev, events>>

DevStatus ==
  /\ Reads(UBX_ID_REC_STATUS)
  /\ Notify(Packet(UBX_ID_REC_STATUS, 12, dev.recording))
  /\ UNCHANGED <<dev, events>>

DevReport ==
  /\ dev.owes
  /\ dev' = [dev EXCEPT !.owes = FALSE]
  /\ Notify([Packet(UBX_ID_STATE_CHANGE, 12, dev.recording) EXCEPT
               !.aux = IF EchoesRate THEN dev.rate ELSE 0])
  /\ UNCHANGED <<toDev, events>>

DevButton ==
  /\ events < MaxEvents
  /\ events' = events + 1
  /\ dev' = [dev EXCEPT !.recording = 1 - @, !.owes = TRUE]
  /\ UNCHANGED <<toDev, fifo>>

Device ==
  /\ connected
  /\ \/ DevUnlock \/ DevRefuses \/ DevConfigure
     \/ DevEraseStart \/ DevEraseCancel \/ DevProgress \/ DevErased
     \/ DevStatus \/ DevReport \/ DevButton
  /\ Silent
  /\ UNCHANGED <<connected, drops, loopVars, appVars>>

SessionNext ==
  \/ Dispatch \/ Reconnect \/ Watch \/ App \/ LoopAgain
  \/ ClockTick \/ Drop \/ Device

SessionSpec == SessionInit /\ [][SessionNext]_vars

\* The Arduino loop keeps running and the clock keeps counting; the link, the
\* device and the application may stop at any point.
FairSessionSpec == SessionSpec /\ WF_vars(Loop) /\ WF_vars(ClockTick)

------------------------------------------------------------------------------
(* What a session guarantees.                                               *)

(* No start, stop or erase reaches a locked device: every one was preceded, *)
(* on the same connection, by the device accepting the unlock, whatever     *)
(* requests overlap and however the link comes and goes.                    *)
CommandMeetsUnlockedDevice ==
  \A i \in DOMAIN toDev :
    toDev[i].id = UBX_ID_REC_CONFIG \/ (toDev[i].id = UBX_ID_ERASE /\ toDev[i].len = 0)
      => dev.unlocked

(* The device never erases behind the application's back: while it does,    *)
(* isErasing() is true, unless the application has cancelled an erase.      *)
EraseInProgressIsKnown == cancels = 0 /\ dev.erasing => isErasing

(* eraseProgress() never runs ahead of the device: what is left of an older *)
(* erase, in the FIFO or in the driver, is not taken for the present one's. *)
ProgressNeverAhead == cancels = 0 => eraseProgress <= dev.progress

(* A command timer that runs does not run for ever: an answer or update()   *)
(* clears it, whatever the device and the link do.                          *)
CommandTimerEnds == cmdSentMs # 0 ~> cmdSentMs = 0

(* RaceBoxRecorder.h:168-171: isPending() is true while a round trip is in  *)
(* flight, and is there to be waited for; so it ends.                       *)
PendingEnds == IsPending ~> ~IsPending
==============================================================================
